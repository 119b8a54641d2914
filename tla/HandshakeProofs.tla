---------------------------- MODULE HandshakeProofs ----------------------------
(***************************************************************************)
(* What write_message and read_message leave in a HandshakeState, for any  *)
(* incoming bytes: lemmas about the symbolic terms, about each token, and  *)
(* about each message, stated over an invariant of the object (Session).   *)
(* The last part is the handshake in which nothing goes wrong.             *)
(***************************************************************************)
EXTENDS HandshakeState, SequenceTheorems, TLAPS

(***************************************************************************)
(* Chaining keys.  chained is ck after mix_key, cipher_key the key that    *)
(* goes with it; mixed and below take ck apart again, and ck_of finds the  *)
(* ck that belongs to a cipher key.                                        *)
(***************************************************************************)
chained(ck, d)    == hkdf2(ck, d).output1
cipher_key(ck, d) == CipherKey(hkdf2(ck, d).output2)

mixed(ck) == ck[2][3]
below(ck) == ck[2][2]
ck_of(k)  == k.base[3][2]

\* The chaining key remembers the last secret mixed into it and the chaining
\* key before; the cipher key of mix_key remembers its chaining key.
LEMMA Chain ==
    \A ck, d : /\ mixed(chained(ck, d)) = d /\ below(chained(ck, d)) = ck
               /\ ck_of(cipher_key(ck, d)) = chained(ck, d)
  BY DEF mixed, below, ck_of, chained, cipher_key, hkdf2, hmac_blake2b, CipherKey

Static(t) == t[1] = "x25519"

\* D: the ephemerals drawn so far; P: those that a written message carries.
Points(D, P) == P \subseteq D /\ \A t \in D : t[1] = "ephemeral"

\* Ephemerals, statics, the zero buffer and damaged bytes are different
\* terms.
LEMMA Kinds ==
    ASSUME NEW D, NEW P, Points(D, P)
    PROVE  /\ Zero \notin D /\ Garbage \notin D /\ Zero \notin P
           /\ \A t : Static(t) => t # Zero /\ t # Garbage /\ t \notin D
           /\ \A i : generate_keypair(i)[1] = "ephemeral"
  BY DEF Points, Static, Zero, Garbage, generate_keypair

(***************************************************************************)
(* The shape of the objects.                                               *)
(***************************************************************************)
IsSymmetric(s) ==
    DOMAIN s = {"ck", "h", "cipher"} /\ DOMAIN s.cipher = {"k", "n", "has_key"}

IsHandshake(h) ==
    /\ DOMAIN h = {"pattern", "initiator", "step", "symmetric", "s_sk", "s_pk", "e_sk",
                   "e_pk", "rs", "re", "rs_known"}
    /\ IsSymmetric(h.symmetric)

IsCall(c) == DOMAIN c = {"ok", "hs", "bytes"} /\ IsHandshake(c.hs)

\* A symmetric state with a keyed cipher, field by field.
Holds(s, ck, h, k, n) ==
    s.ck = ck /\ s.h = h /\ s.cipher.k = k /\ s.cipher.n = n /\ s.cipher.has_key

\* What no token changes, what write_e changes, and what a token leaves that
\* only touches the symmetric state.
SameParty(g, h) ==
    g.pattern = h.pattern /\ g.initiator = h.initiator /\ g.s_sk = h.s_sk /\ g.s_pk = h.s_pk
SameOwn(g, h)   == g.e_sk = h.e_sk /\ g.e_pk = h.e_pk
Kept(g, h)      == /\ SameParty(g, h) /\ SameOwn(g, h)
                   /\ g.rs = h.rs /\ g.re = h.re /\ g.step = h.step

(***************************************************************************)
(* What is read and written: a field of a message is damaged, an ephemeral *)
(* in the clear, or a seal.  The shared secret under the key of a seal has *)
(* no zero point in it and only ephemerals that were sent; the seals of    *)
(* the length of a key hold static keys.                                   *)
(***************************************************************************)
SealOK(v, P) ==
    LET points == mixed(ck_of(v[2]))[2]
    IN  /\ is_seal(v)
        /\ Zero \notin points
        /\ \A t \in points : t[1] = "ephemeral" => t \in P

FieldOK(f, P) ==
    /\ f = [len |-> f.len, val |-> f.val]
    /\ \/ f.val \in {Garbage, Zero}
       \/ f.val \in P
       \/ f.len = 16 /\ SealOK(f.val, P)
       \/ f.len = 48 /\ SealOK(f.val, P) /\ Static(plaintext(f.val))

IsSeq(s) == s \in Seq({s[i] : i \in DOMAIN s})

Message(m, P) ==
    /\ m = [size |-> m.size, fields |-> m.fields]
    /\ IsSeq(m.fields)
    /\ \A i \in DOMAIN m.fields : FieldOK(m.fields[i], P)

(***************************************************************************)
(* Tokens.                                                                 *)
(***************************************************************************)
LEMMA FailedStays ==
    ASSUME NEW c, ~c.ok
    PROVE  /\ \A sk, pk : mix_dh(c, sk, pk) = c
           /\ encrypt_static(c) = c /\ encrypt_payload(c) = c
           /\ read_encrypted_static(c) = c /\ read_payload(c) = c /\ advance(c) = c
<1>1. \A sk, pk : mix_dh(c, sk, pk) = c
  BY DEF mix_dh
<1>2. encrypt_static(c) = c
  BY DEF encrypt_static, write_sealed
<1>3. encrypt_payload(c) = c
  BY DEF encrypt_payload, write_sealed
<1>4. read_encrypted_static(c) = c
  BY DEF read_encrypted_static
<1>5. read_payload(c) = c
  BY DEF read_payload
<1>6. advance(c) = c
  BY DEF advance
<1> QED BY <1>1, <1>2, <1>3, <1>4, <1>5, <1>6

\* failed gives up a call and changes nothing else.
LEMMA FailedCall ==
    ASSUME NEW c, IsCall(c)
    PROVE  IsCall(failed(c)) /\ ~failed(c).ok /\ failed(c).hs = c.hs /\ failed(c).bytes = c.bytes
  BY DEF failed, IsCall

\* A call begins on the object as it is.
LEMMA NewCall ==
    ASSUME NEW h, IsHandshake(h), NEW m
    PROVE  LET c == call(h, m) IN IsCall(c) /\ c.ok /\ c.hs = h /\ c.bytes = m
  BY DEF call, IsCall

\* A DH token with a usable public key: a new chaining key, a new cipher key
\* and nonce 0.
LEMMA MixDhOk ==
    ASSUME NEW c, IsCall(c), c.ok, NEW sk \in {"s_sk", "e_sk"}, NEW pk \in {"rs", "re"},
           c.hs[pk] # Zero
    PROVE  LET d == dh(c.hs[sk], c.hs[pk])
               s == c.hs.symmetric
               r == mix_dh(c, sk, pk)
           IN  /\ IsCall(r) /\ r.ok /\ r.bytes = c.bytes
               /\ Holds(r.hs.symmetric, chained(s.ck, d), s.h, cipher_key(s.ck, d), 0)
               /\ Kept(r.hs, c.hs)
  BY DEF mix_dh, dh_ok, mix_key, IsCall, IsHandshake, IsSymmetric, Holds, chained,
         cipher_key, initialize_key, Kept, SameParty, SameOwn

\* A DH token with a low-order public key fails the call.
LEMMA MixDhZero ==
    ASSUME NEW c, c.ok, NEW sk, NEW pk, c.hs[pk] = Zero
    PROVE  mix_dh(c, sk, pk) = failed(c)
  BY DEF mix_dh, dh_ok

\* Token e of a writer: a fresh pair, sent in the clear.
LEMMA WriteE ==
    ASSUME NEW c, IsCall(c), c.ok, NEW e
    PROVE  LET r == write_e(c, e)
           IN  /\ IsCall(r) /\ r.ok /\ r.bytes = put(c.bytes, 32, e)
               /\ r.hs.symmetric.ck = c.hs.symmetric.ck
               /\ r.hs.symmetric.cipher = c.hs.symmetric.cipher
               /\ r.hs.e_pk = e /\ r.hs.e_sk = e
               /\ SameParty(r.hs, c.hs)
               /\ r.hs.rs = c.hs.rs /\ r.hs.re = c.hs.re /\ r.hs.step = c.hs.step
  BY DEF write_e, mix_hash, IsCall, IsHandshake, IsSymmetric, SameParty, DH_PUBLIC_KEY_BYTES

\* A sealed field: the cipher moves one nonce on and the hash absorbs the
\* ciphertext.
LEMMA WriteSealed ==
    ASSUME NEW c, IsCall(c), c.ok, NEW p, NEW z, c.hs.symmetric.cipher.has_key
    PROVE  LET s == c.hs.symmetric
               v == seal(s.cipher.k, s.cipher.n, s.h, p)
               r == write_sealed(c, p, z)
           IN  /\ IsCall(r) /\ r.ok /\ r.bytes = put(c.bytes, z + 16, v)
               /\ Holds(r.hs.symmetric, s.ck, blake2b(s.h, v), s.cipher.k, incr(s.cipher.n))
               /\ Kept(r.hs, c.hs)
  BY DEF write_sealed, sealed_size, AEAD_TAG_BYTES, encrypt_and_hash, encrypt_with_ad, mix_hash,
         IsCall, IsHandshake, IsSymmetric, Holds, Kept, SameParty, SameOwn

\* Without a key the empty payload adds no bytes.
LEMMA WritePlainPayload ==
    ASSUME NEW c, IsCall(c), c.ok, ~c.hs.symmetric.cipher.has_key
    PROVE  LET s == c.hs.symmetric
               r == encrypt_payload(c)
           IN  /\ IsCall(r) /\ r.ok /\ r.bytes = c.bytes
               /\ r.hs.symmetric.ck = s.ck /\ r.hs.symmetric.cipher = s.cipher
               /\ Kept(r.hs, c.hs)
<1>1. \A m, v : put(m, sealed_size(c.hs.symmetric, 0), v) = m
  BY DEF put, sealed_size
<1> QED
  BY <1>1 DEF encrypt_payload, write_sealed, encrypt_and_hash, encrypt_with_ad, mix_hash,
              IsCall, IsHandshake, IsSymmetric, Kept, SameParty, SameOwn

\* The end of a message that went well: the step count moves and nothing
\* else.
LEMMA Advanced ==
    ASSUME NEW c, IsCall(c), c.ok
    PROVE  LET r == advance(c)
           IN  /\ IsCall(r) /\ r.ok /\ r.bytes = c.bytes /\ r.hs.step = c.hs.step + 1
               /\ SameParty(r.hs, c.hs) /\ SameOwn(r.hs, c.hs) /\ r.hs.symmetric = c.hs.symmetric /\ r.hs.rs = c.hs.rs /\ r.hs.re = c.hs.re
  BY DEF advance, IsCall, IsHandshake, IsSymmetric, Kept, SameParty, SameOwn

(***************************************************************************)
(* Reading.                                                                *)
(***************************************************************************)
LEMMA Sequence ==
    ASSUME NEW S, NEW s \in Seq(S)
    PROVE  IsSeq(s)
<1> DEFINE R == {s[i] : i \in DOMAIN s}
<1>1. PICK n \in Nat : s \in [1..n -> S]
  BY SeqDef
<1>2. s \in [1..n -> R]
  BY <1>1
<1> HIDE DEF R
<1>3. s \in Seq(R)
  BY <1>2, SeqDef
<1> QED BY <1>3 DEF IsSeq, R

\* What is cut from a message is one of its fields or garbage, and the rest
\* is a message.
LEMMA Take ==
    ASSUME NEW m, NEW P, Message(m, P), NEW len
    PROVE  LET t == take(m, len)
           IN  /\ Message(t.rest, P)
               /\ \/ t.val = Garbage
                  \/ \E i \in DOMAIN m.fields : t.val = m.fields[i].val /\ m.fields[i].len = len
<1> DEFINE S == {m.fields[i] : i \in DOMAIN m.fields}
<1>1. m.fields \in Seq(S) /\ \A i \in DOMAIN m.fields : FieldOK(m.fields[i], P)
  BY DEF Message, IsSeq
<1>2. CASE aligned(m, len)
  <2>1. m.fields # <<>> /\ m.fields[1].len = len /\ 1 \in DOMAIN m.fields
    BY <1>1, <1>2 DEF aligned
  <2>2. take(m, len).val = m.fields[1].val /\ take(m, len).rest = [size |-> m.size - len, fields |-> Tail(m.fields)]
    BY <1>1, <1>2, <2>1 DEF take
  <2>3. \A i \in DOMAIN Tail(m.fields) : i + 1 \in DOMAIN m.fields /\ Tail(m.fields)[i] = m.fields[i + 1]
    BY <1>1, <2>1
  <2>4. IsSeq(Tail(m.fields))
    <3>1. Tail(m.fields) \in Seq(S)
      BY <1>1, <2>1
    <3> QED BY <3>1, Sequence
  <2> QED BY <1>1, <2>1, <2>2, <2>3, <2>4 DEF Message
<1>3. CASE ~aligned(m, len)
  <2>1. take(m, len).val = Garbage /\ take(m, len).rest = put(NoBytes, m.size - len, Garbage)
    BY <1>3 DEF take
  <2>2. \A z : Message(put(NoBytes, z, Garbage), P)
    <3> SUFFICES ASSUME NEW z PROVE Message(put(NoBytes, z, Garbage), P)
      OBVIOUS
    <3>1. CASE z = 0
      <4>1. put(NoBytes, z, Garbage) = [size |-> 0, fields |-> <<>>]
        BY <3>1 DEF put, NoBytes
      <4>2. IsSeq(<<>>)
        BY DEF IsSeq
      <4> QED BY <4>1, <4>2 DEF Message
    <3>2. CASE z # 0
      <4> DEFINE f == [len |-> z, val |-> Garbage]
      <4>1. put(NoBytes, z, Garbage) = [size |-> 0 + z, fields |-> <<f>>]
        BY <3>2 DEF put, NoBytes
      <4>2. <<f>> \in Seq({f}) /\ DOMAIN <<f>> = {1} /\ <<f>>[1] = f
        OBVIOUS
      <4>3. FieldOK(f, P)
        BY DEF FieldOK
      <4> HIDE DEF f
      <4>4. IsSeq(<<f>>)
        BY <4>2, Sequence
      <4> QED BY <4>1, <4>2, <4>3, <4>4 DEF Message
    <3> QED BY <3>1, <3>2
  <2> QED BY <2>1, <2>2
<1> QED BY <1>2, <1>3

\* A message grows by a proper field.
LEMMA Put ==
    ASSUME NEW m, NEW P, Message(m, P), NEW len, NEW val, FieldOK([len |-> len, val |-> val], P)
    PROVE  Message(put(m, len, val), P)
<1> DEFINE f == [len |-> len, val |-> val]
           S == {m.fields[i] : i \in DOMAIN m.fields}
<1>1. CASE len = 0
  BY <1>1 DEF put
<1>2. CASE len # 0
  <2>1. put(m, len, val) = [size |-> m.size + len, fields |-> Append(m.fields, f)]
    BY <1>2 DEF put
  <2>2. FieldOK(f, P) /\ m.fields \in Seq(S) /\ \A i \in DOMAIN m.fields : FieldOK(m.fields[i], P)
    BY DEF Message, IsSeq
  <2> HIDE DEF f
  <2>3. m.fields \in Seq(S \cup {f})
    BY <2>2
  <2> HIDE DEF S
  <2>4. /\ Append(m.fields, f) \in Seq(S \cup {f})
        /\ \A i \in DOMAIN Append(m.fields, f) :
              Append(m.fields, f)[i] = f \/ (i \in DOMAIN m.fields /\ Append(m.fields, f)[i] = m.fields[i])
    BY <2>3
  <2>5. IsSeq(Append(m.fields, f))
    BY <2>4, Sequence
  <2> QED BY <2>1, <2>2, <2>4, <2>5 DEF Message
<1> QED BY <1>1, <1>2

\* No bytes are a message.
LEMMA EmptyMessage == \A P : Message(NoBytes, P)
<1>1. IsSeq(<<>>)
  BY DEF IsSeq
<1> QED BY <1>1 DEF Message, NoBytes

\* More ephemerals sent: what was on the wire is still in order.
LEMMA MessageGrows ==
    ASSUME NEW m, NEW P, NEW Q, P \subseteq Q, Message(m, P)
    PROVE  Message(m, Q)
<1>1. \A v : SealOK(v, P) => SealOK(v, Q)
  BY DEF SealOK
<1>2. \A f : FieldOK(f, P) => FieldOK(f, Q)
  BY <1>1 DEF FieldOK
<1> QED BY <1>2 DEF Message

\* A point read in the clear.
LEMMA ReadE ==
    ASSUME NEW h, IsHandshake(h), NEW m, NEW P, Message(m, P)
    PROVE  LET r == read_e(call(h, m))
           IN  /\ IsCall(r) /\ Message(r.bytes, P)
               /\ ~r.ok => r.hs = h
               /\ r.ok =>
                    /\ r.hs.re \in P \cup {Zero, Garbage}
                    /\ r.hs.symmetric.ck = h.symmetric.ck
                    /\ r.hs.symmetric.cipher = h.symmetric.cipher
                    /\ SameParty(r.hs, h) /\ SameOwn(r.hs, h) /\ r.hs.rs = h.rs /\ r.hs.step = h.step
<1> DEFINE c == call(h, m)
           t == take(m, 32)
<1>1. IsCall(c) /\ c.ok /\ c.hs = h /\ c.bytes = m
  BY NewCall
<1> HIDE DEF c
<1>2. CASE m.size < 32
  <2>1. read_e(c) = failed(c)
    BY <1>1, <1>2 DEF read_e, DH_PUBLIC_KEY_BYTES
  <2> QED BY <1>1, <2>1, FailedCall DEF c
<1>3. CASE ~(m.size < 32)
  <2>1. read_e(c) = [c EXCEPT !.hs.re = t.val, !.hs.symmetric = mix_hash(@, t.val), !.bytes = t.rest]
    BY <1>1, <1>3 DEF read_e, DH_PUBLIC_KEY_BYTES
  <2>2. Message(t.rest, P) /\ t.val \in P \cup {Zero, Garbage}
    <3>1. /\ Message(t.rest, P)
          /\ t.val = Garbage \/ \E i \in DOMAIN m.fields : t.val = m.fields[i].val /\ m.fields[i].len = 32
      BY Take
    <3> QED BY <3>1 DEF Message, FieldOK
  <2> HIDE DEF t
  <2> DEFINE g == [c.hs EXCEPT !.re = t.val, !.symmetric = mix_hash(c.hs.symmetric, t.val)]
  <2>3. read_e(c).ok /\ read_e(c).bytes = t.rest
    BY <1>1, <2>1 DEF IsCall
  <2>4. read_e(c).hs = g
    BY <1>1, <2>1 DEF IsCall, IsHandshake
  <2>5. DOMAIN read_e(c) = {"ok", "hs", "bytes"}
    BY <1>1, <2>1 DEF IsCall
  <2>6. IsHandshake(g)
    BY <1>1 DEF IsCall, IsHandshake, IsSymmetric, mix_hash
  <2>7. /\ g.re = t.val
        /\ g.symmetric.ck = c.hs.symmetric.ck /\ g.symmetric.cipher = c.hs.symmetric.cipher
        /\ SameParty(g, c.hs) /\ SameOwn(g, c.hs) /\ g.rs = c.hs.rs /\ g.step = c.hs.step
    BY <1>1 DEF mix_hash, IsCall, IsHandshake, IsSymmetric, SameParty, SameOwn
  <2> QED BY <1>1, <2>2, <2>3, <2>4, <2>5, <2>6, <2>7 DEF c, IsCall
<1> QED BY <1>2, <1>3

\* What opens was sealed under the key it opens with.
LEMMA Opened ==
    ASSUME NEW s, IsSymmetric(s), s.cipher.has_key, NEW ct
    PROVE  LET d == decrypt_and_hash(s, ct)
           IN  /\ ~d.ok => d.sym = s
               /\ d.ok => /\ is_seal(ct) /\ ct[2] = s.cipher.k /\ d.out = plaintext(ct)
                          /\ Holds(d.sym, s.ck, blake2b(s.h, ct), s.cipher.k, incr(s.cipher.n))
                          /\ IsSymmetric(d.sym)
<1>1. CASE opens(ct, s.cipher.k, s.cipher.n, s.h)
  <2>1. LET d == decrypt_with_ad(s.cipher, s.h, ct)
        IN  d.ok /\ d.cipher = [s.cipher EXCEPT !.n = incr(@)] /\ d.out = plaintext(ct)
    BY <1>1 DEF decrypt_with_ad
  <2>2. LET d == decrypt_and_hash(s, ct)
        IN  d.ok = decrypt_with_ad(s.cipher, s.h, ct).ok /\ d.out = plaintext(ct)
            /\ d.sym = mix_hash([s EXCEPT !.cipher = [s.cipher EXCEPT !.n = incr(@)]], ct)
    BY <2>1 DEF decrypt_and_hash
  <2>3. LET y == mix_hash([s EXCEPT !.cipher = [s.cipher EXCEPT !.n = incr(@)]], ct)
        IN  Holds(y, s.ck, blake2b(s.h, ct), s.cipher.k, incr(s.cipher.n)) /\ IsSymmetric(y)
    BY DEF mix_hash, Holds, IsSymmetric
  <2>4. decrypt_with_ad(s.cipher, s.h, ct).ok = TRUE
    BY <1>1 DEF decrypt_with_ad
  <2> QED BY <1>1, <2>2, <2>3, <2>4 DEF opens
<1>2. CASE ~opens(ct, s.cipher.k, s.cipher.n, s.h)
  <2>1. decrypt_with_ad(s.cipher, s.h, ct).ok = FALSE
    BY <1>2 DEF decrypt_with_ad
  <2> QED BY <2>1 DEF decrypt_and_hash
<1> QED BY <1>1, <1>2

\* Token s of a reader: it accepts a static key only from a seal under the
\* current key.
LEMMA ReadStatic ==
    ASSUME NEW c, IsCall(c), c.ok, c.hs.symmetric.cipher.has_key,
           NEW D, NEW P, Points(D, P), Message(c.bytes, P)
    PROVE  LET s == c.hs.symmetric
               r == read_encrypted_static(c)
           IN  /\ IsCall(r) /\ Message(r.bytes, P)
               /\ SameParty(r.hs, c.hs) /\ SameOwn(r.hs, c.hs) /\ r.hs.re = c.hs.re /\ r.hs.step = c.hs.step
               /\ ~r.ok => r.hs.symmetric = s /\ r.hs.rs = c.hs.rs
               /\ r.ok => /\ Static(r.hs.rs)
                          /\ \E v : /\ SealOK(v, P) /\ v[2] = s.cipher.k
                                    /\ Holds(r.hs.symmetric, s.ck, blake2b(s.h, v), s.cipher.k, incr(s.cipher.n))
<1> DEFINE s == c.hs.symmetric
           t == take(c.bytes, 48)
           d == decrypt_and_hash(s, t.val)
           r == read_encrypted_static(c)
<1>1. IsSymmetric(s)
  BY DEF IsCall, IsHandshake
<1>2. /\ ~d.ok => d.sym = s
      /\ d.ok => /\ is_seal(t.val) /\ t.val[2] = s.cipher.k /\ d.out = plaintext(t.val)
                 /\ Holds(d.sym, s.ck, blake2b(s.h, t.val), s.cipher.k, incr(s.cipher.n))
                 /\ IsSymmetric(d.sym)
  BY <1>1, Opened
<1>3. Message(t.rest, P)
  BY Take
<1>4. d.ok => SealOK(t.val, P) /\ Static(plaintext(t.val))
  <2> SUFFICES ASSUME d.ok PROVE SealOK(t.val, P) /\ Static(plaintext(t.val))
    OBVIOUS
  <2>1. t.val # Garbage /\ t.val # Zero /\ t.val \notin P
    BY <1>2 DEF is_seal, Garbage, Zero, Points
  <2>2. PICK i \in DOMAIN c.bytes.fields : t.val = c.bytes.fields[i].val /\ c.bytes.fields[i].len = 48
    BY <2>1, Take
  <2>3. FieldOK(c.bytes.fields[i], P)
    BY <2>2 DEF Message
  <2> QED BY <2>1, <2>2, <2>3 DEF FieldOK
<1>5. /\ c.bytes.size < 48 => r = failed(c)
      /\ ~(c.bytes.size < 48) /\ d.ok =>
            r = [c EXCEPT !.hs.symmetric = d.sym, !.hs.rs = d.out, !.hs.rs_known = TRUE,
                          !.bytes = t.rest]
      /\ ~(c.bytes.size < 48) /\ ~d.ok => r = failed([c EXCEPT !.hs.symmetric = d.sym])
  BY DEF read_encrypted_static, sealed_size, DH_PUBLIC_KEY_BYTES, AEAD_TAG_BYTES
<1> HIDE DEF t, d, r
<1>6. CASE c.bytes.size < 48
  BY <1>5, <1>6, FailedCall DEF SameParty, SameOwn, r
<1>7. CASE ~(c.bytes.size < 48) /\ d.ok
  <2> DEFINE g == [c.hs EXCEPT !.symmetric = d.sym, !.rs = d.out, !.rs_known = TRUE]
  <2>1. r = [c EXCEPT !.hs.symmetric = d.sym, !.hs.rs = d.out, !.hs.rs_known = TRUE,
                      !.bytes = t.rest]
    BY <1>5, <1>7
  <2>2. r.ok /\ r.bytes = t.rest /\ DOMAIN r = {"ok", "hs", "bytes"}
    BY <2>1 DEF IsCall
  <2>3. r.hs = g
    BY <2>1 DEF IsCall, IsHandshake
  <2>4. IsHandshake(g) /\ g.symmetric = d.sym /\ g.rs = d.out
    BY <1>2, <1>7 DEF IsCall, IsHandshake
  <2>5. SameParty(g, c.hs) /\ SameOwn(g, c.hs) /\ g.re = c.hs.re /\ g.step = c.hs.step
    BY DEF IsCall, IsHandshake, SameParty, SameOwn
  <2> HIDE DEF g
  <2> QED BY <1>2, <1>3, <1>4, <1>7, <2>2, <2>3, <2>4, <2>5 DEF IsCall, r
<1>8. CASE ~(c.bytes.size < 48) /\ ~d.ok
  <2> DEFINE b == [c EXCEPT !.hs.symmetric = d.sym]
  <2>1. r = failed(b)
    BY <1>5, <1>8
  <2>2. b.bytes = c.bytes /\ DOMAIN b = {"ok", "hs", "bytes"}
        /\ b.hs = [c.hs EXCEPT !.symmetric = d.sym]
    BY DEF IsCall
  <2> HIDE DEF b
  <2>3. IsHandshake(b.hs) /\ b.hs.symmetric = s /\ Kept(b.hs, c.hs)
    BY <1>1, <1>2, <1>8, <2>2 DEF IsCall, IsHandshake, Kept, SameParty, SameOwn
  <2>4. IsCall(b)
    BY <2>2, <2>3 DEF IsCall
  <2>5. IsCall(r) /\ ~r.ok /\ r.hs = b.hs /\ r.bytes = c.bytes
    BY <2>1, <2>2, <2>4, FailedCall
  <2> QED BY <2>3, <2>5 DEF Kept, r
<1> QED BY <1>6, <1>7, <1>8

\* Of all the bytes that may be left of a message, only a field opens.
LEMMA Remainder ==
    ASSUME NEW m, NEW D, NEW P, Points(D, P), Message(m, P), is_seal(remainder(m))
    PROVE  SealOK(remainder(m), P)
<1>1. remainder(m) # Empty /\ remainder(m) # <<"bytes", m.fields>>
  BY DEF is_seal, Empty
<1>2. Len(m.fields) = 1 /\ remainder(m) = Head(m.fields).val
  BY <1>1 DEF remainder
<1>3. 1 \in DOMAIN m.fields /\ Head(m.fields) = m.fields[1]
  BY <1>2 DEF Message, IsSeq
<1>4. FieldOK(m.fields[1], P)
  BY <1>3 DEF Message
<1> QED BY <1>2, <1>3, <1>4 DEF FieldOK, is_seal, Garbage, Zero, Points

\* The payload of a reader: with a key, only a seal under that key is
\* accepted.
LEMMA ReadPayload ==
    ASSUME NEW c, IsCall(c), c.ok, NEW D, NEW P, Points(D, P), Message(c.bytes, P)
    PROVE  LET s == c.hs.symmetric
               r == read_payload(c)
           IN  /\ IsCall(r) /\ r.bytes = NoBytes
               /\ Kept(r.hs, c.hs)
               /\ ~s.cipher.has_key => r.ok /\ r.hs.symmetric.ck = s.ck /\ r.hs.symmetric.cipher = s.cipher
               /\ s.cipher.has_key =>
                    /\ ~r.ok => r.hs.symmetric = s
                    /\ r.ok => \E v : /\ SealOK(v, P) /\ v[2] = s.cipher.k
                                      /\ Holds(r.hs.symmetric, s.ck, blake2b(s.h, v), s.cipher.k, incr(s.cipher.n))
<1> DEFINE s == c.hs.symmetric
           v == remainder(c.bytes)
           d == decrypt_and_hash(s, v)
           g == [c.hs EXCEPT !.symmetric = d.sym]
           r == read_payload(c)
<1>1. IsSymmetric(s)
  BY DEF IsCall, IsHandshake
<1>2. r = [c EXCEPT !.ok = d.ok, !.hs.symmetric = d.sym, !.bytes = NoBytes]
  BY DEF read_payload
<1>3. s.cipher.has_key =>
      /\ ~d.ok => d.sym = s
      /\ d.ok => /\ is_seal(v) /\ v[2] = s.cipher.k /\ IsSymmetric(d.sym)
                 /\ Holds(d.sym, s.ck, blake2b(s.h, v), s.cipher.k, incr(s.cipher.n))
  BY <1>1, Opened
<1>4. ~s.cipher.has_key => d.ok /\ d.sym.ck = s.ck /\ d.sym.cipher = s.cipher /\ IsSymmetric(d.sym)
  BY <1>1 DEF decrypt_and_hash, decrypt_with_ad, mix_hash, IsSymmetric
<1>5. d.ok /\ s.cipher.has_key => SealOK(v, P)
  BY <1>3, Remainder
<1> HIDE DEF v, d, r
<1>6. (r.ok <=> d.ok) /\ r.hs = g /\ r.bytes = NoBytes /\ DOMAIN r = {"ok", "hs", "bytes"}
  BY <1>2 DEF IsCall, IsHandshake
<1>7. IsSymmetric(d.sym)
  BY <1>1, <1>3, <1>4
<1>8. IsHandshake(g) /\ g.symmetric = d.sym /\ Kept(g, c.hs)
  BY <1>7 DEF IsCall, IsHandshake, Kept, SameParty, SameOwn
<1> HIDE DEF g
<1> QED BY <1>3, <1>4, <1>5, <1>6, <1>8 DEF IsCall, r

(***************************************************************************)
(* The invariant of a HandshakeState that has not been split, with the     *)
(* ephemerals D drawn and P sent.                                          *)
(***************************************************************************)
Object(h, D, P) ==
    /\ IsHandshake(h)
    /\ h.pattern \in {"XX", "IK"} /\ h.initiator \in BOOLEAN
    /\ h.step \in 0..pattern_total_steps[h.pattern]
    /\ Static(h.s_pk) /\ h.s_sk = h.s_pk
    /\ h.e_sk = h.e_pk /\ h.e_pk \in D \cup {Zero}
    /\ h.rs = Zero \/ Static(h.rs)
    /\ h.re \in P \cup {Zero, Garbage}
    /\ h.symmetric.cipher.n \in 0..1

\* The second message of XX.  A responder whose third message failed in its
\* payload has mixed the secret of that message in already.
AfterXX2(h) ==
    LET ck   == h.symmetric.ck
        last == mixed(ck)
    IN  /\ h.symmetric.cipher.has_key /\ h.e_pk # Zero /\ h.re # Zero
        /\ h.initiator =>
              /\ last = dh(h.e_pk, h.rs) /\ Static(h.rs)
              /\ ck_of(h.symmetric.cipher.k) = ck
        /\ ~h.initiator =>
              last = dh(h.s_pk, h.re) \/ \E t \in last[2] : Static(t) /\ last = dh(h.e_pk, t)

\* The first message of IK.  An initiator whose second message failed in its
\* payload has mixed the secrets of that message in already.
AfterIK1(h) ==
    LET last == mixed(h.symmetric.ck)
    IN  /\ Static(h.rs)
        /\ last = dh(h.s_pk, h.rs) \/ (h.initiator /\ last = dh(h.e_pk, h.rs))
        /\ ~h.initiator => h.re # Zero

\* A complete handshake: the last secrets that went into its chaining key.
Agreed(pattern, initiator, ck, self, peer, own, re) ==
    LET last   == mixed(ck)
        second == mixed(below(ck))
        third  == mixed(below(below(ck)))
    IN  CASE pattern = "XX" /\ initiator ->
               last = dh(self, re) /\ second = dh(own, peer)
          [] pattern = "XX" /\ ~initiator ->
               /\ last = dh(own, peer)
               /\ second = dh(self, re) \/ \E t \in second[2] : Static(t) /\ second = dh(own, t)
          [] pattern = "IK" /\ initiator ->
               /\ last = dh(own, peer) /\ second = dh(own, re)
               /\ third = dh(self, peer) \/ third = dh(own, peer)
          [] pattern = "IK" /\ ~initiator ->
               last = dh(self, re) /\ second = dh(own, re) /\ third = dh(self, peer)

\* The hash of the last message names the key that its payload was sealed
\* with, and that key the chaining key.
Binds(h, ck) == ck_of(h[3][2]) = ck

Completed(h) ==
    /\ Agreed(h.pattern, h.initiator, h.symmetric.ck, h.s_pk, h.rs, h.e_pk, h.re)
    /\ Binds(h.symmetric.h, h.symmetric.ck)
    /\ Static(h.rs) /\ h.e_pk # Zero /\ h.re # Zero

\* A responder of XX has not sent its ephemeral before its message is written.
Sent(h, P) ==
    IF h.pattern = "XX" /\ ~h.initiator /\ h.step < 2
    THEN h.e_pk \notin P
    ELSE h.e_pk \in P \cup {Zero}

Session(h, D, P) ==
    /\ Object(h, D, P)
    /\ Sent(h, P)
    /\ h.pattern = "XX" /\ h.step = 0 => ~h.symmetric.cipher.has_key
    /\ h.pattern = "XX" /\ h.step = 2 => AfterXX2(h)
    /\ h.pattern = "IK" /\ h.step = 0 /\ h.initiator => Static(h.rs)
    /\ h.pattern = "IK" /\ h.step = 1 => AfterIK1(h)
    /\ h.step = pattern_total_steps[h.pattern] => Completed(h)

\* Between two calls: whoever reads the message before its own last one has
\* written that as well.
Rests(h) ==
    /\ h.pattern = "XX" /\ h.step = 2 => ~h.initiator
    /\ h.pattern = "IK" /\ h.step = 1 => h.initiator

(***************************************************************************)
(* Messages.                                                               *)
(***************************************************************************)
\* The outcomes of write_message that a session can meet.
Wrote(w, h, e, D, P) ==
    LET own == w.hs.e_pk
    IN  /\ w.hs.step = h.step + 1 /\ SameParty(w.hs, h)
        /\ own = IF h.step < 2 THEN e ELSE h.e_pk
        /\ Session(w.hs, D \cup {own}, P \cup {own}) /\ Rests(w.hs) /\ own # Zero
        /\ Message(w.bytes, P \cup {own})

WriteFailed(w, h, e, D, P) ==
    /\ h.step = 1 /\ w.hs.step = 1 /\ SameParty(w.hs, h) /\ w.hs.e_pk = e
    /\ Session(w.hs, D \cup {e}, P) /\ Rests(w.hs)

\* The first two nonces are far from the last one.
LEMMA Incr == incr(0) = 1 /\ incr(1) = 2 /\ \A n \in 0..1 : incr(n) \in 1..2
  BY NonceMaxAssumption DEF incr

\* The number of messages of each pattern.
LEMMA Steps == pattern_total_steps["XX"] = 3 /\ pattern_total_steps["IK"] = 2
  BY DEF pattern_total_steps

\* The static and the payload are sealed under a key over dh(a, b).
Secret(s, a, b, P) ==
    /\ s.cipher.has_key /\ ck_of(s.cipher.k) = s.ck /\ mixed(s.ck) = dh(a, b)
    /\ a # Zero /\ b # Zero
    /\ Static(a) \/ a \in P
    /\ Static(b) \/ b \in P \cup {Garbage}

\* What is sealed under a secret of this handshake is a proper seal.
LEMMA Sealed ==
    ASSUME NEW s, NEW a, NEW b, NEW P, Secret(s, a, b, P), NEW n, NEW ad, NEW pt
    PROVE  LET v == seal(s.cipher.k, n, ad, pt)
           IN  SealOK(v, P) /\ v[2] = s.cipher.k /\ plaintext(v) = pt
<1> DEFINE k == s.cipher.k
           v == seal(k, n, ad, pt)
<1>1. is_seal(v) /\ v[2] = k /\ plaintext(v) = pt
  BY DEF seal, is_seal, plaintext
<1>2. mixed(ck_of(v[2]))[2] = {a, b}
  BY <1>1 DEF dh, Secret
<1> HIDE DEF v
<1>3. \A t \in {a, b} : t # Zero /\ (t[1] = "ephemeral" => t \in P)
  BY DEF Static, Garbage, Secret
<1>4. SealOK(v, P)
  BY <1>1, <1>2, <1>3 DEF SealOK
<1> QED BY <1>1, <1>4 DEF v

\* MixDhOk, as the secret on top of the chaining key.
LEMMA Mixed ==
    ASSUME NEW c, IsCall(c), c.ok, NEW sk \in {"s_sk", "e_sk"}, NEW pk \in {"rs", "re"},
           c.hs[pk] # Zero
    PROVE  LET r == mix_dh(c, sk, pk)
               s == r.hs.symmetric
           IN  /\ IsCall(r) /\ r.ok /\ r.bytes = c.bytes /\ Kept(r.hs, c.hs)
               /\ mixed(s.ck) = dh(c.hs[sk], c.hs[pk]) /\ below(s.ck) = c.hs.symmetric.ck
               /\ s.cipher.has_key /\ s.cipher.n = 0 /\ ck_of(s.cipher.k) = s.ck
  BY MixDhOk, Chain DEF Holds

\* A writer that holds a secret seals its static key.
LEMMA StaticOut ==
    ASSUME NEW c, IsCall(c), c.ok, NEW P, Message(c.bytes, P), Static(c.hs.s_pk),
           NEW a, NEW b, Secret(c.hs.symmetric, a, b, P)
    PROVE  LET r == encrypt_static(c)
           IN  /\ IsCall(r) /\ r.ok /\ Message(r.bytes, P) /\ Kept(r.hs, c.hs)
               /\ r.hs.symmetric.ck = c.hs.symmetric.ck
<1> DEFINE s == c.hs.symmetric
           v == seal(s.cipher.k, s.cipher.n, s.h, c.hs.s_pk)
           r == encrypt_static(c)
<1>1. /\ IsCall(r) /\ r.ok /\ r.bytes = put(c.bytes, 32 + 16, v) /\ Kept(r.hs, c.hs)
      /\ r.hs.symmetric.ck = s.ck
  BY WriteSealed DEF Secret, Holds, encrypt_static, DH_PUBLIC_KEY_BYTES
<1>2. FieldOK([len |-> 48, val |-> v], P)
  <2>1. SealOK(v, P) /\ plaintext(v) = c.hs.s_pk
    BY Sealed
  <2> QED BY <2>1 DEF FieldOK
<1> HIDE DEF v, r
<1>3. Message(put(c.bytes, 48, v), P)
  BY <1>2, Put
<1> QED BY <1>1, <1>3 DEF r

\* A writer that holds a secret seals the payload, which ends the message:
\* the hash now binds the chaining key.
LEMMA PayloadOut ==
    ASSUME NEW c, IsCall(c), c.ok, NEW P, Message(c.bytes, P),
           NEW a, NEW b, Secret(c.hs.symmetric, a, b, P)
    PROVE  LET r == advance(encrypt_payload(c))
           IN  /\ IsHandshake(r.hs) /\ r.ok /\ Message(r.bytes, P)
               /\ SameParty(r.hs, c.hs) /\ SameOwn(r.hs, c.hs)
               /\ r.hs.rs = c.hs.rs /\ r.hs.re = c.hs.re /\ r.hs.step = c.hs.step + 1
               /\ r.hs.symmetric.ck = c.hs.symmetric.ck
               /\ r.hs.symmetric.cipher.has_key
               /\ ck_of(r.hs.symmetric.cipher.k) = r.hs.symmetric.ck
               /\ r.hs.symmetric.cipher.n = incr(c.hs.symmetric.cipher.n)
               /\ Binds(r.hs.symmetric.h, r.hs.symmetric.ck)
<1> DEFINE s == c.hs.symmetric
           v == seal(s.cipher.k, s.cipher.n, s.h, Empty)
           d == encrypt_payload(c)
<1>1. /\ IsCall(d) /\ d.ok /\ d.bytes = put(c.bytes, 0 + 16, v) /\ Kept(d.hs, c.hs)
      /\ Holds(d.hs.symmetric, s.ck, blake2b(s.h, v), s.cipher.k, incr(s.cipher.n))
  BY WriteSealed DEF Secret, encrypt_payload
<1>2. FieldOK([len |-> 16, val |-> v], P) /\ v[2] = s.cipher.k
  <2>1. SealOK(v, P) /\ v[2] = s.cipher.k
    BY Sealed
  <2> QED BY <2>1 DEF FieldOK
<1>3. ck_of(s.cipher.k) = s.ck
  BY DEF Secret
<1> HIDE DEF v, d
<1>4. Message(d.bytes, P)
  BY <1>1, <1>2, Put
<1>5. Binds(d.hs.symmetric.h, d.hs.symmetric.ck)
  BY <1>1, <1>2, <1>3 DEF Binds, Holds, blake2b
<1>6. LET r == advance(d)
      IN  /\ IsCall(r) /\ r.ok /\ r.bytes = d.bytes /\ r.hs.step = d.hs.step + 1
          /\ SameParty(r.hs, d.hs) /\ SameOwn(r.hs, d.hs)
          /\ r.hs.rs = d.hs.rs /\ r.hs.re = d.hs.re /\ r.hs.symmetric = d.hs.symmetric
  BY <1>1, Advanced
<1> QED BY <1>1, <1>3, <1>4, <1>5, <1>6 DEF d, Holds, Kept, SameParty, SameOwn, IsCall

\* Message 1 of XX: e.
LEMMA WriteXX1 ==
    ASSUME NEW h, NEW D, NEW P, Points(D, P), NEW e, e[1] = "ephemeral",
           Session(h, D, P), h.pattern = "XX", h.step = 0, h.initiator
    PROVE  write_message(h, e).ok /\ Wrote(write_message(h, e), h, e, D, P)
<1> DEFINE c0 == call(h, NoBytes)
           c1 == write_e(c0, e)
           c2 == encrypt_payload(c1)
           w  == write_message(h, e)
<1>1. w = advance(c2)
  BY Steps DEF write_message, is_complete
<1>2. Object(h, D, P) /\ IsHandshake(h) /\ ~h.symmetric.cipher.has_key
  BY DEF Session, Object
<1>3. IsCall(c0) /\ c0.ok /\ c0.hs = h /\ c0.bytes = NoBytes
  BY <1>2, NewCall
<1> HIDE DEF c0
<1>4. /\ IsCall(c1) /\ c1.ok /\ c1.bytes = put(NoBytes, 32, e)
      /\ c1.hs.symmetric.cipher = h.symmetric.cipher /\ c1.hs.e_pk = e /\ c1.hs.e_sk = e
      /\ SameParty(c1.hs, h) /\ c1.hs.rs = h.rs /\ c1.hs.re = h.re /\ c1.hs.step = 0
  BY <1>3, WriteE
<1> HIDE DEF c1
<1>5. /\ IsCall(c2) /\ c2.ok /\ c2.bytes = c1.bytes
      /\ c2.hs.symmetric.cipher = h.symmetric.cipher /\ Kept(c2.hs, c1.hs)
  BY <1>2, <1>4, WritePlainPayload
<1> HIDE DEF c2
<1>6. /\ w.ok /\ w.bytes = c2.bytes /\ IsHandshake(w.hs) /\ w.hs.step = c2.hs.step + 1
      /\ SameParty(w.hs, c2.hs) /\ SameOwn(w.hs, c2.hs)
      /\ w.hs.symmetric = c2.hs.symmetric /\ w.hs.rs = c2.hs.rs /\ w.hs.re = c2.hs.re
  BY <1>1, <1>5, Advanced DEF IsCall
<1> HIDE DEF w
<1>7. /\ SameParty(w.hs, h) /\ w.hs.rs = h.rs /\ w.hs.re = h.re
      /\ w.hs.e_pk = e /\ w.hs.e_sk = e /\ w.hs.step = 1
      /\ w.hs.symmetric.cipher = h.symmetric.cipher
  BY <1>4, <1>5, <1>6 DEF Kept, SameParty, SameOwn
<1>8. Message(w.bytes, P \cup {e})
  <2>1. FieldOK([len |-> 32, val |-> e], P \cup {e})
    BY DEF FieldOK
  <2> QED BY <1>4, <1>5, <1>6, <2>1, EmptyMessage, Put
<1>9. e # Zero
  BY DEF Zero
<1>10. Object(w.hs, D \cup {e}, P \cup {e})
  BY <1>2, <1>6, <1>7, Steps DEF Object, SameParty
<1>11. Session(w.hs, D \cup {e}, P \cup {e}) /\ Rests(w.hs)
  BY <1>7, <1>10, Steps DEF Session, Sent, Rests, SameParty
<1> QED BY <1>6, <1>7, <1>8, <1>9, <1>11 DEF Wrote, w

\* Message 2 of XX: e, ee, s, es; it fails on a low-order ephemeral of the
\* peer.
LEMMA WriteXX2 ==
    ASSUME NEW h, NEW D, NEW P, Points(D, P), NEW e, e[1] = "ephemeral", e \notin P,
           Session(h, D, P), h.pattern = "XX", h.step = 1, ~h.initiator
    PROVE  LET w == write_message(h, e)
           IN  (w.ok /\ Wrote(w, h, e, D, P)) \/ (~w.ok /\ WriteFailed(w, h, e, D, P))
<1> DEFINE Q  == P \cup {e}
           c0 == call(h, NoBytes)
           c1 == write_e(c0, e)
           c2 == mix_dh(c1, "e_sk", "re")
           c3 == encrypt_static(c2)
           c4 == mix_dh(c3, "s_sk", "re")
           w  == write_message(h, e)
<1>1. w = advance(encrypt_payload(c4))
  BY Steps DEF write_message, is_complete
<1>2. Object(h, D, P) /\ IsHandshake(h)
  BY DEF Session, Object
<1>3. IsCall(c0) /\ c0.ok /\ c0.hs = h /\ c0.bytes = NoBytes
  BY <1>2, NewCall
<1> HIDE DEF c0, w
<1>4. /\ IsCall(c1) /\ c1.ok /\ c1.bytes = put(NoBytes, 32, e)
      /\ c1.hs.symmetric.cipher = h.symmetric.cipher /\ c1.hs.e_pk = e /\ c1.hs.e_sk = e
      /\ SameParty(c1.hs, h) /\ c1.hs.rs = h.rs /\ c1.hs.re = h.re /\ c1.hs.step = 1
  BY <1>3, WriteE
<1> HIDE DEF c1
<1>5. e # Zero
  BY DEF Zero
<1>6. CASE h.re = Zero
  <2>1. c2 = failed(c1)
    BY <1>4, <1>6, MixDhZero
  <2>2. ~c2.ok /\ c2.hs = c1.hs /\ IsHandshake(c2.hs)
    BY <1>4, <2>1, FailedCall DEF IsCall
  <2> HIDE DEF c2
  <2>3. w = c2
    BY <1>1, <2>2, FailedStays
  <2>4. Object(c2.hs, D \cup {e}, P)
    BY <1>2, <1>4, <2>2, Steps DEF Object, SameParty
  <2>5. Session(c2.hs, D \cup {e}, P) /\ Rests(c2.hs)
    BY <1>4, <2>2, <2>4, Steps DEF Session, Sent, Rests, SameParty
  <2> QED BY <1>4, <2>2, <2>3, <2>5 DEF WriteFailed, w
<1>7. CASE h.re # Zero
  <2>1. Message(c1.bytes, Q)
    <3>1. FieldOK([len |-> 32, val |-> e], Q)
      BY DEF FieldOK
    <3> QED BY <1>4, <3>1, EmptyMessage, Put
  <2>2. /\ IsCall(c2) /\ c2.ok /\ c2.bytes = c1.bytes /\ Kept(c2.hs, c1.hs)
        /\ mixed(c2.hs.symmetric.ck) = dh(e, h.re)
        /\ c2.hs.symmetric.cipher.has_key /\ ck_of(c2.hs.symmetric.cipher.k) = c2.hs.symmetric.ck
    BY <1>4, <1>7, Mixed
  <2> HIDE DEF c2
  <2>3. h.re \in P \cup {Garbage} /\ Static(h.s_pk) /\ h.s_sk = h.s_pk
    BY <1>2, <1>7 DEF Object
  <2>4. Secret(c2.hs.symmetric, e, h.re, Q)
    BY <1>5, <1>7, <2>2, <2>3 DEF Secret
  <2>5. c2.hs.s_pk = h.s_pk
    BY <1>4, <2>2 DEF Kept, SameParty
  <2>6. IsCall(c3) /\ c3.ok /\ Message(c3.bytes, Q) /\ Kept(c3.hs, c2.hs)
    BY <2>1, <2>2, <2>3, <2>4, <2>5, StaticOut
  <2> HIDE DEF c3
  <2>7. /\ SameParty(c3.hs, h) /\ c3.hs.e_pk = e /\ c3.hs.e_sk = e
        /\ c3.hs.rs = h.rs /\ c3.hs.re = h.re /\ c3.hs.step = 1
    BY <1>4, <2>2, <2>6 DEF Kept, SameParty, SameOwn
  <2>8. c3.hs.s_sk = h.s_pk
    BY <2>3, <2>7 DEF SameParty
  <2>9. /\ IsCall(c4) /\ c4.ok /\ c4.bytes = c3.bytes /\ Kept(c4.hs, c3.hs)
        /\ mixed(c4.hs.symmetric.ck) = dh(h.s_pk, h.re) /\ c4.hs.symmetric.cipher.n = 0
        /\ c4.hs.symmetric.cipher.has_key /\ ck_of(c4.hs.symmetric.cipher.k) = c4.hs.symmetric.ck
    BY <1>7, <2>6, <2>7, <2>8, Mixed
  <2> HIDE DEF c4
  <2>10. h.s_pk # Zero
    BY <2>3 DEF Static, Zero
  <2>11. Secret(c4.hs.symmetric, h.s_pk, h.re, Q)
    BY <1>7, <2>3, <2>9, <2>10 DEF Secret
  <2>12. /\ IsHandshake(w.hs) /\ w.ok /\ Message(w.bytes, Q)
         /\ SameParty(w.hs, c4.hs) /\ SameOwn(w.hs, c4.hs)
         /\ w.hs.rs = c4.hs.rs /\ w.hs.re = c4.hs.re /\ w.hs.step = c4.hs.step + 1
         /\ w.hs.symmetric.ck = c4.hs.symmetric.ck /\ w.hs.symmetric.cipher.has_key
         /\ w.hs.symmetric.cipher.n = incr(0)
    BY <1>1, <2>6, <2>9, <2>11, PayloadOut
  <2>13. /\ SameParty(w.hs, h) /\ w.hs.e_pk = e /\ w.hs.e_sk = e
         /\ w.hs.rs = h.rs /\ w.hs.re = h.re /\ w.hs.step = 2
         /\ mixed(w.hs.symmetric.ck) = dh(h.s_pk, h.re)
    BY <2>7, <2>9, <2>12 DEF Kept, SameParty, SameOwn
  <2>14. Object(w.hs, D \cup {e}, Q)
    BY <1>2, <2>12, <2>13, Steps, Incr DEF Object, SameParty
  <2>15. AfterXX2(w.hs)
    BY <1>5, <1>7, <2>12, <2>13 DEF AfterXX2, SameParty
  <2>16. Session(w.hs, D \cup {e}, Q) /\ Rests(w.hs)
    BY <2>13, <2>14, <2>15, Steps DEF Session, Sent, Rests, SameParty
  <2> QED BY <1>5, <2>12, <2>13, <2>16 DEF Wrote, w
<1> QED BY <1>6, <1>7

\* Message 3 of XX: s, se.
LEMMA WriteXX3 ==
    ASSUME NEW h, NEW D, NEW P, Points(D, P), NEW e,
           Session(h, D, P), h.pattern = "XX", h.step = 2, h.initiator
    PROVE  write_message(h, e).ok /\ Wrote(write_message(h, e), h, e, D, P)
<1> DEFINE c0 == call(h, NoBytes)
           c1 == encrypt_static(c0)
           c2 == mix_dh(c1, "s_sk", "re")
           w  == write_message(h, e)
<1>1. w = advance(encrypt_payload(c2))
  BY Steps DEF write_message, is_complete
<1>2. Object(h, D, P) /\ IsHandshake(h) /\ AfterXX2(h)
  BY DEF Session, Object
<1>3. /\ h.e_pk \in P /\ h.e_pk # Zero /\ h.re # Zero /\ h.re \in P \cup {Garbage}
      /\ Static(h.rs) /\ Static(h.s_pk) /\ h.s_sk = h.s_pk /\ h.s_pk # Zero /\ h.rs # Zero
  <2>1. h.e_pk \in P /\ h.e_pk # Zero
    BY <1>2 DEF Session, Sent, AfterXX2
  <2> QED BY <1>2, <2>1 DEF AfterXX2, Object, Static, Zero
<1>4. IsCall(c0) /\ c0.ok /\ c0.hs = h /\ c0.bytes = NoBytes
  BY <1>2, NewCall
<1> HIDE DEF c0, w
<1>5. Secret(h.symmetric, h.e_pk, h.rs, P)
  BY <1>2, <1>3 DEF Secret, AfterXX2
<1>6. Message(NoBytes, P)
  BY EmptyMessage
<1>7. /\ IsCall(c1) /\ c1.ok /\ Message(c1.bytes, P) /\ Kept(c1.hs, h)
      /\ c1.hs.symmetric.ck = h.symmetric.ck
  BY <1>3, <1>4, <1>5, <1>6, StaticOut
<1> HIDE DEF c1
<1>8. c1.hs.re = h.re /\ c1.hs.s_sk = h.s_pk
  BY <1>3, <1>7 DEF Kept, SameParty
<1>9. /\ IsCall(c2) /\ c2.ok /\ c2.bytes = c1.bytes /\ Kept(c2.hs, c1.hs)
      /\ mixed(c2.hs.symmetric.ck) = dh(h.s_pk, h.re)
      /\ below(c2.hs.symmetric.ck) = h.symmetric.ck /\ c2.hs.symmetric.cipher.n = 0
      /\ c2.hs.symmetric.cipher.has_key /\ ck_of(c2.hs.symmetric.cipher.k) = c2.hs.symmetric.ck
  BY <1>3, <1>7, <1>8, Mixed
<1> HIDE DEF c2
<1>10. Secret(c2.hs.symmetric, h.s_pk, h.re, P)
  BY <1>3, <1>9 DEF Secret
<1>11. /\ IsHandshake(w.hs) /\ w.ok /\ Message(w.bytes, P)
       /\ SameParty(w.hs, c2.hs) /\ SameOwn(w.hs, c2.hs)
       /\ w.hs.rs = c2.hs.rs /\ w.hs.re = c2.hs.re /\ w.hs.step = c2.hs.step + 1
       /\ w.hs.symmetric.ck = c2.hs.symmetric.ck
       /\ w.hs.symmetric.cipher.n = incr(0)
       /\ Binds(w.hs.symmetric.h, w.hs.symmetric.ck)
  BY <1>1, <1>7, <1>9, <1>10, PayloadOut
<1>12. /\ SameParty(w.hs, h) /\ SameOwn(w.hs, h) /\ w.hs.rs = h.rs /\ w.hs.re = h.re
       /\ w.hs.step = 3
  BY <1>7, <1>9, <1>11 DEF Kept, SameParty, SameOwn
<1>13. Completed(w.hs)
  <2>1. mixed(h.symmetric.ck) = dh(h.e_pk, h.rs)
    BY <1>2 DEF AfterXX2
  <2>2. Agreed("XX", TRUE, w.hs.symmetric.ck, h.s_pk, h.rs, h.e_pk, h.re)
    BY <1>9, <1>11, <2>1 DEF Agreed
  <2>3. /\ w.hs.pattern = "XX" /\ w.hs.initiator = TRUE /\ w.hs.s_pk = h.s_pk
        /\ w.hs.e_pk = h.e_pk
    BY <1>2, <1>12 DEF SameParty, SameOwn, Object
  <2> QED BY <1>3, <1>11, <1>12, <2>2, <2>3 DEF Completed
<1>14. P \cup {h.e_pk} = P /\ D \cup {h.e_pk} = D
  BY <1>3 DEF Points
<1>15. Object(w.hs, D, P)
  BY <1>2, <1>11, <1>12, Steps, Incr DEF Object, SameParty, SameOwn
<1>16. Session(w.hs, D, P) /\ Rests(w.hs)
  BY <1>3, <1>12, <1>13, <1>15, Steps DEF Session, Sent, Rests, SameParty, SameOwn
<1>17. w.hs.e_pk = h.e_pk
  BY <1>12 DEF SameOwn
<1>18. D \cup {w.hs.e_pk} = D /\ P \cup {w.hs.e_pk} = P /\ w.hs.e_pk # Zero
  BY <1>3, <1>14, <1>17
<1>19. Session(w.hs, D \cup {w.hs.e_pk}, P \cup {w.hs.e_pk}) /\ Message(w.bytes, P \cup {w.hs.e_pk})
  BY <1>11, <1>16, <1>18
<1>20. ~(h.step < 2) /\ w.hs.step = h.step + 1
  BY <1>12
<1> QED BY <1>11, <1>12, <1>16, <1>17, <1>18, <1>19, <1>20 DEF Wrote, w

\* Message 1 of IK: e, es, s, ss.
LEMMA WriteIK1 ==
    ASSUME NEW h, NEW D, NEW P, Points(D, P), NEW e, e[1] = "ephemeral",
           Session(h, D, P), h.pattern = "IK", h.step = 0, h.initiator
    PROVE  write_message(h, e).ok /\ Wrote(write_message(h, e), h, e, D, P)
<1> DEFINE Q  == P \cup {e}
           c0 == call(h, NoBytes)
           c1 == write_e(c0, e)
           c2 == mix_dh(c1, "e_sk", "rs")
           c3 == encrypt_static(c2)
           c4 == mix_dh(c3, "s_sk", "rs")
           w  == write_message(h, e)
<1>1. w = advance(encrypt_payload(c4))
  BY Steps DEF write_message, is_complete
<1>2. Object(h, D, P) /\ IsHandshake(h)
  BY DEF Session, Object
<1>3. /\ Static(h.rs) /\ Static(h.s_pk) /\ h.s_sk = h.s_pk /\ h.s_pk # Zero /\ h.rs # Zero
      /\ e # Zero
  <2>1. Static(h.rs)
    BY DEF Session
  <2>2. Static(h.s_pk) /\ h.s_sk = h.s_pk
    BY <1>2 DEF Object
  <2>3. h.s_pk # Zero /\ h.rs # Zero
    BY <2>1, <2>2 DEF Static, Zero
  <2>4. e # Zero
    BY DEF Zero
  <2> QED BY <2>1, <2>2, <2>3, <2>4
<1>4. IsCall(c0) /\ c0.ok /\ c0.hs = h /\ c0.bytes = NoBytes
  BY <1>2, NewCall
<1> HIDE DEF c0, w
<1>5. /\ IsCall(c1) /\ c1.ok /\ c1.bytes = put(NoBytes, 32, e)
      /\ c1.hs.e_pk = e /\ c1.hs.e_sk = e
      /\ SameParty(c1.hs, h) /\ c1.hs.rs = h.rs /\ c1.hs.re = h.re /\ c1.hs.step = 0
  BY <1>4, WriteE
<1> HIDE DEF c1
<1>6. Message(c1.bytes, Q)
  <2>1. FieldOK([len |-> 32, val |-> e], Q)
    BY DEF FieldOK
  <2> QED BY <1>5, <2>1, EmptyMessage, Put
<1>7. /\ IsCall(c2) /\ c2.ok /\ c2.bytes = c1.bytes /\ Kept(c2.hs, c1.hs)
      /\ mixed(c2.hs.symmetric.ck) = dh(e, h.rs)
      /\ c2.hs.symmetric.cipher.has_key /\ ck_of(c2.hs.symmetric.cipher.k) = c2.hs.symmetric.ck
  BY <1>3, <1>5, Mixed
<1> HIDE DEF c2
<1>8. Secret(c2.hs.symmetric, e, h.rs, Q) /\ c2.hs.s_pk = h.s_pk
  BY <1>3, <1>5, <1>7 DEF Secret, Kept, SameParty
<1>9. IsCall(c3) /\ c3.ok /\ Message(c3.bytes, Q) /\ Kept(c3.hs, c2.hs)
  BY <1>3, <1>6, <1>7, <1>8, StaticOut
<1> HIDE DEF c3
<1>10. /\ SameParty(c3.hs, h) /\ c3.hs.e_pk = e /\ c3.hs.e_sk = e /\ c3.hs.s_sk = h.s_pk
       /\ c3.hs.rs = h.rs /\ c3.hs.re = h.re /\ c3.hs.step = 0
  BY <1>3, <1>5, <1>7, <1>9 DEF Kept, SameParty, SameOwn
<1>11. /\ IsCall(c4) /\ c4.ok /\ c4.bytes = c3.bytes /\ Kept(c4.hs, c3.hs)
       /\ mixed(c4.hs.symmetric.ck) = dh(h.s_pk, h.rs) /\ c4.hs.symmetric.cipher.n = 0
       /\ c4.hs.symmetric.cipher.has_key /\ ck_of(c4.hs.symmetric.cipher.k) = c4.hs.symmetric.ck
  BY <1>3, <1>9, <1>10, Mixed
<1> HIDE DEF c4
<1>12. Secret(c4.hs.symmetric, h.s_pk, h.rs, Q)
  BY <1>3, <1>11 DEF Secret
<1>13. /\ IsHandshake(w.hs) /\ w.ok /\ Message(w.bytes, Q)
       /\ SameParty(w.hs, c4.hs) /\ SameOwn(w.hs, c4.hs)
       /\ w.hs.rs = c4.hs.rs /\ w.hs.re = c4.hs.re /\ w.hs.step = c4.hs.step + 1
       /\ w.hs.symmetric.ck = c4.hs.symmetric.ck
       /\ w.hs.symmetric.cipher.n = incr(0)
  BY <1>1, <1>9, <1>11, <1>12, PayloadOut
<1>14. /\ SameParty(w.hs, h) /\ w.hs.e_pk = e /\ w.hs.e_sk = e
       /\ w.hs.rs = h.rs /\ w.hs.re = h.re /\ w.hs.step = 1
       /\ mixed(w.hs.symmetric.ck) = dh(h.s_pk, h.rs)
  BY <1>10, <1>11, <1>13 DEF Kept, SameParty, SameOwn
<1>15. Object(w.hs, D \cup {e}, Q)
  BY <1>2, <1>13, <1>14, Steps, Incr DEF Object, SameParty
<1>16. AfterIK1(w.hs)
  BY <1>3, <1>14 DEF AfterIK1, SameParty
<1>17. Session(w.hs, D \cup {e}, Q) /\ Rests(w.hs)
  BY <1>14, <1>15, <1>16, Steps DEF Session, Sent, Rests, SameParty
<1> QED BY <1>3, <1>13, <1>14, <1>17 DEF Wrote, w

\* Message 2 of IK: e, ee, se.
LEMMA WriteIK2 ==
    ASSUME NEW h, NEW D, NEW P, Points(D, P), NEW e, e[1] = "ephemeral",
           Session(h, D, P), h.pattern = "IK", h.step = 1, ~h.initiator
    PROVE  write_message(h, e).ok /\ Wrote(write_message(h, e), h, e, D, P)
<1> DEFINE Q  == P \cup {e}
           c0 == call(h, NoBytes)
           c1 == write_e(c0, e)
           c2 == mix_dh(c1, "e_sk", "re")
           c3 == mix_dh(c2, "s_sk", "re")
           w  == write_message(h, e)
<1>1. w = advance(encrypt_payload(c3))
  BY Steps DEF write_message, is_complete
<1>2. Object(h, D, P) /\ IsHandshake(h) /\ AfterIK1(h)
  BY DEF Session, Object
<1>3. /\ Static(h.rs) /\ Static(h.s_pk) /\ h.s_sk = h.s_pk /\ h.s_pk # Zero
      /\ h.re # Zero /\ h.re \in P \cup {Garbage} /\ e # Zero
      /\ mixed(h.symmetric.ck) = dh(h.s_pk, h.rs)
  BY <1>2 DEF Object, AfterIK1, Static, Zero
<1>4. IsCall(c0) /\ c0.ok /\ c0.hs = h /\ c0.bytes = NoBytes
  BY <1>2, NewCall
<1> HIDE DEF c0, w
<1>5. /\ IsCall(c1) /\ c1.ok /\ c1.bytes = put(NoBytes, 32, e)
      /\ c1.hs.e_pk = e /\ c1.hs.e_sk = e /\ c1.hs.symmetric.ck = h.symmetric.ck
      /\ SameParty(c1.hs, h) /\ c1.hs.rs = h.rs /\ c1.hs.re = h.re /\ c1.hs.step = 1
  BY <1>4, WriteE
<1> HIDE DEF c1
<1>6. Message(c1.bytes, Q)
  <2>1. FieldOK([len |-> 32, val |-> e], Q)
    BY DEF FieldOK
  <2> QED BY <1>5, <2>1, EmptyMessage, Put
<1>7. /\ IsCall(c2) /\ c2.ok /\ c2.bytes = c1.bytes /\ Kept(c2.hs, c1.hs)
      /\ mixed(c2.hs.symmetric.ck) = dh(e, h.re) /\ below(c2.hs.symmetric.ck) = h.symmetric.ck
  BY <1>3, <1>5, Mixed
<1> HIDE DEF c2
<1>8. /\ SameParty(c2.hs, h) /\ c2.hs.e_pk = e /\ c2.hs.e_sk = e /\ c2.hs.s_sk = h.s_pk
      /\ c2.hs.rs = h.rs /\ c2.hs.re = h.re /\ c2.hs.step = 1
  BY <1>3, <1>5, <1>7 DEF Kept, SameParty, SameOwn
<1>9. /\ IsCall(c3) /\ c3.ok /\ c3.bytes = c2.bytes /\ Kept(c3.hs, c2.hs)
      /\ mixed(c3.hs.symmetric.ck) = dh(h.s_pk, h.re)
      /\ below(c3.hs.symmetric.ck) = c2.hs.symmetric.ck /\ c3.hs.symmetric.cipher.n = 0
      /\ c3.hs.symmetric.cipher.has_key /\ ck_of(c3.hs.symmetric.cipher.k) = c3.hs.symmetric.ck
  BY <1>3, <1>7, <1>8, Mixed
<1> HIDE DEF c3
<1>10. Secret(c3.hs.symmetric, h.s_pk, h.re, Q)
  BY <1>3, <1>9 DEF Secret
<1>11. /\ IsHandshake(w.hs) /\ w.ok /\ Message(w.bytes, Q)
       /\ SameParty(w.hs, c3.hs) /\ SameOwn(w.hs, c3.hs)
       /\ w.hs.rs = c3.hs.rs /\ w.hs.re = c3.hs.re /\ w.hs.step = c3.hs.step + 1
       /\ w.hs.symmetric.ck = c3.hs.symmetric.ck
       /\ w.hs.symmetric.cipher.n = incr(0)
       /\ Binds(w.hs.symmetric.h, w.hs.symmetric.ck)
  BY <1>1, <1>6, <1>7, <1>9, <1>10, PayloadOut
<1>12. /\ SameParty(w.hs, h) /\ w.hs.e_pk = e /\ w.hs.e_sk = e
       /\ w.hs.rs = h.rs /\ w.hs.re = h.re /\ w.hs.step = 2
  BY <1>8, <1>9, <1>11 DEF Kept, SameParty, SameOwn
<1>13. Completed(w.hs)
  <2>1. Agreed("IK", FALSE, w.hs.symmetric.ck, h.s_pk, h.rs, e, h.re)
    BY <1>3, <1>7, <1>9, <1>11 DEF Agreed
  <2>2. w.hs.pattern = "IK" /\ w.hs.initiator = FALSE /\ w.hs.s_pk = h.s_pk
    BY <1>2, <1>12 DEF SameParty, Object
  <2> QED BY <1>3, <1>11, <1>12, <2>1, <2>2 DEF Completed
<1>14. Object(w.hs, D \cup {e}, Q)
  BY <1>2, <1>11, <1>12, Steps, Incr DEF Object, SameParty
<1>15. Session(w.hs, D \cup {e}, Q) /\ Rests(w.hs)
  BY <1>12, <1>13, <1>14, Steps DEF Session, Sent, Rests, SameParty
<1> QED BY <1>3, <1>11, <1>12, <1>15 DEF Wrote, w

\* A static key that was accepted was sealed under a secret made of points
\* that were sent.
LEMMA StaticIn ==
    ASSUME NEW c, IsCall(c), c.ok, c.hs.symmetric.cipher.has_key,
           NEW D, NEW P, Points(D, P), Message(c.bytes, P)
    PROVE  LET r      == read_encrypted_static(c)
               points == mixed(ck_of(c.hs.symmetric.cipher.k))[2]
           IN  /\ IsCall(r) /\ Message(r.bytes, P)
               /\ SameParty(r.hs, c.hs) /\ SameOwn(r.hs, c.hs)
               /\ r.hs.re = c.hs.re /\ r.hs.step = c.hs.step
               /\ r.hs.symmetric.ck = c.hs.symmetric.ck
               /\ ~r.ok => r.hs.symmetric = c.hs.symmetric /\ r.hs.rs = c.hs.rs
               /\ r.ok => /\ Static(r.hs.rs) /\ Zero \notin points
                          /\ \A t \in points : t[1] = "ephemeral" => t \in P
<1> DEFINE r == read_encrypted_static(c)
           s == c.hs.symmetric
<1>1. /\ IsCall(r) /\ Message(r.bytes, P)
      /\ SameParty(r.hs, c.hs) /\ SameOwn(r.hs, c.hs)
      /\ r.hs.re = c.hs.re /\ r.hs.step = c.hs.step
      /\ ~r.ok => r.hs.symmetric = s /\ r.hs.rs = c.hs.rs
      /\ r.ok => /\ Static(r.hs.rs)
                 /\ \E v : /\ SealOK(v, P) /\ v[2] = s.cipher.k
                           /\ Holds(r.hs.symmetric, s.ck, blake2b(s.h, v), s.cipher.k,
                                    incr(s.cipher.n))
  BY ReadStatic
<1> HIDE DEF r
<1>2. r.ok => /\ r.hs.symmetric.ck = s.ck /\ Zero \notin mixed(ck_of(s.cipher.k))[2]
              /\ \A t \in mixed(ck_of(s.cipher.k))[2] : t[1] = "ephemeral" => t \in P
  BY <1>1 DEF SealOK, Holds
<1> QED BY <1>1, <1>2 DEF r

\* A payload that was accepted ends the message: the hash binds the chaining
\* key.
LEMMA PayloadIn ==
    ASSUME NEW c, IsCall(c), c.ok, c.hs.symmetric.cipher.has_key,
           ck_of(c.hs.symmetric.cipher.k) = c.hs.symmetric.ck,
           NEW D, NEW P, Points(D, P), Message(c.bytes, P)
    PROVE  LET r == advance(read_payload(c))
           IN  /\ IsHandshake(r.hs)
               /\ SameParty(r.hs, c.hs) /\ SameOwn(r.hs, c.hs)
               /\ r.hs.rs = c.hs.rs /\ r.hs.re = c.hs.re
               /\ r.hs.symmetric.ck = c.hs.symmetric.ck /\ r.hs.symmetric.cipher.has_key
               /\ ck_of(r.hs.symmetric.cipher.k) = r.hs.symmetric.ck
               /\ ~r.ok => r.hs.step = c.hs.step
                           /\ r.hs.symmetric.cipher.n = c.hs.symmetric.cipher.n
               /\ r.ok => /\ r.hs.step = c.hs.step + 1
                          /\ r.hs.symmetric.cipher.n = incr(c.hs.symmetric.cipher.n)
                          /\ Binds(r.hs.symmetric.h, r.hs.symmetric.ck)
                          /\ Zero \notin mixed(r.hs.symmetric.ck)[2]
<1> DEFINE s == c.hs.symmetric
           d == read_payload(c)
<1>1. /\ IsCall(d) /\ Kept(d.hs, c.hs)
      /\ ~d.ok => d.hs.symmetric = s
      /\ d.ok => \E v : /\ SealOK(v, P) /\ v[2] = s.cipher.k
                        /\ Holds(d.hs.symmetric, s.ck, blake2b(s.h, v), s.cipher.k,
                                 incr(s.cipher.n))
  BY ReadPayload
<1> HIDE DEF d
<1>2. CASE ~d.ok
  <2>1. advance(d) = d
    BY <1>2, FailedStays
  <2> QED BY <1>1, <1>2, <2>1 DEF IsCall, Kept, d
<1>3. CASE d.ok
  <2>1. PICK v : /\ SealOK(v, P) /\ v[2] = s.cipher.k
                 /\ Holds(d.hs.symmetric, s.ck, blake2b(s.h, v), s.cipher.k, incr(s.cipher.n))
    BY <1>1, <1>3
  <2>2. Binds(d.hs.symmetric.h, d.hs.symmetric.ck)
    BY <2>1 DEF Binds, Holds, blake2b
  <2>3. Zero \notin mixed(s.ck)[2]
    BY <2>1 DEF SealOK
  <2>4. LET r == advance(d)
        IN  /\ IsCall(r) /\ r.ok /\ r.hs.step = d.hs.step + 1
            /\ SameParty(r.hs, d.hs) /\ SameOwn(r.hs, d.hs)
            /\ r.hs.rs = d.hs.rs /\ r.hs.re = d.hs.re /\ r.hs.symmetric = d.hs.symmetric
    BY <1>1, <1>3, Advanced
  <2> QED BY <1>1, <2>1, <2>2, <2>3, <2>4 DEF d, Holds, Kept, SameParty, SameOwn, IsCall
<1> QED BY <1>2, <1>3

\* The outcomes of read_message, whatever the bytes.
Read(r, h, D, P) ==
    /\ SameParty(r.hs, h) /\ r.hs.e_pk = h.e_pk /\ Session(r.hs, D, P)
    /\ r.hs.step = IF r.ok THEN h.step + 1 ELSE h.step

\* Nothing but the hash, re and the key of the cipher changed.
LEMMA ReadNothing ==
    ASSUME NEW h, NEW D, NEW P, Session(h, D, P), NEW r, ~r.ok, IsHandshake(r.hs),
           SameParty(r.hs, h), SameOwn(r.hs, h), r.hs.step = h.step, h.step < 2,
           r.hs.rs = h.rs \/ Static(r.hs.rs), r.hs.re \in P \cup {Zero, Garbage},
           r.hs.symmetric.cipher.n \in 0..1,
           h.pattern = "XX" => h.step = 1,
           h.pattern = "IK" => h.step = 0
    PROVE  Read(r, h, D, P)
<1>1. Object(r.hs, D, P)
  BY DEF Session, Object, SameParty, SameOwn
<1> QED BY <1>1, Steps DEF Read, Session, Object, Sent, SameParty, SameOwn

\* A call that fails before it changes anything.
LEMMA ReadNone ==
    ASSUME NEW h, NEW D, NEW P, Session(h, D, P), NEW r, ~r.ok, r.hs = h
    PROVE  Read(r, h, D, P)
  BY DEF Read, SameParty

\* Message 1 of XX, as read by anyone at step 0.
LEMMA ReadXX1 ==
    ASSUME NEW h, NEW D, NEW P, Points(D, P), NEW m, Message(m, P),
           Session(h, D, P), h.pattern = "XX", h.step = 0
    PROVE  Read(read_message(h, m), h, D, P)
<1> DEFINE c1 == read_e(call(h, m))
           c2 == read_payload(c1)
           r  == read_message(h, m)
<1>1. r = advance(c2)
  BY Steps DEF read_message, is_complete
<1>2. Object(h, D, P) /\ IsHandshake(h) /\ ~h.symmetric.cipher.has_key
  BY DEF Session, Object
<1>3. /\ IsCall(c1) /\ Message(c1.bytes, P)
      /\ ~c1.ok => c1.hs = h
      /\ c1.ok => /\ c1.hs.re \in P \cup {Zero, Garbage}
                  /\ c1.hs.symmetric.cipher = h.symmetric.cipher
                  /\ SameParty(c1.hs, h) /\ SameOwn(c1.hs, h)
                  /\ c1.hs.rs = h.rs /\ c1.hs.step = h.step
  BY <1>2, ReadE
<1> HIDE DEF c1, r
<1>4. CASE ~c1.ok
  <2>1. r = c1
    BY <1>1, <1>4, FailedStays
  <2> QED BY <1>3, <1>4, <2>1, ReadNone DEF r
<1>5. CASE c1.ok
  <2>1. ~c1.hs.symmetric.cipher.has_key
    BY <1>2, <1>3, <1>5
  <2>2. /\ IsCall(c2) /\ Kept(c2.hs, c1.hs) /\ c2.ok
        /\ c2.hs.symmetric.cipher = c1.hs.symmetric.cipher
    BY <1>3, <1>5, <2>1, ReadPayload
  <2> HIDE DEF c2
  <2>3. /\ IsCall(r) /\ r.ok /\ r.hs.step = c2.hs.step + 1
        /\ SameParty(r.hs, c2.hs) /\ SameOwn(r.hs, c2.hs)
        /\ r.hs.symmetric = c2.hs.symmetric /\ r.hs.rs = c2.hs.rs /\ r.hs.re = c2.hs.re
    BY <1>1, <2>2, Advanced
  <2>4. /\ IsHandshake(r.hs) /\ SameParty(r.hs, h) /\ SameOwn(r.hs, h)
        /\ r.hs.rs = h.rs /\ r.hs.re \in P \cup {Zero, Garbage} /\ r.hs.step = 1
        /\ r.hs.symmetric.cipher = h.symmetric.cipher
    BY <1>3, <1>5, <2>2, <2>3 DEF Kept, SameParty, SameOwn, IsCall
  <2>5. Object(r.hs, D, P)
    BY <1>2, <2>4, Steps DEF Object, SameParty, SameOwn
  <2>6. Session(r.hs, D, P)
    BY <2>4, <2>5, Steps DEF Session, Sent, SameParty, SameOwn
  <2> QED BY <2>3, <2>4, <2>6 DEF Read, SameOwn, r
<1> QED BY <1>4, <1>5

\* Message 2 of XX, as read by anyone at step 1.
LEMMA ReadXX2 ==
    ASSUME NEW h, NEW D, NEW P, Points(D, P), NEW m, Message(m, P),
           Session(h, D, P), h.pattern = "XX", h.step = 1
    PROVE  Read(read_message(h, m), h, D, P)
<1> DEFINE c1 == read_e(call(h, m))
           c2 == mix_dh(c1, "e_sk", "re")
           c3 == read_encrypted_static(c2)
           c4 == mix_dh(c3, "e_sk", "rs")
           r  == read_message(h, m)
<1>1. r = advance(read_payload(c4))
  BY Steps DEF read_message, is_complete
<1>2. Object(h, D, P) /\ IsHandshake(h) /\ h.symmetric.cipher.n \in 0..1 /\ h.e_sk = h.e_pk
  BY DEF Session, Object
<1>3. /\ IsCall(c1) /\ Message(c1.bytes, P)
      /\ ~c1.ok => c1.hs = h
      /\ c1.ok => /\ c1.hs.re \in P \cup {Zero, Garbage}
                  /\ c1.hs.symmetric.cipher = h.symmetric.cipher
                  /\ SameParty(c1.hs, h) /\ SameOwn(c1.hs, h)
                  /\ c1.hs.rs = h.rs /\ c1.hs.step = h.step
  BY <1>2, ReadE
<1> HIDE DEF c1, r
<1>4. CASE ~c1.ok
  <2>1. r = c1
    BY <1>1, <1>4, FailedStays
  <2> QED BY <1>3, <1>4, <2>1, ReadNone DEF r
<1>5. CASE c1.ok /\ c1.hs.re = Zero
  <2>1. c2 = failed(c1)
    BY <1>5, MixDhZero
  <2>2. ~c2.ok /\ c2.hs = c1.hs /\ IsHandshake(c2.hs)
    BY <1>3, <2>1, FailedCall DEF IsCall
  <2> HIDE DEF c2
  <2>3. r = c2
    BY <1>1, <2>2, FailedStays
  <2> QED BY <1>2, <1>3, <1>5, <2>2, <2>3, ReadNothing DEF r
<1>6. CASE c1.ok /\ c1.hs.re # Zero
  <2>1. /\ IsCall(c2) /\ c2.ok /\ c2.bytes = c1.bytes /\ Kept(c2.hs, c1.hs)
        /\ mixed(c2.hs.symmetric.ck) = dh(c1.hs.e_sk, c1.hs.re) /\ c2.hs.symmetric.cipher.n = 0
        /\ c2.hs.symmetric.cipher.has_key /\ ck_of(c2.hs.symmetric.cipher.k) = c2.hs.symmetric.ck
    BY <1>3, <1>6, Mixed
  <2> HIDE DEF c2
  <2>2. /\ SameParty(c2.hs, h) /\ SameOwn(c2.hs, h) /\ c2.hs.rs = h.rs /\ c2.hs.step = 1
        /\ c2.hs.re = c1.hs.re /\ c1.hs.e_sk = h.e_pk /\ Message(c2.bytes, P)
    BY <1>2, <1>3, <1>6, <2>1 DEF Kept, SameParty, SameOwn
  <2>3. /\ IsCall(c3) /\ Message(c3.bytes, P)
        /\ SameParty(c3.hs, c2.hs) /\ SameOwn(c3.hs, c2.hs)
        /\ c3.hs.re = c2.hs.re /\ c3.hs.step = c2.hs.step
        /\ ~c3.ok => c3.hs.symmetric = c2.hs.symmetric /\ c3.hs.rs = c2.hs.rs
        /\ c3.ok => /\ Static(c3.hs.rs) /\ Zero \notin mixed(c2.hs.symmetric.ck)[2]
                    /\ \A t \in mixed(c2.hs.symmetric.ck)[2] : t[1] = "ephemeral" => t \in P
    BY <2>1, <2>2, StaticIn
  <2> HIDE DEF c3
  <2>4. CASE ~c3.ok
    <3>1. r = c3
      BY <1>1, <2>4, FailedStays
    <3> QED BY <1>2, <1>3, <1>6, <2>1, <2>2, <2>3, <2>4, <3>1, ReadNothing DEF r, IsCall, SameParty, SameOwn
  <2>5. CASE c3.ok
    <3>1. h.e_pk \in P /\ h.e_pk # Zero /\ h.initiator
      <4>1. h.e_pk \in mixed(c2.hs.symmetric.ck)[2]
        BY <2>1, <2>2 DEF dh
      <4>2. h.e_pk \in D
        BY <1>2, <2>3, <2>5, <4>1 DEF Object
      <4>3. h.e_pk \in P
        BY <2>3, <2>5, <4>1, <4>2 DEF Points
      <4> QED BY <2>3, <2>5, <4>1, <4>3 DEF Session, Sent
    <3>2. Static(c3.hs.rs) /\ c3.hs.rs # Zero
      BY <2>3, <2>5 DEF Static, Zero
    <3>3. /\ IsCall(c4) /\ c4.ok /\ c4.bytes = c3.bytes /\ Kept(c4.hs, c3.hs)
          /\ mixed(c4.hs.symmetric.ck) = dh(c3.hs.e_sk, c3.hs.rs) /\ c4.hs.symmetric.cipher.n = 0
          /\ c4.hs.symmetric.cipher.has_key /\ ck_of(c4.hs.symmetric.cipher.k) = c4.hs.symmetric.ck
      BY <2>3, <2>5, <3>2, Mixed
    <3> HIDE DEF c4
    <3>4. /\ SameParty(c4.hs, h) /\ SameOwn(c4.hs, h) /\ c4.hs.step = 1 /\ c3.hs.e_sk = h.e_pk
          /\ c4.hs.rs = c3.hs.rs /\ c4.hs.re = c1.hs.re /\ Message(c4.bytes, P)
      BY <1>2, <2>2, <2>3, <3>3 DEF Kept, SameParty, SameOwn
    <3>5. /\ IsHandshake(r.hs)
          /\ SameParty(r.hs, c4.hs) /\ SameOwn(r.hs, c4.hs)
          /\ r.hs.rs = c4.hs.rs /\ r.hs.re = c4.hs.re
          /\ r.hs.symmetric.ck = c4.hs.symmetric.ck /\ r.hs.symmetric.cipher.has_key
          /\ ck_of(r.hs.symmetric.cipher.k) = r.hs.symmetric.ck
          /\ ~r.ok => r.hs.step = c4.hs.step /\ r.hs.symmetric.cipher.n = 0
          /\ r.ok => r.hs.step = c4.hs.step + 1 /\ r.hs.symmetric.cipher.n = incr(0)
      BY <1>1, <3>3, <3>4, PayloadIn
    <3>6. /\ SameParty(r.hs, h) /\ SameOwn(r.hs, h) /\ Static(r.hs.rs)
          /\ r.hs.re # Zero /\ r.hs.re \in P \cup {Zero, Garbage}
          /\ mixed(r.hs.symmetric.ck) = dh(h.e_pk, r.hs.rs)
      BY <1>3, <1>6, <3>2, <3>3, <3>4, <3>5 DEF SameParty, SameOwn
    <3>7. CASE ~r.ok
      <4>1. r.hs.step = h.step
        BY <3>4, <3>5, <3>7
      <4> QED BY <3>5, <3>6, <3>7, <4>1, ReadNothing DEF r
    <3>8. CASE r.ok
      <4>1. r.hs.step = 2
        BY <3>4, <3>5, <3>8
      <4>2. Object(r.hs, D, P)
        BY <1>2, <3>5, <3>6, <3>8, <4>1, Steps, Incr DEF Object, SameParty, SameOwn
      <4>3. AfterXX2(r.hs)
        BY <3>1, <3>5, <3>6 DEF AfterXX2, SameParty, SameOwn
      <4>4. Session(r.hs, D, P)
        BY <3>1, <3>6, <4>1, <4>2, <4>3, Steps DEF Session, Sent, SameParty, SameOwn
      <4> QED BY <3>6, <3>8, <4>1, <4>4 DEF Read, SameOwn, r
    <3> QED BY <3>7, <3>8
  <2> QED BY <2>4, <2>5
<1> QED BY <1>4, <1>5, <1>6

\* Message 3 of XX, as read by the responder.
LEMMA ReadXX3 ==
    ASSUME NEW h, NEW D, NEW P, Points(D, P), NEW m, Message(m, P),
           Session(h, D, P), h.pattern = "XX", h.step = 2, ~h.initiator
    PROVE  Read(read_message(h, m), h, D, P)
<1> DEFINE c0 == call(h, m)
           c1 == read_encrypted_static(c0)
           c2 == mix_dh(c1, "e_sk", "rs")
           r  == read_message(h, m)
<1>1. r = advance(read_payload(c2))
  BY Steps DEF read_message, is_complete
<1>2. /\ Object(h, D, P) /\ IsHandshake(h) /\ AfterXX2(h) /\ h.e_sk = h.e_pk
      /\ h.symmetric.cipher.has_key /\ h.e_pk # Zero /\ h.re # Zero
  BY DEF Session, Object, AfterXX2
<1>3. IsCall(c0) /\ c0.ok /\ c0.hs = h /\ c0.bytes = m
  BY <1>2, NewCall
<1> HIDE DEF c0, r
<1>4. /\ IsCall(c1) /\ Message(c1.bytes, P)
      /\ SameParty(c1.hs, h) /\ SameOwn(c1.hs, h) /\ c1.hs.re = h.re /\ c1.hs.step = h.step
      /\ c1.hs.symmetric.ck = h.symmetric.ck
      /\ ~c1.ok => c1.hs.symmetric = h.symmetric /\ c1.hs.rs = h.rs
      /\ c1.ok => Static(c1.hs.rs)
  BY <1>2, <1>3, StaticIn
<1> HIDE DEF c1
<1>5. CASE ~c1.ok
  <2>1. r = c1
    BY <1>1, <1>5, FailedStays
  <2>2. Object(c1.hs, D, P)
    BY <1>2, <1>4, <1>5 DEF Object, SameParty, SameOwn, IsCall
  <2>3. AfterXX2(c1.hs)
    BY <1>2, <1>4, <1>5 DEF AfterXX2, SameParty, SameOwn
  <2>4. Session(c1.hs, D, P)
    BY <1>4, <2>2, <2>3, Steps DEF Session, Sent, SameParty, SameOwn
  <2> QED BY <1>4, <1>5, <2>1, <2>4 DEF Read, SameOwn, r
<1>6. CASE c1.ok
  <2>1. Static(c1.hs.rs) /\ c1.hs.rs # Zero
    BY <1>4, <1>6 DEF Static, Zero
  <2>2. /\ IsCall(c2) /\ c2.ok /\ c2.bytes = c1.bytes /\ Kept(c2.hs, c1.hs)
        /\ mixed(c2.hs.symmetric.ck) = dh(c1.hs.e_sk, c1.hs.rs)
        /\ below(c2.hs.symmetric.ck) = c1.hs.symmetric.ck /\ c2.hs.symmetric.cipher.n = 0
        /\ c2.hs.symmetric.cipher.has_key /\ ck_of(c2.hs.symmetric.cipher.k) = c2.hs.symmetric.ck
    BY <1>4, <1>6, <2>1, Mixed
  <2> HIDE DEF c2
  <2>3. /\ IsHandshake(r.hs)
        /\ SameParty(r.hs, c2.hs) /\ SameOwn(r.hs, c2.hs)
        /\ r.hs.rs = c2.hs.rs /\ r.hs.re = c2.hs.re
        /\ r.hs.symmetric.ck = c2.hs.symmetric.ck /\ r.hs.symmetric.cipher.has_key
        /\ ~r.ok => r.hs.step = c2.hs.step /\ r.hs.symmetric.cipher.n = 0
        /\ r.ok => /\ r.hs.step = c2.hs.step + 1 /\ r.hs.symmetric.cipher.n = incr(0)
                   /\ Binds(r.hs.symmetric.h, r.hs.symmetric.ck)
    BY <1>1, <1>4, <2>2, PayloadIn
  <2>4. /\ SameParty(r.hs, h) /\ SameOwn(r.hs, h) /\ Static(r.hs.rs) /\ r.hs.re = h.re
        /\ mixed(r.hs.symmetric.ck) = dh(h.e_pk, r.hs.rs)
        /\ below(r.hs.symmetric.ck) = h.symmetric.ck
    BY <1>2, <1>4, <2>1, <2>2, <2>3 DEF Kept, SameParty, SameOwn
  <2>5. c2.hs.step = 2
    BY <1>4, <2>2 DEF Kept
  <2>6. r.hs.symmetric.cipher.n \in 0..1
    BY <2>3, Incr
  <2>7. CASE ~r.ok
    <3>1. r.hs.step = 2
      BY <2>3, <2>5, <2>7
    <3>2. Object(r.hs, D, P)
      BY <1>2, <2>3, <2>4, <2>6, <3>1, Steps DEF Object, SameParty, SameOwn
    <3>3. r.hs.rs \in mixed(r.hs.symmetric.ck)[2]
      BY <2>4 DEF dh
    <3>4. AfterXX2(r.hs)
      BY <1>2, <2>3, <2>4, <3>3 DEF AfterXX2, SameParty, SameOwn
    <3>5. Session(r.hs, D, P)
      BY <2>4, <3>1, <3>2, <3>4, Steps DEF Session, Sent, SameParty, SameOwn
    <3> QED BY <2>4, <2>7, <3>1, <3>5 DEF Read, SameOwn, r
  <2>8. CASE r.ok
    <3>1. r.hs.step = 3
      BY <2>3, <2>5, <2>8
    <3>2. Object(r.hs, D, P)
      BY <1>2, <2>3, <2>4, <2>6, <3>1, Steps DEF Object, SameParty, SameOwn
    <3>3. LET second == mixed(h.symmetric.ck)
          IN  second = dh(h.s_pk, h.re) \/ \E t \in second[2] : Static(t) /\ second = dh(h.e_pk, t)
      BY <1>2 DEF AfterXX2
    <3>4. Agreed("XX", FALSE, r.hs.symmetric.ck, h.s_pk, r.hs.rs, h.e_pk, h.re)
      BY <2>4, <3>3 DEF Agreed
    <3>5. /\ r.hs.pattern = "XX" /\ r.hs.initiator = FALSE /\ r.hs.s_pk = h.s_pk
          /\ r.hs.e_pk = h.e_pk
      BY <1>2, <2>4 DEF Object, SameParty, SameOwn
    <3>6. Completed(r.hs)
      BY <1>2, <2>3, <2>4, <2>8, <3>4, <3>5 DEF Completed
    <3>7. Session(r.hs, D, P)
      BY <2>4, <3>1, <3>2, <3>6, Steps DEF Session, Sent, SameParty, SameOwn
    <3> QED BY <2>4, <2>8, <3>1, <3>7 DEF Read, SameOwn, r
  <2> QED BY <2>7, <2>8
<1> QED BY <1>5, <1>6

\* Message 1 of IK, as read by anyone at step 0.
LEMMA ReadIK1 ==
    ASSUME NEW h, NEW D, NEW P, Points(D, P), NEW m, Message(m, P),
           Session(h, D, P), h.pattern = "IK", h.step = 0
    PROVE  Read(read_message(h, m), h, D, P)
<1> DEFINE c1 == read_e(call(h, m))
           c2 == mix_dh(c1, "s_sk", "re")
           c3 == read_encrypted_static(c2)
           c4 == mix_dh(c3, "s_sk", "rs")
           r  == read_message(h, m)
<1>1. r = advance(read_payload(c4))
  BY Steps DEF read_message, is_complete
<1>2. Object(h, D, P) /\ IsHandshake(h) /\ h.symmetric.cipher.n \in 0..1 /\ h.s_sk = h.s_pk
  BY DEF Session, Object
<1>3. /\ IsCall(c1) /\ Message(c1.bytes, P)
      /\ ~c1.ok => c1.hs = h
      /\ c1.ok => /\ c1.hs.re \in P \cup {Zero, Garbage}
                  /\ c1.hs.symmetric.cipher = h.symmetric.cipher
                  /\ SameParty(c1.hs, h) /\ SameOwn(c1.hs, h)
                  /\ c1.hs.rs = h.rs /\ c1.hs.step = h.step
  BY <1>2, ReadE
<1> HIDE DEF c1, r
<1>4. CASE ~c1.ok
  <2>1. r = c1
    BY <1>1, <1>4, FailedStays
  <2> QED BY <1>3, <1>4, <2>1, ReadNone DEF r
<1>5. CASE c1.ok /\ c1.hs.re = Zero
  <2>1. c2 = failed(c1)
    BY <1>5, MixDhZero
  <2>2. ~c2.ok /\ c2.hs = c1.hs /\ IsHandshake(c2.hs)
    BY <1>3, <2>1, FailedCall DEF IsCall
  <2> HIDE DEF c2
  <2>3. r = c2
    BY <1>1, <2>2, FailedStays
  <2> QED BY <1>2, <1>3, <1>5, <2>2, <2>3, ReadNothing DEF r
<1>6. CASE c1.ok /\ c1.hs.re # Zero
  <2>1. /\ IsCall(c2) /\ c2.ok /\ c2.bytes = c1.bytes /\ Kept(c2.hs, c1.hs)
        /\ c2.hs.symmetric.cipher.n = 0 /\ c2.hs.symmetric.cipher.has_key
    BY <1>3, <1>6, Mixed
  <2> HIDE DEF c2
  <2>2. /\ SameParty(c2.hs, h) /\ SameOwn(c2.hs, h) /\ c2.hs.rs = h.rs /\ c2.hs.step = 0
        /\ c2.hs.re = c1.hs.re /\ Message(c2.bytes, P)
    BY <1>2, <1>3, <1>6, <2>1 DEF Kept, SameParty, SameOwn
  <2>3. /\ IsCall(c3) /\ Message(c3.bytes, P)
        /\ SameParty(c3.hs, c2.hs) /\ SameOwn(c3.hs, c2.hs)
        /\ c3.hs.re = c2.hs.re /\ c3.hs.step = c2.hs.step
        /\ ~c3.ok => c3.hs.symmetric = c2.hs.symmetric /\ c3.hs.rs = c2.hs.rs
        /\ c3.ok => Static(c3.hs.rs)
    BY <2>1, <2>2, StaticIn
  <2> HIDE DEF c3
  <2>4. CASE ~c3.ok
    <3>1. r = c3
      BY <1>1, <2>4, FailedStays
    <3> QED BY <1>2, <1>3, <1>6, <2>1, <2>2, <2>3, <2>4, <3>1, ReadNothing DEF r, IsCall, SameParty, SameOwn
  <2>5. CASE c3.ok
    <3>1. Static(c3.hs.rs) /\ c3.hs.rs # Zero
      BY <2>3, <2>5 DEF Static, Zero
    <3>2. /\ IsCall(c4) /\ c4.ok /\ c4.bytes = c3.bytes /\ Kept(c4.hs, c3.hs)
          /\ mixed(c4.hs.symmetric.ck) = dh(c3.hs.s_sk, c3.hs.rs) /\ c4.hs.symmetric.cipher.n = 0
          /\ c4.hs.symmetric.cipher.has_key /\ ck_of(c4.hs.symmetric.cipher.k) = c4.hs.symmetric.ck
      BY <2>3, <2>5, <3>1, Mixed
    <3> HIDE DEF c4
    <3>3. /\ SameParty(c4.hs, h) /\ SameOwn(c4.hs, h) /\ c4.hs.step = 0 /\ c3.hs.s_sk = h.s_pk
          /\ c4.hs.rs = c3.hs.rs /\ c4.hs.re = c1.hs.re /\ Message(c4.bytes, P)
      BY <1>2, <2>2, <2>3, <3>2 DEF Kept, SameParty, SameOwn
    <3>4. /\ IsHandshake(r.hs)
          /\ SameParty(r.hs, c4.hs) /\ SameOwn(r.hs, c4.hs)
          /\ r.hs.rs = c4.hs.rs /\ r.hs.re = c4.hs.re
          /\ r.hs.symmetric.ck = c4.hs.symmetric.ck
          /\ ~r.ok => r.hs.step = c4.hs.step /\ r.hs.symmetric.cipher.n = 0
          /\ r.ok => r.hs.step = c4.hs.step + 1 /\ r.hs.symmetric.cipher.n = incr(0)
      BY <1>1, <3>2, <3>3, PayloadIn
    <3>5. /\ SameParty(r.hs, h) /\ SameOwn(r.hs, h) /\ Static(r.hs.rs)
          /\ r.hs.re # Zero /\ r.hs.re \in P \cup {Zero, Garbage}
          /\ mixed(r.hs.symmetric.ck) = dh(h.s_pk, r.hs.rs)
      BY <1>3, <1>6, <3>1, <3>2, <3>3, <3>4 DEF SameParty, SameOwn
    <3>6. CASE ~r.ok
      <4>1. r.hs.step = h.step
        BY <3>3, <3>4, <3>6
      <4> QED BY <3>4, <3>5, <3>6, <4>1, ReadNothing DEF r
    <3>7. CASE r.ok
      <4>1. r.hs.step = 1
        BY <3>3, <3>4, <3>7
      <4>2. Object(r.hs, D, P)
        BY <1>2, <3>4, <3>5, <3>7, <4>1, Steps, Incr DEF Object, SameParty, SameOwn
      <4>3. AfterIK1(r.hs)
        BY <3>5 DEF AfterIK1, SameParty, SameOwn
      <4>4. Session(r.hs, D, P)
        BY <3>5, <4>1, <4>2, <4>3, Steps DEF Session, Sent, SameParty, SameOwn
      <4> QED BY <3>5, <3>7, <4>1, <4>4 DEF Read, SameOwn, r
    <3> QED BY <3>6, <3>7
  <2> QED BY <2>4, <2>5
<1> QED BY <1>4, <1>5, <1>6

\* Message 2 of IK, as read by the initiator.
LEMMA ReadIK2 ==
    ASSUME NEW h, NEW D, NEW P, Points(D, P), NEW m, Message(m, P),
           Session(h, D, P), h.pattern = "IK", h.step = 1, h.initiator
    PROVE  Read(read_message(h, m), h, D, P)
<1> DEFINE c1 == read_e(call(h, m))
           c2 == mix_dh(c1, "e_sk", "re")
           c3 == mix_dh(c2, "e_sk", "rs")
           r  == read_message(h, m)
<1>1. r = advance(read_payload(c3))
  BY Steps DEF read_message, is_complete
<1>2. /\ Object(h, D, P) /\ IsHandshake(h) /\ AfterIK1(h) /\ h.e_sk = h.e_pk
      /\ Static(h.rs) /\ h.rs # Zero
  BY DEF Session, Object, AfterIK1, Static, Zero
<1>3. /\ IsCall(c1) /\ Message(c1.bytes, P)
      /\ ~c1.ok => c1.hs = h
      /\ c1.ok => /\ c1.hs.re \in P \cup {Zero, Garbage}
                  /\ c1.hs.symmetric.ck = h.symmetric.ck
                  /\ c1.hs.symmetric.cipher = h.symmetric.cipher
                  /\ SameParty(c1.hs, h) /\ SameOwn(c1.hs, h)
                  /\ c1.hs.rs = h.rs /\ c1.hs.step = h.step
  BY <1>2, ReadE
<1> HIDE DEF c1, r
<1>4. CASE ~c1.ok
  <2>1. r = c1
    BY <1>1, <1>4, FailedStays
  <2> QED BY <1>3, <1>4, <2>1, ReadNone DEF r
<1>5. CASE c1.ok /\ c1.hs.re = Zero
  <2>1. c2 = failed(c1)
    BY <1>5, MixDhZero
  <2>2. ~c2.ok /\ c2.hs = c1.hs /\ IsHandshake(c2.hs)
    BY <1>3, <2>1, FailedCall DEF IsCall
  <2> HIDE DEF c2
  <2>3. r = c2
    BY <1>1, <2>2, FailedStays
  <2>4. Object(c2.hs, D, P)
    BY <1>2, <1>3, <1>5, <2>2 DEF Object, SameParty, SameOwn
  <2>5. AfterIK1(c2.hs)
    BY <1>2, <1>3, <1>5, <2>2 DEF AfterIK1, SameParty, SameOwn
  <2>6. Session(c2.hs, D, P)
    BY <1>3, <1>5, <2>2, <2>4, <2>5, Steps DEF Session, Sent, SameParty, SameOwn
  <2> QED BY <1>3, <1>5, <2>2, <2>3, <2>6 DEF Read, SameOwn, r
<1>6. CASE c1.ok /\ c1.hs.re # Zero
  <2>1. /\ IsCall(c2) /\ c2.ok /\ c2.bytes = c1.bytes /\ Kept(c2.hs, c1.hs)
        /\ mixed(c2.hs.symmetric.ck) = dh(c1.hs.e_sk, c1.hs.re)
        /\ below(c2.hs.symmetric.ck) = c1.hs.symmetric.ck
    BY <1>3, <1>6, Mixed
  <2> HIDE DEF c2
  <2>2. /\ SameParty(c2.hs, h) /\ SameOwn(c2.hs, h) /\ c2.hs.rs = h.rs /\ c2.hs.step = 1
        /\ c2.hs.re = c1.hs.re /\ c1.hs.e_sk = h.e_pk /\ c2.hs.e_sk = h.e_pk
    BY <1>2, <1>3, <1>6, <2>1 DEF Kept, SameParty, SameOwn
  <2>3. /\ IsCall(c3) /\ c3.ok /\ c3.bytes = c2.bytes /\ Kept(c3.hs, c2.hs)
        /\ mixed(c3.hs.symmetric.ck) = dh(h.e_pk, h.rs)
        /\ below(c3.hs.symmetric.ck) = c2.hs.symmetric.ck /\ c3.hs.symmetric.cipher.n = 0
        /\ c3.hs.symmetric.cipher.has_key /\ ck_of(c3.hs.symmetric.cipher.k) = c3.hs.symmetric.ck
    BY <1>2, <2>1, <2>2, Mixed
  <2> HIDE DEF c3
  <2>4. Message(c3.bytes, P)
    BY <1>3, <2>1, <2>3
  <2>5. /\ IsHandshake(r.hs)
        /\ SameParty(r.hs, c3.hs) /\ SameOwn(r.hs, c3.hs)
        /\ r.hs.rs = c3.hs.rs /\ r.hs.re = c3.hs.re
        /\ r.hs.symmetric.ck = c3.hs.symmetric.ck
        /\ ~r.ok => r.hs.step = c3.hs.step /\ r.hs.symmetric.cipher.n = 0
        /\ r.ok => /\ r.hs.step = c3.hs.step + 1 /\ r.hs.symmetric.cipher.n = incr(0)
                   /\ Binds(r.hs.symmetric.h, r.hs.symmetric.ck)
                   /\ Zero \notin mixed(r.hs.symmetric.ck)[2]
    BY <1>1, <2>3, <2>4, PayloadIn
  <2>6. /\ SameParty(r.hs, h) /\ SameOwn(r.hs, h) /\ r.hs.rs = h.rs /\ c3.hs.step = 1
        /\ r.hs.re # Zero /\ r.hs.re \in P \cup {Zero, Garbage}
        /\ mixed(r.hs.symmetric.ck) = dh(h.e_pk, h.rs)
    BY <1>3, <1>6, <2>2, <2>3, <2>5 DEF Kept, SameParty, SameOwn
  <2>7. mixed(below(r.hs.symmetric.ck)) = dh(h.e_pk, r.hs.re)
    BY <2>1, <2>2, <2>3, <2>5 DEF Kept
  <2>8. below(below(r.hs.symmetric.ck)) = h.symmetric.ck
    BY <1>3, <1>6, <2>1, <2>3, <2>5
  <2>9. r.hs.symmetric.cipher.n \in 0..1
    BY <2>5, Incr
  <2>10. CASE ~r.ok
    <3>1. r.hs.step = 1
      BY <2>5, <2>6, <2>10
    <3>2. Object(r.hs, D, P)
      BY <1>2, <2>5, <2>6, <2>9, <3>1, Steps DEF Object, SameParty, SameOwn
    <3>3. AfterIK1(r.hs)
      BY <1>2, <2>6 DEF AfterIK1, SameParty, SameOwn
    <3>4. Session(r.hs, D, P)
      BY <2>6, <3>1, <3>2, <3>3, Steps DEF Session, Sent, SameParty, SameOwn
    <3> QED BY <2>6, <2>10, <3>1, <3>4 DEF Read, SameOwn, r
  <2>11. CASE r.ok
    <3>1. r.hs.step = 2
      BY <2>5, <2>6, <2>11
    <3>2. Object(r.hs, D, P)
      BY <1>2, <2>5, <2>6, <2>9, <3>1, Steps DEF Object, SameParty, SameOwn
    <3>3. h.e_pk # Zero
      BY <2>5, <2>6, <2>11 DEF dh
    <3>4. mixed(h.symmetric.ck) = dh(h.s_pk, h.rs) \/ mixed(h.symmetric.ck) = dh(h.e_pk, h.rs)
      BY <1>2 DEF AfterIK1
    <3>5. Agreed("IK", TRUE, r.hs.symmetric.ck, h.s_pk, h.rs, h.e_pk, r.hs.re)
      BY <2>6, <2>7, <2>8, <3>4 DEF Agreed
    <3>6. /\ r.hs.pattern = "IK" /\ r.hs.initiator = TRUE /\ r.hs.s_pk = h.s_pk
          /\ r.hs.e_pk = h.e_pk
      BY <1>2, <2>6 DEF Object, SameParty, SameOwn
    <3>7. Completed(r.hs)
      BY <1>2, <2>5, <2>6, <2>11, <3>3, <3>5, <3>6 DEF Completed
    <3>8. Session(r.hs, D, P)
      BY <2>6, <3>1, <3>2, <3>7, Steps DEF Session, Sent, SameParty, SameOwn
    <3> QED BY <2>6, <2>11, <3>1, <3>8 DEF Read, SameOwn, r
  <2> QED BY <2>10, <2>11
<1> QED BY <1>4, <1>5, <1>6

\* Every read of a session that has not completed, by either role: the code
\* does not check whose turn it is.
LEMMA ReadSession ==
    ASSUME NEW h, NEW D, NEW P, Points(D, P), NEW m, Message(m, P),
           Session(h, D, P), Rests(h), ~is_complete(h)
    PROVE  Read(read_message(h, m), h, D, P)
<1>1. \/ h.pattern = "XX" /\ (h.step = 0 \/ h.step = 1 \/ (h.step = 2 /\ ~h.initiator))
      \/ h.pattern = "IK" /\ (h.step = 0 \/ (h.step = 1 /\ h.initiator))
  <2>1. h.pattern \in {"XX", "IK"} /\ h.step \in 0..pattern_total_steps[h.pattern]
    BY DEF Session, Object
  <2>2. CASE h.pattern = "XX"
    <3>1. h.step \in 0..2
      BY <2>1, <2>2, Steps DEF is_complete
    <3> QED BY <2>2, <3>1 DEF Rests
  <2>3. CASE h.pattern = "IK"
    <3>1. h.step \in 0..1
      BY <2>1, <2>3, Steps DEF is_complete
    <3> QED BY <2>3, <3>1 DEF Rests
  <2> QED BY <2>1, <2>2, <2>3
<1> QED BY <1>1, ReadXX1, ReadXX2, ReadXX3, ReadIK1, ReadIK2

\* The first statement of write_message and of read_message.
LEMMA CompleteRefuses ==
    ASSUME NEW h, IsHandshake(h), is_complete(h), NEW e, NEW m
    PROVE  /\ ~write_message(h, e).ok /\ write_message(h, e).hs = h
           /\ ~read_message(h, m).ok /\ read_message(h, m).hs = h
<1>1. write_message(h, e) = failed(call(h, NoBytes)) /\ read_message(h, m) = failed(call(h, m))
  BY DEF write_message, read_message
<1>2. IsCall(call(h, NoBytes)) /\ call(h, NoBytes).hs = h /\ IsCall(call(h, m)) /\ call(h, m).hs = h
  BY NewCall
<1> QED BY <1>1, <1>2, FailedCall

\* Another session draws or sends an ephemeral.
LEMMA SessionGrows ==
    ASSUME NEW h, NEW D, NEW P, Session(h, D, P), NEW E, NEW Q, D \subseteq E, P \subseteq Q,
           h.e_pk \in Q => h.e_pk \in P
    PROVE  Session(h, E, Q)
<1>1. Object(h, E, Q)
  BY DEF Session, Object
<1>2. Sent(h, Q)
  BY DEF Session, Sent
<1> QED BY <1>1, <1>2 DEF Session

(***************************************************************************)
(* Two complete handshakes with one chaining key.                          *)
(***************************************************************************)
LEMMA SameSecret ==
    \A a, b, c, d : dh(a, b) = dh(c, d) => (a = c /\ b = d) \/ (a = d /\ b = c)
<1> SUFFICES ASSUME NEW a, NEW b, NEW c, NEW d, dh(a, b) = dh(c, d)
             PROVE  (a = c /\ b = d) \/ (a = d /\ b = c)
  OBVIOUS
<1>1. {a, b} = {c, d}
  <2>1. dh(a, b)[2] = {a, b} /\ dh(c, d)[2] = {c, d}
    BY DEF dh
  <2> QED BY <2>1
<1> QED BY <1>1

\* The static and the other half of a secret.
static_of(s) == CHOOSE t \in s[2] : Static(t)
other_of(s)  == CHOOSE t \in s[2] : ~Static(t)
HasStatic(s) == \E t \in s[2] : Static(t)

\* A secret of a static and an ephemeral key gives back both; one of two
\* ephemerals has no static half.
LEMMA Halves ==
    \A a, b : /\ Static(a) /\ ~Static(b) =>
                   /\ static_of(dh(a, b)) = a /\ other_of(dh(a, b)) = b
                   /\ static_of(dh(b, a)) = a /\ other_of(dh(b, a)) = b
              /\ Static(a) \/ Static(b) => HasStatic(dh(a, b))
              /\ ~Static(a) /\ ~Static(b) => ~HasStatic(dh(a, b))
<1> SUFFICES ASSUME NEW a, NEW b
             PROVE  /\ Static(a) /\ ~Static(b) =>
                         /\ static_of(dh(a, b)) = a /\ other_of(dh(a, b)) = b
                         /\ static_of(dh(b, a)) = a /\ other_of(dh(b, a)) = b
                    /\ Static(a) \/ Static(b) => HasStatic(dh(a, b))
                    /\ ~Static(a) /\ ~Static(b) => ~HasStatic(dh(a, b))
  OBVIOUS
<1>1. dh(a, b)[2] = {a, b} /\ dh(b, a) = dh(a, b)
  BY DEF dh
<1>2. /\ Static(a) \/ Static(b) => HasStatic(dh(a, b))
      /\ ~Static(a) /\ ~Static(b) => ~HasStatic(dh(a, b))
  BY <1>1 DEF HasStatic
<1>3. ASSUME Static(a), ~Static(b)
      PROVE  static_of(dh(a, b)) = a /\ other_of(dh(a, b)) = b
  BY <1>1, <1>3 DEF static_of, other_of
<1> QED BY <1>1, <1>2, <1>3

\* Which keys the last three secrets of a complete handshake are made of, as
\* seen from one end.
LEMMA AgreedSecrets ==
    ASSUME NEW p \in {"XX", "IK"}, NEW i \in BOOLEAN, NEW ck,
           NEW self, NEW peer, NEW own, NEW re, Agreed(p, i, ck, self, peer, own, re),
           Static(self), Static(peer), ~Static(own), ~Static(re)
    PROVE  LET last   == mixed(ck)
               second == mixed(below(ck))
               third  == mixed(below(below(ck)))
           IN  /\ i = (p = "XX") => static_of(last) = self /\ other_of(last) = re
               /\ i # (p = "XX") => static_of(last) = peer /\ other_of(last) = own
               /\ HasStatic(second) <=> p = "XX"
               /\ p = "XX" /\ i => static_of(second) = peer /\ other_of(second) = own
               /\ p = "XX" /\ ~i => \/ static_of(second) = self /\ other_of(second) = re
                                    \/ other_of(second) = own
               /\ p = "IK" => second = dh(own, re)
               /\ p = "IK" /\ i => third = dh(self, peer) \/ third = dh(own, peer)
               /\ p = "IK" /\ ~i => third = dh(self, peer)
<1> DEFINE last   == mixed(ck)
           second == mixed(below(ck))
           third  == mixed(below(below(ck)))
<1>1. CASE p = "XX" /\ i
  <2>1. last = dh(self, re) /\ second = dh(own, peer)
    BY <1>1 DEF Agreed
  <2>2. /\ static_of(last) = self /\ other_of(last) = re
        /\ static_of(second) = peer /\ other_of(second) = own /\ HasStatic(second)
    BY <2>1, Halves
  <2> HIDE DEF last, second, third
  <2>3. i = (p = "XX") /\ p # "IK"
    BY <1>1
  <2> QED BY <1>1, <2>2, <2>3 DEF last, second, third
<1>2. CASE p = "XX" /\ ~i
  <2>1. /\ last = dh(own, peer)
        /\ second = dh(self, re) \/ \E t \in second[2] : Static(t) /\ second = dh(own, t)
    BY <1>2 DEF Agreed
  <2>2. /\ static_of(last) = peer /\ other_of(last) = own /\ HasStatic(second)
        /\ (static_of(second) = self /\ other_of(second) = re) \/ other_of(second) = own
    BY <2>1, Halves
  <2> HIDE DEF last, second, third
  <2>3. i # (p = "XX") /\ p # "IK"
    BY <1>2
  <2> QED BY <1>2, <2>2, <2>3 DEF last, second, third
<1>3. CASE p = "IK" /\ i
  <2>1. /\ last = dh(own, peer) /\ second = dh(own, re)
        /\ third = dh(self, peer) \/ third = dh(own, peer)
    BY <1>3 DEF Agreed
  <2>2. static_of(last) = peer /\ other_of(last) = own /\ ~HasStatic(second)
    BY <2>1, Halves
  <2> HIDE DEF last, second, third
  <2>3. i # (p = "XX") /\ p # "XX"
    BY <1>3
  <2> QED BY <1>3, <2>1, <2>2, <2>3 DEF last, second, third
<1>4. CASE p = "IK" /\ ~i
  <2>1. last = dh(self, re) /\ second = dh(own, re) /\ third = dh(self, peer)
    BY <1>4 DEF Agreed
  <2>2. static_of(last) = self /\ other_of(last) = re /\ ~HasStatic(second)
    BY <2>1, Halves
  <2> HIDE DEF last, second, third
  <2>3. i = (p = "XX") /\ p # "XX"
    BY <1>4
  <2> QED BY <1>4, <2>1, <2>2, <2>3 DEF last, second, third
<1> QED BY <1>1, <1>2, <1>3, <1>4

\* They are one session or the two ends of one handshake.
LEMMA Partners ==
    ASSUME NEW p \in {"XX", "IK"}, NEW i \in BOOLEAN, NEW q \in {"XX", "IK"}, NEW j \in BOOLEAN,
           NEW ck, NEW self1, NEW peer1, NEW own1, NEW re1,
           NEW self2, NEW peer2, NEW own2, NEW re2,
           Agreed(p, i, ck, self1, peer1, own1, re1), Agreed(q, j, ck, self2, peer2, own2, re2),
           Static(self1), Static(peer1), Static(self2), Static(peer2),
           ~Static(own1), ~Static(own2), ~Static(re1), ~Static(re2)
    PROVE  \/ own1 = own2
           \/ i # j /\ self1 = peer2 /\ peer1 = self2 /\ own1 = re2 /\ own2 = re1
<1> DEFINE last   == mixed(ck)
           second == mixed(below(ck))
           third  == mixed(below(below(ck)))
<1>1. /\ i = (p = "XX") => static_of(last) = self1 /\ other_of(last) = re1
      /\ i # (p = "XX") => static_of(last) = peer1 /\ other_of(last) = own1
      /\ HasStatic(second) <=> p = "XX"
      /\ p = "XX" /\ i => static_of(second) = peer1 /\ other_of(second) = own1
      /\ p = "XX" /\ ~i => \/ static_of(second) = self1 /\ other_of(second) = re1
                           \/ other_of(second) = own1
      /\ p = "IK" => second = dh(own1, re1)
      /\ p = "IK" /\ i => third = dh(self1, peer1) \/ third = dh(own1, peer1)
      /\ p = "IK" /\ ~i => third = dh(self1, peer1)
  BY AgreedSecrets
<1>2. /\ j = (q = "XX") => static_of(last) = self2 /\ other_of(last) = re2
      /\ j # (q = "XX") => static_of(last) = peer2 /\ other_of(last) = own2
      /\ HasStatic(second) <=> q = "XX"
      /\ q = "XX" /\ j => static_of(second) = peer2 /\ other_of(second) = own2
      /\ q = "XX" /\ ~j => \/ static_of(second) = self2 /\ other_of(second) = re2
                           \/ other_of(second) = own2
      /\ q = "IK" => second = dh(own2, re2)
      /\ q = "IK" /\ j => third = dh(self2, peer2) \/ third = dh(own2, peer2)
      /\ q = "IK" /\ ~j => third = dh(self2, peer2)
  BY AgreedSecrets
<1>3. p = q
  BY <1>1, <1>2
<1> HIDE DEF last, second, third
<1>4. CASE i = j
  <2>1. CASE p = "IK" /\ ~i
    <3>1. dh(own1, re1) = dh(own2, re2) /\ re1 = re2
      BY <1>1, <1>2, <1>3, <1>4, <2>1
    <3> QED BY <3>1, SameSecret
  <2>2. CASE ~(p = "IK" /\ ~i)
    BY <1>1, <1>2, <1>3, <1>4, <2>2
  <2> QED BY <2>1, <2>2
<1>5. CASE i # j /\ p = "XX"
  BY <1>1, <1>2, <1>3, <1>5
<1>6. CASE i /\ ~j /\ p = "IK"
  <2>1. /\ own1 = re2 /\ peer1 = self2 /\ dh(own1, re1) = dh(own2, re2)
        /\ dh(self2, peer2) = dh(self1, peer1) \/ dh(self2, peer2) = dh(own1, peer1)
    BY <1>1, <1>2, <1>3, <1>6
  <2>2. re1 = own2
    BY <2>1, SameSecret
  <2>3. dh(self2, peer2) # dh(own1, peer1)
    BY SameSecret
  <2>4. peer2 = self1
    BY <2>1, <2>3, SameSecret
  <2> QED BY <1>6, <2>1, <2>2, <2>4
<1>7. CASE ~i /\ j /\ p = "IK"
  <2>1. /\ own2 = re1 /\ peer2 = self1 /\ dh(own1, re1) = dh(own2, re2)
        /\ dh(self1, peer1) = dh(self2, peer2) \/ dh(self1, peer1) = dh(own2, peer2)
    BY <1>1, <1>2, <1>3, <1>7
  <2>2. re2 = own1
    BY <2>1, SameSecret
  <2>3. dh(self1, peer1) # dh(own2, peer2)
    BY SameSecret
  <2>4. peer1 = self2
    BY <2>1, <2>3, SameSecret
  <2> QED BY <1>7, <2>1, <2>2, <2>4
<1> QED BY <1>4, <1>5, <1>6, <1>7
-----------------------------------------------------------------------------
(***************************************************************************)
(* A handshake without faults: two objects of which one reads what the     *)
(* other wrote.  A message is its fields.                                  *)
(***************************************************************************)
field(len, val) == [len |-> len, val |-> val]
one_field(a) == [size |-> a.len, fields |-> <<a>>]
two_fields(a, b) == [size |-> a.len + b.len, fields |-> <<a, b>>]
three_fields(a, b, c) == [size |-> a.len + b.len + c.len, fields |-> <<a, b, c>>]

\* Fields put one after another make the messages of the patterns.
LEMMA PutFields ==
    ASSUME NEW l \in Nat, l > 0, NEW v
    PROVE  /\ put(NoBytes, l, v) = one_field(field(l, v))
           /\ \A a : put(one_field(a), l, v) = two_fields(a, field(l, v))
           /\ \A a, b : put(two_fields(a, b), l, v) = three_fields(a, b, field(l, v))
<1>1. put(NoBytes, l, v) = one_field(field(l, v))
  BY DEF put, NoBytes, one_field, field
<1>2. \A a : put(one_field(a), l, v) = two_fields(a, field(l, v))
  <2>1. ASSUME NEW a, NEW b PROVE Append(<<a>>, b) = <<a, b>>
    <3>1. <<a>> \in Seq({a, b}) /\ <<a, b>> \in Seq({a, b}) /\ Len(<<a>>) = 1
      OBVIOUS
    <3>2. Append(<<a>>, b) \in Seq({a, b}) /\ Len(Append(<<a>>, b)) = 2
          /\ Append(<<a>>, b)[1] = a /\ Append(<<a>>, b)[2] = b
      BY <3>1, AppendProperties
    <3> DEFINE s == Append(<<a>>, b)
               t == <<a, b>>
    <3>3. Len(t) = 2 /\ t[1] = a /\ t[2] = b
      OBVIOUS
    <3> HIDE DEF s, t
    <3>4. Len(s) = Len(t) /\ \A i \in 1..Len(s) : s[i] = t[i]
      BY <3>2, <3>3 DEF s
    <3>5. s = t
      BY <3>1, <3>2, <3>4, SeqEqual DEF s, t
    <3> QED BY <3>5 DEF s, t
  <2> QED BY <2>1 DEF put, one_field, two_fields, field
<1>3. \A a, b : put(two_fields(a, b), l, v) = three_fields(a, b, field(l, v))
  <2>1. ASSUME NEW a, NEW b, NEW c PROVE Append(<<a, b>>, c) = <<a, b, c>>
    <3>1. <<a, b>> \in Seq({a, b, c}) /\ <<a, b, c>> \in Seq({a, b, c}) /\ Len(<<a, b>>) = 2
      OBVIOUS
    <3>2. Append(<<a, b>>, c) \in Seq({a, b, c}) /\ Len(Append(<<a, b>>, c)) = 3
          /\ Append(<<a, b>>, c)[1] = a /\ Append(<<a, b>>, c)[2] = b /\ Append(<<a, b>>, c)[3] = c
      BY <3>1, AppendProperties
    <3> DEFINE s == Append(<<a, b>>, c)
               t == <<a, b, c>>
    <3>3. Len(t) = 3 /\ t[1] = a /\ t[2] = b /\ t[3] = c
      OBVIOUS
    <3> HIDE DEF s, t
    <3>4. Len(s) = Len(t) /\ \A i \in 1..Len(s) : s[i] = t[i]
      BY <3>2, <3>3 DEF s
    <3>5. s = t
      BY <3>1, <3>2, <3>4, SeqEqual DEF s, t
    <3> QED BY <3>5 DEF s, t
  <2> QED BY <2>1 DEF put, two_fields, three_fields, field
<1> QED BY <1>1, <1>2, <1>3

\* A field is taken from the front of such a message as it was put.
LEMMA TakeFields ==
    ASSUME NEW l \in Nat, NEW v
    PROVE  /\ take(one_field(field(l, v)), l) = [val |-> v, rest |-> NoBytes]
           /\ \A k \in Nat : \A w :
                 take(two_fields(field(l, v), field(k, w)), l) = [val |-> v, rest |-> one_field(field(k, w))]
           /\ \A k, j \in Nat : \A w, x :
                 take(three_fields(field(l, v), field(k, w), field(j, x)), l) =
                    [val |-> v, rest |-> two_fields(field(k, w), field(j, x))]
<1>0. \A a : <<a>> # <<>> /\ Head(<<a>>) = a /\ Tail(<<a>>) = <<>>
  OBVIOUS
<1>1. \A a, b : <<a, b>> # <<>> /\ Head(<<a, b>>) = a /\ Tail(<<a, b>>) = <<b>>
  OBVIOUS
<1>2. \A a, b, c : <<a, b, c>> # <<>> /\ Head(<<a, b, c>>) = a /\ Tail(<<a, b, c>>) = <<b, c>>
  OBVIOUS
<1>3. take(one_field(field(l, v)), l) = [val |-> v, rest |-> NoBytes]
  BY <1>0 DEF take, aligned, one_field, field, NoBytes
<1>4. \A k \in Nat : \A w :
         take(two_fields(field(l, v), field(k, w)), l) = [val |-> v, rest |-> one_field(field(k, w))]
  BY <1>1 DEF take, aligned, one_field, two_fields, field
<1>5. \A k, j \in Nat : \A w, x :
         take(three_fields(field(l, v), field(k, w), field(j, x)), l) =
            [val |-> v, rest |-> two_fields(field(k, w), field(j, x))]
  BY <1>2 DEF take, aligned, two_fields, three_fields, field
<1> QED BY <1>3, <1>4, <1>5

\* The shape of a SymmetricState and has_key through its calls.
LEMMA SymmetricCalls ==
    ASSUME NEW s, IsSymmetric(s)
    PROVE  /\ \A d : IsSymmetric(mix_hash(s, d)) /\ mix_hash(s, d).cipher = s.cipher
           /\ \A d : IsSymmetric(mix_key(s, d)) /\ mix_key(s, d).cipher.has_key
           /\ \A p : LET e == encrypt_and_hash(s, p)
                     IN  IsSymmetric(e.sym) /\ (e.sym.cipher.has_key <=> s.cipher.has_key)
<1>1. \A d : IsSymmetric(mix_hash(s, d)) /\ mix_hash(s, d).cipher = s.cipher
  BY DEF IsSymmetric, mix_hash
<1>2. \A d : IsSymmetric(mix_key(s, d)) /\ mix_key(s, d).cipher.has_key
  BY DEF IsSymmetric, mix_key, initialize_key
<1>3. ASSUME NEW p PROVE LET e == encrypt_and_hash(s, p)
                     IN  IsSymmetric(e.sym) /\ (e.sym.cipher.has_key <=> s.cipher.has_key)
  <2>1. CASE s.cipher.has_key
    BY <2>1 DEF IsSymmetric, encrypt_and_hash, encrypt_with_ad, mix_hash
  <2>2. CASE ~s.cipher.has_key
    BY <2>2 DEF IsSymmetric, encrypt_and_hash, encrypt_with_ad, mix_hash
  <2> QED BY <2>1, <2>2
<1> QED BY <1>1, <1>2, <1>3

\* Two equal symmetric states: what one encrypts the other opens, and they
\* are equal again.
LEMMA OpensAgain ==
    ASSUME NEW s, IsSymmetric(s), NEW p
    PROVE  LET e == encrypt_and_hash(s, p)
               d == decrypt_and_hash(s, e.out)
           IN  d.ok /\ d.sym = e.sym /\ d.out = p
<1>1. CASE s.cipher.has_key
  BY <1>1 DEF IsSymmetric, encrypt_and_hash, encrypt_with_ad, decrypt_and_hash, decrypt_with_ad,
              opens, is_seal, seal, plaintext
<1>2. CASE ~s.cipher.has_key
  BY <1>2 DEF IsSymmetric, encrypt_and_hash, encrypt_with_ad, decrypt_and_hash, decrypt_with_ad
<1> QED BY <1>1, <1>2

\* A DH token with a usable key.
LEMMA MixedDh ==
    ASSUME NEW c, IsCall(c), c.ok, NEW sk \in {"s_sk", "e_sk"}, NEW pk \in {"rs", "re"}, c.hs[pk] # Zero
    PROVE  LET r == mix_dh(c, sk, pk)
           IN  /\ IsCall(r) /\ r.ok /\ r.bytes = c.bytes /\ Kept(r.hs, c.hs)
               /\ r.hs.symmetric = mix_key(c.hs.symmetric, dh(c.hs[sk], c.hs[pk]))
<1> DEFINE s == mix_key(c.hs.symmetric, dh(c.hs[sk], c.hs[pk]))
<1>1. mix_dh(c, sk, pk) = [c EXCEPT !.hs.symmetric = s]
  BY DEF mix_dh, dh_ok
<1>2. IsSymmetric(s)
  BY SymmetricCalls DEF IsCall, IsHandshake
<1> HIDE DEF s
<1>3. LET r == mix_dh(c, sk, pk)
      IN  /\ IsCall(r) /\ r.ok /\ r.bytes = c.bytes /\ Kept(r.hs, c.hs)
          /\ r.hs.symmetric = s
  BY <1>1, <1>2 DEF IsCall, IsHandshake, Kept, SameParty, SameOwn
<1> QED BY <1>3 DEF s

\* Token e of a writer.
LEMMA WroteE ==
    ASSUME NEW c, IsCall(c), c.ok, NEW e
    PROVE  LET r == write_e(c, e)
           IN  /\ IsCall(r) /\ r.ok /\ r.bytes = put(c.bytes, 32, e)
               /\ r.hs.symmetric = mix_hash(c.hs.symmetric, e)
               /\ r.hs.e_pk = e /\ r.hs.e_sk = e /\ SameParty(r.hs, c.hs)
               /\ r.hs.rs = c.hs.rs /\ r.hs.re = c.hs.re /\ r.hs.step = c.hs.step
<1>1. write_e(c, e).hs.symmetric = mix_hash(c.hs.symmetric, e)
  BY DEF write_e, IsCall, IsHandshake
<1> QED BY <1>1, WriteE

\* pt is sealed and the symmetric state is the one after it.
Sealing(c, pt, size) ==
    LET r == write_sealed(c, pt, size)
        e == encrypt_and_hash(c.hs.symmetric, pt)
    IN  /\ IsCall(r) /\ r.ok /\ Kept(r.hs, c.hs) /\ r.hs.symmetric = e.sym
        /\ r.bytes = put(c.bytes, sealed_size(c.hs.symmetric, size), e.out)

\* A sealed field of a writer.
LEMMA WroteSealed ==
    ASSUME NEW c, IsCall(c), c.ok, NEW pt, NEW size
    PROVE  Sealing(c, pt, size)
<1> DEFINE out == encrypt_and_hash(c.hs.symmetric, pt)
           n == sealed_size(c.hs.symmetric, size)
           w == write_sealed(c, pt, size)
<1>1. w = [c EXCEPT !.hs.symmetric = out.sym, !.bytes = put(@, n, out.out)]
  BY DEF write_sealed, IsCall
<1>2. IsSymmetric(out.sym)
  BY SymmetricCalls DEF IsCall, IsHandshake
<1> HIDE DEF out, n, w
<1>3. IsCall(w) /\ w.ok /\ Kept(w.hs, c.hs) /\ w.hs.symmetric = out.sym
  BY <1>1, <1>2 DEF IsCall, IsHandshake, Kept, SameParty, SameOwn
<1>4. w.bytes = put(c.bytes, n, out.out)
  BY <1>1 DEF IsCall
<1> QED BY <1>3, <1>4 DEF out, n, w, Sealing

\* Token e of a reader.
LEMMA GotE ==
    ASSUME NEW c, IsCall(c), c.ok, NEW v, NEW b, ~(c.bytes.size < 32),
           take(c.bytes, 32) = [val |-> v, rest |-> b]
    PROVE  LET r == read_e(c)
           IN  /\ IsCall(r) /\ r.ok /\ r.bytes = b
               /\ r.hs.symmetric = mix_hash(c.hs.symmetric, v) /\ r.hs.re = v
               /\ SameParty(r.hs, c.hs) /\ SameOwn(r.hs, c.hs)
               /\ r.hs.rs = c.hs.rs /\ r.hs.step = c.hs.step
<1> DEFINE r == read_e(c)
           s == mix_hash(c.hs.symmetric, v)
           g == [c.hs EXCEPT !.re = v, !.symmetric = s]
<1> DEFINE t == take(c.bytes, 32)
<1>0. t.val = v /\ t.rest = b
  OBVIOUS
<1> HIDE DEF t
<1>1. r = [c EXCEPT !.hs.re = t.val, !.hs.symmetric = mix_hash(@, t.val), !.bytes = t.rest]
  BY DEF read_e, DH_PUBLIC_KEY_BYTES, t
<1>2. IsSymmetric(s)
  BY SymmetricCalls DEF IsCall, IsHandshake
<1> HIDE DEF r
<1>3. r.ok /\ r.bytes = b /\ DOMAIN r = {"ok", "hs", "bytes"}
  BY <1>0, <1>1 DEF IsCall
<1>4. r.hs = g
  BY <1>0, <1>1 DEF IsCall, IsHandshake
<1> HIDE DEF s
<1>5. /\ IsHandshake(g) /\ g.symmetric = s /\ g.re = v
      /\ SameParty(g, c.hs) /\ SameOwn(g, c.hs) /\ g.rs = c.hs.rs /\ g.step = c.hs.step
  BY <1>2 DEF IsCall, IsHandshake, SameParty, SameOwn
<1> HIDE DEF g
<1> QED BY <1>3, <1>4, <1>5 DEF IsCall, r, s

\* Token s of a reader, for a field that the same state sealed.
LEMMA GotStatic ==
    ASSUME NEW c, IsCall(c), c.ok, NEW p, ~(c.bytes.size < 48),
           c.hs.symmetric.cipher.has_key,
           take(c.bytes, 48).val = encrypt_and_hash(c.hs.symmetric, p).out
    PROVE  LET r == read_encrypted_static(c)
           IN  /\ IsCall(r) /\ r.ok /\ r.bytes = take(c.bytes, 48).rest
               /\ r.hs.symmetric = encrypt_and_hash(c.hs.symmetric, p).sym /\ r.hs.rs = p
               /\ SameParty(r.hs, c.hs) /\ SameOwn(r.hs, c.hs)
               /\ r.hs.re = c.hs.re /\ r.hs.step = c.hs.step
<1> DEFINE r == read_encrypted_static(c)
           s == encrypt_and_hash(c.hs.symmetric, p).sym
           v == encrypt_and_hash(c.hs.symmetric, p).out
           g == [c.hs EXCEPT !.symmetric = s, !.rs = p, !.rs_known = TRUE]
           d == decrypt_and_hash(c.hs.symmetric, v)
<1>1. IsSymmetric(c.hs.symmetric)
  BY DEF IsCall, IsHandshake
<1>2. d.ok /\ d.sym = s /\ d.out = p /\ IsSymmetric(s)
  BY <1>1, OpensAgain, SymmetricCalls
<1> DEFINE t == take(c.bytes, 48)
           b == t.rest
           q == decrypt_and_hash(c.hs.symmetric, t.val)
<1>0. t.val = v /\ t.rest = b
  OBVIOUS
<1> HIDE DEF s, v, t, b
<1>7. q = d
  BY <1>0
<1> HIDE DEF d
<1>8. q.ok
  BY <1>2, <1>7
<1>9. r = [c EXCEPT !.hs.symmetric = q.sym, !.hs.rs = q.out, !.hs.rs_known = TRUE, !.bytes = t.rest]
  BY <1>8 DEF read_encrypted_static, sealed_size, DH_PUBLIC_KEY_BYTES, AEAD_TAG_BYTES, t
<1> HIDE DEF q
<1>3. r = [c EXCEPT !.hs.symmetric = d.sym, !.hs.rs = d.out, !.hs.rs_known = TRUE, !.bytes = b]
  BY <1>0, <1>7, <1>9
<1> HIDE DEF r
<1>4. r.ok /\ r.bytes = b /\ DOMAIN r = {"ok", "hs", "bytes"}
  BY <1>3 DEF IsCall
<1>5. r.hs = g
  BY <1>2, <1>3 DEF IsCall, IsHandshake
<1>6. /\ IsHandshake(g) /\ g.symmetric = s /\ g.rs = p
      /\ SameParty(g, c.hs) /\ SameOwn(g, c.hs) /\ g.re = c.hs.re /\ g.step = c.hs.step
  BY <1>2 DEF IsCall, IsHandshake, SameParty, SameOwn
<1> HIDE DEF g
<1> QED BY <1>4, <1>5, <1>6 DEF IsCall, r, s, b, t

\* The payload of a reader, for what the same state sealed.
LEMMA GotPayload ==
    ASSUME NEW c, IsCall(c), c.ok,
           remainder(c.bytes) = encrypt_and_hash(c.hs.symmetric, Empty).out
    PROVE  LET r == read_payload(c)
           IN  /\ IsCall(r) /\ r.ok
               /\ r.hs.symmetric = encrypt_and_hash(c.hs.symmetric, Empty).sym
               /\ Kept(r.hs, c.hs)
<1> DEFINE r == read_payload(c)
           s == encrypt_and_hash(c.hs.symmetric, Empty).sym
           v == encrypt_and_hash(c.hs.symmetric, Empty).out
           g == [c.hs EXCEPT !.symmetric = s]
           d == decrypt_and_hash(c.hs.symmetric, v)
<1>1. IsSymmetric(c.hs.symmetric)
  BY DEF IsCall, IsHandshake
<1>2. d.ok /\ d.sym = s /\ IsSymmetric(s)
  BY <1>1, OpensAgain, SymmetricCalls
<1> HIDE DEF s, d, v
<1>3. r = [c EXCEPT !.ok = d.ok, !.hs.symmetric = d.sym, !.bytes = NoBytes]
  BY DEF read_payload, d, v
<1> HIDE DEF r
<1>4. r.ok /\ DOMAIN r = {"ok", "hs", "bytes"}
  BY <1>2, <1>3 DEF IsCall
<1>5. r.hs = g
  BY <1>2, <1>3 DEF IsCall, IsHandshake
<1>6. /\ IsHandshake(g) /\ g.symmetric = s /\ Kept(g, c.hs)
  BY <1>2 DEF IsCall, IsHandshake, SameParty, SameOwn, Kept
<1> HIDE DEF g
<1> QED BY <1>4, <1>5, <1>6 DEF IsCall, r, s

\* The bytes left when the payload is read.
LEMMA Remains == remainder(NoBytes) = Empty /\ \A v : remainder(one_field(field(16, v))) = v
<1>1. \A a : Len(<<a>>) = 1 /\ Head(<<a>>) = a
  OBVIOUS
<1> QED BY <1>1 DEF remainder, NoBytes, one_field, field

\* w has written m and r has read it as x.
Talked(w, r, m, x) ==
    /\ m.ok /\ x.ok /\ IsHandshake(m.hs) /\ IsHandshake(x.hs)
    /\ m.hs.symmetric = x.hs.symmetric
    /\ m.hs.step = w.step + 1 /\ x.hs.step = r.step + 1
    /\ SameParty(m.hs, w) /\ SameParty(x.hs, r)
    /\ DOMAIN m.bytes = {"size", "fields"}

\* Two objects of pattern p between which message n is due.
Ends(w, r, p, n) ==
    /\ IsHandshake(w) /\ IsHandshake(r) /\ w.symmetric = r.symmetric
    /\ w.pattern = p /\ r.pattern = p /\ w.step = n /\ r.step = n
    /\ w.initiator \in BOOLEAN /\ r.initiator = ~w.initiator
    /\ w.s_sk = w.s_pk /\ r.s_sk = r.s_pk /\ w.s_pk # Zero /\ r.s_pk # Zero

\* Both ends compute the same secret.
LEMMA SecretOfBoth == \A a, b : dh(a, b) = dh(b, a)
  BY DEF dh

\* XX, message 1: e.
LEMMA TalkXX1 ==
    ASSUME NEW w, NEW r, Ends(w, r, "XX", 0), ~w.symmetric.cipher.has_key, NEW e
    PROVE  LET m == write_message(w, e)
               x == read_message(r, m.bytes)
           IN  /\ Talked(w, r, m, x) /\ ~m.hs.symmetric.cipher.has_key
               /\ m.hs.e_sk = e /\ x.hs.re = e
<1> USE DEF Ends
<1> DEFINE c == call(w, NoBytes)
           c1 == write_e(c, e)
           c2 == encrypt_payload(c1)
           c3 == advance(c2)
<1>1. write_message(w, e) = c3
  BY Steps DEF write_message, is_complete
<1>2. IsCall(c) /\ c.ok /\ c.hs = w /\ c.bytes = NoBytes
  BY NewCall
<1> HIDE DEF c
<1>3. /\ IsCall(c1) /\ c1.ok /\ c1.bytes = put(NoBytes, 32, e)
      /\ c1.hs.symmetric = mix_hash(w.symmetric, e)
      /\ c1.hs.e_sk = e /\ SameParty(c1.hs, w) /\ c1.hs.step = 0
  BY <1>2, WroteE
<1> HIDE DEF c1
<1> DEFINE s1 == mix_hash(w.symmetric, e)
<1>4. IsSymmetric(s1) /\ ~s1.cipher.has_key
  BY SymmetricCalls DEF IsHandshake
<1> HIDE DEF s1
<1> DEFINE v == encrypt_and_hash(s1, Empty)
<1>5. /\ IsCall(c2) /\ c2.ok /\ Kept(c2.hs, c1.hs) /\ c2.hs.symmetric = v.sym
      /\ c2.bytes = put(c1.bytes, sealed_size(s1, 0), v.out)
  BY <1>3, WroteSealed DEF Sealing, encrypt_payload, s1
<1>6. c2.bytes = one_field(field(32, e)) /\ v.out = Empty /\ ~v.sym.cipher.has_key
  <2>1. v.out = Empty /\ ~v.sym.cipher.has_key
    BY <1>4, SymmetricCalls DEF encrypt_and_hash, encrypt_with_ad
  <2>2. sealed_size(s1, 0) = 0
    BY <1>4 DEF sealed_size
  <2>3. put(NoBytes, 32, e) = one_field(field(32, e))
    BY PutFields
  <2>4. c2.bytes = c1.bytes
    BY <1>5, <2>2 DEF put
  <2> QED BY <1>3, <2>1, <2>3, <2>4
<1> HIDE DEF c2, v
<1>7. /\ IsCall(c3) /\ c3.ok /\ c3.bytes = one_field(field(32, e)) /\ c3.hs.step = 1
      /\ SameParty(c3.hs, w) /\ c3.hs.symmetric = v.sym /\ c3.hs.e_sk = e
  BY <1>3, <1>5, <1>6, Advanced DEF Kept, SameParty, SameOwn
<1> HIDE DEF c3
<1> DEFINE d == call(r, one_field(field(32, e)))
           d1 == read_e(d)
           d2 == read_payload(d1)
           d3 == advance(d2)
<1>8. read_message(r, one_field(field(32, e))) = d3
  BY Steps DEF read_message, is_complete
<1>9. IsCall(d) /\ d.ok /\ d.hs = r /\ d.bytes = one_field(field(32, e))
  BY NewCall
<1>10. d.bytes.size = 32 /\ take(d.bytes, 32) = [val |-> e, rest |-> NoBytes]
  <2>1. one_field(field(32, e)).size = 32
    BY DEF one_field, field
  <2> QED BY <1>9, <2>1, TakeFields
<1> HIDE DEF d
<1>11. /\ IsCall(d1) /\ d1.ok /\ d1.bytes = NoBytes
       /\ d1.hs.symmetric = s1 /\ d1.hs.re = e /\ SameParty(d1.hs, r) /\ d1.hs.step = 0
  BY <1>9, <1>10, GotE DEF s1
<1> HIDE DEF d1
<1>12. /\ IsCall(d2) /\ d2.ok /\ d2.hs.symmetric = v.sym /\ Kept(d2.hs, d1.hs)
  BY <1>6, <1>11, GotPayload, Remains DEF v
<1> HIDE DEF d2
<1>13. /\ IsCall(d3) /\ d3.ok /\ d3.hs.step = 1 /\ SameParty(d3.hs, r) /\ d3.hs.symmetric = v.sym
       /\ d3.hs.re = e
  BY <1>11, <1>12, Advanced DEF Kept, SameParty, SameOwn
<1> HIDE DEF d3
<1>14. DOMAIN one_field(field(32, e)) = {"size", "fields"}
  BY DEF one_field
<1> QED BY <1>1, <1>6, <1>7, <1>8, <1>13, <1>14 DEF Talked, IsCall

\* The payload is done and the step counted.
After(c, d) ==
    /\ IsCall(d) /\ d.ok /\ d.hs.step = c.hs.step + 1
    /\ SameParty(d.hs, c.hs) /\ SameOwn(d.hs, c.hs) /\ d.hs.rs = c.hs.rs /\ d.hs.re = c.hs.re

\* The end of a write.
LEMMA SealPayload ==
    ASSUME NEW c, IsCall(c), c.ok, c.hs.symmetric.cipher.has_key
    PROVE  LET out == encrypt_and_hash(c.hs.symmetric, Empty)
               d   == advance(encrypt_payload(c))
           IN  /\ After(c, d) /\ d.bytes = put(c.bytes, 16, out.out)
               /\ d.hs.symmetric = out.sym /\ d.hs.symmetric.cipher.has_key
<1> DEFINE out == encrypt_and_hash(c.hs.symmetric, Empty)
           f   == encrypt_payload(c)
           d   == advance(f)
<1>1. /\ IsCall(f) /\ f.ok /\ Kept(f.hs, c.hs) /\ f.hs.symmetric = out.sym
      /\ f.bytes = put(c.bytes, sealed_size(c.hs.symmetric, 0), out.out)
  BY WroteSealed DEF Sealing, encrypt_payload
<1>2. sealed_size(c.hs.symmetric, 0) = 16
  BY DEF sealed_size, AEAD_TAG_BYTES
<1>3. out.sym.cipher.has_key
  BY SymmetricCalls DEF IsCall, IsHandshake
<1> HIDE DEF out, f
<1>4. After(c, d) /\ d.bytes = f.bytes /\ d.hs.symmetric = out.sym
  BY <1>1, Advanced DEF After, Kept, SameParty, SameOwn
<1> HIDE DEF d
<1> QED BY <1>1, <1>2, <1>3, <1>4 DEF out, d, f

\* The end of a read.
LEMMA OpenPayload ==
    ASSUME NEW c, IsCall(c), c.ok, c.bytes = one_field(field(16, encrypt_and_hash(c.hs.symmetric, Empty).out))
    PROVE  LET d == advance(read_payload(c))
           IN  /\ After(c, d) /\ d.hs.symmetric = encrypt_and_hash(c.hs.symmetric, Empty).sym
<1> DEFINE f == read_payload(c)
           d == advance(f)
<1>1. /\ IsCall(f) /\ f.ok /\ f.hs.symmetric = encrypt_and_hash(c.hs.symmetric, Empty).sym
      /\ Kept(f.hs, c.hs)
  BY GotPayload, Remains
<1> HIDE DEF f
<1>2. After(c, d) /\ d.hs.symmetric = f.hs.symmetric
  BY <1>1, Advanced DEF After, Kept, SameParty, SameOwn
<1> QED BY <1>1, <1>2 DEF f

\* Token s of a writer.
LEMMA SealStatic ==
    ASSUME NEW c, IsCall(c), c.ok, c.hs.symmetric.cipher.has_key
    PROVE  LET out == encrypt_and_hash(c.hs.symmetric, c.hs.s_pk)
               d   == encrypt_static(c)
           IN  /\ IsCall(d) /\ d.ok /\ Kept(d.hs, c.hs) /\ d.hs.symmetric = out.sym
               /\ d.bytes = put(c.bytes, 48, out.out) /\ out.sym.cipher.has_key
<1> DEFINE out == encrypt_and_hash(c.hs.symmetric, c.hs.s_pk)
           d   == encrypt_static(c)
<1>1. /\ IsCall(d) /\ d.ok /\ Kept(d.hs, c.hs) /\ d.hs.symmetric = out.sym
      /\ d.bytes = put(c.bytes, sealed_size(c.hs.symmetric, 32), out.out)
  BY WroteSealed DEF Sealing, encrypt_static, DH_PUBLIC_KEY_BYTES
<1>2. sealed_size(c.hs.symmetric, 32) = 48
  BY DEF sealed_size, AEAD_TAG_BYTES
<1>3. out.sym.cipher.has_key
  BY SymmetricCalls DEF IsCall, IsHandshake
<1> QED BY <1>1, <1>2, <1>3

\* XX, message 2: e, ee, s, es.
LEMMA TalkXX2 ==
    ASSUME NEW w, NEW r, Ends(w, r, "XX", 1), NEW e, e # Zero,
           w.re # Zero, r.e_sk = w.re
    PROVE  LET m == write_message(w, e)
               x == read_message(r, m.bytes)
           IN  /\ Talked(w, r, m, x) /\ m.hs.symmetric.cipher.has_key
               /\ m.hs.e_sk = e /\ x.hs.re = e
<1> USE DEF Ends
<1> DEFINE c  == call(w, NoBytes)
           c1 == write_e(c, e)
           c2 == mix_dh(c1, "e_sk", "re")
           c3 == encrypt_static(c2)
           c4 == mix_dh(c3, "s_sk", "re")
           c5 == advance(encrypt_payload(c4))
           s1 == mix_hash(w.symmetric, e)
           s2 == mix_key(s1, dh(e, w.re))
           a  == encrypt_and_hash(s2, w.s_pk)
           s4 == mix_key(a.sym, dh(w.s_pk, w.re))
           b  == encrypt_and_hash(s4, Empty)
           bytes == three_fields(field(32, e), field(48, a.out), field(16, b.out))
<1>1. write_message(w, e) = c5
  BY Steps DEF write_message, is_complete
<1>2. IsCall(c) /\ c.ok /\ c.hs = w /\ c.bytes = NoBytes
  BY NewCall
<1> HIDE DEF c
<1>3. /\ IsCall(c1) /\ c1.ok /\ c1.bytes = put(NoBytes, 32, e) /\ c1.hs.symmetric = s1
      /\ c1.hs.e_sk = e /\ SameParty(c1.hs, w) /\ c1.hs.step = 1 /\ c1.hs.re = w.re
  BY <1>2, WroteE
<1>4. IsSymmetric(s1)
  BY SymmetricCalls DEF IsHandshake
<1> HIDE DEF c1, s1
<1>5. /\ IsCall(c2) /\ c2.ok /\ c2.bytes = put(NoBytes, 32, e) /\ Kept(c2.hs, c1.hs)
      /\ c2.hs.symmetric = s2
  BY <1>3, MixedDh
<1>6. IsSymmetric(s2) /\ s2.cipher.has_key
  BY <1>4, SymmetricCalls
<1> HIDE DEF c2, s2
<1>7. c2.hs.s_pk = w.s_pk /\ c2.hs.s_sk = w.s_pk /\ c2.hs.re = w.re
  BY <1>3, <1>5 DEF Kept, SameParty
<1>8. /\ IsCall(c3) /\ c3.ok /\ Kept(c3.hs, c2.hs) /\ c3.hs.symmetric = a.sym
      /\ c3.bytes = put(c2.bytes, 48, a.out) /\ a.sym.cipher.has_key
  BY <1>5, <1>6, <1>7, SealStatic
<1>9. IsSymmetric(a.sym)
  BY <1>6, SymmetricCalls
<1> HIDE DEF c3, a
<1>10. c3.hs.s_sk = w.s_pk /\ c3.hs.re = w.re
  BY <1>7, <1>8 DEF Kept, SameParty
<1>11. /\ IsCall(c4) /\ c4.ok /\ c4.bytes = c3.bytes /\ Kept(c4.hs, c3.hs)
       /\ c4.hs.symmetric = s4
  BY <1>8, <1>10, MixedDh
<1>12. IsSymmetric(s4) /\ s4.cipher.has_key
  BY <1>9, SymmetricCalls
<1> HIDE DEF c4, s4
<1>13. /\ After(c4, c5) /\ c5.bytes = put(c4.bytes, 16, b.out)
       /\ c5.hs.symmetric = b.sym /\ b.sym.cipher.has_key
  BY <1>11, <1>12, SealPayload
<1> HIDE DEF c5, b
<1>14. c5.bytes = bytes
  BY <1>5, <1>8, <1>11, <1>13, PutFields
<1>15. c5.hs.e_sk = e /\ SameParty(c5.hs, w) /\ c5.hs.step = 2
  BY <1>3, <1>5, <1>8, <1>11, <1>13 DEF After, Kept, SameParty, SameOwn
<1> DEFINE d  == call(r, bytes)
           d1 == read_e(d)
           d2 == mix_dh(d1, "e_sk", "re")
           d3 == read_encrypted_static(d2)
           d4 == mix_dh(d3, "e_sk", "rs")
           d5 == advance(read_payload(d4))
<1>16. read_message(r, bytes) = d5
  BY Steps DEF read_message, is_complete
<1>17. IsCall(d) /\ d.ok /\ d.hs = r /\ d.bytes = bytes
  BY NewCall
<1>18. /\ ~(d.bytes.size < 32)
       /\ take(d.bytes, 32) = [val |-> e, rest |-> two_fields(field(48, a.out), field(16, b.out))]
  <2>1. bytes.size = 96
    BY DEF three_fields, field
  <2> QED BY <1>17, <2>1, TakeFields
<1> HIDE DEF d
<1>19. /\ IsCall(d1) /\ d1.ok /\ d1.bytes = two_fields(field(48, a.out), field(16, b.out))
       /\ d1.hs.symmetric = s1 /\ d1.hs.re = e /\ SameParty(d1.hs, r) /\ SameOwn(d1.hs, r)
       /\ d1.hs.step = 1
  BY <1>17, <1>18, GotE DEF s1
<1> HIDE DEF d1
<1>20. /\ IsCall(d2) /\ d2.ok /\ d2.bytes = d1.bytes /\ Kept(d2.hs, d1.hs)
       /\ d2.hs.symmetric = mix_key(s1, dh(d1.hs.e_sk, d1.hs.re))
  BY <1>19, MixedDh
<1>21. d2.hs.symmetric = s2 /\ d2.hs.e_sk = w.re
  BY <1>19, <1>20, SecretOfBoth DEF s2, SameOwn, Kept
<1> HIDE DEF d2
<1>22. /\ ~(d2.bytes.size < 48)
       /\ take(d2.bytes, 48) = [val |-> a.out, rest |-> one_field(field(16, b.out))]
  <2>1. two_fields(field(48, a.out), field(16, b.out)).size = 64
    BY DEF two_fields, field
  <2> QED BY <1>19, <1>20, <2>1, TakeFields
<1>23. /\ IsCall(d3) /\ d3.ok /\ d3.bytes = one_field(field(16, b.out))
       /\ d3.hs.symmetric = a.sym /\ d3.hs.rs = w.s_pk
       /\ SameParty(d3.hs, d2.hs) /\ SameOwn(d3.hs, d2.hs)
       /\ d3.hs.re = d2.hs.re /\ d3.hs.step = d2.hs.step
  <2>1. a = encrypt_and_hash(d2.hs.symmetric, w.s_pk) /\ d2.hs.symmetric.cipher.has_key
    BY <1>6, <1>21 DEF a
  <2>2. /\ take(d2.bytes, 48).val = encrypt_and_hash(d2.hs.symmetric, w.s_pk).out
        /\ take(d2.bytes, 48).rest = one_field(field(16, b.out))
    BY <1>22, <2>1
  <2>3. /\ IsCall(d3) /\ d3.ok /\ d3.bytes = one_field(field(16, b.out))
        /\ d3.hs.symmetric = encrypt_and_hash(d2.hs.symmetric, w.s_pk).sym /\ d3.hs.rs = w.s_pk
        /\ SameParty(d3.hs, d2.hs) /\ SameOwn(d3.hs, d2.hs)
        /\ d3.hs.re = d2.hs.re /\ d3.hs.step = d2.hs.step
    BY <1>20, <1>22, <2>1, <2>2, GotStatic
  <2> QED BY <1>20, <2>1, <2>3
<1> HIDE DEF d3
<1>24. /\ IsCall(d4) /\ d4.ok /\ d4.bytes = d3.bytes /\ Kept(d4.hs, d3.hs)
       /\ d4.hs.symmetric = mix_key(a.sym, dh(d3.hs.e_sk, d3.hs.rs))
  BY <1>23, MixedDh
<1>25. d4.hs.symmetric = s4
  BY <1>21, <1>23, <1>24, SecretOfBoth DEF s4, SameOwn
<1> HIDE DEF d4
<1>26. After(d4, d5) /\ d5.hs.symmetric = b.sym
  BY <1>23, <1>24, <1>25, OpenPayload DEF b
<1> HIDE DEF d5
<1>27. d5.hs.re = e /\ SameParty(d5.hs, r) /\ d5.hs.step = 2
  BY <1>19, <1>20, <1>23, <1>24, <1>26 DEF After, Kept, SameParty, SameOwn
<1>28. DOMAIN bytes = {"size", "fields"}
  BY DEF three_fields
<1> QED BY <1>1, <1>13, <1>14, <1>15, <1>16, <1>26, <1>27, <1>28 DEF Talked, IsCall, After

\* XX, message 3: s, se.
LEMMA TalkXX3 ==
    ASSUME NEW w, NEW r, Ends(w, r, "XX", 2), w.symmetric.cipher.has_key,
           NEW e, w.re # Zero, r.e_sk = w.re
    PROVE  LET m == write_message(w, e)
               x == read_message(r, m.bytes)
           IN  Talked(w, r, m, x)
<1> USE DEF Ends
<1> DEFINE c  == call(w, NoBytes)
           c3 == encrypt_static(c)
           c4 == mix_dh(c3, "s_sk", "re")
           c5 == advance(encrypt_payload(c4))
           a  == encrypt_and_hash(w.symmetric, w.s_pk)
           s4 == mix_key(a.sym, dh(w.s_pk, w.re))
           b  == encrypt_and_hash(s4, Empty)
           bytes == two_fields(field(48, a.out), field(16, b.out))
<1>1. write_message(w, e) = c5
  BY Steps DEF write_message, is_complete
<1>2. IsCall(c) /\ c.ok /\ c.hs = w /\ c.bytes = NoBytes
  BY NewCall
<1> HIDE DEF c
<1>8. /\ IsCall(c3) /\ c3.ok /\ Kept(c3.hs, w) /\ c3.hs.symmetric = a.sym
      /\ c3.bytes = put(NoBytes, 48, a.out) /\ a.sym.cipher.has_key
  BY <1>2, SealStatic
<1>9. IsSymmetric(a.sym)
  BY SymmetricCalls DEF IsHandshake
<1> HIDE DEF c3, a
<1>10. c3.hs.s_sk = w.s_pk /\ c3.hs.re = w.re
  BY <1>8 DEF Kept, SameParty
<1>11. /\ IsCall(c4) /\ c4.ok /\ c4.bytes = c3.bytes /\ Kept(c4.hs, c3.hs)
       /\ c4.hs.symmetric = s4
  BY <1>8, <1>10, MixedDh
<1>12. IsSymmetric(s4) /\ s4.cipher.has_key
  BY <1>9, SymmetricCalls
<1> HIDE DEF c4, s4
<1>13. /\ After(c4, c5) /\ c5.bytes = put(c4.bytes, 16, b.out)
       /\ c5.hs.symmetric = b.sym /\ b.sym.cipher.has_key
  BY <1>11, <1>12, SealPayload
<1> HIDE DEF c5, b
<1>14. c5.bytes = bytes
  BY <1>8, <1>11, <1>13, PutFields
<1>15. SameParty(c5.hs, w) /\ c5.hs.step = 3
  BY <1>8, <1>11, <1>13 DEF After, Kept, SameParty, SameOwn
<1> DEFINE d  == call(r, bytes)
           d3 == read_encrypted_static(d)
           d4 == mix_dh(d3, "e_sk", "rs")
           d5 == advance(read_payload(d4))
<1>16. read_message(r, bytes) = d5
  BY Steps DEF read_message, is_complete
<1>17. IsCall(d) /\ d.ok /\ d.hs = r /\ d.bytes = bytes
  BY NewCall
<1>22. /\ ~(d.bytes.size < 48)
       /\ take(d.bytes, 48) = [val |-> a.out, rest |-> one_field(field(16, b.out))]
  <2>1. two_fields(field(48, a.out), field(16, b.out)).size = 64
    BY DEF two_fields, field
  <2> QED BY <1>17, <2>1, TakeFields
<1> HIDE DEF d
<1>23. /\ IsCall(d3) /\ d3.ok /\ d3.bytes = one_field(field(16, b.out))
       /\ d3.hs.symmetric = a.sym /\ d3.hs.rs = w.s_pk
       /\ SameParty(d3.hs, r) /\ SameOwn(d3.hs, r) /\ d3.hs.step = 2
  <2>1. a = encrypt_and_hash(d.hs.symmetric, w.s_pk) /\ d.hs.symmetric.cipher.has_key
    BY <1>17 DEF a
  <2>2. /\ take(d.bytes, 48).val = encrypt_and_hash(d.hs.symmetric, w.s_pk).out
        /\ take(d.bytes, 48).rest = one_field(field(16, b.out))
    BY <1>22, <2>1
  <2>3. /\ IsCall(d3) /\ d3.ok /\ d3.bytes = one_field(field(16, b.out))
        /\ d3.hs.symmetric = encrypt_and_hash(d.hs.symmetric, w.s_pk).sym /\ d3.hs.rs = w.s_pk
        /\ SameParty(d3.hs, d.hs) /\ SameOwn(d3.hs, d.hs)
        /\ d3.hs.re = d.hs.re /\ d3.hs.step = d.hs.step
    BY <1>17, <1>22, <2>1, <2>2, GotStatic
  <2> QED BY <1>17, <2>1, <2>3
<1> HIDE DEF d3
<1>24. /\ IsCall(d4) /\ d4.ok /\ d4.bytes = d3.bytes /\ Kept(d4.hs, d3.hs)
       /\ d4.hs.symmetric = mix_key(a.sym, dh(d3.hs.e_sk, d3.hs.rs))
  BY <1>23, MixedDh
<1>25. d4.hs.symmetric = s4
  BY <1>23, <1>24, SecretOfBoth DEF s4, SameOwn
<1> HIDE DEF d4
<1>26. After(d4, d5) /\ d5.hs.symmetric = b.sym
  BY <1>23, <1>24, <1>25, OpenPayload DEF b
<1> HIDE DEF d5
<1>27. SameParty(d5.hs, r) /\ d5.hs.step = 3
  BY <1>23, <1>24, <1>26 DEF After, Kept, SameParty, SameOwn
<1>28. DOMAIN bytes = {"size", "fields"}
  BY DEF two_fields
<1> QED BY <1>1, <1>13, <1>14, <1>15, <1>16, <1>26, <1>27, <1>28 DEF Talked, IsCall, After

\* IK, message 1: e, es, s, ss.  The initiator has the static of the
\* responder.
LEMMA TalkIK1 ==
    ASSUME NEW w, NEW r, Ends(w, r, "IK", 0), NEW e, e # Zero, w.rs = r.s_pk
    PROVE  LET m == write_message(w, e)
               x == read_message(r, m.bytes)
           IN  /\ Talked(w, r, m, x)
               /\ m.hs.e_sk = e /\ m.hs.rs = r.s_pk /\ x.hs.re = e
<1> USE DEF Ends
<1> DEFINE c  == call(w, NoBytes)
           c1 == write_e(c, e)
           c2 == mix_dh(c1, "e_sk", "rs")
           c3 == encrypt_static(c2)
           c4 == mix_dh(c3, "s_sk", "rs")
           c5 == advance(encrypt_payload(c4))
           s1 == mix_hash(w.symmetric, e)
           s2 == mix_key(s1, dh(e, r.s_pk))
           a  == encrypt_and_hash(s2, w.s_pk)
           s4 == mix_key(a.sym, dh(w.s_pk, r.s_pk))
           b  == encrypt_and_hash(s4, Empty)
           bytes == three_fields(field(32, e), field(48, a.out), field(16, b.out))
<1>1. write_message(w, e) = c5
  BY Steps DEF write_message, is_complete
<1>2. IsCall(c) /\ c.ok /\ c.hs = w /\ c.bytes = NoBytes
  BY NewCall
<1> HIDE DEF c
<1>3. /\ IsCall(c1) /\ c1.ok /\ c1.bytes = put(NoBytes, 32, e) /\ c1.hs.symmetric = s1
      /\ c1.hs.e_sk = e /\ SameParty(c1.hs, w) /\ c1.hs.step = 0 /\ c1.hs.rs = r.s_pk
  BY <1>2, WroteE
<1>4. IsSymmetric(s1)
  BY SymmetricCalls DEF IsHandshake
<1> HIDE DEF c1, s1
<1>5. /\ IsCall(c2) /\ c2.ok /\ c2.bytes = put(NoBytes, 32, e) /\ Kept(c2.hs, c1.hs)
      /\ c2.hs.symmetric = s2
  BY <1>3, MixedDh
<1>6. IsSymmetric(s2) /\ s2.cipher.has_key
  BY <1>4, SymmetricCalls
<1> HIDE DEF c2, s2
<1>7. c2.hs.s_pk = w.s_pk /\ c2.hs.s_sk = w.s_pk /\ c2.hs.rs = r.s_pk
  BY <1>3, <1>5 DEF Kept, SameParty
<1>8. /\ IsCall(c3) /\ c3.ok /\ Kept(c3.hs, c2.hs) /\ c3.hs.symmetric = a.sym
      /\ c3.bytes = put(c2.bytes, 48, a.out) /\ a.sym.cipher.has_key
  BY <1>5, <1>6, <1>7, SealStatic
<1>9. IsSymmetric(a.sym)
  BY <1>6, SymmetricCalls
<1> HIDE DEF c3, a
<1>10. c3.hs.s_sk = w.s_pk /\ c3.hs.rs = r.s_pk
  BY <1>7, <1>8 DEF Kept, SameParty
<1>11. /\ IsCall(c4) /\ c4.ok /\ c4.bytes = c3.bytes /\ Kept(c4.hs, c3.hs)
       /\ c4.hs.symmetric = s4
  BY <1>8, <1>10, MixedDh
<1>12. IsSymmetric(s4) /\ s4.cipher.has_key
  BY <1>9, SymmetricCalls
<1> HIDE DEF c4, s4
<1>13. /\ After(c4, c5) /\ c5.bytes = put(c4.bytes, 16, b.out)
       /\ c5.hs.symmetric = b.sym /\ b.sym.cipher.has_key
  BY <1>11, <1>12, SealPayload
<1> HIDE DEF c5, b
<1>14. c5.bytes = bytes
  BY <1>5, <1>8, <1>11, <1>13, PutFields
<1>15. c5.hs.e_sk = e /\ c5.hs.rs = r.s_pk /\ SameParty(c5.hs, w) /\ c5.hs.step = 1
  BY <1>3, <1>5, <1>8, <1>11, <1>13 DEF After, Kept, SameParty, SameOwn
<1> DEFINE d  == call(r, bytes)
           d1 == read_e(d)
           d2 == mix_dh(d1, "s_sk", "re")
           d3 == read_encrypted_static(d2)
           d4 == mix_dh(d3, "s_sk", "rs")
           d5 == advance(read_payload(d4))
<1>16. read_message(r, bytes) = d5
  BY Steps DEF read_message, is_complete
<1>17. IsCall(d) /\ d.ok /\ d.hs = r /\ d.bytes = bytes
  BY NewCall
<1>18. /\ ~(d.bytes.size < 32)
       /\ take(d.bytes, 32) = [val |-> e, rest |-> two_fields(field(48, a.out), field(16, b.out))]
  <2>1. bytes.size = 96
    BY DEF three_fields, field
  <2> QED BY <1>17, <2>1, TakeFields
<1> HIDE DEF d
<1>19. /\ IsCall(d1) /\ d1.ok /\ d1.bytes = two_fields(field(48, a.out), field(16, b.out))
       /\ d1.hs.symmetric = s1 /\ d1.hs.re = e /\ SameParty(d1.hs, r) /\ SameOwn(d1.hs, r)
       /\ d1.hs.step = 0
  BY <1>17, <1>18, GotE DEF s1
<1> HIDE DEF d1
<1>20. /\ IsCall(d2) /\ d2.ok /\ d2.bytes = d1.bytes /\ Kept(d2.hs, d1.hs)
       /\ d2.hs.symmetric = mix_key(s1, dh(d1.hs.s_sk, d1.hs.re))
  BY <1>19, MixedDh
<1>21. d2.hs.symmetric = s2 /\ d2.hs.s_sk = r.s_pk
  BY <1>19, <1>20, SecretOfBoth DEF s2, SameParty, Kept
<1> HIDE DEF d2
<1>22. /\ ~(d2.bytes.size < 48)
       /\ take(d2.bytes, 48) = [val |-> a.out, rest |-> one_field(field(16, b.out))]
  <2>1. two_fields(field(48, a.out), field(16, b.out)).size = 64
    BY DEF two_fields, field
  <2> QED BY <1>19, <1>20, <2>1, TakeFields
<1>23. /\ IsCall(d3) /\ d3.ok /\ d3.bytes = one_field(field(16, b.out))
       /\ d3.hs.symmetric = a.sym /\ d3.hs.rs = w.s_pk
       /\ SameParty(d3.hs, d2.hs) /\ SameOwn(d3.hs, d2.hs)
       /\ d3.hs.re = d2.hs.re /\ d3.hs.step = d2.hs.step
  <2>1. a = encrypt_and_hash(d2.hs.symmetric, w.s_pk) /\ d2.hs.symmetric.cipher.has_key
    BY <1>6, <1>21 DEF a
  <2>2. /\ take(d2.bytes, 48).val = encrypt_and_hash(d2.hs.symmetric, w.s_pk).out
        /\ take(d2.bytes, 48).rest = one_field(field(16, b.out))
    BY <1>22, <2>1
  <2>3. /\ IsCall(d3) /\ d3.ok /\ d3.bytes = one_field(field(16, b.out))
        /\ d3.hs.symmetric = encrypt_and_hash(d2.hs.symmetric, w.s_pk).sym /\ d3.hs.rs = w.s_pk
        /\ SameParty(d3.hs, d2.hs) /\ SameOwn(d3.hs, d2.hs)
        /\ d3.hs.re = d2.hs.re /\ d3.hs.step = d2.hs.step
    BY <1>20, <1>22, <2>1, <2>2, GotStatic
  <2> QED BY <1>20, <2>1, <2>3
<1> HIDE DEF d3
<1>24. /\ IsCall(d4) /\ d4.ok /\ d4.bytes = d3.bytes /\ Kept(d4.hs, d3.hs)
       /\ d4.hs.symmetric = mix_key(a.sym, dh(d3.hs.s_sk, d3.hs.rs))
  BY <1>23, MixedDh
<1>25. d4.hs.symmetric = s4
  BY <1>21, <1>23, <1>24, SecretOfBoth DEF s4, SameParty
<1> HIDE DEF d4
<1>26. After(d4, d5) /\ d5.hs.symmetric = b.sym
  BY <1>23, <1>24, <1>25, OpenPayload DEF b
<1> HIDE DEF d5
<1>27. d5.hs.re = e /\ SameParty(d5.hs, r) /\ d5.hs.step = 1
  BY <1>19, <1>20, <1>23, <1>24, <1>26 DEF After, Kept, SameParty, SameOwn
<1>28. DOMAIN bytes = {"size", "fields"}
  BY DEF three_fields
<1> QED BY <1>1, <1>13, <1>14, <1>15, <1>16, <1>26, <1>27, <1>28 DEF Talked, IsCall, After

\* IK, message 2: e, ee, se.
LEMMA TalkIK2 ==
    ASSUME NEW w, NEW r, Ends(w, r, "IK", 1), NEW e, e # Zero,
           w.re # Zero, r.e_sk = w.re, r.rs = w.s_pk
    PROVE  LET m == write_message(w, e)
               x == read_message(r, m.bytes)
           IN  Talked(w, r, m, x)
<1> USE DEF Ends
<1> DEFINE c  == call(w, NoBytes)
           c1 == write_e(c, e)
           c2 == mix_dh(c1, "e_sk", "re")
           c4 == mix_dh(c2, "s_sk", "re")
           c5 == advance(encrypt_payload(c4))
           s1 == mix_hash(w.symmetric, e)
           s2 == mix_key(s1, dh(e, w.re))
           s4 == mix_key(s2, dh(w.s_pk, w.re))
           b  == encrypt_and_hash(s4, Empty)
           bytes == two_fields(field(32, e), field(16, b.out))
<1>1. write_message(w, e) = c5
  BY Steps DEF write_message, is_complete
<1>2. IsCall(c) /\ c.ok /\ c.hs = w /\ c.bytes = NoBytes
  BY NewCall
<1> HIDE DEF c
<1>3. /\ IsCall(c1) /\ c1.ok /\ c1.bytes = put(NoBytes, 32, e) /\ c1.hs.symmetric = s1
      /\ c1.hs.e_sk = e /\ SameParty(c1.hs, w) /\ c1.hs.step = 1 /\ c1.hs.re = w.re
  BY <1>2, WroteE
<1>4. IsSymmetric(s1)
  BY SymmetricCalls DEF IsHandshake
<1> HIDE DEF c1, s1
<1>5. /\ IsCall(c2) /\ c2.ok /\ c2.bytes = put(NoBytes, 32, e) /\ Kept(c2.hs, c1.hs)
      /\ c2.hs.symmetric = s2
  BY <1>3, MixedDh
<1>6. IsSymmetric(s2) /\ s2.cipher.has_key
  BY <1>4, SymmetricCalls
<1> HIDE DEF c2, s2
<1>7. c2.hs.s_sk = w.s_pk /\ c2.hs.re = w.re
  BY <1>3, <1>5 DEF Kept, SameParty
<1>11. /\ IsCall(c4) /\ c4.ok /\ c4.bytes = c2.bytes /\ Kept(c4.hs, c2.hs)
       /\ c4.hs.symmetric = s4
  BY <1>5, <1>7, MixedDh
<1>12. IsSymmetric(s4) /\ s4.cipher.has_key
  BY <1>6, SymmetricCalls
<1> HIDE DEF c4, s4
<1>13. /\ After(c4, c5) /\ c5.bytes = put(c4.bytes, 16, b.out)
       /\ c5.hs.symmetric = b.sym /\ b.sym.cipher.has_key
  BY <1>11, <1>12, SealPayload
<1> HIDE DEF c5, b
<1>14. c5.bytes = bytes
  BY <1>5, <1>11, <1>13, PutFields
<1>15. SameParty(c5.hs, w) /\ c5.hs.step = 2
  BY <1>3, <1>5, <1>11, <1>13 DEF After, Kept, SameParty, SameOwn
<1> DEFINE d  == call(r, bytes)
           d1 == read_e(d)
           d2 == mix_dh(d1, "e_sk", "re")
           d4 == mix_dh(d2, "e_sk", "rs")
           d5 == advance(read_payload(d4))
<1>16. read_message(r, bytes) = d5
  BY Steps DEF read_message, is_complete
<1>17. IsCall(d) /\ d.ok /\ d.hs = r /\ d.bytes = bytes
  BY NewCall
<1>18. /\ ~(d.bytes.size < 32)
       /\ take(d.bytes, 32) = [val |-> e, rest |-> one_field(field(16, b.out))]
  <2>1. bytes.size = 48
    BY DEF two_fields, field
  <2> QED BY <1>17, <2>1, TakeFields
<1> HIDE DEF d
<1>19. /\ IsCall(d1) /\ d1.ok /\ d1.bytes = one_field(field(16, b.out))
       /\ d1.hs.symmetric = s1 /\ d1.hs.re = e /\ SameParty(d1.hs, r) /\ SameOwn(d1.hs, r)
       /\ d1.hs.step = 1 /\ d1.hs.rs = w.s_pk
  BY <1>17, <1>18, GotE DEF s1
<1> HIDE DEF d1
<1>20. /\ IsCall(d2) /\ d2.ok /\ d2.bytes = d1.bytes /\ Kept(d2.hs, d1.hs)
       /\ d2.hs.symmetric = mix_key(s1, dh(d1.hs.e_sk, d1.hs.re))
  BY <1>19, MixedDh
<1>21. d2.hs.symmetric = s2 /\ d2.hs.e_sk = w.re /\ d2.hs.rs = w.s_pk
  BY <1>19, <1>20, SecretOfBoth DEF s2, SameOwn, Kept
<1> HIDE DEF d2
<1>24. /\ IsCall(d4) /\ d4.ok /\ d4.bytes = d2.bytes /\ Kept(d4.hs, d2.hs)
       /\ d4.hs.symmetric = mix_key(s2, dh(d2.hs.e_sk, d2.hs.rs))
  BY <1>20, <1>21, MixedDh
<1>25. d4.hs.symmetric = s4
  BY <1>21, <1>24, SecretOfBoth DEF s4
<1> HIDE DEF d4
<1>26. After(d4, d5) /\ d5.hs.symmetric = b.sym
  BY <1>19, <1>20, <1>24, <1>25, OpenPayload DEF b
<1> HIDE DEF d5
<1>27. SameParty(d5.hs, r) /\ d5.hs.step = 2
  BY <1>19, <1>20, <1>24, <1>26 DEF After, Kept, SameParty, SameOwn
<1>28. DOMAIN bytes = {"size", "fields"}
  BY DEF two_fields
<1> QED BY <1>1, <1>13, <1>14, <1>15, <1>16, <1>26, <1>27, <1>28 DEF Talked, IsCall, After

(***************************************************************************)
(* The conversation of an initiator and a responder.  ends_after(p, n) are *)
(* the two objects after n messages of pattern p.                          *)
(***************************************************************************)
new_end(p, r) == construct(p, r = "initiator", X25519(r),
                       IF r = "initiator" THEN X25519("responder") ELSE Empty)
Roles     == {"initiator", "responder"}
peer_of(r)  == IF r = "initiator" THEN "responder" ELSE "initiator"
writer_of(n) == IF n = 1 THEN "responder" ELSE "initiator"

spoken(P, w) == write_message(P[w], generate_keypair(w))
heard(P, w) == read_message(P[peer_of(w)], spoken(P, w).bytes)
exchanged(P, w) == [r \in Roles |-> IF r = w THEN spoken(P, w).hs ELSE heard(P, w).hs]

new_ends(p) == [r \in Roles |-> new_end(p, r)]
ends_after_1(p) == exchanged(new_ends(p), "initiator")
ends_after_2(p) == exchanged(ends_after_1(p), "responder")
ends_after(p, n) == IF n = 0 THEN new_ends(p) ELSE IF n = 1 THEN ends_after_1(p) ELSE ends_after_2(p)

total_steps(p) == pattern_total_steps[p]

\* Two new objects have the same symmetric state.
LEMMA NewEnds ==
    ASSUME NEW p \in {"XX", "IK"}
    PROVE  LET w == new_end(p, "initiator")
               r == new_end(p, "responder")
           IN  /\ Ends(w, r, p, 0) /\ ~w.symmetric.cipher.has_key
               /\ p = "IK" => w.rs = r.s_pk
<1> DEFINE named == mix_hash(initialize(protocol_name(p)), Prologue)
           w == new_end(p, "initiator")
           r == new_end(p, "responder")
           i == X25519("initiator")
           q == X25519("responder")
           pre == IF p = "IK" THEN mix_hash(named, q) ELSE named
<1>1. IsSymmetric(named) /\ ~named.cipher.has_key
  BY DEF mix_hash, initialize, zeroized, IsSymmetric
<1>2. q # Empty /\ q # Zero /\ i # Zero
  BY DEF X25519, Empty, Zero
<1> HIDE DEF named, i, q
<1>3. w = [pattern |-> p, initiator |-> TRUE, step |-> 0, symmetric |-> pre,
           s_sk |-> i, s_pk |-> i, e_sk |-> Zero, e_pk |-> Zero,
           rs |-> IF p = "IK" THEN q ELSE Zero, re |-> Zero, rs_known |-> (p = "IK")]
  BY <1>2 DEF new_end, construct, named, i, q
<1>4. r = [pattern |-> p, initiator |-> FALSE, step |-> 0, symmetric |-> pre,
           s_sk |-> q, s_pk |-> q, e_sk |-> Zero, e_pk |-> Zero,
           rs |-> Zero, re |-> Zero, rs_known |-> FALSE]
  BY <1>2 DEF new_end, construct, named, i, q
<1>5. IsSymmetric(pre) /\ ~pre.cipher.has_key
  BY <1>1, SymmetricCalls
<1> HIDE DEF pre, w, r
<1>6. IsHandshake(w) /\ IsHandshake(r)
  BY <1>3, <1>4, <1>5 DEF IsHandshake
<1>7. w.initiator = TRUE /\ r.initiator = FALSE
  BY <1>3, <1>4
<1>8. w.initiator \in BOOLEAN /\ r.initiator = ~w.initiator
  BY <1>7
<1>9. /\ w.symmetric = r.symmetric /\ w.pattern = p /\ r.pattern = p /\ w.step = 0 /\ r.step = 0
      /\ w.s_sk = w.s_pk /\ r.s_sk = r.s_pk /\ w.s_pk # Zero /\ r.s_pk # Zero
      /\ ~w.symmetric.cipher.has_key /\ (p = "IK" => w.rs = r.s_pk)
  BY <1>2, <1>3, <1>4, <1>5
<1> QED BY <1>6, <1>8, <1>9 DEF Ends, w, r

\* No ephemeral is the zero point.
LEMMA OwnPoint == \A r : generate_keypair(r) # Zero
  BY DEF generate_keypair, Zero

\* After a message the two ends match again, either of them the writer.
LEMMA NextEnds ==
    ASSUME NEW w, NEW r, NEW p, NEW n \in Nat, Ends(w, r, p, n), NEW m, NEW x, Talked(w, r, m, x)
    PROVE  /\ Ends(m.hs, x.hs, p, n + 1) /\ Ends(x.hs, m.hs, p, n + 1)
  BY DEF Ends, Talked, SameParty

\* Message n of pattern p is understood.
Understood(p, n) ==
    LET w == writer_of(n)
        P == ends_after(p, n)
    IN  /\ Ends(P[w], P[peer_of(w)], p, n) /\ Talked(P[w], P[peer_of(w)], spoken(P, w), heard(P, w))

\* What a message leaves in the object of each side.
LEMMA Sides ==
    \A P : /\ exchanged(P, "initiator")["initiator"] = spoken(P, "initiator").hs
           /\ exchanged(P, "initiator")["responder"] = heard(P, "initiator").hs
           /\ exchanged(P, "responder")["responder"] = spoken(P, "responder").hs
           /\ exchanged(P, "responder")["initiator"] = heard(P, "responder").hs
  BY DEF exchanged, Roles

\* XX and IK without faults: whoever is to write message n of the pattern, the
\* other side reads it, and then both have the same chaining key, hash and
\* cipher, for every one of the messages (HandshakeState::write_message and
\* read_message).
THEOREM FaultlessHandshake ==
    ASSUME NEW p \in {"XX", "IK"}, NEW n \in 0..(total_steps(p) - 1)
    PROVE  Understood(p, n)
<1> DEFINE P0 == new_ends(p)
           P1 == ends_after_1(p)
           P2 == ends_after_2(p)
           i == "initiator"
           q == "responder"
           ei == generate_keypair("initiator")
           eq == generate_keypair("responder")
<1>1. n \in 0..2 /\ (p = "IK" => n \in 0..1)
  BY Steps DEF total_steps
<1>2. ei # Zero /\ eq # Zero
  BY OwnPoint
<1>3. Ends(P0[i], P0[q], p, 0) /\ ~P0[i].symmetric.cipher.has_key /\ (p = "IK" => P0[i].rs = P0[q].s_pk)
  BY NewEnds DEF new_ends, Roles
<1> HIDE DEF P0, P1, P2, ei, eq
<1>4. spoken(P0, i) = write_message(P0[i], ei) /\ heard(P0, i) = read_message(P0[q], spoken(P0, i).bytes)
  BY DEF spoken, heard, peer_of, ei
<1>5. P1[i] = spoken(P0, i).hs /\ P1[q] = heard(P0, i).hs
  BY Sides DEF P1, P0, ends_after_1
<1>6. spoken(P1, q) = write_message(P1[q], eq) /\ heard(P1, q) = read_message(P1[i], spoken(P1, q).bytes)
  BY DEF spoken, heard, peer_of, eq
<1>7. P2[i] = heard(P1, q).hs /\ P2[q] = spoken(P1, q).hs
  BY Sides DEF P2, P1, ends_after_2
<1>8. spoken(P2, i) = write_message(P2[i], ei) /\ heard(P2, i) = read_message(P2[q], spoken(P2, i).bytes)
  BY DEF spoken, heard, peer_of, ei
<1>9. CASE p = "XX"
  <2>1. /\ Talked(P0[i], P0[q], spoken(P0, i), heard(P0, i)) /\ P1[i].e_sk = ei /\ P1[q].re = ei
    BY <1>3, <1>4, <1>5, <1>9, TalkXX1
  <2>2. Ends(P1[q], P1[i], "XX", 1)
    BY <1>3, <1>5, <1>9, <2>1, NextEnds
  <2>3. /\ Talked(P1[q], P1[i], spoken(P1, q), heard(P1, q)) /\ P2[q].e_sk = eq /\ P2[i].re = eq
        /\ P2[q].symmetric.cipher.has_key
    BY <1>2, <1>6, <1>7, <2>1, <2>2, TalkXX2
  <2>4. Ends(P2[i], P2[q], "XX", 2)
    BY <1>7, <2>2, <2>3, NextEnds
  <2>5. P2[i].symmetric.cipher.has_key
    BY <2>3, <2>4 DEF Ends
  <2>6. Talked(P2[i], P2[q], spoken(P2, i), heard(P2, i))
    BY <1>2, <1>8, <2>3, <2>4, <2>5, TalkXX3
  <2> QED BY <1>1, <1>3, <1>9, <2>1, <2>2, <2>3, <2>4, <2>6
         DEF Understood, ends_after, writer_of, peer_of, P0, P1, P2
<1>10. CASE p = "IK"
  <2>1. /\ Talked(P0[i], P0[q], spoken(P0, i), heard(P0, i)) /\ P1[i].e_sk = ei /\ P1[q].re = ei
        /\ P1[i].rs = P0[q].s_pk
    BY <1>2, <1>3, <1>4, <1>5, <1>10, TalkIK1
  <2>2. Ends(P1[q], P1[i], "IK", 1) /\ P1[q].s_pk = P0[q].s_pk
    BY <1>3, <1>5, <1>10, <2>1, NextEnds DEF Talked, SameParty
  <2>3. Talked(P1[q], P1[i], spoken(P1, q), heard(P1, q))
    BY <1>2, <1>6, <1>7, <2>1, <2>2, TalkIK2
  <2> QED BY <1>1, <1>3, <1>10, <2>1, <2>2, <2>3 DEF Understood, ends_after, writer_of, peer_of, P0, P1, P2
<1> QED BY <1>9, <1>10

\* After the last message each side sends with the cipher that the other one
\* receives with (HandshakeState::split swaps the pair by role).
THEOREM FaultlessSplit ==
    ASSUME NEW p \in {"XX", "IK"}
    PROVE  LET n == total_steps(p) - 1
               P == ends_after(p, n)
               m == handshake_split(spoken(P, writer_of(n)).hs)
               x == handshake_split(heard(P, writer_of(n)).hs)
           IN  m.send = x.recv /\ m.recv = x.send
<1> DEFINE n == total_steps(p) - 1
           P == ends_after(p, n)
           w == writer_of(n)
           m == spoken(P, w)
           x == heard(P, w)
<1>1. n \in 0..(total_steps(p) - 1)
  BY Steps DEF total_steps
<1>2. Ends(P[w], P[peer_of(w)], p, n) /\ Talked(P[w], P[peer_of(w)], m, x)
  BY <1>1, FaultlessHandshake DEF Understood
<1> HIDE DEF n, P, w, m, x
<1>3. /\ m.hs.symmetric = x.hs.symmetric /\ m.hs.initiator \in BOOLEAN
      /\ x.hs.initiator = ~m.hs.initiator
  BY <1>2 DEF Ends, Talked, SameParty
<1>4. /\ handshake_split(m.hs).send = handshake_split(x.hs).recv
      /\ handshake_split(m.hs).recv = handshake_split(x.hs).send
  BY <1>3 DEF handshake_split
<1> QED BY <1>4 DEF n, P, w, m, x
===============================================================================
