--------------------------- MODULE ObjectLifeProofs ---------------------------
(***************************************************************************)
(* Theorems about ObjectLife: for any number of places in memory, frames   *)
(* and rekeys, and for any length of the nonce counter.                    *)
(***************************************************************************)
EXTENDS ObjectLife, HandshakeProofs

Kind == {"handshake", "transport"}

(***************************************************************************)
(* Shapes.                                                                 *)
(***************************************************************************)
IsCipher(c) ==
    /\ DOMAIN c = {"k", "n", "has_key"} /\ DOMAIN c.k = {"base", "gen"}
    /\ c.k.gen \in Nat /\ c.n \in 0..NONCE_MAX /\ c.has_key \in BOOLEAN

IsTransport(t) == DOMAIN t = {"send", "recv"} /\ IsCipher(t.send) /\ IsCipher(t.recv)

IsObject(o) ==
    /\ DOMAIN o = {"alive", "kind", "bytes"} /\ o.alive \in BOOLEAN /\ o.kind \in Kind
    /\ o.kind = "handshake" => IsHandshake(o.bytes)
    /\ o.kind = "transport" => IsTransport(o.bytes)

Memory == DOMAIN mem = Slot /\ \A s \in Slot : IsObject(mem[s])

\* An owner has a live object of the right kind, which no other owner has.
Holders ==
    /\ DOMAIN holder = Kind
    /\ \A k \in Kind : holder[k] \in [OV!Role -> Slot \cup {NoSlot}]
    /\ \A k \in Kind, r \in OV!Role : holder[k][r] # NoSlot =>
          mem[holder[k][r]].alive /\ mem[holder[k][r]].kind = k
    /\ \A k \in Kind, q, r \in OV!Role : holder[k][q] = holder[k][r] /\ holder[k][q] # NoSlot => q = r

\* What no owner has holds no key.
Clean(o) ==
    /\ Secrets(o) = {Zero}
    /\ o.kind = "transport" => ~o.bytes.send.has_key /\ ~o.bytes.recv.has_key

Idle == \A s \in Slot : ~Held(s) => Clean(mem[s])

\* The role that sends under a key of Split: which of the two outputs it is.
sender(k) == IF k.base[3][1] = "byte" THEN "initiator" ELSE "responder"

\* r has not been through Split.
Unsplit(r) ==
    LET h == holder["handshake"][r]
    IN  \/ r \notin started
        \/ h # NoSlot /\ ~(is_complete(mem[h].bytes) /\ mem[h].bytes.symmetric.ck = Zero)

Owners ==
    \A r \in OV!Role :
        LET h == holder["handshake"][r]
            t == holder["transport"][r]
        IN  /\ r \notin started => h = NoSlot
            /\ h # NoSlot => mem[h].bytes.initiator = (r = "initiator")
            /\ t # NoSlot => /\ ~Unsplit(r)
                             /\ sender(mem[t].bytes.send.k) = r /\ mem[t].bytes.send.has_key

\* What was encrypted: a block of REKEY, or a frame of the role the key
\* belongs to, under an earlier key or an earlier nonce than its next one.
Behind(k, n, c) == k.gen < c.k.gen \/ (k.gen = c.k.gen /\ n < c.n)

Spoken(k, n, r) ==
    LET t == holder["transport"][r]
    IN  ~Unsplit(r) /\ (t # NoSlot => Behind(k, n, mem[t].bytes.send))

Sealings ==
    \A a \in sealed :
        \/ a = seal(a[2], NONCE_MAX, Empty, Zero)
        \/ a[3] \in Nat /\ a[3] < NONCE_MAX /\ a[2].gen \in Nat /\ Spoken(a[2], a[3], sender(a[2]))

LifeInv == Memory /\ Holders /\ Idle /\ Owners /\ Sealings /\ SealsUnique
-----------------------------------------------------------------------------
(***************************************************************************)
(* The calls of a HandshakeState: its shape and its role stay, whatever    *)
(* bytes it reads.                                                         *)
(***************************************************************************)
SameRole(d, c) == IsCall(d) /\ d.hs.initiator = c.hs.initiator

\* A DH token.
LEMMA MixDhRole ==
    ASSUME NEW c, IsCall(c), NEW sk, NEW pk
    PROVE  SameRole(mix_dh(c, sk, pk), c)
<1>1. CASE ~c.ok \/ ~dh_ok(c.hs[pk])
  BY <1>1, FailedCall DEF mix_dh, SameRole
<1>2. CASE c.ok /\ dh_ok(c.hs[pk])
  <2> DEFINE s == mix_key(c.hs.symmetric, dh(c.hs[sk], c.hs[pk]))
  <2>1. mix_dh(c, sk, pk) = [c EXCEPT !.hs.symmetric = s]
    BY <1>2 DEF mix_dh
  <2>2. IsSymmetric(s)
    BY DEF mix_key, initialize_key, IsSymmetric, IsCall, IsHandshake
  <2> HIDE DEF s
  <2> QED BY <2>1, <2>2 DEF SameRole, IsCall, IsHandshake
<1> QED BY <1>1, <1>2

\* mix_hash.
LEMMA MixHashShape == \A s, d : IsSymmetric(s) => IsSymmetric(mix_hash(s, d))
  BY DEF IsSymmetric, mix_hash

\* Token e of a writer.
LEMMA WriteERole ==
    ASSUME NEW c, IsCall(c), NEW e
    PROVE  SameRole(write_e(c, e), c)
<1> DEFINE s == mix_hash(c.hs.symmetric, e)
           g == [c.hs EXCEPT !.e_pk = e, !.e_sk = e, !.symmetric = s]
<1>1. IsSymmetric(s)
  BY MixHashShape DEF IsCall, IsHandshake
<1>2. DOMAIN write_e(c, e) = DOMAIN c /\ write_e(c, e).hs = g
  BY DEF write_e, IsCall, IsHandshake
<1> HIDE DEF s
<1>3. IsHandshake(g) /\ g.initiator = c.hs.initiator
  BY <1>1 DEF IsCall, IsHandshake
<1> HIDE DEF g
<1> QED BY <1>2, <1>3 DEF SameRole, IsCall

\* A sealed field of a writer.
LEMMA WriteSealedRole ==
    ASSUME NEW c, IsCall(c), NEW plain, NEW size
    PROVE  SameRole(write_sealed(c, plain, size), c)
<1>1. CASE ~c.ok
  BY <1>1 DEF write_sealed, SameRole
<1>2. CASE c.ok
  <2> DEFINE s == encrypt_and_hash(c.hs.symmetric, plain).sym
             b == put(c.bytes, sealed_size(c.hs.symmetric, size),
                      encrypt_and_hash(c.hs.symmetric, plain).out)
  <2>1. write_sealed(c, plain, size) = [c EXCEPT !.hs.symmetric = s, !.bytes = b]
    BY <1>2 DEF write_sealed
  <2>2. IsSymmetric(s)
    <3> DEFINE e == encrypt_with_ad(c.hs.symmetric.cipher, c.hs.symmetric.h, plain)
               u == [c.hs.symmetric EXCEPT !.cipher = e.cipher]
    <3>1. DOMAIN e.cipher = {"k", "n", "has_key"}
      BY DEF encrypt_with_ad, IsCall, IsHandshake, IsSymmetric
    <3>2. IsSymmetric(u)
      BY <3>1 DEF IsCall, IsHandshake, IsSymmetric
    <3>3. s = mix_hash(u, e.out)
      BY DEF encrypt_and_hash
    <3> QED BY <3>2, <3>3, MixHashShape
  <2> HIDE DEF s, b
  <2> QED BY <2>1, <2>2 DEF SameRole, IsCall, IsHandshake
<1> QED BY <1>1, <1>2

\* decrypt_and_hash.
LEMMA DecryptShape ==
    ASSUME NEW s, IsSymmetric(s), NEW ct
    PROVE  IsSymmetric(decrypt_and_hash(s, ct).sym)
<1> DEFINE d == decrypt_with_ad(s.cipher, s.h, ct)
           u == [s EXCEPT !.cipher = d.cipher]
<1>1. DOMAIN d.cipher = {"k", "n", "has_key"}
  BY DEF decrypt_with_ad, IsSymmetric
<1>2. IsSymmetric(u)
  BY <1>1 DEF IsSymmetric
<1>3. decrypt_and_hash(s, ct).sym = mix_hash(u, ct) \/ decrypt_and_hash(s, ct).sym = s
  BY DEF decrypt_and_hash
<1> QED BY <1>2, <1>3, MixHashShape

\* Token e of a reader.
LEMMA ReadERole ==
    ASSUME NEW c, IsCall(c)
    PROVE  SameRole(read_e(c), c)
<1>1. CASE c.bytes.size < DH_PUBLIC_KEY_BYTES
  BY <1>1, FailedCall DEF read_e, SameRole
<1>2. CASE ~(c.bytes.size < DH_PUBLIC_KEY_BYTES)
  <2> DEFINE x == take(c.bytes, DH_PUBLIC_KEY_BYTES)
             s == mix_hash(c.hs.symmetric, x.val)
  <2>1. read_e(c) = [c EXCEPT !.hs.re = x.val, !.hs.symmetric = s, !.bytes = x.rest]
    BY <1>2 DEF read_e, IsCall, IsHandshake
  <2>2. IsSymmetric(s)
    BY MixHashShape DEF IsCall, IsHandshake
  <2> HIDE DEF s, x
  <2> QED BY <2>1, <2>2 DEF SameRole, IsCall, IsHandshake
<1> QED BY <1>1, <1>2

\* Token s of a reader.
LEMMA ReadStaticRole ==
    ASSUME NEW c, IsCall(c)
    PROVE  SameRole(read_encrypted_static(c), c)
<1> DEFINE x == take(c.bytes, DH_PUBLIC_KEY_BYTES + AEAD_TAG_BYTES)
           d == decrypt_and_hash(c.hs.symmetric, x.val)
           g == [c EXCEPT !.hs.symmetric = d.sym]
           o == [c EXCEPT !.hs.symmetric = d.sym, !.hs.rs = d.out, !.hs.rs_known = TRUE,
                          !.bytes = x.rest]
<1>1. read_encrypted_static(c) \in {c, failed(c), failed(g), o}
  BY DEF read_encrypted_static
<1>2. IsSymmetric(d.sym)
  BY DecryptShape DEF IsCall, IsHandshake
<1> HIDE DEF d, x
<1>3. SameRole(g, c) /\ SameRole(o, c)
  BY <1>2 DEF SameRole, IsCall, IsHandshake
<1>4. SameRole(failed(c), c) /\ SameRole(failed(g), c) /\ SameRole(c, c)
  BY <1>3, FailedCall DEF SameRole
<1> QED BY <1>1, <1>3, <1>4

\* The payload of a reader.
LEMMA ReadPayloadRole ==
    ASSUME NEW c, IsCall(c)
    PROVE  SameRole(read_payload(c), c)
<1> DEFINE d == decrypt_and_hash(c.hs.symmetric, remainder(c.bytes))
           g == [c EXCEPT !.ok = d.ok, !.hs.symmetric = d.sym, !.bytes = NoBytes]
<1>1. read_payload(c) = c \/ read_payload(c) = g
  BY DEF read_payload
<1>2. IsSymmetric(d.sym)
  BY DecryptShape DEF IsCall, IsHandshake
<1> HIDE DEF d
<1>3. SameRole(g, c)
  BY <1>2 DEF SameRole, IsCall, IsHandshake
<1> QED BY <1>1, <1>3 DEF SameRole

\* The step count.
LEMMA AdvanceRole ==
    ASSUME NEW c, IsCall(c)
    PROVE  SameRole(advance(c), c)
  BY DEF advance, SameRole, IsCall, IsHandshake

\* write_message.
LEMMA WriteRole ==
    ASSUME NEW h, IsHandshake(h), NEW e
    PROVE  IsHandshake(write_message(h, e).hs) /\ write_message(h, e).hs.initiator = h.initiator
<1> DEFINE c == call(h, NoBytes)
           m == write_e(c, e)
           ik1 == mix_dh(encrypt_static(mix_dh(m, "e_sk", "rs")), "s_sk", "rs")
           ik2 == mix_dh(mix_dh(m, "e_sk", "re"), "s_sk", "re")
           xx2 == mix_dh(encrypt_static(mix_dh(m, "e_sk", "re")), "s_sk", "re")
           xx3 == mix_dh(encrypt_static(c), "s_sk", "re")
<1>1. SameRole(c, c) /\ c.hs = h
  BY NewCall DEF SameRole
<1>2. \A x, y : SameRole(x, c) => /\ SameRole(mix_dh(x, y, "rs"), c) /\ SameRole(mix_dh(x, y, "re"), c)
                                  /\ SameRole(encrypt_static(x), c)
                                  /\ SameRole(advance(encrypt_payload(x)), c)
                                  /\ SameRole(failed(x), c)
  BY MixDhRole, WriteSealedRole, AdvanceRole, FailedCall DEF SameRole, encrypt_static, encrypt_payload
<1>3. SameRole(m, c)
  BY <1>1, WriteERole DEF SameRole
<1> HIDE DEF m
<1>4. SameRole(ik1, c) /\ SameRole(ik2, c) /\ SameRole(xx2, c) /\ SameRole(xx3, c) /\ SameRole(failed(c), c)
  BY <1>1, <1>2, <1>3
<1>5. \/ write_message(h, e) = failed(c)
      \/ \E x \in {ik1, m, ik2, xx2, xx3, failed(c)} :
            write_message(h, e) = advance(encrypt_payload(x))
  BY DEF write_message, m
<1> HIDE DEF ik1, ik2, xx2, xx3, c
<1>6. SameRole(write_message(h, e), c)
  BY <1>2, <1>3, <1>4, <1>5
<1> QED BY <1>1, <1>6 DEF SameRole, IsCall

\* read_message.
LEMMA ReadRole ==
    ASSUME NEW h, IsHandshake(h), NEW b
    PROVE  IsHandshake(read_message(h, b).hs) /\ read_message(h, b).hs.initiator = h.initiator
<1> DEFINE c == call(h, b)
           m == read_e(c)
           ik1 == mix_dh(read_encrypted_static(mix_dh(m, "s_sk", "re")), "s_sk", "rs")
           ik2 == mix_dh(mix_dh(m, "e_sk", "re"), "e_sk", "rs")
           xx2 == mix_dh(read_encrypted_static(mix_dh(m, "e_sk", "re")), "e_sk", "rs")
           xx3 == mix_dh(read_encrypted_static(c), "e_sk", "rs")
<1>1. SameRole(c, c) /\ c.hs = h
  BY NewCall DEF SameRole
<1>2. \A x, y : SameRole(x, c) => /\ SameRole(mix_dh(x, y, "rs"), c) /\ SameRole(mix_dh(x, y, "re"), c)
                                  /\ SameRole(read_encrypted_static(x), c)
                                  /\ SameRole(advance(read_payload(x)), c)
                                  /\ SameRole(failed(x), c)
  BY MixDhRole, ReadStaticRole, ReadPayloadRole, AdvanceRole, FailedCall DEF SameRole
<1>3. SameRole(m, c)
  BY <1>1, ReadERole DEF SameRole
<1> HIDE DEF m
<1>4. SameRole(ik1, c) /\ SameRole(ik2, c) /\ SameRole(xx2, c) /\ SameRole(xx3, c) /\ SameRole(failed(c), c)
  BY <1>1, <1>2, <1>3
<1>5. \/ read_message(h, b) = failed(c)
      \/ \E x \in {ik1, m, ik2, xx2, xx3, failed(c)} :
            read_message(h, b) = advance(read_payload(x))
  BY DEF read_message, m
<1> HIDE DEF ik1, ik2, xx2, xx3, c
<1>6. SameRole(read_message(h, b), c)
  BY <1>2, <1>3, <1>4, <1>5
<1> QED BY <1>1, <1>6 DEF SameRole, IsCall
-----------------------------------------------------------------------------
(***************************************************************************)
(* Objects: what construction, moves, destruction and Split leave.         *)
(***************************************************************************)
LEMMA OwnerNames ==
    /\ \A h : OV!is_complete(h) <=> is_complete(h)
    /\ \A h : OV!may_split(h) <=> is_complete(h) /\ h.symmetric.ck # Zero
    /\ \A k : sender(k) \in OV!Role
<1>1. \A h : OV!is_complete(h) <=> is_complete(h)
  BY DEF OV!is_complete, is_complete, OV!pattern_total_steps, pattern_total_steps
<1>2. OV!Zero = Zero
  BY DEF OV!Zero, Zero
<1>3. \A h : OV!may_split(h) <=> is_complete(h) /\ h.symmetric.ck # Zero
  BY <1>1, <1>2 DEF OV!may_split
<1>4. \A k : sender(k) \in OV!Role
  BY DEF sender, OV!Role
<1> QED BY <1>1, <1>3, <1>4

\* A new object has the role of its owner.
LEMMA NewHandshake ==
    ASSUME NEW r \in OV!Role
    PROVE  /\ IsHandshake(OV!new_handshake(r))
           /\ OV!new_handshake(r).initiator = (r = "initiator")
<1> DEFINE g == OV!new_handshake(r)
<1>1. \A x, d : IsSymmetric(x) => IsSymmetric(OV!mix_hash(x, d))
  BY DEF OV!mix_hash, IsSymmetric
<1>2. \A x : IsSymmetric(OV!initialize(x))
  BY DEF OV!initialize, OV!zeroized, IsSymmetric
<1>3. DOMAIN g = {"pattern", "initiator", "step", "symmetric", "s_sk", "s_pk", "e_sk",
                  "e_pk", "rs", "re", "rs_known"}
      /\ g.initiator = (r = "initiator")
  BY DEF OV!new_handshake, OV!construct
<1>4. IsSymmetric(g.symmetric)
  <2>1. \E x, d : g.symmetric = OV!mix_hash(x, d) /\ IsSymmetric(x)
    BY <1>1, <1>2 DEF OV!new_handshake, OV!construct
  <2> QED BY <1>1, <2>1
<1> QED BY <1>3, <1>4 DEF IsHandshake

\* A wiped cipher.
LEMMA ZeroCipher == IsCipher(zeroized) /\ zeroized.k.base = Zero /\ ~zeroized.has_key
  BY NonceMaxAssumption DEF IsCipher, zeroized, NoKey, CipherKey

\* A cipher with a new key.
LEMMA KeyedCipher == \A b : /\ IsCipher(initialize_key(CipherKey(b)))
                            /\ initialize_key(CipherKey(b)).k.base = b
                            /\ initialize_key(CipherKey(b)).has_key
  BY NonceMaxAssumption DEF IsCipher, initialize_key, CipherKey

\* The buffers of a HandshakeState that must be clear.
LEMMA HandshakeSecrets ==
    ASSUME NEW o, o.kind = "handshake"
    PROVE  Secrets(o) = {Zero} <=>
              /\ o.bytes.s_sk = Zero /\ o.bytes.s_pk = Zero /\ o.bytes.e_sk = Zero
              /\ o.bytes.e_pk = Zero /\ o.bytes.rs = Zero /\ o.bytes.re = Zero
              /\ o.bytes.symmetric.ck = Zero /\ o.bytes.symmetric.h = Zero
              /\ o.bytes.symmetric.cipher.k.base = Zero
  BY DEF Secrets

\* The buffers of a TransportState that must be clear.
LEMMA TransportSecrets ==
    ASSUME NEW o, o.kind = "transport"
    PROVE  Secrets(o) = {Zero} <=> o.bytes.send.k.base = Zero /\ o.bytes.recv.k.base = Zero
  BY DEF Secrets

\* The bytes of a destroyed HandshakeState, and of one that was moved from.
LEMMA WipedHandshake ==
    ASSUME NEW h, IsHandshake(h), NEW o, o.kind = "handshake",
           o.bytes = [wipe_dh_arrays(h) EXCEPT !.symmetric = symmetric_destroyed]
    PROVE  IsHandshake(o.bytes) /\ Clean(o)
<1>1. /\ IsSymmetric(symmetric_destroyed)
      /\ symmetric_destroyed.ck = Zero /\ symmetric_destroyed.h = Zero
      /\ symmetric_destroyed.cipher.k.base = Zero
  BY DEF symmetric_destroyed, IsSymmetric, zeroized, NoKey, CipherKey
<1>2. /\ DOMAIN o.bytes = DOMAIN h /\ o.bytes.symmetric = symmetric_destroyed
      /\ o.bytes.s_sk = Zero /\ o.bytes.s_pk = Zero /\ o.bytes.e_sk = Zero
      /\ o.bytes.e_pk = Zero /\ o.bytes.rs = Zero /\ o.bytes.re = Zero
  BY DEF wipe_dh_arrays, IsHandshake
<1>3. IsHandshake(o.bytes)
  BY <1>1, <1>2 DEF IsHandshake
<1>4. Secrets(o) = {Zero}
  BY <1>1, <1>2, HandshakeSecrets
<1> QED BY <1>3, <1>4 DEF Clean

\* A move takes everything to the target and wipes the source.
LEMMA HandshakeMove ==
    ASSUME NEW h, IsHandshake(h)
    PROVE  LET m == handshake_move(h)
           IN  /\ m.from = [wipe_dh_arrays(h) EXCEPT !.symmetric = symmetric_destroyed]
               /\ IsHandshake(m.to) /\ \A f \in DOMAIN h \ {"symmetric"} : m.to[f] = h[f]
               /\ m.to.symmetric.ck = h.symmetric.ck /\ m.to.symmetric.h = h.symmetric.h
               /\ m.to.symmetric.cipher = h.symmetric.cipher
<1> DEFINE m == handshake_move(h)
           s == symmetric_move(h.symmetric)
<1>1. /\ m.to = [h EXCEPT !.symmetric = s.to]
      /\ m.from = [wipe_dh_arrays(h) EXCEPT !.symmetric = s.from]
  BY DEF handshake_move
<1>2. s.from = symmetric_destroyed
  BY DEF symmetric_move, cipher_move, symmetric_destroyed
<1>3. /\ IsSymmetric(s.to) /\ s.to.ck = h.symmetric.ck /\ s.to.h = h.symmetric.h
      /\ s.to.cipher = h.symmetric.cipher
  BY DEF symmetric_move, cipher_move, IsHandshake, IsSymmetric
<1> HIDE DEF s
<1>4. /\ IsHandshake(m.to) /\ \A f \in DOMAIN h \ {"symmetric"} : m.to[f] = h[f]
      /\ m.to.symmetric = s.to
  BY <1>1, <1>3 DEF IsHandshake
<1> QED BY <1>1, <1>2, <1>3, <1>4

\* split: two keyed ciphers, the first for the initiator to send with, and no
\* chaining key left.
LEMMA SplitPair ==
    ASSUME NEW h, IsHandshake(h), h.initiator \in BOOLEAN
    PROVE  LET p == handshake_split(h)
           IN  /\ IsHandshake(p.hs) /\ p.hs.initiator = h.initiator /\ p.hs.symmetric.ck = Zero
               /\ p.hs.step = h.step /\ p.hs.pattern = h.pattern
               /\ IsCipher(p.send) /\ IsCipher(p.recv) /\ p.send.has_key
               /\ sender(p.send.k) = IF h.initiator THEN "initiator" ELSE "responder"
<1> DEFINE p == handshake_split(h)
           k == hkdf2(h.symmetric.ck, Empty)
           one == initialize_key(CipherKey(k.output1))
           two == initialize_key(CipherKey(k.output2))
           s == [h.symmetric EXCEPT !.ck = Zero]
<1>1. /\ p.send = IF h.initiator THEN one ELSE two
      /\ p.recv = IF h.initiator THEN two ELSE one
      /\ p.hs = [h EXCEPT !.symmetric = s, !.s_sk = Zero, !.e_sk = Zero, !.e_pk = Zero, !.re = Zero]
  BY DEF handshake_split, split
<1>2. /\ IsCipher(one) /\ IsCipher(two) /\ one.k.base = k.output1 /\ two.k.base = k.output2
      /\ one.has_key /\ two.has_key
  BY KeyedCipher
<1>3. k.output1[3][1] = "byte" /\ k.output2[3][1] = "cat"
  BY DEF hkdf2, hmac_blake2b
<1>4. IsSymmetric(s) /\ s.ck = Zero
  BY DEF IsHandshake, IsSymmetric
<1> HIDE DEF one, two, k, s, p
<1>5. sender(one.k) = "initiator" /\ sender(two.k) = "responder"
  BY <1>2, <1>3 DEF sender
<1>6. /\ IsHandshake(p.hs) /\ p.hs.initiator = h.initiator /\ p.hs.symmetric = s
      /\ p.hs.step = h.step /\ p.hs.pattern = h.pattern
  BY <1>1, <1>4 DEF IsHandshake
<1> QED BY <1>1, <1>2, <1>4, <1>5, <1>6 DEF p
-----------------------------------------------------------------------------
(***************************************************************************)
(* Owners.                                                                 *)
(***************************************************************************)
LEMMA OwnedSlots ==
    ASSUME LifeInv
    PROVE  /\ \A k \in Kind, r \in OV!Role : holder[k][r] \in Slot \cup {NoSlot}
           /\ \A s \in Slot, k \in Kind, r \in OV!Role : holder[k][r] = s =>
                 mem[s].alive /\ mem[s].kind = k /\ s # NoSlot
           /\ \A s : Held(s) <=> \E k \in Kind, r \in OV!Role : holder[k][r] = s
<1>1. \A k \in Kind, r \in OV!Role : holder[k][r] \in Slot \cup {NoSlot}
  BY DEF LifeInv, Holders
<1>2. \A s \in Slot : s # NoSlot
  BY LifeAssumption
<1>3. \A s \in Slot, k \in Kind, r \in OV!Role : holder[k][r] = s =>
         mem[s].alive /\ mem[s].kind = k /\ s # NoSlot
  BY <1>2 DEF LifeInv, Holders
<1>4. \A s : Held(s) <=> \E k \in Kind, r \in OV!Role : holder[k][r] = s
  BY DEF Held, Kind
<1> QED BY <1>1, <1>3, <1>4

\* No role goes back to before its Split, and every TransportState that an
\* owner has it had before, with the same send cipher.
LEMMA SealingsCarried ==
    ASSUME LifeInv, sealed' = sealed,
           \A r \in OV!Role :
              /\ Unsplit(r)' => Unsplit(r)
              /\ ~Unsplit(r) /\ holder'["transport"][r] # NoSlot =>
                    /\ holder["transport"][r] # NoSlot
                    /\ mem'[holder'["transport"][r]].bytes.send = mem[holder["transport"][r]].bytes.send
    PROVE  Sealings' /\ SealsUnique'
<1>1. SealsUnique'
  BY DEF LifeInv, SealsUnique
<1>2. \A k, n, r : r \in OV!Role /\ Spoken(k, n, r) => Spoken(k, n, r)'
  <2> SUFFICES ASSUME NEW k, NEW n, NEW r \in OV!Role, Spoken(k, n, r)
               PROVE  Spoken(k, n, r)'
    OBVIOUS
  <2>1. ~Unsplit(r) /\ ~Unsplit(r)'
    BY DEF Spoken
  <2>2. holder'["transport"][r] # NoSlot => Behind(k, n, mem'[holder'["transport"][r]].bytes.send)
    BY <2>1 DEF Spoken
  <2> QED BY <2>1, <2>2 DEF Spoken, Behind
<1>3. Sealings'
  <2> SUFFICES ASSUME NEW a \in sealed
               PROVE  \/ a = seal(a[2], NONCE_MAX, Empty, Zero)
                      \/ /\ a[3] \in Nat /\ a[3] < NONCE_MAX /\ a[2].gen \in Nat
                         /\ Spoken(a[2], a[3], sender(a[2]))'
    BY DEF Sealings, sender
  <2>1. \/ a = seal(a[2], NONCE_MAX, Empty, Zero)
        \/ /\ a[3] \in Nat /\ a[3] < NONCE_MAX /\ a[2].gen \in Nat
           /\ Spoken(a[2], a[3], sender(a[2]))
    BY DEF LifeInv, Sealings
  <2>2. Spoken(a[2], a[3], sender(a[2])) => Spoken(a[2], a[3], sender(a[2]))'
    BY <1>2, OwnerNames
  <2> QED BY <2>1, <2>2
<1> QED BY <1>1, <1>3

\* A step that seals nothing and brings no new TransportState.
LEMMA Carried ==
    ASSUME LifeInv, sealed' = sealed,
           \A r \in OV!Role :
              /\ Unsplit(r)' => Unsplit(r)
              /\ r \notin started' => holder'["handshake"][r] = NoSlot
              /\ holder'["handshake"][r] # NoSlot =>
                    mem'[holder'["handshake"][r]].bytes.initiator = (r = "initiator")
              /\ holder'["transport"][r] # NoSlot =>
                    /\ holder["transport"][r] # NoSlot
                    /\ mem'[holder'["transport"][r]].bytes.send = mem[holder["transport"][r]].bytes.send
    PROVE  Owners' /\ Sealings' /\ SealsUnique'
<1>1. Sealings' /\ SealsUnique'
  BY SealingsCarried
<1>2. Owners'
  <2> SUFFICES ASSUME NEW r \in OV!Role, holder'["transport"][r] # NoSlot
               PROVE  /\ ~Unsplit(r)' /\ sender(mem'[holder'["transport"][r]].bytes.send.k) = r
                      /\ mem'[holder'["transport"][r]].bytes.send.has_key
    BY DEF Owners, sender
  <2>1. /\ holder["transport"][r] # NoSlot
        /\ mem'[holder'["transport"][r]].bytes.send = mem[holder["transport"][r]].bytes.send
    OBVIOUS
  <2>2. /\ ~Unsplit(r) /\ sender(mem[holder["transport"][r]].bytes.send.k) = r
        /\ mem[holder["transport"][r]].bytes.send.has_key
    BY <2>1 DEF LifeInv, Owners
  <2> QED BY <2>1, <2>2
<1> QED BY <1>1, <1>2

\* The bytes of one object change, and nothing else in memory.
LEMMA Changed ==
    ASSUME LifeInv, NEW s \in Slot, NEW b, mem' = [mem EXCEPT ![s].bytes = b], holder' = holder,
           mem[s].kind = "handshake" => IsHandshake(b),
           mem[s].kind = "transport" => IsTransport(b),
           ~Held(s) => Clean([mem[s] EXCEPT !.bytes = b])
    PROVE  /\ Memory' /\ Holders' /\ Idle'
           /\ mem'[s].bytes = b /\ \A u \in Slot \ {s} : mem'[u] = mem[u]
<1>1. DOMAIN mem = Slot /\ IsObject(mem[s])
  BY DEF LifeInv, Memory
<1> DEFINE o == [mem[s] EXCEPT !.bytes = b]
<1>2. DOMAIN mem' = Slot /\ mem'[s] = o /\ \A u \in Slot \ {s} : mem'[u] = mem[u]
  BY <1>1
<1>3. IsObject(o) /\ o.alive = mem[s].alive /\ o.kind = mem[s].kind /\ o.bytes = b
  BY <1>1 DEF IsObject
<1> HIDE DEF o
<1>4. Memory'
  BY <1>2, <1>3 DEF LifeInv, Memory
<1>5. \A u \in Slot : mem'[u].alive = mem[u].alive /\ mem'[u].kind = mem[u].kind
  BY <1>2, <1>3
<1>6. Holders'
  BY <1>5 DEF LifeInv, Holders
<1>7. Idle'
  BY <1>2 DEF LifeInv, Idle, Held, o
<1> QED BY <1>2, <1>3, <1>4, <1>6, <1>7

\* A handshake message, read or written.
LEMMA Exchange ==
    ASSUME LifeInv, NEW r \in OV!Role, exchange(r)
    PROVE  LifeInv'
<1> DEFINE s == holder["handshake"][r]
           h == mem[s].bytes
<1>1. s \in Slot /\ Held(s) /\ mem[s].kind = "handshake" /\ s # NoSlot
  BY OwnedSlots DEF exchange, Kind
<1>2. IsHandshake(h)
  BY <1>1 DEF LifeInv, Memory, IsObject
<1>3. PICK b : /\ mem' = [mem EXCEPT ![s].bytes = b] /\ IsHandshake(b) /\ b.initiator = h.initiator
               /\ is_complete(h) => b = h
               /\ UNCHANGED <<holder, started, sealed>>
  <2> DEFINE w == write_message(h, OV!ephemeral_of(r))
             m == read_message(h, wire[r])
  <2>1. /\ IsHandshake(w.hs) /\ w.hs.initiator = h.initiator /\ (is_complete(h) => w.hs = h)
        /\ IsHandshake(m.hs) /\ m.hs.initiator = h.initiator /\ (is_complete(h) => m.hs = h)
    BY <1>2, WriteRole, ReadRole, CompleteRefuses
  <2>2. /\ mem' = [mem EXCEPT ![s].bytes = w.hs] \/ mem' = [mem EXCEPT ![s].bytes = m.hs]
        /\ UNCHANGED <<holder, started, sealed>>
    BY DEF exchange
  <2> HIDE DEF w, m
  <2> QED BY <2>1, <2>2
<1>4. /\ Memory' /\ Holders' /\ Idle'
      /\ mem'[s].bytes = b /\ \A u \in Slot \ {s} : mem'[u] = mem[u]
  BY <1>1, <1>3, Changed
<1>5. ASSUME NEW q \in OV!Role
      PROVE  /\ Unsplit(q)' => Unsplit(q)
             /\ q \notin started' => holder'["handshake"][q] = NoSlot
             /\ holder'["handshake"][q] # NoSlot =>
                   mem'[holder'["handshake"][q]].bytes.initiator = (q = "initiator")
             /\ holder'["transport"][q] # NoSlot =>
                   /\ holder["transport"][q] # NoSlot
                   /\ mem'[holder'["transport"][q]].bytes.send = mem[holder["transport"][q]].bytes.send
  <2>1. holder' = holder /\ started' = started
    BY <1>3
  <2>2. q # r => holder["handshake"][q] # s
    BY <1>1 DEF LifeInv, Holders, Kind
  <2>3. holder["transport"][q] # s
    BY <1>1, OwnedSlots DEF Kind
  <2>4. /\ holder["handshake"][q] \in Slot \cup {NoSlot} /\ holder["transport"][q] \in Slot \cup {NoSlot}
    BY OwnedSlots DEF Kind
  <2>5. /\ q \notin started => holder["handshake"][q] = NoSlot
        /\ holder["handshake"][q] # NoSlot =>
             mem[holder["handshake"][q]].bytes.initiator = (q = "initiator")
    BY DEF LifeInv, Owners
  <2>6. Unsplit(q)' => Unsplit(q)
    <3>1. CASE q = r
      <4>1. CASE is_complete(h)
        BY <1>3, <1>4, <2>1, <3>1, <4>1 DEF Unsplit
      <4>2. CASE ~is_complete(h)
        BY <1>1, <3>1, <4>2 DEF Unsplit
      <4> QED BY <4>1, <4>2
    <3>2. CASE q # r
      BY <1>4, <2>1, <2>2, <2>4, <3>2 DEF Unsplit
    <3> QED BY <3>1, <3>2
  <2>7. holder["handshake"][q] # NoSlot => mem'[holder["handshake"][q]].bytes.initiator = (q = "initiator")
    BY <1>3, <1>4, <2>2, <2>4, <2>5
  <2>8. holder["transport"][q] # NoSlot =>
           mem'[holder["transport"][q]].bytes.send = mem[holder["transport"][q]].bytes.send
    BY <1>4, <2>3, <2>4
  <2> QED BY <2>1, <2>5, <2>6, <2>7, <2>8
<1>6. sealed' = sealed
  BY <1>3
<1>7. Owners' /\ Sealings' /\ SealsUnique'
  BY <1>5, <1>6, Carried
<1> QED BY <1>4, <1>7 DEF LifeInv

\* The owner r gets a new object of kind k in a place s that had none.
Places(k, r, s) ==
    /\ k \in Kind /\ r \in OV!Role /\ s \in Slot /\ ~mem[s].alive
    /\ holder[k][r] = NoSlot /\ holder' = [holder EXCEPT ![k][r] = s]
    /\ DOMAIN mem' = Slot /\ IsObject(mem'[s]) /\ mem'[s].alive /\ mem'[s].kind = k
    /\ \A u \in Slot \ {s} : /\ IsObject(mem'[u]) /\ mem'[u].alive = mem[u].alive
                             /\ mem'[u].kind = mem[u].kind
                             /\ ~Held(u) => mem'[u] = mem[u]

Settled(k, r, s) ==
    /\ Memory' /\ Holders' /\ Idle' /\ holder'[k][r] = s
    /\ \A l \in Kind, q \in OV!Role : l # k \/ q # r => holder'[l][q] = holder[l][q]
    /\ \A l \in Kind, q \in OV!Role : holder[l][q] # s

\* A new object leaves the others as they were and gives its place one owner.
LEMMA Placed ==
    ASSUME LifeInv, NEW k, NEW r, NEW s, Places(k, r, s)
    PROVE  Settled(k, r, s)
<1> USE DEF Places
<1>1. \A l \in Kind, q \in OV!Role : holder[l][q] # s
  BY OwnedSlots
<1>2. /\ DOMAIN holder' = Kind /\ holder'[k][r] = s
      /\ \A l \in Kind, q \in OV!Role : l # k \/ q # r => holder'[l][q] = holder[l][q]
      /\ \A l \in Kind : holder'[l] \in [OV!Role -> Slot \cup {NoSlot}]
  BY DEF LifeInv, Holders
<1>3. Memory'
  BY DEF Memory
<1>4. s # NoSlot
  BY LifeAssumption
<1>5. Holders'
  <2>1. ASSUME NEW l \in Kind, NEW q \in OV!Role, holder'[l][q] # NoSlot
        PROVE  mem'[holder'[l][q]].alive /\ mem'[holder'[l][q]].kind = l
    <3>1. CASE l = k /\ q = r
      BY <1>2, <3>1
    <3>2. CASE l # k \/ q # r
      <4>1. holder'[l][q] = holder[l][q] /\ holder[l][q] \in Slot \ {s}
        BY <1>1, <1>2, <2>1, <3>2, OwnedSlots
      <4> QED BY <2>1, <4>1 DEF LifeInv, Holders
    <3> QED BY <3>1, <3>2
  <2>2. ASSUME NEW l \in Kind, NEW p \in OV!Role, NEW q \in OV!Role,
               holder'[l][p] = holder'[l][q], holder'[l][p] # NoSlot
        PROVE  p = q
    <3>1. \A x \in OV!Role : holder[l][x] # s
      BY <1>1
    <3>2. \A x \in OV!Role : l # k \/ x # r => holder'[l][x] = holder[l][x]
      BY <1>2
    <3>3. holder[l][p] = holder[l][q] /\ holder[l][p] # NoSlot => p = q
      BY DEF LifeInv, Holders
    <3> QED BY <1>2, <2>2, <3>1, <3>2, <3>3
  <2> QED BY <1>2, <2>1, <2>2 DEF Holders
<1>6. Idle'
  <2> SUFFICES ASSUME NEW u \in Slot, ~Held(u)' PROVE Clean(mem'[u])
    BY DEF Idle, Clean, Secrets
  <2>1. \A l \in Kind, q \in OV!Role : holder'[l][q] # u
    BY DEF Held, Kind
  <2>2. u # s
    BY <1>2, <2>1
  <2>3. ~Held(u)
    <3> SUFFICES ASSUME NEW l \in Kind, NEW q \in OV!Role, holder[l][q] = u PROVE FALSE
      BY OwnedSlots
    <3>1. ~(l = k /\ q = r)
      BY LifeAssumption
    <3> QED BY <1>2, <2>1, <3>1
  <2> QED BY <2>2, <2>3 DEF LifeInv, Idle
<1> QED BY <1>1, <1>2, <1>3, <1>5, <1>6 DEF Settled

\* The constructor of HandshakeState.
LEMMA Start ==
    ASSUME LifeInv, NEW r \in OV!Role, NEW s \in Slot, start(r, s)
    PROVE  LifeInv'
<1> DEFINE b == OV!new_handshake(r)
           o == object("handshake", b)
<1>1. /\ r \notin started /\ ~mem[s].alive /\ started' = started \cup {r}
      /\ mem' = [mem EXCEPT ![s] = o]
      /\ holder' = [holder EXCEPT !["handshake"][r] = s] /\ sealed' = sealed
  BY DEF start
<1>2. IsHandshake(b) /\ b.initiator = (r = "initiator")
  BY NewHandshake
<1> HIDE DEF b
<1>3. IsObject(o) /\ o.alive /\ o.kind = "handshake" /\ o.bytes = b
  BY <1>2 DEF object, IsObject, Kind
<1> HIDE DEF o
<1>4. DOMAIN mem' = Slot /\ mem'[s] = o /\ \A u \in Slot \ {s} : mem'[u] = mem[u] /\ IsObject(mem[u])
  BY <1>1 DEF LifeInv, Memory
<1>5. holder["handshake"][r] = NoSlot /\ Unsplit(r) /\ holder["transport"][r] = NoSlot
  BY <1>1 DEF LifeInv, Owners, Unsplit
<1>6. "handshake" \in Kind /\ "transport" \in Kind
  BY DEF Kind
<1>7. /\ Memory' /\ Holders' /\ Idle' /\ holder'["handshake"][r] = s
      /\ \A l \in Kind, q \in OV!Role : l # "handshake" \/ q # r => holder'[l][q] = holder[l][q]
      /\ \A l \in Kind, q \in OV!Role : holder[l][q] # s
  <2>1. /\ DOMAIN mem' = Slot /\ IsObject(mem'[s]) /\ mem'[s].alive /\ mem'[s].kind = "handshake"
        /\ \A u \in Slot \ {s} : /\ IsObject(mem'[u]) /\ mem'[u].alive = mem[u].alive
                                 /\ mem'[u].kind = mem[u].kind
                                 /\ ~Held(u) => mem'[u] = mem[u]
    BY <1>3, <1>4
  <2>2. Places("handshake", r, s)
    BY <1>1, <1>5, <1>6, <2>1 DEF Places
  <2> QED BY <2>2, Placed DEF Settled
<1>8. ASSUME NEW q \in OV!Role
      PROVE  /\ Unsplit(q)' => Unsplit(q)
             /\ q \notin started' => holder'["handshake"][q] = NoSlot
             /\ holder'["handshake"][q] # NoSlot =>
                   mem'[holder'["handshake"][q]].bytes.initiator = (q = "initiator")
             /\ holder'["transport"][q] # NoSlot =>
                   /\ holder["transport"][q] # NoSlot
                   /\ mem'[holder'["transport"][q]].bytes.send = mem[holder["transport"][q]].bytes.send
  <2>1. holder'["transport"][q] = holder["transport"][q] /\ holder["transport"][q] # s
    BY <1>6, <1>7
  <2>2. holder["transport"][q] \in Slot \cup {NoSlot} /\ holder["handshake"][q] \in Slot \cup {NoSlot}
    BY <1>6, OwnedSlots
  <2>3. holder["transport"][q] # NoSlot => mem'[holder["transport"][q]] = mem[holder["transport"][q]]
    BY <1>4, <2>1, <2>2
  <2>4. CASE q = r
    BY <1>1, <1>2, <1>3, <1>4, <1>5, <1>7, <2>1, <2>3, <2>4
  <2>5. CASE q # r
    <3>1. holder'["handshake"][q] = holder["handshake"][q] /\ holder["handshake"][q] # s
      BY <1>6, <1>7, <2>5
    <3>2. holder["handshake"][q] # NoSlot => mem'[holder["handshake"][q]] = mem[holder["handshake"][q]]
      BY <1>4, <2>2, <3>1
    <3>3. q \in started' <=> q \in started
      BY <1>1, <2>5
    <3>4. Unsplit(q)' => Unsplit(q)
      BY <3>1, <3>2, <3>3 DEF Unsplit
    <3>5. /\ q \notin started => holder["handshake"][q] = NoSlot
          /\ holder["handshake"][q] # NoSlot =>
               mem[holder["handshake"][q]].bytes.initiator = (q = "initiator")
      BY DEF LifeInv, Owners
    <3> QED BY <2>1, <2>3, <3>1, <3>2, <3>3, <3>4, <3>5
  <2> QED BY <2>4, <2>5
<1>9. Owners' /\ Sealings' /\ SealsUnique'
  BY <1>1, <1>8, Carried
<1> QED BY <1>7, <1>9 DEF LifeInv

\* split, and the TransportState built from the pair.
LEMMA SplitInto ==
    ASSUME LifeInv, NEW r \in OV!Role, NEW s \in Slot, split_into(r, s)
    PROVE  LifeInv'
<1> DEFINE h == holder["handshake"][r]
           b == mem[h].bytes
           pair == handshake_split(b)
           x == object("transport", [send |-> cipher_move(pair.send).to,
                                     recv |-> cipher_move(pair.recv).to])
<1>1. /\ h # NoSlot /\ OV!may_split(b) /\ ~mem[s].alive
      /\ mem' = [mem EXCEPT ![h].bytes = pair.hs, ![s] = x]
      /\ holder' = [holder EXCEPT !["transport"][r] = s] /\ started' = started /\ sealed' = sealed
  BY DEF split_into
<1>2. "handshake" \in Kind /\ "transport" \in Kind
  BY DEF Kind
<1>3. /\ h \in Slot /\ mem[h].alive /\ mem[h].kind = "handshake" /\ h # s /\ Held(h)
  BY <1>1, <1>2, OwnedSlots
<1>4. IsObject(mem[h]) /\ IsHandshake(b) /\ b.initiator = (r = "initiator") /\ DOMAIN mem = Slot
  BY <1>1, <1>3 DEF LifeInv, Memory, IsObject, Owners
<1>5. is_complete(b) /\ b.symmetric.ck # Zero /\ Unsplit(r)
  BY <1>1, OwnerNames DEF Unsplit
<1>6. holder["transport"][r] = NoSlot
  BY <1>5 DEF LifeInv, Owners
<1>7. /\ IsHandshake(pair.hs) /\ pair.hs.initiator = b.initiator /\ pair.hs.symmetric.ck = Zero
      /\ pair.hs.step = b.step /\ pair.hs.pattern = b.pattern
      /\ IsCipher(pair.send) /\ IsCipher(pair.recv) /\ pair.send.has_key
      /\ sender(pair.send.k) = IF b.initiator THEN "initiator" ELSE "responder"
  BY <1>4, SplitPair
<1> HIDE DEF pair
<1>8. IsObject(x) /\ x.alive /\ x.kind = "transport" /\ x.bytes.send = pair.send
  BY <1>7 DEF object, IsObject, IsTransport, Kind, cipher_move
<1> HIDE DEF x
<1> DEFINE y == [mem[h] EXCEPT !.bytes = pair.hs]
<1>9. /\ DOMAIN mem' = Slot /\ mem'[s] = x /\ mem'[h] = y
      /\ \A u \in Slot \ {s, h} : mem'[u] = mem[u]
  BY <1>1, <1>3, <1>4
<1>10. IsObject(y) /\ y.alive = mem[h].alive /\ y.kind = mem[h].kind /\ y.bytes = pair.hs
  BY <1>3, <1>4, <1>7 DEF IsObject
<1> HIDE DEF y
<1>11. \A u \in Slot \ {s} : /\ IsObject(mem'[u]) /\ mem'[u].alive = mem[u].alive
                             /\ mem'[u].kind = mem[u].kind
                             /\ ~Held(u) => mem'[u] = mem[u]
  BY <1>3, <1>9, <1>10 DEF LifeInv, Memory
<1> HIDE DEF h
<1>12. /\ Memory' /\ Holders' /\ Idle' /\ holder'["transport"][r] = s
       /\ \A l \in Kind, q \in OV!Role : l # "transport" \/ q # r => holder'[l][q] = holder[l][q]
       /\ \A l \in Kind, q \in OV!Role : holder[l][q] # s
  <2>1. /\ DOMAIN mem' = Slot /\ IsObject(mem'[s]) /\ mem'[s].alive /\ mem'[s].kind = "transport"
    BY <1>8, <1>9
  <2>2. Places("transport", r, s)
    BY <1>1, <1>2, <1>6, <1>11, <2>1 DEF Places
  <2> QED BY <2>2, Placed DEF Settled
<1>13. ASSUME NEW q \in OV!Role
       PROVE  /\ holder'["handshake"][q] = holder["handshake"][q]
              /\ q # r => holder["handshake"][q] # h
              /\ holder["handshake"][q] \in (Slot \ {s}) \cup {NoSlot}
              /\ holder["transport"][q] \in (Slot \ {s, h}) \cup {NoSlot}
  <2>1. holder'["handshake"][q] = holder["handshake"][q]
    BY <1>2, <1>12
  <2>2. q # r => holder["handshake"][q] # h
    BY <1>1, <1>2 DEF LifeInv, Holders, h
  <2>3. holder["transport"][q] # h
    BY <1>2, <1>3, OwnedSlots
  <2> QED BY <1>2, <1>12, <2>1, <2>2, <2>3, OwnedSlots
<1>14. ~Unsplit(r)'
  <2>1. r \in started /\ holder'["handshake"][r] = h
    BY <1>1, <1>13 DEF LifeInv, Owners, h
  <2>2. is_complete(mem'[h].bytes) /\ mem'[h].bytes.symmetric.ck = Zero
    BY <1>5, <1>7, <1>9, <1>10 DEF is_complete
  <2> QED BY <1>1, <2>1, <2>2 DEF Unsplit
<1>15. ASSUME NEW q \in OV!Role, q # r
       PROVE  /\ Unsplit(q)' => Unsplit(q)
              /\ holder'["transport"][q] = holder["transport"][q]
              /\ holder["transport"][q] # NoSlot =>
                    mem'[holder["transport"][q]] = mem[holder["transport"][q]]
              /\ holder["handshake"][q] # NoSlot =>
                    mem'[holder["handshake"][q]] = mem[holder["handshake"][q]]
  <2>1. holder'["transport"][q] = holder["transport"][q]
    BY <1>2, <1>12, <1>15
  <2>2. holder["transport"][q] # NoSlot => mem'[holder["transport"][q]] = mem[holder["transport"][q]]
    BY <1>9, <1>13
  <2>3. holder["handshake"][q] # NoSlot => mem'[holder["handshake"][q]] = mem[holder["handshake"][q]]
    BY <1>9, <1>13, <1>15
  <2>4. Unsplit(q)' => Unsplit(q)
    BY <1>1, <1>13, <2>3 DEF Unsplit
  <2> QED BY <2>1, <2>2, <2>3, <2>4
<1>16. Sealings' /\ SealsUnique'
  <2>1. \A q \in OV!Role :
              /\ Unsplit(q)' => Unsplit(q)
              /\ ~Unsplit(q) /\ holder'["transport"][q] # NoSlot =>
                    /\ holder["transport"][q] # NoSlot
                    /\ mem'[holder'["transport"][q]].bytes.send = mem[holder["transport"][q]].bytes.send
    BY <1>5, <1>15
  <2> QED BY <1>1, <2>1, SealingsCarried
<1>17. Owners'
  <2> SUFFICES ASSUME NEW q \in OV!Role
               PROVE  /\ q \notin started' => holder'["handshake"][q] = NoSlot
                      /\ holder'["handshake"][q] # NoSlot =>
                            mem'[holder'["handshake"][q]].bytes.initiator = (q = "initiator")
                      /\ holder'["transport"][q] # NoSlot =>
                            /\ ~Unsplit(q)' /\ sender(mem'[holder'["transport"][q]].bytes.send.k) = q
                            /\ mem'[holder'["transport"][q]].bytes.send.has_key
    BY DEF Owners, sender
  <2>1. /\ q \notin started => holder["handshake"][q] = NoSlot
        /\ holder["handshake"][q] # NoSlot =>
              mem[holder["handshake"][q]].bytes.initiator = (q = "initiator")
        /\ holder["transport"][q] # NoSlot =>
              /\ ~Unsplit(q) /\ sender(mem[holder["transport"][q]].bytes.send.k) = q
              /\ mem[holder["transport"][q]].bytes.send.has_key
    BY DEF LifeInv, Owners
  <2>2. CASE q = r
    <3>1. holder'["handshake"][r] = h /\ mem'[h].bytes.initiator = (r = "initiator")
      BY <1>4, <1>7, <1>9, <1>10, <1>13 DEF h
    <3>2. sender(mem'[s].bytes.send.k) = r /\ mem'[s].bytes.send.has_key
      BY <1>4, <1>7, <1>8, <1>9 DEF OV!Role
    <3> QED BY <1>1, <1>12, <1>13, <1>14, <2>1, <2>2, <3>1, <3>2
  <2>3. CASE q # r
    BY <1>1, <1>13, <1>15, <2>1, <2>3
  <2> QED BY <2>2, <2>3
<1> QED BY <1>12, <1>16, <1>17 DEF LifeInv
-----------------------------------------------------------------------------
(***************************************************************************)
(* Moves and destruction.                                                  *)
(***************************************************************************)
LEMMA MoveOf ==
    ASSUME NEW o, IsObject(o)
    PROVE  LET m    == move_of(o)
               x    == object(o.kind, m.to)
               left == [o EXCEPT !.bytes = m.from]
           IN  /\ IsObject(x) /\ x.alive /\ x.kind = o.kind
               /\ IsObject(left) /\ left.alive = o.alive /\ left.kind = o.kind /\ Clean(left)
               /\ Clean(o) => Clean(x)
               /\ o.kind = "handshake" =>
                     /\ x.bytes.initiator = o.bytes.initiator
                     /\ is_complete(x.bytes) <=> is_complete(o.bytes)
                     /\ x.bytes.symmetric.ck = o.bytes.symmetric.ck
               /\ o.kind = "transport" => x.bytes.send = o.bytes.send
<1> DEFINE m    == move_of(o)
           x    == object(o.kind, m.to)
           left == [o EXCEPT !.bytes = m.from]
<1>1. /\ x.alive /\ x.kind = o.kind /\ x.bytes = m.to /\ DOMAIN x = {"alive", "kind", "bytes"}
      /\ x.alive \in BOOLEAN
  BY DEF object
<1>2. /\ left.alive = o.alive /\ left.kind = o.kind /\ left.bytes = m.from /\ DOMAIN left = DOMAIN o
  BY DEF IsObject
<1>3. CASE o.kind = "handshake"
  <2>1. m = handshake_move(o.bytes) /\ IsHandshake(o.bytes)
    BY <1>3 DEF move_of, IsObject
  <2> HIDE DEF m, x, left
  <2>2. /\ m.from = [wipe_dh_arrays(o.bytes) EXCEPT !.symmetric = symmetric_destroyed]
        /\ IsHandshake(m.to) /\ \A f \in DOMAIN o.bytes \ {"symmetric"} : m.to[f] = o.bytes[f]
        /\ m.to.symmetric.ck = o.bytes.symmetric.ck /\ m.to.symmetric.h = o.bytes.symmetric.h
        /\ m.to.symmetric.cipher = o.bytes.symmetric.cipher
    BY <2>1, HandshakeMove
  <2>3. IsHandshake(left.bytes) /\ Clean(left)
    BY <1>2, <1>3, <2>1, <2>2, WipedHandshake
  <2>4. /\ m.to.initiator = o.bytes.initiator /\ m.to.step = o.bytes.step
        /\ m.to.pattern = o.bytes.pattern /\ m.to.s_sk = o.bytes.s_sk /\ m.to.s_pk = o.bytes.s_pk
        /\ m.to.e_sk = o.bytes.e_sk /\ m.to.e_pk = o.bytes.e_pk
        /\ m.to.rs = o.bytes.rs /\ m.to.re = o.bytes.re
    BY <2>1, <2>2 DEF IsHandshake
  <2>5. Clean(o) => Clean(x)
    <3>1. Secrets(o) = {Zero} => Secrets(x) = {Zero}
      BY <1>1, <1>3, <2>2, <2>4, HandshakeSecrets
    <3> QED BY <1>1, <1>3, <3>1 DEF Clean
  <2>6. IsObject(x) /\ IsObject(left)
    BY <1>1, <1>2, <1>3, <2>2, <2>3 DEF IsObject
  <2> QED BY <1>1, <1>2, <1>3, <2>2, <2>3, <2>4, <2>5, <2>6 DEF is_complete, x, left, m
<1>4. CASE o.kind = "transport"
  <2>1. m = transport_move(o.bytes) /\ IsTransport(o.bytes)
    BY <1>4 DEF move_of, IsObject
  <2> HIDE DEF m, x, left
  <2>2. /\ DOMAIN m.to = {"send", "recv"} /\ m.to.send = o.bytes.send /\ m.to.recv = o.bytes.recv
        /\ DOMAIN m.from = {"send", "recv"} /\ m.from.send = zeroized /\ m.from.recv = zeroized
    BY <2>1 DEF transport_move, cipher_move
  <2>3. IsTransport(m.to) /\ IsTransport(m.from)
    BY <2>1, <2>2, ZeroCipher DEF IsTransport
  <2>4. Clean(left)
    BY <1>2, <1>4, <2>2, ZeroCipher, TransportSecrets DEF Clean
  <2>5. Clean(o) => Clean(x)
    <3>1. Secrets(o) = {Zero} => Secrets(x) = {Zero}
      BY <1>1, <1>4, <2>2, TransportSecrets
    <3> QED BY <1>1, <1>4, <2>2, <3>1 DEF Clean
  <2>6. IsObject(x) /\ IsObject(left)
    BY <1>1, <1>2, <1>4, <2>3 DEF IsObject
  <2> QED BY <1>1, <1>2, <1>4, <2>2, <2>4, <2>5, <2>6 DEF x, left, m
<1> QED BY <1>3, <1>4 DEF IsObject, Kind

\* A move construction or a move assignment.
LEMMA Move ==
    ASSUME LifeInv, NEW to \in Slot, NEW from \in Slot, move(to, from)
    PROVE  LifeInv'
<1> DEFINE o    == mem[from]
           m    == move_of(o)
           x    == object(o.kind, m.to)
           left == [o EXCEPT !.bytes = m.from]
<1>1. /\ to # from /\ o.alive /\ (mem[to].alive => mem[to].kind = o.kind)
      /\ mem' = [mem EXCEPT ![to] = x, ![from].bytes = m.from]
      /\ rehouse(to, from) /\ UNCHANGED <<started, sealed>>
  BY DEF move
<1>2. DOMAIN mem = Slot /\ IsObject(o)
  BY DEF LifeInv, Memory
<1>3. /\ DOMAIN mem' = Slot /\ mem'[to] = x /\ mem'[from] = left
      /\ \A u \in Slot \ {to, from} : mem'[u] = mem[u]
  BY <1>1, <1>2
<1>4. /\ IsObject(x) /\ x.alive /\ x.kind = o.kind
      /\ IsObject(left) /\ left.alive = o.alive /\ left.kind = o.kind /\ Clean(left)
      /\ Clean(o) => Clean(x)
      /\ o.kind = "handshake" =>
            /\ x.bytes.initiator = o.bytes.initiator
            /\ is_complete(x.bytes) <=> is_complete(o.bytes)
            /\ x.bytes.symmetric.ck = o.bytes.symmetric.ck
      /\ o.kind = "transport" => x.bytes.send = o.bytes.send
  BY <1>2, MoveOf
<1> HIDE DEF x, left, m
<1>5. to # NoSlot /\ from # NoSlot
  BY LifeAssumption
<1>6. /\ DOMAIN holder' = Kind
      /\ \A k \in Kind : DOMAIN holder'[k] = OV!Role /\ holder'[k] = [r \in OV!Role |-> holder'[k][r]]
      /\ \A k \in Kind, r \in OV!Role :
            /\ holder[k][r] = from => holder'[k][r] = to
            /\ holder[k][r] = to => holder'[k][r] = NoSlot
            /\ holder[k][r] # from /\ holder[k][r] # to => holder'[k][r] = holder[k][r]
  BY <1>1 DEF rehouse, Kind
<1>7. \A k \in Kind, r \in OV!Role :
         \/ holder'[k][r] = NoSlot
         \/ holder'[k][r] = to /\ holder[k][r] = from
         \/ holder'[k][r] = holder[k][r] /\ holder[k][r] \in Slot \ {to, from}
  BY <1>6, OwnedSlots
<1>8. Memory'
  BY <1>3, <1>4 DEF LifeInv, Memory
<1>9. Holders'
  <2>1. \A k \in Kind : holder'[k] \in [OV!Role -> Slot \cup {NoSlot}]
    BY <1>6, <1>7
  <2>2. ASSUME NEW k \in Kind, NEW r \in OV!Role, holder'[k][r] # NoSlot
        PROVE  mem'[holder'[k][r]].alive /\ mem'[holder'[k][r]].kind = k
    <3>1. CASE holder'[k][r] = to /\ holder[k][r] = from
      <4>1. o.kind = k
        BY <3>1, OwnedSlots
      <4> QED BY <1>3, <1>4, <3>1, <4>1
    <3>2. CASE holder'[k][r] = holder[k][r] /\ holder[k][r] \in Slot \ {to, from}
      BY <1>3, <3>2, OwnedSlots
    <3> QED BY <1>7, <2>2, <3>1, <3>2
  <2>3. ASSUME NEW k \in Kind, NEW p \in OV!Role, NEW q \in OV!Role,
               holder'[k][p] = holder'[k][q], holder'[k][p] # NoSlot
        PROVE  p = q
    <3>1. holder[k][p] = holder[k][q] /\ holder[k][p] # NoSlot
      BY <1>5, <1>7, <2>3
    <3> QED BY <3>1 DEF LifeInv, Holders
  <2> QED BY <1>6, <2>1, <2>2, <2>3 DEF Holders
<1>10. Idle'
  <2> SUFFICES ASSUME NEW u \in Slot, ~Held(u)' PROVE Clean(mem'[u])
    BY DEF Idle, Clean, Secrets
  <2>1. \A k \in Kind, r \in OV!Role : holder'[k][r] # u
    BY DEF Held, Kind
  <2>2. CASE u = to
    <3>1. \A k \in Kind, r \in OV!Role : holder[k][r] # from
      BY <1>6, <2>1, <2>2
    <3>2. Clean(o)
      BY <3>1, OwnedSlots DEF LifeInv, Idle
    <3> QED BY <1>3, <1>4, <2>2, <3>2
  <2>3. CASE u = from
    BY <1>3, <1>4, <2>3
  <2>4. CASE u # to /\ u # from
    <3>1. ~Held(u)
      BY <1>6, <2>1, <2>4, OwnedSlots
    <3> QED BY <1>3, <2>4, <3>1 DEF LifeInv, Idle
  <2> QED BY <2>2, <2>3, <2>4
<1>11. ASSUME NEW q \in OV!Role
       PROVE  /\ Unsplit(q)' => Unsplit(q)
              /\ q \notin started' => holder'["handshake"][q] = NoSlot
              /\ holder'["handshake"][q] # NoSlot =>
                    mem'[holder'["handshake"][q]].bytes.initiator = (q = "initiator")
              /\ holder'["transport"][q] # NoSlot =>
                    /\ holder["transport"][q] # NoSlot
                    /\ mem'[holder'["transport"][q]].bytes.send = mem[holder["transport"][q]].bytes.send
  <2> DEFINE h == holder["handshake"][q]
             g == holder'["handshake"][q]
             t == holder["transport"][q]
             u == holder'["transport"][q]
  <2>1. "handshake" \in Kind /\ "transport" \in Kind
    BY DEF Kind
  <2>2. g # NoSlot => /\ h # NoSlot
                      /\ mem'[g].bytes.initiator = mem[h].bytes.initiator
                      /\ is_complete(mem'[g].bytes) <=> is_complete(mem[h].bytes)
                      /\ mem'[g].bytes.symmetric.ck = mem[h].bytes.symmetric.ck
    <3>1. CASE g = to /\ h = from
      <4>1. o.kind = "handshake"
        BY <2>1, <3>1, OwnedSlots
      <4> QED BY <1>3, <1>4, <1>5, <3>1, <4>1
    <3>2. CASE g = h /\ h \in Slot \ {to, from}
      BY <1>3, <3>2
    <3> QED BY <1>7, <2>1, <3>1, <3>2
  <2>3. u # NoSlot => t # NoSlot /\ mem'[u].bytes.send = mem[t].bytes.send
    <3>1. CASE u = to /\ t = from
      <4>1. o.kind = "transport"
        BY <2>1, <3>1, OwnedSlots
      <4> QED BY <1>3, <1>4, <1>5, <3>1, <4>1
    <3>2. CASE u = t /\ t \in Slot \ {to, from}
      BY <1>3, <3>2
    <3> QED BY <1>7, <2>1, <3>1, <3>2
  <2>4. /\ q \notin started => h = NoSlot
        /\ h # NoSlot => mem[h].bytes.initiator = (q = "initiator")
    BY DEF LifeInv, Owners
  <2>5. Unsplit(q)' => Unsplit(q)
    BY <1>1, <2>2 DEF Unsplit
  <2> QED BY <1>1, <2>2, <2>3, <2>4, <2>5
<1>12. Owners' /\ Sealings' /\ SealsUnique'
  BY <1>1, <1>11, Carried
<1> QED BY <1>8, <1>9, <1>10, <1>12 DEF LifeInv

\* A destructor.
LEMMA Destroy ==
    ASSUME LifeInv, NEW s \in Slot, destroy(s)
    PROVE  LifeInv'
<1> DEFINE o == mem[s]
           b == IF o.kind = "handshake" THEN destroyed(o.bytes) ELSE transport_destroyed
           d == [o EXCEPT !.alive = FALSE, !.bytes = b]
<1>1. /\ mem' = [mem EXCEPT ![s].alive = FALSE, ![s].bytes = b]
      /\ holder' = [k \in {"handshake", "transport"} |-> [r \in OV!Role |->
                      IF holder[k][r] = s THEN NoSlot ELSE holder[k][r]]]
      /\ UNCHANGED <<started, sealed>>
  BY DEF destroy, LifeInv, Memory, IsObject
<1>2. DOMAIN mem = Slot /\ IsObject(o)
  BY DEF LifeInv, Memory
<1>3. DOMAIN mem' = Slot /\ mem'[s] = d /\ \A u \in Slot \ {s} : mem'[u] = mem[u]
  BY <1>1, <1>2 DEF IsObject
<1>4. DOMAIN d = DOMAIN o /\ ~d.alive /\ d.alive \in BOOLEAN /\ d.kind = o.kind /\ d.bytes = b
  BY <1>2 DEF IsObject
<1>5. IsObject(d) /\ Clean(d)
  <2>1. CASE o.kind = "handshake"
    <3>1. IsHandshake(o.bytes) /\ d.bytes = destroyed(o.bytes)
      BY <1>2, <1>4, <2>1 DEF IsObject
    <3> HIDE DEF d, b
    <3>2. IsHandshake(d.bytes) /\ Clean(d)
      BY <1>4, <2>1, <3>1, WipedHandshake DEF destroyed
    <3> QED BY <1>2, <1>4, <2>1, <3>2 DEF IsObject
  <2>2. CASE o.kind = "transport"
    <3>1. d.bytes = transport_destroyed
      BY <1>4, <2>2
    <3> HIDE DEF d, b
    <3>2. /\ DOMAIN d.bytes = {"send", "recv"} /\ d.bytes.send = zeroized /\ d.bytes.recv = zeroized
      BY <3>1 DEF transport_destroyed
    <3>3. IsTransport(d.bytes)
      BY <3>2, ZeroCipher DEF IsTransport
    <3>4. Clean(d)
      BY <1>4, <2>2, <3>2, ZeroCipher, TransportSecrets DEF Clean
    <3> QED BY <1>2, <1>4, <2>2, <3>3, <3>4 DEF IsObject
  <2> QED BY <1>2, <2>1, <2>2 DEF IsObject, Kind
<1> HIDE DEF d, b
<1>6. /\ DOMAIN holder' = Kind
      /\ \A k \in Kind : DOMAIN holder'[k] = OV!Role /\ holder'[k] = [r \in OV!Role |-> holder'[k][r]]
      /\ \A k \in Kind, r \in OV!Role :
            /\ holder[k][r] = s => holder'[k][r] = NoSlot
            /\ holder[k][r] # s => holder'[k][r] = holder[k][r]
  BY <1>1 DEF Kind
<1>7. \A k \in Kind, r \in OV!Role :
         \/ holder'[k][r] = NoSlot
         \/ holder'[k][r] = holder[k][r] /\ holder[k][r] \in Slot \ {s}
  BY <1>6, OwnedSlots
<1>8. Memory'
  BY <1>3, <1>5 DEF LifeInv, Memory
<1>9. Holders'
  <2>1. \A k \in Kind : holder'[k] \in [OV!Role -> Slot \cup {NoSlot}]
    BY <1>6, <1>7
  <2>2. ASSUME NEW k \in Kind, NEW r \in OV!Role, holder'[k][r] # NoSlot
        PROVE  mem'[holder'[k][r]].alive /\ mem'[holder'[k][r]].kind = k
    <3>1. holder'[k][r] = holder[k][r] /\ holder[k][r] \in Slot \ {s}
      BY <1>7, <2>2
    <3> QED BY <1>3, <3>1, OwnedSlots
  <2>3. ASSUME NEW k \in Kind, NEW p \in OV!Role, NEW q \in OV!Role,
               holder'[k][p] = holder'[k][q], holder'[k][p] # NoSlot
        PROVE  p = q
    <3>1. holder[k][p] = holder[k][q] /\ holder[k][p] # NoSlot
      BY <1>7, <2>3
    <3> QED BY <3>1 DEF LifeInv, Holders
  <2> QED BY <1>6, <2>1, <2>2, <2>3 DEF Holders
<1>10. Idle'
  <2> SUFFICES ASSUME NEW u \in Slot, ~Held(u)' PROVE Clean(mem'[u])
    BY DEF Idle, Clean, Secrets
  <2>1. \A k \in Kind, r \in OV!Role : holder'[k][r] # u
    BY DEF Held, Kind
  <2>2. CASE u = s
    BY <1>3, <1>5, <2>2
  <2>3. CASE u # s
    <3>1. ~Held(u)
      BY <1>6, <2>1, <2>3, OwnedSlots
    <3> QED BY <1>3, <2>3, <3>1 DEF LifeInv, Idle
  <2> QED BY <2>2, <2>3
<1>11. ASSUME NEW q \in OV!Role
       PROVE  /\ Unsplit(q)' => Unsplit(q)
              /\ q \notin started' => holder'["handshake"][q] = NoSlot
              /\ holder'["handshake"][q] # NoSlot =>
                    mem'[holder'["handshake"][q]].bytes.initiator = (q = "initiator")
              /\ holder'["transport"][q] # NoSlot =>
                    /\ holder["transport"][q] # NoSlot
                    /\ mem'[holder'["transport"][q]].bytes.send = mem[holder["transport"][q]].bytes.send
  <2> DEFINE h == holder["handshake"][q]
             g == holder'["handshake"][q]
             t == holder["transport"][q]
             u == holder'["transport"][q]
  <2>1. "handshake" \in Kind /\ "transport" \in Kind
    BY DEF Kind
  <2>2. g # NoSlot => g = h /\ mem'[g] = mem[h]
    BY <1>3, <1>7, <2>1
  <2>3. u # NoSlot => u = t /\ mem'[u] = mem[t]
    BY <1>3, <1>7, <2>1
  <2>4. /\ q \notin started => h = NoSlot
        /\ h # NoSlot => mem[h].bytes.initiator = (q = "initiator")
    BY DEF LifeInv, Owners
  <2>5. Unsplit(q)' => Unsplit(q)
    BY <1>1, <2>2 DEF Unsplit
  <2> QED BY <1>1, <2>2, <2>3, <2>4, <2>5
<1>12. Owners' /\ Sealings' /\ SealsUnique'
  BY <1>1, <1>11, Carried
<1> QED BY <1>8, <1>9, <1>10, <1>12 DEF LifeInv
-----------------------------------------------------------------------------
(***************************************************************************)
(* The transport phase.                                                    *)
(***************************************************************************)
\* A call on the TransportState in s leaves b there.  b's send cipher has the
\* same base key, and is further on.
Further(c, d) ==
    /\ d.k.base = c.k.base /\ d.has_key = c.has_key
    /\ \A k, n : k.gen \in Nat /\ n \in Nat /\ Behind(k, n, c) => Behind(k, n, d)

Spoke(s, b) ==
    /\ s \in Slot /\ mem[s].kind = "transport" /\ mem' = [mem EXCEPT ![s].bytes = b]
    /\ UNCHANGED <<holder, started>>
    /\ IsTransport(b) /\ (mem[s].bytes.send.has_key => Further(mem[s].bytes.send, b.send))
    /\ ~Held(s) => Clean([mem[s] EXCEPT !.bytes = b])

\* A TransportState whose send cipher moves on.
LEMMA Speaking ==
    ASSUME LifeInv, NEW s, NEW b, Spoke(s, b)
    PROVE  /\ Memory' /\ Holders' /\ Idle' /\ Owners' /\ mem'[s].bytes = b
           /\ \A k, n : \A q \in OV!Role :
                 k.gen \in Nat /\ n \in Nat /\ Spoken(k, n, q) => Spoken(k, n, q)'
           /\ \A q \in OV!Role : Unsplit(q)' <=> Unsplit(q)
<1>1. /\ s \in Slot /\ holder' = holder /\ started' = started /\ IsTransport(b)
      /\ mem[s].kind = "transport"
  BY DEF Spoke
<1>2. /\ Memory' /\ Holders' /\ Idle'
      /\ mem'[s].bytes = b /\ \A u \in Slot \ {s} : mem'[u] = mem[u]
  BY Changed DEF Spoke
<1>3. ASSUME NEW q \in OV!Role
      PROVE  /\ Unsplit(q)' <=> Unsplit(q)
             /\ holder["handshake"][q] # NoSlot =>
                   mem'[holder["handshake"][q]] = mem[holder["handshake"][q]]
  <2>1. holder["handshake"][q] # s /\ holder["handshake"][q] \in Slot \cup {NoSlot}
    BY <1>1, OwnedSlots DEF Kind
  <2>2. holder["handshake"][q] # NoSlot => mem'[holder["handshake"][q]] = mem[holder["handshake"][q]]
    BY <1>2, <2>1
  <2> QED BY <1>1, <2>2 DEF Unsplit
<1>4. ASSUME NEW q \in OV!Role, holder["transport"][q] # NoSlot
      PROVE  LET u == holder["transport"][q]
             IN  /\ sender(mem'[u].bytes.send.k) = q /\ mem'[u].bytes.send.has_key
                 /\ \A k, n : k.gen \in Nat /\ n \in Nat /\ Behind(k, n, mem[u].bytes.send) =>
                       Behind(k, n, mem'[u].bytes.send)
  <2> DEFINE u == holder["transport"][q]
  <2>1. u \in Slot /\ sender(mem[u].bytes.send.k) = q /\ mem[u].bytes.send.has_key
    BY <1>4, OwnedSlots DEF LifeInv, Owners, Kind
  <2> HIDE DEF u
  <2>2. CASE u = s
    <3>1. Further(mem[u].bytes.send, mem'[u].bytes.send)
      BY <1>2, <2>1, <2>2 DEF Spoke
    <3> QED BY <2>1, <3>1 DEF Further, sender, u
  <2>3. CASE u # s
    BY <1>2, <2>1, <2>3 DEF u
  <2> QED BY <2>2, <2>3
<1>5. Owners'
  <2> SUFFICES ASSUME NEW q \in OV!Role
               PROVE  /\ q \notin started => holder["handshake"][q] = NoSlot
                      /\ holder["handshake"][q] # NoSlot =>
                            mem'[holder["handshake"][q]].bytes.initiator = (q = "initiator")
                      /\ holder["transport"][q] # NoSlot =>
                            /\ ~Unsplit(q)' /\ sender(mem'[holder["transport"][q]].bytes.send.k) = q
                            /\ mem'[holder["transport"][q]].bytes.send.has_key
    BY <1>1 DEF Owners, sender
  <2>1. /\ q \notin started => holder["handshake"][q] = NoSlot
        /\ holder["handshake"][q] # NoSlot =>
              mem[holder["handshake"][q]].bytes.initiator = (q = "initiator")
        /\ holder["transport"][q] # NoSlot => ~Unsplit(q)
    BY DEF LifeInv, Owners
  <2> QED BY <1>3, <1>4, <2>1
<1>6. ASSUME NEW k, NEW n, NEW q \in OV!Role, k.gen \in Nat, n \in Nat, Spoken(k, n, q)
      PROVE  Spoken(k, n, q)'
  <2>1. ~Unsplit(q)'
    BY <1>3, <1>6 DEF Spoken
  <2>2. holder["transport"][q] # NoSlot => Behind(k, n, mem'[holder["transport"][q]].bytes.send)
    BY <1>4, <1>6 DEF Spoken
  <2> QED BY <1>1, <2>1, <2>2 DEF Spoken, Behind
<1> QED BY <1>2, <1>3, <1>5, <1>6

\* Nothing in memory changes.
LEMMA Untouched ==
    ASSUME LifeInv, UNCHANGED <<mem, holder, started, sealed>>
    PROVE  LifeInv'
<1>1. Memory' /\ Holders'
  BY DEF LifeInv, Memory, Holders
<1>2. Idle'
  BY DEF LifeInv, Idle, Held
<1>3. Owners' /\ Sealings' /\ SealsUnique'
  <2>1. \A r \in OV!Role : Unsplit(r)' <=> Unsplit(r)
    BY DEF Unsplit
  <2>2. Owners'
    BY <2>1 DEF LifeInv, Owners
  <2>3. Sealings' /\ SealsUnique'
    BY <2>1, SealingsCarried
  <2> QED BY <2>2, <2>3
<1> QED BY <1>1, <1>2, <1>3 DEF LifeInv

\* What was encrypted before is still behind.
LEMMA SealingsKept ==
    ASSUME LifeInv, NEW s, NEW b, Spoke(s, b), NEW a \in sealed
    PROVE  \/ a = seal(a[2], NONCE_MAX, Empty, Zero)
           \/ /\ a[3] \in Nat /\ a[3] < NONCE_MAX /\ a[2].gen \in Nat
              /\ Spoken(a[2], a[3], sender(a[2]))'
<1>1. \/ a = seal(a[2], NONCE_MAX, Empty, Zero)
      \/ /\ a[3] \in Nat /\ a[3] < NONCE_MAX /\ a[2].gen \in Nat
         /\ Spoken(a[2], a[3], sender(a[2]))
  BY DEF LifeInv, Sealings
<1> QED BY <1>1, Speaking, OwnerNames

\* encrypt, up to the abort.
LEMMA Encrypt ==
    ASSUME LifeInv, NEW s \in Slot, encrypt(s)
    PROVE  LifeInv'
<1> DEFINE t == mem[s].bytes
           c == t.send
           e == transport_encrypt(t, <<"text", frames>>)
<1>1. mem[s].kind = "transport" /\ IsTransport(t) /\ UNCHANGED <<holder, started>>
  BY DEF encrypt, holds, LifeInv, Memory, IsObject
<1>2. IsCipher(c)
  BY <1>1 DEF IsTransport
<1>3. CASE would_abort(c)
  BY <1>1, <1>3, Untouched DEF encrypt
<1>4. CASE ~would_abort(c) /\ ~c.has_key
  <2>1. /\ mem' = [mem EXCEPT ![s].bytes = e.t] /\ sealed' = sealed
    BY <1>4 DEF encrypt
  <2>2. e.t = [t EXCEPT !.send = c]
    BY <1>4 DEF transport_encrypt, encrypt_with_ad
  <2>3. DOMAIN e.t = {"send", "recv"} /\ e.t.send = c /\ e.t.recv = t.recv
    BY <1>1, <2>2 DEF IsTransport
  <2> HIDE DEF e
  <2>4. IsTransport(e.t)
    BY <1>1, <2>3 DEF IsTransport
  <2>5. ~Held(s) => Clean([mem[s] EXCEPT !.bytes = e.t])
    <3> SUFFICES ASSUME ~Held(s) PROVE Clean([mem[s] EXCEPT !.bytes = e.t])
      OBVIOUS
    <3> DEFINE o == [mem[s] EXCEPT !.bytes = e.t]
    <3>1. o.kind = "transport" /\ o.bytes = e.t
      BY <1>1 DEF LifeInv, Memory, IsObject
    <3>2. Clean(mem[s])
      BY DEF LifeInv, Idle
    <3> HIDE DEF o
    <3>3. Clean(o)
      BY <1>1, <2>3, <3>1, <3>2, TransportSecrets DEF Clean
    <3> QED BY <3>3 DEF o
  <2>6. Spoke(s, e.t)
    BY <1>1, <1>4, <2>1, <2>4, <2>5 DEF Spoke
  <2>7. /\ Memory' /\ Holders' /\ Idle' /\ Owners'
    BY <2>6, Speaking
  <2>8. Sealings' /\ SealsUnique'
    <3>1. Sealings'
      BY <2>1, <2>6, SealingsKept DEF Sealings, sender
    <3> QED BY <2>1, <3>1 DEF LifeInv, SealsUnique
  <2> QED BY <2>7, <2>8 DEF LifeInv
<1>5. CASE ~would_abort(c) /\ c.has_key
  <2> DEFINE d == [c EXCEPT !.n = incr(c.n)]
             x == seal(c.k, c.n, Empty, <<"text", frames>>)
  <2>1. /\ mem' = [mem EXCEPT ![s].bytes = e.t] /\ sealed' = sealed \cup {e.out}
    BY <1>5 DEF encrypt
  <2>2. e.t = [t EXCEPT !.send = d] /\ e.out = x
    BY <1>5 DEF transport_encrypt, encrypt_with_ad
  <2>3. DOMAIN e.t = {"send", "recv"} /\ e.t.send = d /\ e.t.recv = t.recv
    BY <1>1, <2>2 DEF IsTransport
  <2>4. c.n \in Nat /\ c.n < NONCE_MAX /\ c.k.gen \in Nat
    BY <1>2, <1>5, NonceMaxAssumption DEF IsCipher, would_abort
  <2>5. /\ DOMAIN d = DOMAIN c /\ d.k = c.k /\ d.n = c.n + 1 /\ d.has_key = c.has_key
    BY <1>2, <2>4 DEF IsCipher, incr
  <2> HIDE DEF e, d
  <2>6. IsTransport(e.t)
    <3>1. IsCipher(d)
      BY <1>2, <2>4, <2>5, NonceMaxAssumption DEF IsCipher
    <3> QED BY <1>1, <2>3, <3>1 DEF IsTransport
  <2>7. Further(c, d)
    BY <2>4, <2>5 DEF Further, Behind
  <2>8. Held(s)
    BY <1>1, <1>5 DEF LifeInv, Idle, Clean
  <2>9. Spoke(s, e.t)
    BY <1>1, <2>1, <2>3, <2>6, <2>7, <2>8 DEF Spoke
  <2>10. PICK r \in OV!Role : holder["transport"][r] = s /\ s # NoSlot
    BY <1>1, <2>8, OwnedSlots DEF Kind
  <2>11. sender(c.k) = r /\ ~Unsplit(r)
    BY <2>10 DEF LifeInv, Owners
  <2>12. /\ Memory' /\ Holders' /\ Idle' /\ Owners' /\ mem'[s].bytes = e.t /\ ~Unsplit(r)'
    BY <2>9, <2>11, Speaking
  <2>13. ASSUME NEW k, NEW n, k = c.k, n = c.n
         PROVE  Spoken(k, n, r)'
    <3>1. Behind(k, n, mem'[s].bytes.send)
      BY <2>3, <2>4, <2>5, <2>12, <2>13 DEF Behind
    <3> QED BY <1>1, <2>10, <2>12, <3>1 DEF Spoken, Behind
  <2>14. PICK y : y = x /\ y[2] = c.k /\ y[3] = c.n
    <3>1. x[2] = c.k /\ x[3] = c.n
      BY DEF seal
    <3> HIDE DEF x
    <3> QED BY <3>1
  <2>15. ASSUME NEW a \in sealed, a[2] = c.k, a[3] = c.n
         PROVE  FALSE
    <3>1. \/ a = seal(a[2], NONCE_MAX, Empty, Zero)
          \/ Spoken(a[2], a[3], sender(a[2]))
      BY DEF LifeInv, Sealings
    <3>2. a # seal(a[2], NONCE_MAX, Empty, Zero)
      <4>1. seal(a[2], NONCE_MAX, Empty, Zero)[3] = NONCE_MAX
        BY DEF seal
      <4> QED BY <2>4, <2>15, <4>1, NonceMaxAssumption
    <3>3. Spoken(c.k, c.n, r)
      BY <2>11, <2>15, <3>1, <3>2
    <3> QED BY <2>4, <2>10, <3>3 DEF Spoken, Behind
  <2> HIDE DEF x
  <2>16. Sealings'
    <3> SUFFICES ASSUME NEW a \in sealed \cup {y}
                 PROVE  \/ a = seal(a[2], NONCE_MAX, Empty, Zero)
                        \/ /\ a[3] \in Nat /\ a[3] < NONCE_MAX /\ a[2].gen \in Nat
                           /\ Spoken(a[2], a[3], sender(a[2]))'
      BY <2>1, <2>2, <2>14 DEF Sealings, sender
    <3>1. CASE a \in sealed
      BY <2>9, <3>1, SealingsKept
    <3>2. CASE a = y
      BY <2>4, <2>11, <2>13, <2>14, <3>2
    <3> QED BY <3>1, <3>2
  <2>17. SealsUnique'
    BY <2>1, <2>2, <2>14, <2>15 DEF LifeInv, SealsUnique
  <2> QED BY <2>12, <2>16, <2>17 DEF LifeInv
<1> QED BY <1>3, <1>4, <1>5

\* rekey: the block of REKEY is sealed under the last nonce of each key.
LEMMA RekeyBoth ==
    ASSUME LifeInv, NEW s \in Slot, rekey_both(s)
    PROVE  LifeInv'
<1> DEFINE t == mem[s].bytes
           b == transport_rekey(t)
           fresh == {rekey_block(c) : c \in {d \in {t.send, t.recv} : d.has_key}}
<1>1. /\ mem[s].kind = "transport" /\ IsTransport(t) /\ UNCHANGED <<holder, started>>
      /\ mem' = [mem EXCEPT ![s].bytes = b] /\ sealed' = sealed \cup fresh
  BY DEF rekey_both, holds, LifeInv, Memory, IsObject
<1>2. ASSUME NEW c, IsCipher(c)
      PROVE  LET d == reset_nonce_to_zero(rekey(c))
             IN  /\ IsCipher(d) /\ d.k.base = c.k.base /\ d.has_key = c.has_key /\ d.n = 0
                 /\ c.has_key => d.k.gen = c.k.gen + 1
  <2> DEFINE g == rekey(c)
             d == reset_nonce_to_zero(g)
  <2>1. /\ DOMAIN g = DOMAIN c /\ DOMAIN g.k = DOMAIN c.k /\ g.k.base = c.k.base
        /\ g.has_key = c.has_key /\ g.k.gen \in Nat /\ (c.has_key => g.k.gen = c.k.gen + 1)
    BY <1>2 DEF rekey, IsCipher
  <2>2. d = [g EXCEPT !.n = 0]
    BY DEF reset_nonce_to_zero
  <2> HIDE DEF g
  <2>3. DOMAIN d = DOMAIN g /\ d.k = g.k /\ d.has_key = g.has_key /\ d.n = 0
    BY <1>2, <2>1, <2>2 DEF IsCipher
  <2> HIDE DEF d
  <2>4. IsCipher(d)
    BY <1>2, <2>1, <2>3, NonceMaxAssumption DEF IsCipher
  <2> QED BY <2>1, <2>3, <2>4 DEF g, d
<1>3. /\ DOMAIN b = {"send", "recv"} /\ b.send = reset_nonce_to_zero(rekey(t.send))
      /\ b.recv = reset_nonce_to_zero(rekey(t.recv))
  BY DEF transport_rekey
<1>4. /\ IsCipher(t.send) /\ IsCipher(t.recv)
      /\ IsCipher(b.send) /\ b.send.k.base = t.send.k.base /\ b.send.has_key = t.send.has_key
      /\ b.send.n = 0 /\ (t.send.has_key => b.send.k.gen = t.send.k.gen + 1)
      /\ IsCipher(b.recv) /\ b.recv.k.base = t.recv.k.base /\ b.recv.has_key = t.recv.has_key
  BY <1>1, <1>2, <1>3 DEF IsTransport
<1> HIDE DEF b
<1>5. t.send.has_key => Further(t.send, b.send)
  <2>1. t.send.k.gen \in Nat /\ t.send.n \in Nat
    BY <1>4, NonceMaxAssumption DEF IsCipher
  <2> QED BY <1>4, <2>1 DEF Further, Behind
<1>6. ~Held(s) => Clean([mem[s] EXCEPT !.bytes = b])
  <2> SUFFICES ASSUME ~Held(s) PROVE Clean([mem[s] EXCEPT !.bytes = b])
    OBVIOUS
  <2> DEFINE o == [mem[s] EXCEPT !.bytes = b]
  <2>1. o.kind = "transport" /\ o.bytes = b
    BY <1>1 DEF LifeInv, Memory, IsObject
  <2>2. Clean(mem[s])
    BY DEF LifeInv, Idle
  <2> HIDE DEF o
  <2>3. Clean(o)
    BY <1>1, <1>4, <2>1, <2>2, TransportSecrets DEF Clean
  <2> QED BY <2>3 DEF o
<1>7. Spoke(s, b)
  BY <1>1, <1>3, <1>4, <1>5, <1>6 DEF Spoke, IsTransport
<1>8. Memory' /\ Holders' /\ Idle' /\ Owners'
  BY <1>7, Speaking
<1>9. \A a \in fresh : a = seal(a[2], NONCE_MAX, Empty, Zero) /\ a[3] = NONCE_MAX
  BY DEF rekey_block, seal
<1> HIDE DEF fresh
<1>10. Sealings'
  <2> SUFFICES ASSUME NEW a \in sealed'
               PROVE  \/ a = seal(a[2], NONCE_MAX, Empty, Zero)
                      \/ /\ a[3] \in Nat /\ a[3] < NONCE_MAX /\ a[2].gen \in Nat
                         /\ Spoken(a[2], a[3], sender(a[2]))'
    BY DEF Sealings, sender
  <2> QED BY <1>1, <1>7, <1>9, SealingsKept
<1>11. SealsUnique'
  <2>1. \A a \in sealed : a[3] = NONCE_MAX => a = seal(a[2], NONCE_MAX, Empty, Zero)
    BY NonceMaxAssumption DEF LifeInv, Sealings
  <2>2. \A a, c \in sealed' : a[2] = c[2] /\ a[3] = c[3] => a = c
    BY <1>1, <1>9, <2>1 DEF LifeInv, SealsUnique
  <2> QED BY <2>2 DEF SealsUnique
<1> QED BY <1>8, <1>10, <1>11 DEF LifeInv
-----------------------------------------------------------------------------
\* Initially there are no objects.
LEMMA LifeInit == Init => LifeInv
<1> SUFFICES ASSUME Init PROVE LifeInv
  OBVIOUS
<1> DEFINE h == construct("XX", TRUE, Zero, Empty)
<1>1. IsHandshake(h)
  BY DEF construct, initialize, mix_hash, zeroized, IsHandshake, IsSymmetric
<1> HIDE DEF h
<1>2. /\ DOMAIN Blank = {"alive", "kind", "bytes"} /\ Blank.alive = FALSE
      /\ Blank.kind = "handshake" /\ Blank.bytes = destroyed(h)
  BY DEF Blank, h
<1>3. IsHandshake(Blank.bytes) /\ Clean(Blank)
  BY <1>1, <1>2, WipedHandshake DEF destroyed
<1>4. IsObject(Blank)
  BY <1>2, <1>3 DEF IsObject, Kind
<1>5. Memory /\ \A s \in Slot : mem[s] = Blank
  BY <1>4 DEF Init, Memory
<1>6. DOMAIN holder = Kind /\ \A k \in Kind : holder[k] = [r \in OV!Role |-> NoSlot]
  BY DEF Init, Kind
<1>7. \A k \in Kind, r \in OV!Role : holder[k][r] = NoSlot
  BY <1>6
<1>8. Holders
  BY <1>6, <1>7 DEF Holders
<1>9. Idle
  BY <1>3, <1>5 DEF Idle
<1>10. Owners
  BY <1>7 DEF Owners, Kind
<1>11. Sealings /\ SealsUnique
  BY DEF Init, Sealings, SealsUnique
<1> QED BY <1>5, <1>8, <1>9, <1>10, <1>11 DEF LifeInv

\* Every step preserves the invariant.
LEMMA LifeNext == LifeInv /\ [Next]_vars => LifeInv'
<1> SUFFICES ASSUME LifeInv, [Next]_vars PROVE LifeInv'
  OBVIOUS
<1>1. ASSUME NEW r \in OV!Role, NEW s \in Slot, start(r, s) \/ split_into(r, s)
      PROVE  LifeInv'
  BY <1>1, Start, SplitInto
<1>2. ASSUME NEW r \in OV!Role, exchange(r)
      PROVE  LifeInv'
  BY <1>2, Exchange
<1>3. ASSUME NEW s \in Slot, encrypt(s) \/ rekey_both(s)
      PROVE  LifeInv'
  BY <1>3, Encrypt, RekeyBoth
<1>4. ASSUME NEW s \in Slot, destroy(s)
      PROVE  LifeInv'
  BY <1>4, Destroy
<1>5. ASSUME NEW s \in Slot, NEW u \in Slot, move(s, u)
      PROVE  LifeInv'
  BY <1>5, Move
<1>6. CASE UNCHANGED vars
  BY <1>6, Untouched DEF vars
<1> QED BY <1>1, <1>2, <1>3, <1>4, <1>5, <1>6 DEF Next

\* The inductive invariant: it holds after every sequence of constructions,
\* calls, moves and destructions, in any number of places in memory.
THEOREM LifeInvariant == Spec => []LifeInv
  BY LifeInit, LifeNext, PTL DEF Spec

\* Memory that no owner keeps an object in has no key material, key or hash
\* left in it: what the destructors and the move operations of HandshakeState,
\* SymmetricState and CipherState clear.
THEOREM NothingLeft == Spec => []NoResidue
<1>1. LifeInv => NoResidue
  BY DEF LifeInv, Idle, Clean, NoResidue
<1> QED BY <1>1, LifeInvariant, PTL

\* No key and nonce of the transport phase encrypt two texts, whatever is
\* moved and rekeyed in between and up to the abort of CipherState at the end
\* of the counter; REKEY's own block, under the last nonce, is one of them.
THEOREM SealedOnce == Spec => []SealsUnique
<1>1. LifeInv => SealsUnique
  BY DEF LifeInv
<1> QED BY <1>1, LifeInvariant, PTL
-----------------------------------------------------------------------------
(***************************************************************************)
(* The refinement of ObjectValues.                                         *)
(***************************************************************************)
\* ObjectValues is an instance, so that it has definitions of its own of
\* everything it extends; they are the same.  Constants.
LEMMA ValueConstants ==
    /\ OV!zeroized = zeroized /\ OV!Zero = Zero /\ OV!Empty = Empty
    /\ OV!Garbage = Garbage /\ OV!NoBytes = NoBytes
  BY DEF OV!zeroized, zeroized, OV!NoKey, NoKey, OV!CipherKey, CipherKey, OV!Zero, Zero,
         OV!Empty, Empty, OV!Garbage, Garbage, OV!NoBytes, NoBytes

\* Primitives, cipher and hash.
LEMMA ValuePrimitives ==
    /\ \A p : OV!dh_ok(p) <=> dh_ok(p)
    /\ \A p, q : OV!dh(p, q) = dh(p, q)
    /\ \A p, q : OV!blake2b(p, q) = blake2b(p, q)
    /\ \A p, q : OV!hkdf2(p, q) = hkdf2(p, q)
    /\ \A p, q : OV!mix_hash(p, q) = mix_hash(p, q)
    /\ \A p, q : OV!mix_key(p, q) = mix_key(p, q)
    /\ \A p : OV!failed(p) = failed(p)
    /\ \A p, q : OV!call(p, q) = call(p, q)
    /\ \A p : OV!incr(p) = incr(p)
    /\ \A p, q, r : OV!put(p, q, r) = put(p, q, r)
    /\ \A p, q, r, s : OV!seal(p, q, r, s) = seal(p, q, r, s)
    /\ \A p, q, r : OV!encrypt_with_ad(p, q, r) = encrypt_with_ad(p, q, r)
<1>1. \A p : OV!dh_ok(p) <=> dh_ok(p)
  BY DEF OV!dh_ok, dh_ok, OV!Zero, Zero
<1>2. \A p, q : OV!dh(p, q) = dh(p, q)
  BY DEF OV!dh, dh
<1>3. \A p, q : OV!blake2b(p, q) = blake2b(p, q)
  BY DEF OV!blake2b, blake2b
<1>4. \A p, q : OV!hkdf2(p, q) = hkdf2(p, q)
  BY DEF OV!hkdf2, hkdf2, OV!hmac_blake2b, hmac_blake2b
<1>5. \A p, q : OV!mix_hash(p, q) = mix_hash(p, q)
  BY DEF OV!mix_hash, mix_hash, OV!blake2b, blake2b
<1>6. \A p, q : OV!mix_key(p, q) = mix_key(p, q)
  BY <1>4 DEF OV!mix_key, mix_key,
                OV!initialize_key, initialize_key, OV!CipherKey, CipherKey
<1>7. \A p : OV!failed(p) = failed(p)
  BY DEF OV!failed, failed
<1>8. \A p, q : OV!call(p, q) = call(p, q)
  BY DEF OV!call, call
<1>9. \A p : OV!incr(p) = incr(p)
  BY DEF OV!incr, incr
<1>10. \A p, q, r : OV!put(p, q, r) = put(p, q, r)
  BY DEF OV!put, put
<1>11. \A p, q, r, s : OV!seal(p, q, r, s) = seal(p, q, r, s)
  BY DEF OV!seal, seal
<1>12. \A p, q, r : OV!encrypt_with_ad(p, q, r) = encrypt_with_ad(p, q, r)
  BY DEF OV!encrypt_with_ad, encrypt_with_ad,
         OV!incr, incr, OV!seal, seal
<1> QED BY <1>1, <1>2, <1>3, <1>4, <1>5, <1>6, <1>7, <1>8, <1>9, <1>10, <1>11, <1>12

\* The tokens of a writer.
LEMMA ValueWriteTokens ==
    /\ \A p : OV!is_complete(p) <=> is_complete(p)
    /\ \A c, s, p : OV!mix_dh(c, s, p) = mix_dh(c, s, p)
    /\ \A c, e : OV!write_e(c, e) = write_e(c, e)
    /\ \A c, p, n : OV!write_sealed(c, p, n) = write_sealed(c, p, n)
    /\ \A c : OV!encrypt_static(c) = encrypt_static(c)
    /\ \A c : OV!encrypt_payload(c) = encrypt_payload(c)
    /\ \A c : OV!advance(c) = advance(c)
<1>1. \A p : OV!is_complete(p) <=> is_complete(p)
  BY OwnerNames
<1>2. \A c, s, p : OV!mix_dh(c, s, p) = mix_dh(c, s, p)
  BY ValuePrimitives DEF OV!mix_dh, mix_dh
<1>3. \A c, e : OV!write_e(c, e) = write_e(c, e)
  BY ValuePrimitives DEF OV!write_e, write_e, OV!DH_PUBLIC_KEY_BYTES, DH_PUBLIC_KEY_BYTES
<1>4. \A s, p : OV!encrypt_and_hash(s, p) = encrypt_and_hash(s, p)
  BY ValuePrimitives DEF OV!encrypt_and_hash, encrypt_and_hash
<1>5. \A s, p : OV!sealed_size(s, p) = sealed_size(s, p)
  BY DEF OV!sealed_size, sealed_size, OV!AEAD_TAG_BYTES, AEAD_TAG_BYTES
<1>6. \A c, p, n : OV!write_sealed(c, p, n) = write_sealed(c, p, n)
  BY <1>4, <1>5, ValuePrimitives DEF OV!write_sealed, write_sealed
<1>7. \A c : OV!encrypt_static(c) = encrypt_static(c)
  BY <1>6 DEF OV!encrypt_static, encrypt_static, OV!DH_PUBLIC_KEY_BYTES, DH_PUBLIC_KEY_BYTES
<1>8. \A c : OV!encrypt_payload(c) = encrypt_payload(c)
  BY <1>6, ValueConstants DEF OV!encrypt_payload, encrypt_payload
<1>9. \A c : OV!advance(c) = advance(c)
  BY DEF OV!advance, advance
<1> QED BY <1>1, <1>2, <1>3, <1>6, <1>7, <1>8, <1>9

\* write_message.
LEMMA ValueWrite == \A h, e : OV!write_message(h, e) = write_message(h, e)
  BY ValueConstants, ValuePrimitives, ValueWriteTokens DEF OV!write_message, write_message

\* The tokens of a reader.
LEMMA ValueReadTokens ==
    /\ \A c : OV!read_e(c) = read_e(c)
    /\ \A c : OV!read_encrypted_static(c) = read_encrypted_static(c)
    /\ \A c : OV!read_payload(c) = read_payload(c)
<1>1. \A m, n : OV!take(m, n) = take(m, n)
  BY ValueConstants, ValuePrimitives DEF OV!take, take, OV!aligned, aligned
<1>2. \A m : OV!remainder(m) = remainder(m)
  BY ValueConstants DEF OV!remainder, remainder
<1>3. \A c, a, t : OV!decrypt_with_ad(c, a, t) = decrypt_with_ad(c, a, t)
  BY ValueConstants, ValuePrimitives DEF OV!decrypt_with_ad, decrypt_with_ad,
         OV!opens, opens, OV!is_seal, is_seal, OV!plaintext, plaintext
<1>4. \A s, t : OV!decrypt_and_hash(s, t) = decrypt_and_hash(s, t)
  BY <1>3, ValuePrimitives DEF OV!decrypt_and_hash, decrypt_and_hash
<1>5. \A c : OV!read_e(c) = read_e(c)
  BY <1>1, ValuePrimitives DEF OV!read_e, read_e, OV!DH_PUBLIC_KEY_BYTES, DH_PUBLIC_KEY_BYTES
<1>6. \A s, p : OV!sealed_size(s, p) = sealed_size(s, p)
  BY DEF OV!sealed_size, sealed_size, OV!AEAD_TAG_BYTES, AEAD_TAG_BYTES
<1>7. \A c : OV!read_encrypted_static(c) = read_encrypted_static(c)
  <2> SUFFICES ASSUME NEW c PROVE OV!read_encrypted_static(c) = read_encrypted_static(c)
    OBVIOUS
  <2>1. OV!DH_PUBLIC_KEY_BYTES = 32 /\ DH_PUBLIC_KEY_BYTES = 32 /\ OV!AEAD_TAG_BYTES = 16 /\ AEAD_TAG_BYTES = 16
    BY DEF OV!DH_PUBLIC_KEY_BYTES, DH_PUBLIC_KEY_BYTES, OV!AEAD_TAG_BYTES, AEAD_TAG_BYTES
  <2> DEFINE t == take(c.bytes, 32 + 16)
             plain == decrypt_and_hash(c.hs.symmetric, t.val)
             fine == [c EXCEPT !.hs.symmetric = plain.sym, !.hs.rs = plain.out,
                               !.hs.rs_known = TRUE, !.bytes = t.rest]
             bad == [c EXCEPT !.hs.symmetric = plain.sym]
             match == 32 + 16 = sealed_size(c.hs.symmetric, 32)
  <2>2. OV!take(c.bytes, 32 + 16) = t /\ OV!decrypt_and_hash(c.hs.symmetric, t.val) = plain
        /\ OV!sealed_size(c.hs.symmetric, 32) = sealed_size(c.hs.symmetric, 32)
        /\ OV!failed(c) = failed(c) /\ OV!failed(bad) = failed(bad)
    BY <1>1, <1>4, <1>6, ValuePrimitives
  <2>3. read_encrypted_static(c) = IF ~c.ok THEN c ELSE IF c.bytes.size < 32 + 16 THEN failed(c)
             ELSE IF plain.ok /\ match THEN fine ELSE failed(bad)
    BY <2>1 DEF read_encrypted_static
  <2>4. OV!read_encrypted_static(c) = IF ~c.ok THEN c ELSE IF c.bytes.size < 32 + 16 THEN failed(c)
             ELSE IF plain.ok /\ match THEN fine ELSE failed(bad)
    BY <2>1, <2>2 DEF OV!read_encrypted_static
  <2> QED BY <2>3, <2>4
<1>8. \A c : OV!read_payload(c) = read_payload(c)
  BY <1>2, <1>4, ValueConstants DEF OV!read_payload, read_payload
<1> QED BY <1>5, <1>7, <1>8

\* read_message.
LEMMA ValueRead == \A h, m : OV!read_message(h, m) = read_message(h, m)
  BY ValueConstants, ValuePrimitives, ValueWriteTokens, ValueReadTokens DEF OV!read_message, read_message

\* Split and the calls of a TransportState.
LEMMA ValueTransport ==
    /\ \A h : OV!handshake_split(h) = handshake_split(h)
    /\ \A t, p : OV!transport_encrypt(t, p) = transport_encrypt(t, p)
    /\ \A t : OV!transport_rekey(t) = transport_rekey(t)
<1>1. \A s : OV!split(s) = split(s)
  BY ValueConstants, ValuePrimitives DEF OV!split, split,
         OV!initialize_key, initialize_key, OV!CipherKey, CipherKey
<1>2. \A h : OV!handshake_split(h) = handshake_split(h)
  BY <1>1, ValueConstants DEF OV!handshake_split, handshake_split
<1>3. \A t, p : OV!transport_encrypt(t, p) = transport_encrypt(t, p)
  BY ValueConstants, ValuePrimitives DEF OV!transport_encrypt, transport_encrypt
<1>4. \A t : OV!transport_rekey(t) = transport_rekey(t)
  BY DEF OV!transport_rekey, transport_rekey, OV!rekey, rekey, OV!reset_nonce_to_zero, reset_nonce_to_zero
<1> QED BY <1>2, <1>3, <1>4

(***************************************************************************)
(* Objects as records.                                                     *)
(***************************************************************************)
\* A move copies an object field by field.  That the copy is the object
\* needs that the object is a record and no other value with these fields.
Fun(f) == f = [x \in DOMAIN f |-> f[x]]
Solid(h) == IsHandshake(h) /\ Fun(h) /\ Fun(h.symmetric)
SolidCall(c) == IsCall(c) /\ Solid(c.hs)

\* An updated function is a function.
LEMMA ExceptIsFun == \A f, a, v : Fun([f EXCEPT ![a] = v])
  BY DEF Fun

\* A new symmetric state in a HandshakeState.
LEMMA SymmetricSet ==
    \A h, s : IsHandshake(h) /\ IsSymmetric(s) /\ Fun(s) => Solid([h EXCEPT !.symmetric = s])
  BY ExceptIsFun DEF Solid, IsHandshake

\* A new value of another field.
LEMMA FieldSet ==
    \A h, v : \A f \in {"s_sk", "s_pk", "e_sk", "e_pk", "rs", "re", "step", "rs_known"} :
        Solid(h) => Solid([h EXCEPT ![f] = v])
  BY ExceptIsFun DEF Solid, IsHandshake

\* mix_hash.
LEMMA MixHashSolid == \A s, d : IsSymmetric(s) => IsSymmetric(mix_hash(s, d)) /\ Fun(mix_hash(s, d))
  BY ExceptIsFun, MixHashShape DEF mix_hash

\* mix_key.
LEMMA MixKeySolid == \A s, d : IsSymmetric(s) => IsSymmetric(mix_key(s, d)) /\ Fun(mix_key(s, d))
  BY DEF mix_key, initialize_key, IsSymmetric, Fun

\* A DH token.
LEMMA MixDhSolid ==
    ASSUME NEW c, SolidCall(c), NEW sk, NEW pk
    PROVE  SolidCall(mix_dh(c, sk, pk))
<1>1. CASE ~c.ok \/ ~dh_ok(c.hs[pk])
  BY <1>1, FailedCall DEF mix_dh, SolidCall
<1>2. CASE c.ok /\ dh_ok(c.hs[pk])
  <2> DEFINE s == mix_key(c.hs.symmetric, dh(c.hs[sk], c.hs[pk]))
  <2>1. mix_dh(c, sk, pk) = [c EXCEPT !.hs.symmetric = s]
    BY <1>2 DEF mix_dh
  <2>2. IsSymmetric(s) /\ Fun(s)
    BY MixKeySolid DEF SolidCall, Solid, IsHandshake
  <2> HIDE DEF s
  <2>3. mix_dh(c, sk, pk).hs = [c.hs EXCEPT !.symmetric = s]
    BY <2>1 DEF SolidCall, IsCall
  <2>4. IsCall(mix_dh(c, sk, pk))
    BY MixDhRole DEF SolidCall, SameRole
  <2> QED BY <2>2, <2>3, <2>4, SymmetricSet DEF SolidCall, Solid
<1> QED BY <1>1, <1>2

\* Token e of a writer.
LEMMA WriteESolid ==
    ASSUME NEW c, SolidCall(c), NEW e
    PROVE  SolidCall(write_e(c, e))
<1> DEFINE s == mix_hash(c.hs.symmetric, e)
           g == [c.hs EXCEPT !.e_pk = e, !.e_sk = e, !.symmetric = s]
<1>1. IsSymmetric(s) /\ Fun(s)
  BY MixHashSolid DEF SolidCall, Solid, IsHandshake
<1>2. write_e(c, e).hs = g
  BY DEF write_e, SolidCall, IsCall, IsHandshake
<1>3. IsCall(write_e(c, e))
  BY WriteERole DEF SolidCall, SameRole
<1> HIDE DEF s
<1>4. Solid(g)
  BY <1>1, SymmetricSet, FieldSet DEF SolidCall, Solid
<1> QED BY <1>2, <1>3, <1>4 DEF SolidCall

\* A sealed field of a writer.
LEMMA WriteSealedSolid ==
    ASSUME NEW c, SolidCall(c), NEW plain, NEW size
    PROVE  SolidCall(write_sealed(c, plain, size))
<1>1. CASE ~c.ok
  BY <1>1 DEF write_sealed
<1>2. CASE c.ok
  <2> DEFINE s == encrypt_and_hash(c.hs.symmetric, plain).sym
             b == put(c.bytes, sealed_size(c.hs.symmetric, size),
                      encrypt_and_hash(c.hs.symmetric, plain).out)
  <2>1. write_sealed(c, plain, size) = [c EXCEPT !.hs.symmetric = s, !.bytes = b]
    BY <1>2 DEF write_sealed
  <2>2. Fun(s)
    BY ExceptIsFun DEF encrypt_and_hash, mix_hash
  <2>3. IsCall(write_sealed(c, plain, size))
    BY WriteSealedRole DEF SolidCall, SameRole
  <2> HIDE DEF s, b
  <2>4. write_sealed(c, plain, size).hs = [c.hs EXCEPT !.symmetric = s]
    BY <2>1 DEF SolidCall, IsCall
  <2>5. IsSymmetric(s)
    BY <2>3, <2>4 DEF IsCall, IsHandshake, SolidCall
  <2> QED BY <2>2, <2>3, <2>4, <2>5, SymmetricSet DEF SolidCall, Solid
<1> QED BY <1>1, <1>2

\* decrypt_and_hash.
LEMMA DecryptSolid ==
    ASSUME NEW s, IsSymmetric(s), Fun(s), NEW ct
    PROVE  IsSymmetric(decrypt_and_hash(s, ct).sym) /\ Fun(decrypt_and_hash(s, ct).sym)
<1>1. Fun(decrypt_and_hash(s, ct).sym)
  BY ExceptIsFun DEF decrypt_and_hash, mix_hash
<1> QED BY <1>1, DecryptShape

\* Token e of a reader.
LEMMA ReadESolid ==
    ASSUME NEW c, SolidCall(c)
    PROVE  SolidCall(read_e(c))
<1>1. CASE c.bytes.size < DH_PUBLIC_KEY_BYTES
  BY <1>1, FailedCall DEF read_e, SolidCall
<1>2. CASE ~(c.bytes.size < DH_PUBLIC_KEY_BYTES)
  <2> DEFINE x == take(c.bytes, DH_PUBLIC_KEY_BYTES)
             s == mix_hash(c.hs.symmetric, x.val)
             g == [c.hs EXCEPT !.re = x.val, !.symmetric = s]
  <2>1. read_e(c) = [c EXCEPT !.hs.re = x.val, !.hs.symmetric = s, !.bytes = x.rest]
    BY <1>2 DEF read_e, SolidCall, IsCall, IsHandshake
  <2>2. IsSymmetric(s) /\ Fun(s)
    BY MixHashSolid DEF SolidCall, Solid, IsHandshake
  <2>3. IsCall(read_e(c))
    BY ReadERole DEF SolidCall, SameRole
  <2> HIDE DEF s, x
  <2>4. read_e(c).hs = g
    BY <2>1 DEF SolidCall, IsCall
  <2>5. Solid(g)
    BY <2>2, SymmetricSet, FieldSet DEF SolidCall, Solid
  <2> QED BY <2>3, <2>4, <2>5 DEF SolidCall
<1> QED BY <1>1, <1>2

\* Token s of a reader.
LEMMA ReadStaticSolid ==
    ASSUME NEW c, SolidCall(c)
    PROVE  SolidCall(read_encrypted_static(c))
<1> DEFINE x == take(c.bytes, DH_PUBLIC_KEY_BYTES + AEAD_TAG_BYTES)
           d == decrypt_and_hash(c.hs.symmetric, x.val)
           g == [c EXCEPT !.hs.symmetric = d.sym]
           o == [c EXCEPT !.hs.symmetric = d.sym, !.hs.rs = d.out, !.hs.rs_known = TRUE,
                          !.bytes = x.rest]
<1>1. read_encrypted_static(c) \in {c, failed(c), failed(g), o}
  BY DEF read_encrypted_static
<1>2. IsSymmetric(d.sym) /\ Fun(d.sym)
  BY DecryptSolid DEF SolidCall, Solid, IsHandshake
<1>3. IsCall(read_encrypted_static(c))
  BY ReadStaticRole DEF SolidCall, SameRole
<1> HIDE DEF d, x
<1>4. Solid([c.hs EXCEPT !.symmetric = d.sym])
  BY <1>2, SymmetricSet DEF SolidCall, Solid
<1>5. Solid([c.hs EXCEPT !.symmetric = d.sym, !.rs = d.out, !.rs_known = TRUE])
  BY <1>4, FieldSet
<1>6. failed(c).hs = c.hs
  BY FailedCall DEF SolidCall
<1>7. failed(g).hs = [c.hs EXCEPT !.symmetric = d.sym]
  BY DEF failed, SolidCall, IsCall
<1>8. o.hs = [c.hs EXCEPT !.symmetric = d.sym, !.rs = d.out, !.rs_known = TRUE]
  BY DEF SolidCall, IsCall
<1> HIDE DEF g, o
<1> QED BY <1>1, <1>3, <1>4, <1>5, <1>6, <1>7, <1>8 DEF SolidCall

\* The payload of a reader.
LEMMA ReadPayloadSolid ==
    ASSUME NEW c, SolidCall(c)
    PROVE  SolidCall(read_payload(c))
<1> DEFINE d == decrypt_and_hash(c.hs.symmetric, remainder(c.bytes))
           g == [c EXCEPT !.ok = d.ok, !.hs.symmetric = d.sym, !.bytes = NoBytes]
<1>1. read_payload(c) = c \/ read_payload(c) = g
  BY DEF read_payload
<1>2. IsSymmetric(d.sym) /\ Fun(d.sym)
  BY DecryptSolid DEF SolidCall, Solid, IsHandshake
<1>3. IsCall(read_payload(c))
  BY ReadPayloadRole DEF SolidCall, SameRole
<1> HIDE DEF d
<1>4. g.hs = [c.hs EXCEPT !.symmetric = d.sym]
  BY DEF SolidCall, IsCall
<1>5. IsHandshake(c.hs)
  BY DEF SolidCall, Solid
<1>6. Solid([c.hs EXCEPT !.symmetric = d.sym])
  BY <1>2, <1>5, SymmetricSet
<1> HIDE DEF g
<1> QED BY <1>1, <1>3, <1>4, <1>6 DEF SolidCall

\* The step count.
LEMMA AdvanceSolid ==
    ASSUME NEW c, SolidCall(c)
    PROVE  SolidCall(advance(c))
<1>1. IsCall(advance(c))
  BY AdvanceRole DEF SolidCall, SameRole
<1>2. CASE c.ok
  <2>1. advance(c).hs = [c.hs EXCEPT !.step = c.hs.step + 1]
    BY <1>2 DEF advance, SolidCall, IsCall
  <2>2. Solid(c.hs)
    BY DEF SolidCall
  <2>3. Solid([c.hs EXCEPT !.step = c.hs.step + 1])
    BY <2>2, FieldSet
  <2> QED BY <1>1, <2>1, <2>3 DEF SolidCall
<1>3. CASE ~c.ok
  BY <1>3 DEF advance
<1> QED BY <1>2, <1>3

\* write_message.
LEMMA WriteSolid ==
    ASSUME NEW h, Solid(h), NEW e
    PROVE  Solid(write_message(h, e).hs)
<1> DEFINE c == call(h, NoBytes)
           m == write_e(c, e)
           ik1 == mix_dh(encrypt_static(mix_dh(m, "e_sk", "rs")), "s_sk", "rs")
           ik2 == mix_dh(mix_dh(m, "e_sk", "re"), "s_sk", "re")
           xx2 == mix_dh(encrypt_static(mix_dh(m, "e_sk", "re")), "s_sk", "re")
           xx3 == mix_dh(encrypt_static(c), "s_sk", "re")
<1>1. SolidCall(c)
  BY NewCall DEF SolidCall, Solid
<1>2. \A x, y : SolidCall(x) => /\ SolidCall(mix_dh(x, y, "rs")) /\ SolidCall(mix_dh(x, y, "re"))
                                /\ SolidCall(encrypt_static(x))
                                /\ SolidCall(advance(encrypt_payload(x)))
                                /\ SolidCall(failed(x))
  BY MixDhSolid, WriteSealedSolid, AdvanceSolid, FailedCall DEF SolidCall, encrypt_static, encrypt_payload
<1>3. SolidCall(m)
  BY <1>1, WriteESolid
<1> HIDE DEF m
<1>4. SolidCall(ik1) /\ SolidCall(ik2) /\ SolidCall(xx2) /\ SolidCall(xx3) /\ SolidCall(failed(c))
  BY <1>1, <1>2, <1>3
<1>5. \/ write_message(h, e) = failed(c)
      \/ \E x \in {ik1, m, ik2, xx2, xx3, failed(c)} :
            write_message(h, e) = advance(encrypt_payload(x))
  BY DEF write_message, m
<1> HIDE DEF ik1, ik2, xx2, xx3, c
<1>6. SolidCall(write_message(h, e))
  BY <1>2, <1>3, <1>4, <1>5
<1> QED BY <1>6 DEF SolidCall

\* read_message.
LEMMA ReadSolid ==
    ASSUME NEW h, Solid(h), NEW b
    PROVE  Solid(read_message(h, b).hs)
<1> DEFINE c == call(h, b)
           m == read_e(c)
           ik1 == mix_dh(read_encrypted_static(mix_dh(m, "s_sk", "re")), "s_sk", "rs")
           ik2 == mix_dh(mix_dh(m, "e_sk", "re"), "e_sk", "rs")
           xx2 == mix_dh(read_encrypted_static(mix_dh(m, "e_sk", "re")), "e_sk", "rs")
           xx3 == mix_dh(read_encrypted_static(c), "e_sk", "rs")
<1>1. SolidCall(c)
  BY NewCall DEF SolidCall, Solid
<1>2. \A x, y : SolidCall(x) => /\ SolidCall(mix_dh(x, y, "rs")) /\ SolidCall(mix_dh(x, y, "re"))
                                /\ SolidCall(read_encrypted_static(x))
                                /\ SolidCall(advance(read_payload(x)))
                                /\ SolidCall(failed(x))
  BY MixDhSolid, ReadStaticSolid, ReadPayloadSolid, AdvanceSolid, FailedCall DEF SolidCall
<1>3. SolidCall(m)
  BY <1>1, ReadESolid
<1> HIDE DEF m
<1>4. SolidCall(ik1) /\ SolidCall(ik2) /\ SolidCall(xx2) /\ SolidCall(xx3) /\ SolidCall(failed(c))
  BY <1>1, <1>2, <1>3
<1>5. \/ read_message(h, b) = failed(c)
      \/ \E x \in {ik1, m, ik2, xx2, xx3, failed(c)} :
            read_message(h, b) = advance(read_payload(x))
  BY DEF read_message, m
<1> HIDE DEF ik1, ik2, xx2, xx3, c
<1>6. SolidCall(read_message(h, b))
  BY <1>2, <1>3, <1>4, <1>5
<1> QED BY <1>6 DEF SolidCall

\* The constructor.
LEMMA NewSolid == \A p, i, s, q : Solid(construct(p, i, s, q))
<1> SUFFICES ASSUME NEW p, NEW i, NEW s, NEW q PROVE Solid(construct(p, i, s, q))
  OBVIOUS
<1> DEFINE named == mix_hash(initialize(protocol_name(p)), Prologue)
           g == construct(p, i, s, q)
<1>1. IsSymmetric(initialize(protocol_name(p)))
  BY DEF initialize, IsSymmetric, zeroized
<1>2. IsSymmetric(named) /\ Fun(named)
  BY <1>1, MixHashSolid
<1> HIDE DEF named
<1>3. g.symmetric = named \/ \E d : g.symmetric = mix_hash(named, d)
  BY DEF construct, named
<1>4. IsSymmetric(g.symmetric) /\ Fun(g.symmetric)
  BY <1>2, <1>3, MixHashSolid
<1>5. Fun(g) /\ DOMAIN g = {"pattern", "initiator", "step", "symmetric", "s_sk", "s_pk", "e_sk",
                  "e_pk", "rs", "re", "rs_known"}
  BY DEF construct, Fun
<1> QED BY <1>4, <1>5 DEF Solid, IsHandshake

\* HandshakeState::split.
LEMMA SplitSolid == \A h : Solid(h) => Solid(handshake_split(h).hs)
<1> SUFFICES ASSUME NEW h, Solid(h) PROVE Solid(handshake_split(h).hs)
  OBVIOUS
<1> DEFINE s == [h.symmetric EXCEPT !.ck = Zero]
<1>1. handshake_split(h).hs = [h EXCEPT !.symmetric = s, !.s_sk = Zero, !.e_sk = Zero, !.e_pk = Zero, !.re = Zero]
  BY DEF handshake_split, split
<1>2. IsSymmetric(s) /\ Fun(s)
  BY ExceptIsFun DEF Solid, IsHandshake, IsSymmetric
<1> HIDE DEF s
<1>3. IsHandshake(h)
  BY DEF Solid
<1>4. Solid([h EXCEPT !.symmetric = s])
  BY <1>2, <1>3, SymmetricSet
<1>5. Solid([h EXCEPT !.symmetric = s, !.s_sk = Zero])
  BY <1>4, FieldSet
<1>6. Solid([h EXCEPT !.symmetric = s, !.s_sk = Zero, !.e_sk = Zero])
  BY <1>5, FieldSet
<1>7. Solid([h EXCEPT !.symmetric = s, !.s_sk = Zero, !.e_sk = Zero, !.e_pk = Zero])
  BY <1>6, FieldSet
<1>8. Solid([h EXCEPT !.symmetric = s, !.s_sk = Zero, !.e_sk = Zero, !.e_pk = Zero, !.re = Zero])
  BY <1>7, FieldSet
<1> QED BY <1>1, <1>8

\* The target of a move is exactly what the source was.
LEMMA MovedSame == \A h : Solid(h) => handshake_move(h).to = h
<1> SUFFICES ASSUME NEW h, Solid(h) PROVE handshake_move(h).to = h
  OBVIOUS
<1> DEFINE s == symmetric_move(h.symmetric).to
<1>1. s = h.symmetric
  BY DEF symmetric_move, cipher_move, Solid, Fun, IsHandshake, IsSymmetric
<1> HIDE DEF s
<1>2. handshake_move(h).to = [h EXCEPT !.symmetric = s]
  BY DEF handshake_move, s
<1> QED BY <1>1, <1>2 DEF Solid, Fun

\* Destruction, and what a move leaves in the source.
LEMMA WipedSolid ==
    \A h : IsHandshake(h) => Solid([wipe_dh_arrays(h) EXCEPT !.symmetric = symmetric_destroyed])
<1> SUFFICES ASSUME NEW h, IsHandshake(h)
             PROVE  Solid([wipe_dh_arrays(h) EXCEPT !.symmetric = symmetric_destroyed])
  OBVIOUS
<1>1. IsSymmetric(symmetric_destroyed) /\ Fun(symmetric_destroyed)
  BY DEF IsSymmetric, symmetric_destroyed, Fun, zeroized
<1> DEFINE g == [wipe_dh_arrays(h) EXCEPT !.symmetric = symmetric_destroyed]
<1>2. Fun(g) /\ DOMAIN g = DOMAIN h /\ g.symmetric = symmetric_destroyed
  BY ExceptIsFun DEF IsHandshake, wipe_dh_arrays
<1> HIDE DEF g
<1>3. Solid(g)
  BY <1>1, <1>2 DEF Solid, IsHandshake
<1> QED BY <1>3 DEF g

(***************************************************************************)
(* How far the conversation is.  pos[r] is the number of messages that r   *)
(* has written or read; at most one message is on its way.                 *)
(***************************************************************************)

\* The constructor, and what the owners do.
LEMMA ValueOwners ==
    /\ OV!Role = Roles
    /\ \A r \in Roles : /\ OV!new_handshake(r) = new_end(pattern, r) /\ OV!peer(r) = peer_of(r)
                        /\ peer_of(r) \in Roles /\ peer_of(peer_of(r)) = r /\ peer_of(r) # r
    /\ \A r : OV!ephemeral_of(r) = generate_keypair(r)
    /\ \A r, h : OV!on_duty(r, h) <=> ~is_complete(h) /\ (h.step % 2 = 0) = (r = "initiator")
<1>1. /\ OV!Role = Roles
      /\ \A r \in Roles : /\ OV!peer(r) = peer_of(r) /\ peer_of(r) \in Roles
                          /\ peer_of(peer_of(r)) = r /\ peer_of(r) # r
  BY DEF OV!Role, Roles, OV!peer, peer_of
<1>2. \A r : OV!ephemeral_of(r) = generate_keypair(r)
  BY DEF OV!ephemeral_of, OV!generate_keypair, generate_keypair
<1>3. \A r, h : OV!on_duty(r, h) <=> ~is_complete(h) /\ (h.step % 2 = 0) = (r = "initiator")
  BY ValueWriteTokens DEF OV!on_duty
<1>4. \A a : OV!X25519(a) = X25519(a)
  BY DEF OV!X25519, X25519
<1>5. \A p : OV!initialize(OV!protocol_name(p)) = initialize(protocol_name(p))
  BY ValueConstants DEF OV!initialize, initialize, OV!protocol_name, protocol_name
<1>6. \A p, i, s, q : OV!construct(p, i, s, q) = construct(p, i, s, q)
  BY <1>5, ValueConstants, ValuePrimitives DEF OV!construct, construct, OV!Prologue, Prologue
<1>7. \A r \in Roles : OV!new_handshake(r) = new_end(pattern, r)
  BY <1>1, <1>4, <1>6, ValueConstants DEF OV!new_handshake, OV!static_of, new_end, peer_of, Roles
<1> QED BY <1>1, <1>2, <1>3, <1>7

\* Every object in memory is a record.
SolidMemory ==
    \A s \in Slot : /\ mem[s].kind = "handshake" => Solid(mem[s].bytes)
                    /\ mem[s].kind = "transport" => Fun(mem[s].bytes)

\* w has written a message that its peer has not read.
Ahead(pos, w) == pos[w] = pos[peer_of(w)] + 1 /\ w = writer_of(pos[peer_of(w)])

\* r has handled n messages: its object is the one of the conversation, or is
\* complete, before or after Split.
Reached(h, r, n) == IF n < total_steps(pattern) THEN h = ends_after(pattern, n)[r] ELSE is_complete(h)

\* Each side is where pos says, and the message on the wire is the one that
\* the side that is behind is to read.
Exchanged(pos) ==
    \A r \in Roles :
        /\ pos[r] \in 0..total_steps(pattern)
        /\ r \notin started => pos[r] = 0
        /\ Value("handshake", r) # OV!Nothing => Reached(Value("handshake", r), r, pos[r])
        /\ pos[r] = pos[peer_of(r)] \/ Ahead(pos, r) \/ Ahead(pos, peer_of(r))
        /\ wire[r] = IF Ahead(pos, peer_of(r))
                     THEN spoken(ends_after(pattern, pos[r]), peer_of(r)).bytes
                     ELSE OV!Nothing

\* The invariant of the refinement, next to LifeInv.
RunInv ==
    /\ pattern \in {"XX", "IK"} /\ SolidMemory /\ DOMAIN wire = Roles
    /\ \E pos \in [Roles -> 0..3] : Exchanged(pos)

\* The owner q has what it had.
Stays(k, q) == Value(k, q)' = Value(k, q)

\* The steps of ObjectValues, by what each owner has before and after.  A
\* new object.
LEMMA ViewStart ==
    ASSUME NEW r \in Roles, Value("handshake", r) = OV!Nothing,
           Value("handshake", r)' = OV!new_handshake(r),
           Stays("handshake", peer_of(r)), \A q \in Roles : Stays("transport", q),
           UNCHANGED <<pattern, wire>>
    PROVE  OV!start(r)
  BY DEF OV!start, Stays, Roles, peer_of

\* A message is written.
LEMMA ViewWrite ==
    ASSUME NEW r \in Roles, NEW h, Value("handshake", r) = h, h # OV!Nothing, OV!on_duty(r, h),
           Value("handshake", r)' = write_message(h, OV!ephemeral_of(r)).hs,
           wire' = [wire EXCEPT ![OV!peer(r)] = write_message(h, OV!ephemeral_of(r)).bytes],
           Stays("handshake", peer_of(r)), \A q \in Roles : Stays("transport", q),
           UNCHANGED <<pattern>>
    PROVE  OV!write(r)
  BY ValueWrite DEF OV!write, Stays, Roles, peer_of

\* A message is read.
LEMMA ViewRead ==
    ASSUME NEW r \in Roles, NEW h, Value("handshake", r) = h, h # OV!Nothing, wire[r] # OV!Nothing,
           read_message(h, wire[r]).ok,
           Value("handshake", r)' = read_message(h, wire[r]).hs,
           wire' = [wire EXCEPT ![r] = OV!Nothing],
           Stays("handshake", peer_of(r)), \A q \in Roles : Stays("transport", q),
           UNCHANGED <<pattern>>
    PROVE  OV!read(r)
  BY ValueRead DEF OV!read, Stays, Roles, peer_of

\* Split.
LEMMA ViewSplit ==
    ASSUME NEW r \in Roles, NEW h, Value("handshake", r) = h, h # OV!Nothing, OV!may_split(h),
           Value("handshake", r)' = handshake_split(h).hs,
           Value("transport", r)' = [send |-> handshake_split(h).send, recv |-> handshake_split(h).recv],
           Stays("handshake", peer_of(r)), Stays("transport", peer_of(r)),
           UNCHANGED <<pattern, wire>>
    PROVE  OV!split_into(r)
  BY ValueTransport DEF OV!split_into, Stays, Roles, peer_of

\* A frame is encrypted, whatever its text, or the pair is rekeyed.
LEMMA ViewUse ==
    ASSUME NEW r \in Roles, NEW t, Value("transport", r) = t, t # OV!Nothing,
           NEW p, Value("transport", r)' \in {transport_encrypt(t, p).t, transport_rekey(t)},
           \A q \in Roles : Stays("handshake", q), Stays("transport", peer_of(r)),
           UNCHANGED <<pattern, wire>>
    PROVE  OV!encrypt_or_rekey(r)
<1>1. transport_encrypt(t, p).t = transport_encrypt(t, OV!Empty).t
  BY DEF transport_encrypt, encrypt_with_ad
<1> QED BY <1>1, ValueTransport DEF OV!encrypt_or_rekey, Stays, Roles, peer_of

\* An owner loses an object.
LEMMA ViewDrop ==
    ASSUME NEW r \in Roles, NEW k \in Kind, Value(k, r)' = OV!Nothing,
           \A l \in Kind, q \in Roles : l # k \/ q # r => Stays(l, q),
           UNCHANGED <<pattern, wire>>
    PROVE  OV!drop(r)
  BY DEF OV!drop, Stays, Roles, peer_of, Kind

\* Nothing that an owner can see.
LEMMA ViewStill ==
    ASSUME \A l \in Kind, q \in Roles : Stays(l, q), UNCHANGED <<pattern, wire>>
    PROVE  UNCHANGED OV!vars
  BY DEF OV!vars, Stays, Roles, Kind

\* What an owner has is an object of the right shape, never Nothing.
LEMMA HeldValue ==
    ASSUME LifeInv, NEW k \in Kind, NEW q \in Roles
    PROVE  /\ holder[k][q] = NoSlot => Value(k, q) = OV!Nothing
           /\ holder[k][q] # NoSlot =>
                 /\ holder[k][q] \in Slot /\ mem[holder[k][q]].kind = k
                 /\ Value(k, q) = mem[holder[k][q]].bytes /\ Value(k, q) # OV!Nothing
                 /\ k = "handshake" => IsHandshake(Value(k, q))
                 /\ k = "transport" => IsTransport(Value(k, q))
<1>1. holder[k][q] = NoSlot => Value(k, q) = OV!Nothing
  BY DEF Value, OV!Nothing
<1>2. holder[k][q] # NoSlot => /\ holder[k][q] \in Slot /\ mem[holder[k][q]].kind = k
                               /\ Value(k, q) = mem[holder[k][q]].bytes
  BY OwnedSlots, ValueOwners DEF Value
<1>3. holder[k][q] # NoSlot => /\ k = "handshake" => IsHandshake(Value(k, q))
                               /\ k = "transport" => IsTransport(Value(k, q))
  BY <1>2 DEF LifeInv, Memory, IsObject
<1>4. "nothing" \in DOMAIN OV!Nothing
  BY DEF OV!Nothing
<1>5. \A h : IsHandshake(h) \/ IsTransport(h) => "nothing" \notin DOMAIN h
  BY DEF IsHandshake, IsTransport
<1> QED BY <1>1, <1>2, <1>3, <1>4, <1>5 DEF Kind

\* An object that stays where it is with the bytes it has.
LEMMA Unmoved ==
    ASSUME LifeInv, NEW k \in Kind, NEW q \in Roles, holder'[k][q] = holder[k][q],
           holder[k][q] # NoSlot => mem'[holder[k][q]].bytes = mem[holder[k][q]].bytes
    PROVE  Stays(k, q)
  BY DEF Stays, Value

\* The constructor.
LEMMA StartView ==
    ASSUME LifeInv, LifeInv', RunInv, NEW r \in OV!Role, NEW s \in Slot, start(r, s)
    PROVE  OV!start(r) /\ SolidMemory'
<1>0. r \in Roles /\ peer_of(r) \in Roles /\ peer_of(r) # r
  BY ValueOwners
<1>1. /\ r \notin started /\ ~mem[s].alive /\ UNCHANGED <<pattern, wire>>
      /\ mem' = [mem EXCEPT ![s] = object("handshake", OV!new_handshake(r))]
      /\ holder' = [holder EXCEPT !["handshake"][r] = s]
  BY DEF start
<1>2. holder["handshake"][r] = NoSlot
  BY <1>1 DEF LifeInv, Owners
<1>3. DOMAIN mem = Slot /\ DOMAIN holder = Kind /\ \A k \in Kind : DOMAIN holder[k] = OV!Role
  BY DEF LifeInv, Memory, Holders
<1>4. /\ mem'[s] = object("handshake", OV!new_handshake(r)) /\ \A u \in Slot \ {s} : mem'[u] = mem[u]
  BY <1>1, <1>3
<1>5. /\ holder'["handshake"][r] = s
      /\ \A k \in Kind, q \in Roles : k # "handshake" \/ q # r => holder'[k][q] = holder[k][q]
  BY <1>1, <1>3, ValueOwners DEF Kind
<1>6. \A k \in Kind, q \in Roles : holder[k][q] # s
  BY <1>1, OwnedSlots, ValueOwners
<1>7. \A k \in Kind, q \in Roles : k # "handshake" \/ q # r => Stays(k, q)
  BY <1>4, <1>5, <1>6, HeldValue, Unmoved
<1>8. Value("handshake", r)' = OV!new_handshake(r)
  <2>1. s # NoSlot
    BY LifeAssumption
  <2>2. Value("handshake", r)' = mem'[s].bytes
    BY <1>5, <2>1 DEF Value
  <2> QED BY <1>4, <2>2 DEF object
<1>9. OV!start(r)
  BY <1>0, <1>1, <1>2, <1>7, <1>8, HeldValue, ViewStart DEF Kind
<1>10. Solid(OV!new_handshake(r))
  BY <1>0, ValueOwners, NewSolid DEF new_end
<1>11. SolidMemory'
  BY <1>4, <1>10 DEF SolidMemory, RunInv, object
<1> QED BY <1>9, <1>11

\* New bytes in one place: only the owner of that place sees them.
LEMMA ChangedView ==
    ASSUME LifeInv, RunInv, NEW s \in Slot, NEW b, mem' = [mem EXCEPT ![s].bytes = b], holder' = holder,
           mem[s].kind = "handshake" => Solid(b), mem[s].kind = "transport" => Fun(b)
    PROVE  /\ SolidMemory'
           /\ \A k \in Kind, q \in Roles : holder[k][q] # s => Stays(k, q)
           /\ \A k \in Kind, q \in Roles : holder[k][q] = s => Value(k, q)' = b
<1>1. DOMAIN mem = Slot /\ IsObject(mem[s])
  BY DEF LifeInv, Memory
<1>2. /\ mem'[s].bytes = b /\ mem'[s].kind = mem[s].kind /\ \A u \in Slot \ {s} : mem'[u] = mem[u]
  BY <1>1 DEF IsObject
<1>3. SolidMemory'
  BY <1>2 DEF SolidMemory, RunInv
<1>4. \A k \in Kind, q \in Roles : holder[k][q] # s => Stays(k, q)
  BY <1>2, HeldValue, Unmoved
<1>5. \A k \in Kind, q \in Roles : holder[k][q] = s => Value(k, q)' = b
  BY <1>2, LifeAssumption DEF Value
<1> QED BY <1>3, <1>4, <1>5

\* New bytes of a TransportState, with an owner or moved from.
LEMMA UseView ==
    ASSUME LifeInv, RunInv, NEW s \in Slot, NEW p, mem[s].kind = "transport", NEW b,
           b \in {transport_encrypt(mem[s].bytes, p).t, transport_rekey(mem[s].bytes)},
           mem' = [mem EXCEPT ![s].bytes = b], UNCHANGED <<pattern, holder, wire>>
    PROVE  (OV!Next \/ UNCHANGED OV!vars) /\ SolidMemory' /\ \A q \in Roles : Stays("handshake", q)
<1>1. Fun(b)
  BY DEF transport_encrypt, transport_rekey, Fun
<1>2. /\ SolidMemory'
      /\ \A k \in Kind, q \in Roles : holder[k][q] # s => Stays(k, q)
      /\ \A k \in Kind, q \in Roles : holder[k][q] = s => Value(k, q)' = b
  BY <1>1, ChangedView
<1>3. \A q \in Roles : holder["handshake"][q] # s
  BY OwnedSlots, ValueOwners DEF Kind
<1>4. CASE \E r \in Roles : holder["transport"][r] = s
  <2>1. PICK r \in Roles : holder["transport"][r] = s
    BY <1>4
  <2>2. Value("transport", r) = mem[s].bytes /\ Value("transport", r) # OV!Nothing
    BY <2>1, HeldValue, LifeAssumption DEF Kind
  <2>3. holder["transport"][peer_of(r)] # s
    BY <2>1, ValueOwners, LifeAssumption DEF LifeInv, Holders, Kind
  <2>4. OV!encrypt_or_rekey(r)
    BY <1>2, <1>3, <2>1, <2>2, <2>3, ValueOwners, ViewUse DEF Kind
  <2> QED BY <1>2, <1>3, <2>4, ValueOwners DEF OV!Next, Kind
<1>5. CASE ~\E r \in Roles : holder["transport"][r] = s
  BY <1>2, <1>3, <1>5, ViewStill DEF Kind
<1> QED BY <1>4, <1>5

\* encrypt, which may abort.
LEMMA EncryptView ==
    ASSUME LifeInv, RunInv, NEW s \in Slot, encrypt(s)
    PROVE  (OV!Next \/ UNCHANGED OV!vars) /\ SolidMemory' /\ \A q \in Roles : Stays("handshake", q)
<1>1. CASE would_abort(mem[s].bytes.send)
  <2>1. UNCHANGED <<mem, holder, pattern, wire>>
    BY <1>1 DEF encrypt
  <2>2. \A k \in Kind, q \in Roles : Stays(k, q)
    BY <2>1, Unmoved
  <2> QED BY <2>1, <2>2, ViewStill DEF SolidMemory, RunInv, Kind
<1>2. CASE ~would_abort(mem[s].bytes.send)
  BY <1>2, UseView DEF encrypt, holds
<1> QED BY <1>1, <1>2

\* rekey.
LEMMA RekeyView ==
    ASSUME LifeInv, RunInv, NEW s \in Slot, rekey_both(s)
    PROVE  (OV!Next \/ UNCHANGED OV!vars) /\ SolidMemory' /\ \A q \in Roles : Stays("handshake", q)
  BY UseView DEF rekey_both, holds

\* What was in one place is gone: its owner, if it had one, has nothing now.
LEMMA Emptied ==
    ASSUME LifeInv, NEW s \in Slot,
           \A k \in Kind, q \in Roles : holder[k][q] # s => Stays(k, q),
           \A k \in Kind, q \in Roles : holder[k][q] = s => Value(k, q)' = OV!Nothing,
           UNCHANGED <<pattern, wire>>
    PROVE  OV!Next \/ UNCHANGED OV!vars
<1>1. CASE \E k \in Kind, r \in Roles : holder[k][r] = s
  <2>1. PICK k \in Kind, r \in Roles : holder[k][r] = s
    BY <1>1
  <2>2. \A l \in Kind, q \in Roles : l # k \/ q # r => holder[l][q] # s
    BY <2>1, ValueOwners, LifeAssumption DEF LifeInv, Holders
  <2>3. OV!drop(r)
    BY <2>1, <2>2, ViewDrop
  <2> QED BY <2>3, ValueOwners DEF OV!Next
<1>2. CASE ~\E k \in Kind, r \in Roles : holder[k][r] = s
  BY <1>2, ViewStill
<1> QED BY <1>1, <1>2

\* No owner has another HandshakeState than before.
KeptOrDropped == \A q \in Roles : Stays("handshake", q) \/ Value("handshake", q)' = OV!Nothing

\* Destruction.
LEMMA DestroyView ==
    ASSUME LifeInv, RunInv, NEW s \in Slot, destroy(s)
    PROVE  (OV!Next \/ UNCHANGED OV!vars) /\ SolidMemory' /\ KeptOrDropped
<1>1. /\ UNCHANGED <<pattern, wire>> /\ s # NoSlot /\ DOMAIN mem = Slot /\ IsObject(mem[s])
  BY LifeAssumption DEF destroy, LifeInv, Memory
<1> DEFINE b == IF mem[s].kind = "handshake" THEN destroyed(mem[s].bytes) ELSE transport_destroyed
<1>2. /\ mem'[s].bytes = b /\ mem'[s].kind = mem[s].kind /\ \A u \in Slot \ {s} : mem'[u] = mem[u]
  BY <1>1 DEF destroy, IsObject
<1>3. \A k \in Kind, q \in Roles : holder'[k][q] = IF holder[k][q] = s THEN NoSlot ELSE holder[k][q]
  BY ValueOwners DEF destroy, Kind
<1>4. /\ mem[s].kind = "handshake" => Solid(b)
      /\ mem[s].kind = "transport" => Fun(b)
  <2>1. mem[s].kind = "handshake" => Solid(b)
    BY <1>1, WipedSolid DEF IsObject, destroyed
  <2>2. Fun(transport_destroyed)
    BY DEF Fun, transport_destroyed
  <2> QED BY <2>1, <2>2
<1> HIDE DEF b
<1>5. SolidMemory'
  BY <1>2, <1>4 DEF SolidMemory, RunInv
<1>6. \A k \in Kind, q \in Roles : holder[k][q] # s => Stays(k, q)
  BY <1>2, <1>3, HeldValue, Unmoved
<1>7. \A k \in Kind, q \in Roles : holder[k][q] = s => Value(k, q)' = OV!Nothing
  BY <1>3 DEF Value, OV!Nothing
<1> QED BY <1>1, <1>5, <1>6, <1>7, Emptied DEF KeptOrDropped, Kind

\* A move: the owner of the source does not notice; the owner of an object
\* that is overwritten has lost it.
LEMMA MoveView ==
    ASSUME LifeInv, RunInv, NEW to \in Slot, NEW from \in Slot, move(to, from)
    PROVE  (OV!Next \/ UNCHANGED OV!vars) /\ SolidMemory' /\ KeptOrDropped
<1> DEFINE o == mem[from]
           m == move_of(o)
<1>1. /\ UNCHANGED <<pattern, wire>> /\ to # NoSlot /\ from # NoSlot /\ to # from
      /\ DOMAIN mem = Slot /\ IsObject(o) /\ IsObject(mem[to])
      /\ mem' = [mem EXCEPT ![to] = object(o.kind, m.to), ![from].bytes = m.from]
  BY LifeAssumption DEF move, LifeInv, Memory
<1>2. m.to = o.bytes
  <2>1. CASE o.kind = "handshake"
    BY <2>1, MovedSame DEF move_of, RunInv, SolidMemory
  <2>2. CASE o.kind = "transport"
    <3>1. Fun(o.bytes) /\ DOMAIN o.bytes = {"send", "recv"}
      BY <1>1, <2>2 DEF RunInv, SolidMemory, IsObject, IsTransport
    <3>2. m.to = [send |-> o.bytes.send, recv |-> o.bytes.recv]
      BY <2>2 DEF move_of, transport_move, cipher_move
    <3> QED BY <3>1, <3>2 DEF Fun
  <2> QED BY <1>1, <2>1, <2>2 DEF IsObject, Kind
<1>3. /\ o.kind = "handshake" => Solid(m.from) /\ Solid(m.to)
      /\ o.kind = "transport" => Fun(m.from) /\ Fun(m.to)
  <2>1. CASE o.kind = "handshake"
    <3>1. m.from = [wipe_dh_arrays(o.bytes) EXCEPT !.symmetric = symmetric_destroyed]
      BY <1>1, <2>1, HandshakeMove DEF move_of, IsObject
    <3>2. Solid(m.from)
      BY <1>1, <2>1, <3>1, WipedSolid DEF IsObject
    <3> QED BY <1>2, <2>1, <3>2 DEF RunInv, SolidMemory
  <2>2. CASE o.kind = "transport"
    BY <2>2 DEF move_of, transport_move, Fun
  <2> QED BY <1>1, <2>1, <2>2 DEF IsObject, Kind
<1> HIDE DEF m
<1>4. /\ mem'[to] = object(o.kind, m.to) /\ mem'[from].bytes = m.from /\ mem'[from].kind = o.kind
      /\ \A u \in Slot \ {to, from} : mem'[u] = mem[u]
  BY <1>1 DEF IsObject
<1>5. \A k \in Kind, q \in Roles :
         holder'[k][q] = IF holder[k][q] = from THEN to ELSE IF holder[k][q] = to THEN NoSlot ELSE holder[k][q]
  BY <1>1, ValueOwners DEF move, rehouse, Kind
<1>6. SolidMemory'
  BY <1>3, <1>4 DEF SolidMemory, RunInv, object
<1>7. \A k \in Kind, q \in Roles : holder[k][q] # to => Stays(k, q)
  <2> SUFFICES ASSUME NEW k \in Kind, NEW q \in Roles, holder[k][q] # to PROVE Stays(k, q)
    OBVIOUS
  <2>1. CASE holder[k][q] = from
    <3>1. holder'[k][q] = to
      BY <1>5, <2>1
    <3>2. Value(k, q)' = mem'[to].bytes /\ Value(k, q) = mem[from].bytes
      BY <1>1, <2>1, <3>1 DEF Value
    <3> QED BY <1>2, <1>4, <3>2 DEF Stays, object
  <2>2. CASE holder[k][q] # from
    <3>1. holder'[k][q] = holder[k][q]
      BY <1>5, <2>2
    <3> QED BY <1>4, <2>2, <3>1, HeldValue, Unmoved
  <2> QED BY <2>1, <2>2
<1>8. \A k \in Kind, q \in Roles : holder[k][q] = to => Value(k, q)' = OV!Nothing
  BY <1>1, <1>5 DEF Value, OV!Nothing
<1> QED BY <1>1, <1>6, <1>7, <1>8, Emptied DEF KeptOrDropped, Kind

\* Split into a new TransportState.
LEMMA SplitView ==
    ASSUME LifeInv, RunInv, NEW r \in OV!Role, NEW s \in Slot, split_into(r, s)
    PROVE  /\ OV!split_into(r) /\ SolidMemory' /\ Stays("handshake", peer_of(r))
           /\ is_complete(Value("handshake", r)) /\ is_complete(Value("handshake", r)')
<1> DEFINE h == holder["handshake"][r]
           b == mem[h].bytes
           p == handshake_split(b)
<1>0. r \in Roles /\ peer_of(r) \in Roles /\ peer_of(r) # r
  BY ValueOwners
<1>1. /\ h # NoSlot /\ OV!may_split(b) /\ ~mem[s].alive /\ UNCHANGED <<pattern, wire>>
      /\ mem' = [mem EXCEPT ![h].bytes = p.hs, ![s] = object("transport", [send |-> p.send, recv |-> p.recv])]
      /\ holder' = [holder EXCEPT !["transport"][r] = s]
  BY DEF split_into, cipher_move
<1>2. /\ h \in Slot /\ mem[h].kind = "handshake" /\ Value("handshake", r) = b /\ b # OV!Nothing
      /\ mem[h].alive /\ h # s
  BY <1>0, <1>1, HeldValue, OwnedSlots DEF Kind
<1>3. DOMAIN mem = Slot /\ IsObject(mem[h]) /\ DOMAIN holder = Kind /\ \A k \in Kind : DOMAIN holder[k] = OV!Role
  BY <1>2 DEF LifeInv, Memory, Holders
<1>4. Solid(b) /\ Solid(p.hs) /\ is_complete(b)
  BY <1>1, <1>2, SplitSolid, OwnerNames DEF RunInv, SolidMemory
<1>4a. p.hs.step = b.step /\ p.hs.pattern = b.pattern
  BY <1>4 DEF handshake_split, Solid, IsHandshake
<1> HIDE DEF p
<1>5. /\ mem'[h].bytes = p.hs /\ mem'[h].kind = "handshake"
      /\ mem'[s] = object("transport", [send |-> p.send, recv |-> p.recv])
      /\ \A u \in Slot \ {s, h} : mem'[u] = mem[u]
  BY <1>1, <1>2, <1>3 DEF IsObject
<1>6. /\ holder'["transport"][r] = s
      /\ \A k \in Kind, q \in Roles : k # "transport" \/ q # r => holder'[k][q] = holder[k][q]
  BY <1>0, <1>1, <1>3, ValueOwners DEF Kind
<1>7. \A k \in Kind, q \in Roles : holder[k][q] # s
  BY <1>1, OwnedSlots, ValueOwners
<1>8. holder["handshake"][peer_of(r)] # h /\ holder["transport"][peer_of(r)] # h
  BY <1>0, <1>1, <1>2, OwnedSlots, ValueOwners DEF LifeInv, Holders, Kind
<1>9. Stays("handshake", peer_of(r)) /\ Stays("transport", peer_of(r))
  BY <1>0, <1>5, <1>6, <1>7, <1>8, HeldValue, Unmoved DEF Kind
<1>10. Value("handshake", r)' = p.hs
  BY <1>0, <1>1, <1>5, <1>6 DEF Value, Kind
<1>11. Value("transport", r)' = [send |-> p.send, recv |-> p.recv]
  <2>1. s # NoSlot
    BY LifeAssumption
  <2>2. Value("transport", r)' = mem'[s].bytes
    BY <1>6, <2>1 DEF Value
  <2> QED BY <1>5, <2>2 DEF object
<1>12. OV!split_into(r)
  BY <1>0, <1>1, <1>2, <1>9, <1>10, <1>11, ViewSplit DEF p
<1>13. Fun([send |-> p.send, recv |-> p.recv])
  BY DEF Fun
<1>14. SolidMemory'
  BY <1>4, <1>5, <1>13 DEF SolidMemory, RunInv, object
<1>15. is_complete(p.hs)
  BY <1>4, <1>4a DEF is_complete
<1> QED BY <1>2, <1>4, <1>9, <1>10, <1>12, <1>14, <1>15

\* The two ends before their last message are not complete.
LEMMA EndsStep ==
    ASSUME NEW p \in {"XX", "IK"}, NEW n \in 0..(total_steps(p) - 1), NEW r \in Roles
    PROVE  /\ IsHandshake(ends_after(p, n)[r]) /\ ends_after(p, n)[r].step = n /\ ends_after(p, n)[r].pattern = p
           /\ ~is_complete(ends_after(p, n)[r])
<1>1. Understood(p, n)
  BY FaultlessHandshake
<1>2. Ends(ends_after(p, n)[writer_of(n)], ends_after(p, n)[peer_of(writer_of(n))], p, n)
  BY <1>1 DEF Understood
<1>3. r = writer_of(n) \/ r = peer_of(writer_of(n))
  BY DEF writer_of, peer_of, Roles
<1>4. IsHandshake(ends_after(p, n)[r]) /\ ends_after(p, n)[r].step = n /\ ends_after(p, n)[r].pattern = p
  BY <1>2, <1>3 DEF Ends
<1> HIDE DEF Roles
<1>5. n < pattern_total_steps[p]
  BY Steps DEF total_steps
<1> QED BY <1>4, <1>5, Steps DEF is_complete

\* Two or three messages.
LEMMA TotalSteps == \A p \in {"XX", "IK"} : total_steps(p) \in 2..3
  BY Steps DEF total_steps

\* One message on: the next pair of ends, or two complete objects.
LEMMA EndsNext ==
    ASSUME NEW p \in {"XX", "IK"}, NEW n \in 0..(total_steps(p) - 1)
    PROVE  LET w == writer_of(n)
               P == ends_after(p, n)
           IN  /\ n + 1 < total_steps(p) =>
                     ends_after(p, n + 1)[w] = spoken(P, w).hs /\ ends_after(p, n + 1)[peer_of(w)] = heard(P, w).hs
               /\ n + 1 = total_steps(p) => is_complete(spoken(P, w).hs) /\ is_complete(heard(P, w).hs)
               /\ heard(P, w).ok
<1> DEFINE w == writer_of(n)
           P == ends_after(p, n)
<1>1. Ends(P[w], P[peer_of(w)], p, n) /\ Talked(P[w], P[peer_of(w)], spoken(P, w), heard(P, w))
  BY FaultlessHandshake DEF Understood
<1>2. ASSUME n + 1 < total_steps(p)
      PROVE  ends_after(p, n + 1)[w] = spoken(P, w).hs /\ ends_after(p, n + 1)[peer_of(w)] = heard(P, w).hs
  <2>1. n \in 0..1
    BY <1>2, TotalSteps
  <2>2. CASE n = 0
    <3>1. w = "initiator" /\ P = new_ends(p)
          /\ ends_after(p, n + 1) = exchanged(P, w) /\ peer_of(w) = "responder"
      BY <2>2 DEF writer_of, ends_after, ends_after_1, peer_of
    <3> QED BY <3>1, Sides
  <2>3. CASE n = 1
    <3>1. w = "responder" /\ P = ends_after_1(p)
          /\ ends_after(p, n + 1) = exchanged(P, w) /\ peer_of(w) = "initiator"
      BY <2>3 DEF writer_of, ends_after, ends_after_2, peer_of
    <3> QED BY <3>1, Sides
  <2> QED BY <2>1, <2>2, <2>3
<1>3. /\ spoken(P, w).hs.step = n + 1 /\ heard(P, w).hs.step = n + 1
      /\ spoken(P, w).hs.pattern = p /\ heard(P, w).hs.pattern = p /\ heard(P, w).ok
  BY <1>1 DEF Ends, Talked, SameParty
<1> HIDE DEF P, w
<1>4. n + 1 = total_steps(p) => is_complete(spoken(P, w).hs) /\ is_complete(heard(P, w).hs)
  BY <1>3 DEF is_complete, total_steps
<1> QED BY <1>2, <1>3, <1>4 DEF P, w

\* A step that writes and reads nothing.
LEMMA Steady ==
    ASSUME NEW pos, Exchanged(pos), UNCHANGED <<pattern, wire, started>>, KeptOrDropped
    PROVE  Exchanged(pos)'
  BY DEF Exchanged, KeptOrDropped, Stays, Reached

\* The constructor starts at message 0.
LEMMA StartProgress ==
    ASSUME LifeInv, RunInv, NEW pos, Exchanged(pos), NEW r \in Roles,
           r \notin started, started' = started \cup {r}, OV!start(r)
    PROVE  Exchanged(pos)'
<1>1. UNCHANGED <<pattern, wire>> /\ pattern \in {"XX", "IK"}
  BY DEF OV!start, RunInv
<1>2. Value("handshake", r)' = new_end(pattern, r)
      /\ Value("handshake", peer_of(r))' = Value("handshake", peer_of(r))
  BY ValueOwners DEF OV!start, Roles, peer_of
<1>3. pos[r] = 0
  BY DEF Exchanged
<1>4. ends_after(pattern, 0)[r] = new_end(pattern, r)
  BY DEF ends_after, new_ends
<1>5. Reached(new_end(pattern, r), r, pos[r])
  BY <1>1, <1>3, <1>4, TotalSteps DEF Reached
<1>6. \A q \in Roles : q = r \/ q = peer_of(r)
  BY DEF Roles, peer_of
<1>7. \A h, q, n : Reached(h, q, n)' <=> Reached(h, q, n)
  BY <1>1 DEF Reached
<1>8. \A q \in Roles : Value("handshake", q)' # OV!Nothing => Reached(Value("handshake", q)', q, pos[q])
  BY <1>2, <1>5, <1>6 DEF Exchanged
<1> QED BY <1>1, <1>7, <1>8 DEF Exchanged, Reached

\* Split is asked for after the last message only.
LEMMA SplitProgress ==
    ASSUME LifeInv, RunInv, NEW pos, Exchanged(pos), NEW r \in Roles,
           started' = started, UNCHANGED <<pattern, wire>>, Value("handshake", r) # OV!Nothing,
           Stays("handshake", peer_of(r)), is_complete(Value("handshake", r)), is_complete(Value("handshake", r)')
    PROVE  Exchanged(pos)'
<1>1. pattern \in {"XX", "IK"} /\ pos[r] \in 0..total_steps(pattern)
  BY DEF RunInv, Exchanged
<1>2. ~(pos[r] < total_steps(pattern))
  <2> SUFFICES ASSUME pos[r] < total_steps(pattern) PROVE FALSE
    OBVIOUS
  <2>1. pos[r] \in 0..(total_steps(pattern) - 1)
    BY <1>1, TotalSteps
  <2>2. Value("handshake", r) = ends_after(pattern, pos[r])[r]
    BY DEF Exchanged, Reached
  <2> QED BY <1>1, <2>1, <2>2, EndsStep
<1>3. Reached(Value("handshake", r)', r, pos[r])
  BY <1>2 DEF Reached
<1>4. \A q \in Roles : q = r \/ q = peer_of(r)
  BY DEF Roles, peer_of
<1>8. \A q \in Roles : Value("handshake", q)' # OV!Nothing => Reached(Value("handshake", q)', q, pos[q])
  BY <1>3, <1>4 DEF Exchanged, Stays
<1> QED BY <1>8 DEF Exchanged, Reached

\* A message is written or read: the reader is handed what the writer wrote
\* at the same point of the conversation, so that the read succeeds.
LEMMA ExchangeView ==
    ASSUME LifeInv, RunInv, NEW r \in OV!Role, exchange(r)
    PROVE  /\ OV!write(r) \/ OV!read(r)
           /\ SolidMemory' /\ DOMAIN wire' = Roles /\ \E pos \in [Roles -> 0..3] : Exchanged(pos)'
<1> DEFINE s == holder["handshake"][r]
           h == mem[s].bytes
           w == write_message(h, OV!ephemeral_of(r))
           m == read_message(h, wire[r])
           o == peer_of(r)
<1>0. r \in Roles /\ o \in Roles /\ o # r /\ peer_of(o) = r /\ \A q \in Roles : q = r \/ q = o
  BY ValueOwners DEF Roles, peer_of
<1>1. /\ s # NoSlot /\ UNCHANGED <<pattern, holder, started>>
      /\ \/ /\ OV!on_duty(r, h)
            /\ mem'  = [mem EXCEPT ![s].bytes = w.hs]
            /\ wire' = [wire EXCEPT ![o] = w.bytes]
         \/ /\ wire[r] # OV!Nothing
            /\ mem'  = [mem EXCEPT ![s].bytes = m.hs]
            /\ wire' = [wire EXCEPT ![r] = OV!Nothing]
  BY <1>0, ValueOwners DEF exchange
<1>2. /\ s \in Slot /\ mem[s].kind = "handshake" /\ Value("handshake", r) = h /\ h # OV!Nothing
  BY <1>0, <1>1, HeldValue DEF Kind
<1>3. PICK pos \in [Roles -> 0..3] : Exchanged(pos)
  BY DEF RunInv
<1>4. Solid(h)
  BY <1>2 DEF RunInv, SolidMemory
<1>5. pattern \in {"XX", "IK"} /\ total_steps(pattern) \in 2..3
  BY TotalSteps DEF RunInv
<1>6. holder["handshake"][o] # s /\ \A q \in Roles : holder["transport"][q] # s
  BY <1>0, <1>1, <1>2, OwnedSlots, ValueOwners DEF LifeInv, Holders, Kind
<1>7. DOMAIN wire = Roles /\ DOMAIN wire' = Roles
  BY <1>1 DEF RunInv
<1> DEFINE n == pos[r]
           P == ends_after(pattern, n)
           g == [pos EXCEPT ![r] = n + 1]
<1>8. r \in started
  BY <1>0, <1>1, ValueOwners DEF LifeInv, Owners
<1>9. /\ n \in 0..total_steps(pattern) /\ pos[o] \in 0..total_steps(pattern)
      /\ Reached(h, r, n)
      /\ n = pos[o] \/ Ahead(pos, r) \/ Ahead(pos, o)
      /\ wire[r] = IF Ahead(pos, o) THEN spoken(P, o).bytes ELSE OV!Nothing
      /\ wire[o] = IF Ahead(pos, r) THEN spoken(ends_after(pattern, pos[o]), r).bytes ELSE OV!Nothing
      /\ o \notin started => pos[o] = 0
      /\ Value("handshake", o) # OV!Nothing => Reached(Value("handshake", o), o, pos[o])
  BY <1>0, <1>2, <1>3 DEF Exchanged
<1>10. ASSUME n < total_steps(pattern)
       PROVE  /\ n \in 0..(total_steps(pattern) - 1) /\ h = P[r]
              /\ g \in [Roles -> 0..3] /\ g[r] = n + 1 /\ g[o] = pos[o]
              /\ g[r] \in 0..total_steps(pattern)
  BY <1>0, <1>3, <1>5, <1>9, <1>10 DEF Reached
<1>11. ASSUME NEW v, Value("handshake", r)' = v, Reached(v, r, n + 1), n < total_steps(pattern),
              Stays("handshake", o),
              n + 1 = pos[o] \/ Ahead(g, r),
              wire'[r] = OV!Nothing,
              wire'[o] = IF Ahead(g, r) THEN spoken(ends_after(pattern, pos[o]), r).bytes ELSE OV!Nothing
       PROVE  Exchanged(g)'
  <2>1. g[r] = n + 1 /\ g[o] = pos[o] /\ g[r] \in 0..total_steps(pattern)
    BY <1>10, <1>11
  <2>2. ~Ahead(g, o)
    <3>1. n \in Nat /\ pos[o] \in Nat
      BY <1>5, <1>9
    <3> HIDE DEF g, n
    <3> QED BY <1>0, <1>11, <2>1, <3>1 DEF Ahead
  <2>3. pattern' = pattern /\ started' = started
    BY <1>1
  <2> HIDE DEF g, n, o, s, h
  <2>4. Exchanged(g)' <=>
          \A q \in Roles :
            /\ g[q] \in 0..total_steps(pattern)
            /\ q \notin started => g[q] = 0
            /\ Value("handshake", q)' # OV!Nothing => Reached(Value("handshake", q)', q, g[q])
            /\ g[q] = g[peer_of(q)] \/ Ahead(g, q) \/ Ahead(g, peer_of(q))
            /\ wire'[q] = IF Ahead(g, peer_of(q)) THEN spoken(ends_after(pattern, g[q]), peer_of(q)).bytes
                                                ELSE OV!Nothing
    BY <2>3 DEF Exchanged, Reached
  <2>5. Value("handshake", o)' # OV!Nothing => Reached(Value("handshake", o)', o, g[o])
    BY <1>9, <1>11, <2>1 DEF Stays
  <2>6. Value("handshake", r)' # OV!Nothing => Reached(Value("handshake", r)', r, g[r])
    BY <1>11, <2>1
  <2>7. /\ g[o] \in 0..total_steps(pattern) /\ (o \notin started => g[o] = 0)
        /\ wire'[o] = IF Ahead(g, r) THEN spoken(ends_after(pattern, g[o]), r).bytes ELSE OV!Nothing
        /\ g[o] = g[r] \/ Ahead(g, r)
    BY <1>9, <1>11, <2>1
  <2>8. peer_of(r) = o /\ peer_of(o) = r /\ \A q \in Roles : q = r \/ q = o
    BY <1>0 DEF o
  <2> QED BY <1>8, <1>11, <2>1, <2>2, <2>4, <2>5, <2>6, <2>7, <2>8
<1>12. CASE /\ OV!on_duty(r, h)
            /\ mem'  = [mem EXCEPT ![s].bytes = w.hs]
            /\ wire' = [wire EXCEPT ![o] = w.bytes]
  <2>1. ~is_complete(h) /\ (h.step % 2 = 0) = (r = "initiator")
    BY <1>12, ValueOwners
  <2>2. n < total_steps(pattern)
    BY <2>1, <1>9 DEF Reached
  <2>3. /\ n \in 0..(total_steps(pattern) - 1) /\ h = P[r] /\ g \in [Roles -> 0..3]
        /\ g[r] = n + 1 /\ g[o] = pos[o]
    BY <1>10, <2>2
  <2>4. h.step = n
    BY <1>0, <1>5, <2>3, EndsStep
  <2>5. r = writer_of(n) /\ n \in 0..2
    <3>1. n \in 0..2
      BY <1>5, <2>3
    <3> HIDE DEF n
    <3>2. (n % 2 = 0) = (r = "initiator")
      BY <2>1, <2>4
    <3>3. (n = 0 \/ n = 2) <=> n % 2 = 0
      BY <3>1
    <3>4. r = writer_of(n)
      BY <1>0, <3>1, <3>2, <3>3 DEF writer_of, Roles
    <3> QED BY <3>1, <3>4
  <2>6. n = pos[o] /\ ~Ahead(pos, r) /\ ~Ahead(pos, o)
    <3>1. n \in Nat /\ pos[o] \in Nat
      BY <1>5, <1>9
    <3>2. ~Ahead(pos, o)
      BY <1>0, <2>5 DEF Ahead
    <3>3. ~Ahead(pos, r)
      <4> SUFFICES ASSUME n = pos[o] + 1, r = writer_of(pos[o]) PROVE FALSE
        BY DEF Ahead
      <4> HIDE DEF n, o
      <4>1. pos[o] \in 0..1
        BY <2>5, <3>1
      <4> QED BY <2>5, <4>1 DEF writer_of
    <3> QED BY <1>9, <3>2, <3>3
  <2>7. w = spoken(P, r)
    BY <2>3, ValueOwners DEF spoken
  <2> HIDE DEF n, P, o, s, h, w, g
  <2>8. Solid(w.hs)
    BY <1>4, WriteSolid DEF w
  <2>9. /\ SolidMemory'
        /\ Value("handshake", r)' = w.hs /\ Stays("handshake", o) /\ \A q \in Roles : Stays("transport", q)
    <3>1. holder' = holder /\ mem' = [mem EXCEPT ![s].bytes = w.hs]
      BY <1>1, <1>12
    <3>2. /\ SolidMemory'
          /\ \A k \in Kind, q \in Roles : holder[k][q] # s => Stays(k, q)
          /\ \A k \in Kind, q \in Roles : holder[k][q] = s => Value(k, q)' = w.hs
      BY <1>2, <2>8, <3>1, ChangedView
    <3>3. holder["handshake"][r] = s
      BY DEF s
    <3> QED BY <1>0, <1>6, <3>2, <3>3 DEF Kind
  <2>10. Reached(w.hs, r, n + 1)
    <3>1. /\ n + 1 < total_steps(pattern) => ends_after(pattern, n + 1)[r] = w.hs
          /\ n + 1 = total_steps(pattern) => is_complete(w.hs)
      BY <1>5, <2>3, <2>5, <2>7, EndsNext DEF P
    <3>2. n + 1 <= total_steps(pattern)
      BY <1>5, <2>3
    <3> QED BY <1>5, <2>3, <3>1, <3>2 DEF Reached
  <2>11. Ahead(g, r)
    BY <1>0, <2>3, <2>5, <2>6 DEF Ahead, o
  <2>12. wire'[r] = OV!Nothing /\ wire'[o] = spoken(ends_after(pattern, pos[o]), r).bytes
    <3>1. wire'[r] = wire[r] /\ wire'[o] = w.bytes
      BY <1>0, <1>7, <1>12
    <3> QED BY <1>9, <2>6, <2>7, <3>1 DEF P
  <2>13. Exchanged(g)'
    BY <1>11, <2>2, <2>9, <2>10, <2>11, <2>12
  <2>14. OV!write(r)
    BY <1>0, <1>1, <1>2, <1>12, <2>9, ValueOwners, ViewWrite DEF w, o
  <2> QED BY <1>7, <2>3, <2>9, <2>13, <2>14
<1>13. CASE /\ wire[r] # OV!Nothing
            /\ mem'  = [mem EXCEPT ![s].bytes = m.hs]
            /\ wire' = [wire EXCEPT ![r] = OV!Nothing]
  <2>1. Ahead(pos, o) /\ wire[r] = spoken(P, o).bytes
    BY <1>9, <1>13
  <2>2. pos[o] = n + 1 /\ o = writer_of(n)
    BY <1>0, <2>1 DEF Ahead
  <2>3. n < total_steps(pattern)
    BY <1>5, <1>9, <2>2
  <2>4. /\ n \in 0..(total_steps(pattern) - 1) /\ h = P[r] /\ g \in [Roles -> 0..3]
        /\ g[r] = n + 1 /\ g[o] = pos[o]
    BY <1>10, <2>3
  <2>5. m = heard(P, o)
    BY <1>0, <2>1, <2>4 DEF heard
  <2>6. ~Ahead(pos, r) /\ ~Ahead(g, r)
    <3>1. n \in Nat
      BY <1>5, <2>4
    <3> HIDE DEF n, g
    <3>2. pos[r] = n
      BY DEF n
    <3> QED BY <1>0, <2>2, <2>4, <3>1, <3>2 DEF Ahead
  <2> HIDE DEF n, P, o, s, h, m, g
  <2>8. Solid(m.hs)
    BY <1>4, ReadSolid DEF m
  <2>9. /\ SolidMemory'
        /\ Value("handshake", r)' = m.hs /\ Stays("handshake", o) /\ \A q \in Roles : Stays("transport", q)
    <3>1. holder' = holder /\ mem' = [mem EXCEPT ![s].bytes = m.hs]
      BY <1>1, <1>13
    <3>2. /\ SolidMemory'
          /\ \A k \in Kind, q \in Roles : holder[k][q] # s => Stays(k, q)
          /\ \A k \in Kind, q \in Roles : holder[k][q] = s => Value(k, q)' = m.hs
      BY <1>2, <2>8, <3>1, ChangedView
    <3>3. holder["handshake"][r] = s
      BY DEF s
    <3> QED BY <1>0, <1>6, <3>2, <3>3 DEF Kind
  <2>10. Reached(m.hs, r, n + 1) /\ m.ok
    <3>0. peer_of(o) = r
      BY <1>0
    <3>1. /\ n + 1 < total_steps(pattern) => ends_after(pattern, n + 1)[r] = m.hs
          /\ n + 1 = total_steps(pattern) => is_complete(m.hs)
          /\ m.ok
      BY <1>5, <2>2, <2>4, <2>5, <3>0, EndsNext DEF P
    <3>2. n + 1 <= total_steps(pattern)
      BY <1>5, <2>4
    <3> QED BY <1>5, <2>4, <3>1, <3>2 DEF Reached
  <2>12. wire'[r] = OV!Nothing /\ wire'[o] = OV!Nothing
    <3>1. wire'[r] = OV!Nothing /\ wire'[o] = wire[o]
      BY <1>0, <1>7, <1>13
    <3> QED BY <1>9, <2>6, <3>1
  <2>13. Exchanged(g)'
    BY <1>11, <2>2, <2>3, <2>6, <2>9, <2>10, <2>12
  <2>14. OV!read(r)
    BY <1>0, <1>1, <1>2, <1>13, <2>9, <2>10, ViewRead DEF m, o
  <2> QED BY <1>7, <2>4, <2>9, <2>13, <2>14
<1> QED BY <1>1, <1>12, <1>13

\* At the start.
LEMMA RunInit == Init => RunInv /\ OV!Init
<1> SUFFICES ASSUME Init PROVE RunInv /\ OV!Init
  OBVIOUS
<1> USE DEF Init
<1>1. OV!Init
  BY DEF OV!Init, OV!Role, Value, OV!Nothing
<1>2. SolidMemory
  <2>1. Solid(construct("XX", TRUE, Zero, Empty))
    BY NewSolid
  <2>2. Solid(destroyed(construct("XX", TRUE, Zero, Empty)))
    BY <2>1, WipedSolid DEF destroyed, Solid
  <2> QED BY <2>2 DEF SolidMemory, Blank
<1>3. DOMAIN wire = Roles
  BY ValueOwners
<1>4. Exchanged([r \in Roles |-> 0])
  <2>1. \A r \in Roles : Value("handshake", r) = OV!Nothing /\ wire[r] = OV!Nothing
    BY ValueOwners DEF Value, OV!Nothing
  <2>2. 0 \in 0..total_steps(pattern)
    BY TotalSteps
  <2>3. \A r \in Roles : ~Ahead([q \in Roles |-> 0], peer_of(r))
    BY DEF Ahead, Roles, peer_of
  <2> QED BY <2>1, <2>2, <2>3, ValueOwners DEF Exchanged
<1> QED BY <1>1, <1>2, <1>3, <1>4 DEF RunInv

\* Every step keeps the invariant and is a step of ObjectValues or none.
LEMMA RunNext ==
    ASSUME LifeInv, LifeInv', RunInv, [Next]_vars
    PROVE  RunInv' /\ (OV!Next \/ UNCHANGED OV!vars)
<1>1. PICK pos \in [Roles -> 0..3] : Exchanged(pos)
  BY DEF RunInv
<1>2. pattern \in {"XX", "IK"} /\ DOMAIN wire = Roles
  BY DEF RunInv
<1>3. ASSUME KeptOrDropped, SolidMemory', UNCHANGED <<pattern, wire, started>>
      PROVE  RunInv'
  BY <1>1, <1>2, <1>3, Steady DEF RunInv
<1>4. (\A q \in Roles : Stays("handshake", q)) => KeptOrDropped
  BY DEF KeptOrDropped
<1>5. ASSUME NEW r \in OV!Role, exchange(r)
      PROVE  RunInv' /\ OV!Next
  <2>1. /\ OV!write(r) \/ OV!read(r)
        /\ SolidMemory' /\ DOMAIN wire' = Roles /\ \E p \in [Roles -> 0..3] : Exchanged(p)'
    BY <1>5, ExchangeView
  <2>2. pattern' = pattern
    BY <1>5 DEF exchange
  <2> QED BY <1>2, <2>1, <2>2 DEF RunInv, OV!Next
<1>6. ASSUME NEW r \in OV!Role, NEW s \in Slot, start(r, s)
      PROVE  RunInv' /\ OV!Next
  <2>1. OV!start(r) /\ SolidMemory'
    BY <1>6, StartView
  <2>2. r \notin started /\ started' = started \cup {r} /\ UNCHANGED <<pattern, wire>> /\ r \in Roles
    BY <1>6, ValueOwners DEF start
  <2>3. Exchanged(pos)'
    BY <1>1, <2>1, <2>2, StartProgress
  <2> QED BY <1>1, <1>2, <2>1, <2>2, <2>3 DEF RunInv, OV!Next
<1>7. ASSUME NEW r \in OV!Role, NEW s \in Slot, split_into(r, s)
      PROVE  RunInv' /\ OV!Next
  <2>1. /\ OV!split_into(r) /\ SolidMemory' /\ Stays("handshake", peer_of(r))
        /\ is_complete(Value("handshake", r)) /\ is_complete(Value("handshake", r)')
    BY <1>7, SplitView
  <2>2. started' = started /\ UNCHANGED <<pattern, wire>> /\ r \in Roles /\ holder["handshake"][r] # NoSlot
    BY <1>7, ValueOwners DEF split_into
  <2>3. Value("handshake", r) # OV!Nothing
    BY <2>2, HeldValue DEF Kind
  <2>4. Exchanged(pos)'
    BY <1>1, <2>1, <2>2, <2>3, SplitProgress
  <2> QED BY <1>1, <1>2, <2>1, <2>2, <2>4 DEF RunInv, OV!Next
<1>8. ASSUME NEW s \in Slot, encrypt(s) \/ rekey_both(s)
      PROVE  RunInv' /\ (OV!Next \/ UNCHANGED OV!vars)
  <2>1. UNCHANGED <<pattern, wire, started>>
    BY <1>8 DEF encrypt, rekey_both
  <2> QED BY <1>3, <1>4, <1>8, <2>1, EncryptView, RekeyView
<1>9. ASSUME NEW s \in Slot, destroy(s)
      PROVE  RunInv' /\ (OV!Next \/ UNCHANGED OV!vars)
  <2>1. UNCHANGED <<pattern, wire, started>>
    BY <1>9 DEF destroy
  <2> QED BY <1>3, <1>9, <2>1, DestroyView
<1>10. ASSUME NEW s \in Slot, NEW t \in Slot, move(s, t)
       PROVE  RunInv' /\ (OV!Next \/ UNCHANGED OV!vars)
  <2>1. UNCHANGED <<pattern, wire, started>>
    BY <1>10 DEF move
  <2> QED BY <1>3, <1>10, <2>1, MoveView
<1>11. CASE UNCHANGED vars
  <2>1. \A k \in Kind, q \in Roles : Stays(k, q)
    BY <1>11 DEF vars, Stays, Value
  <2>2. UNCHANGED <<pattern, wire, started, mem>>
    BY <1>11 DEF vars
  <2>3. SolidMemory'
    BY <2>2 DEF RunInv, SolidMemory
  <2> QED BY <1>3, <1>4, <2>1, <2>2, <2>3, ViewStill DEF Kind
<1> QED BY <1>5, <1>6, <1>7, <1>8, <1>9, <1>10, <1>11 DEF Next

\* Whatever is moved, overwritten or destroyed, and at whatever point of the
\* handshake or of the transport phase: every owner has the object it would
\* have if objects were values, and what it reads succeeds as it would
\* (the move operations of HandshakeState, SymmetricState, CipherState and
\* TransportState).
THEOREM ObjectsImplementValues == Spec => ImplementsObjectValues
<1>1. Init => RunInv /\ OV!Init
  BY RunInit
<1>2. LifeInv /\ LifeInv' /\ RunInv /\ [Next]_vars => RunInv' /\ [OV!Next]_OV!vars
  BY RunNext
<1> QED BY <1>1, <1>2, LifeInvariant, PTL DEF Spec, ImplementsObjectValues, OV!Spec
===============================================================================
