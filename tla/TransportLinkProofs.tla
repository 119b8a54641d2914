------------------------- MODULE TransportLinkProofs -------------------------
(***************************************************************************)
(* Theorems about TransportLink, for every REKEY_INTERVAL, every nonce     *)
(* width and every bound.                                                  *)
(***************************************************************************)
EXTENDS TransportLink, SequenceTheorems, TLAPS

USE NonceMaxAssumption, RekeyIntervalAssumption, TransportAssumption

(***************************************************************************)
(* What the operators on one cipher compute.                               *)
(***************************************************************************)
\* A cipher whose nonce may have reached the threshold.
Keyed        == [k : Key, n : Nat, has_key : {TRUE}]
next_key(c)  == [k |-> [base |-> c.k.base, gen |-> c.k.gen + 1], n |-> 0, has_key |-> TRUE]
advanced(c)  == [k |-> c.k, n |-> c.n + 1, has_key |-> TRUE]
Transport    == [send : Cipher, recv : Cipher]

next_generation(t) == [send |-> next_key(t.send), recv |-> next_key(t.recv)]

\* The fields of a cipher that has a key.
LEMMA KeyedFields ==
    ASSUME NEW c \in Keyed
    PROVE  /\ c.k \in Key /\ c.k.gen \in Nat /\ c.k.base \in {K1, K2}
           /\ c.n \in Nat /\ c.has_key = TRUE
           /\ c = [k |-> c.k, n |-> c.n, has_key |-> TRUE]
<1>1. c.k \in Key /\ c.n \in Nat
  BY DEF Keyed
<1>2. c.k.gen \in Nat /\ c.k.base \in {K1, K2}
  BY <1>1 DEF Key
<1>3. c.has_key = TRUE
  BY Zenon DEF Keyed
<1>4. c = [k |-> c.k, n |-> c.n, has_key |-> c.has_key]
  BY DEF Keyed
<1> QED BY <1>1, <1>2, <1>3, <1>4

\* A cipher between calls; where the next nonce or the next key leads.
LEMMA CipherFields ==
    ASSUME NEW c \in Cipher
    PROVE  /\ c \in Keyed
           /\ c.n \in Nat /\ c.n < REKEY_INTERVAL
           /\ advanced(c) \in Keyed
           /\ c.n + 1 < REKEY_INTERVAL => advanced(c) \in Cipher
           /\ next_key(c) \in Cipher
<1>1. c.n \in Nonce /\ c.n \in Nat /\ c.n < REKEY_INTERVAL /\ c.n + 1 \in Nat
  BY DEF Cipher, Nonce
<1>2. c \in Keyed
  BY <1>1 DEF Cipher, Keyed
<1>3. advanced(c) \in Keyed
  BY <1>1, <1>2, KeyedFields DEF Keyed, advanced
<1>4. c.n + 1 < REKEY_INTERVAL => c.n + 1 \in Nonce
  BY <1>1 DEF Nonce
<1>5. c.n + 1 < REKEY_INTERVAL => advanced(c) \in Cipher
  BY <1>2, <1>4, KeyedFields DEF Cipher, advanced
<1>6. 0 \in Nonce
  BY DEF Nonce
<1>7. [base |-> c.k.base, gen |-> c.k.gen + 1] \in Key
  <2>1. c.k.base \in {K1, K2} /\ c.k.gen \in Nat
    BY <1>2, KeyedFields
  <2> QED BY <2>1 DEF Key
<1>8. next_key(c) \in Cipher
  BY <1>6, <1>7 DEF Cipher, next_key
<1> QED BY <1>1, <1>2, <1>3, <1>5, <1>8

\* An update of the generation inside a cipher record.
LEMMA BumpGeneration ==
    ASSUME NEW B, NEW c \in [k : [base : B, gen : Nat], n : Nat, has_key : BOOLEAN]
    PROVE  [c EXCEPT !.k.gen = @ + 1] =
             [k |-> [base |-> c.k.base, gen |-> c.k.gen + 1], n |-> c.n, has_key |-> c.has_key]
  OBVIOUS

\* An update of the nonce inside a cipher record.
LEMMA ResetNonce ==
    ASSUME NEW K, NEW c \in [k : K, n : Nat, has_key : BOOLEAN]
    PROVE  [c EXCEPT !.n = 0] = [k |-> c.k, n |-> 0, has_key |-> c.has_key]
  OBVIOUS

\* CipherState::rekey followed by reset_nonce_to_zero.
LEMMA RekeyCipher ==
    ASSUME NEW c \in Keyed
    PROVE  reset_nonce_to_zero(rekey(c)) = next_key(c)
<1> DEFINE kk == [base |-> c.k.base, gen |-> c.k.gen + 1]
<1>1. c.has_key = TRUE
  BY KeyedFields
<1>2. c \in [k : [base : {K1, K2}, gen : Nat], n : Nat, has_key : BOOLEAN]
  BY <1>1 DEF Keyed, Key
<1>3. rekey(c) = [c EXCEPT !.k.gen = @ + 1]
  BY <1>1 DEF rekey
<1>4. rekey(c) = [k |-> kk, n |-> c.n, has_key |-> TRUE]
  BY <1>1, <1>2, <1>3, BumpGeneration
<1>5. rekey(c) \in [k : [base : {K1, K2}, gen : Nat], n : Nat, has_key : BOOLEAN]
  BY <1>1, <1>2, <1>4
<1>6. [rekey(c) EXCEPT !.n = 0] = [k |-> rekey(c).k, n |-> 0, has_key |-> rekey(c).has_key]
  BY <1>5, ResetNonce
<1> QED BY <1>4, <1>6 DEF next_key, reset_nonce_to_zero

\* CipherState::encrypt_with_ad on a transport cipher.
LEMMA EncryptCipher ==
    ASSUME NEW c \in Cipher, NEW pt
    PROVE  encrypt_with_ad(c, Empty, pt) =
             [cipher |-> advanced(c), out |-> seal(c.k, c.n, Empty, pt)]
<1>1. incr(c.n) = c.n + 1
  BY CipherFields DEF incr
<1>2. [c EXCEPT !.n = incr(@)] = [k |-> c.k, n |-> incr(c.n), has_key |-> c.has_key]
  BY DEF Cipher
<1>3. c.has_key = TRUE
  BY CipherFields, KeyedFields
<1>4. [c EXCEPT !.n = incr(@)] = advanced(c)
  BY <1>1, <1>2, <1>3 DEF advanced
<1> QED BY <1>3, <1>4 DEF encrypt_with_ad

\* CipherState::decrypt_with_ad on a transport cipher.
LEMMA DecryptCipher ==
    ASSUME NEW c \in Cipher, NEW ct
    PROVE  decrypt_with_ad(c, Empty, ct) =
             IF opens(ct, c.k, c.n, Empty)
             THEN [ok |-> TRUE, cipher |-> advanced(c), out |-> plaintext(ct)]
             ELSE [ok |-> FALSE, cipher |-> c, out |-> Empty]
<1>1. incr(c.n) = c.n + 1
  BY CipherFields DEF incr
<1>2. [c EXCEPT !.n = incr(@)] = [k |-> c.k, n |-> incr(c.n), has_key |-> c.has_key]
  BY DEF Cipher
<1>3. c.has_key = TRUE
  BY CipherFields, KeyedFields
<1>4. [c EXCEPT !.n = incr(@)] = advanced(c)
  BY <1>1, <1>2, <1>3 DEF advanced
<1> QED BY <1>3, <1>4 DEF decrypt_with_ad

(***************************************************************************)
(* What the vtable calls make of one TransportState.                       *)
(***************************************************************************)
\* TransportState::rekey.
LEMMA RekeyResult ==
    ASSUME NEW t, t.send \in Keyed, t.recv \in Keyed
    PROVE  transport_rekey(t) = next_generation(t)
  BY RekeyCipher DEF transport_rekey, next_generation

\* noise_encrypt: the seal is made at the current position; the send counter
\* advances, or both ciphers go to the next generation.
LEMMA EncryptResult ==
    ASSUME NEW t \in Transport, NEW pt
    PROVE  LET e == transport_encrypt(t, pt)
           IN  /\ e.out = seal(t.send.k, t.send.n, Empty, pt)
               /\ t.send.n + 1 < REKEY_INTERVAL =>
                    rekey_if_needed(e.t) = [send |-> advanced(t.send), recv |-> t.recv]
               /\ ~(t.send.n + 1 < REKEY_INTERVAL) =>
                    rekey_if_needed(e.t) = next_generation(t)
<1> DEFINE u == [send |-> advanced(t.send), recv |-> t.recv]
<1>1. t.send \in Cipher /\ t.recv \in Cipher
  BY DEF Transport
<1>2. [t EXCEPT !.send = advanced(t.send)] = u
  BY DEF Transport
<1>3. transport_encrypt(t, pt) = [t |-> u, out |-> seal(t.send.k, t.send.n, Empty, pt)]
  BY <1>1, <1>2, EncryptCipher DEF transport_encrypt
<1>4. u.send \in Keyed /\ u.recv \in Keyed
  BY <1>1, CipherFields
<1>5. next_generation(u) = next_generation(t)
  BY DEF next_generation, next_key, advanced
<1>6. transport_rekey(u) = next_generation(t)
  BY <1>4, <1>5, RekeyResult
<1>7. needs_rekey(u) <=> ~(t.send.n + 1 < REKEY_INTERVAL)
  <2>1. u.send.n = t.send.n + 1 /\ u.recv.n = t.recv.n
    BY DEF advanced
  <2>2. t.send.n \in Nat /\ t.recv.n \in Nat /\ t.recv.n < REKEY_INTERVAL
    BY <1>1, CipherFields
  <2> QED BY <2>1, <2>2 DEF needs_rekey
<1> QED BY <1>3, <1>6, <1>7 DEF rekey_if_needed

\* noise_decrypt: a frame opens at the current position only; then the
\* receive counter advances, or both ciphers go to the next generation.
LEMMA DecryptResult ==
    ASSUME NEW t \in Transport, NEW ct
    PROVE  LET d == transport_decrypt(t, ct)
           IN  /\ d.ok = opens(ct, t.recv.k, t.recv.n, Empty)
               /\ d.ok => d.out = plaintext(ct)
               /\ d.ok /\ t.recv.n + 1 < REKEY_INTERVAL =>
                    rekey_if_needed(d.t) = [send |-> t.send, recv |-> advanced(t.recv)]
               /\ d.ok /\ ~(t.recv.n + 1 < REKEY_INTERVAL) =>
                    rekey_if_needed(d.t) = next_generation(t)
<1> DEFINE u == [send |-> t.send, recv |-> advanced(t.recv)]
           op == opens(ct, t.recv.k, t.recv.n, Empty)
<1>1. t.send \in Cipher /\ t.recv \in Cipher
  BY DEF Transport
<1>2. [t EXCEPT !.recv = advanced(t.recv)] = u
  BY DEF Transport
<1>3. op \in BOOLEAN
  BY DEF opens
<1>4. CASE op
  <2>1. transport_decrypt(t, ct) = [ok |-> TRUE, t |-> u, out |-> plaintext(ct)]
    <3>1. decrypt_with_ad(t.recv, Empty, ct)
            = [ok |-> TRUE, cipher |-> advanced(t.recv), out |-> plaintext(ct)]
      BY <1>1, <1>4, DecryptCipher
    <3>2. PICK d : d = decrypt_with_ad(t.recv, Empty, ct)
      OBVIOUS
    <3>3. d.ok = TRUE /\ d.cipher = advanced(t.recv) /\ d.out = plaintext(ct)
      BY <3>1, <3>2
    <3>4. transport_decrypt(t, ct) = [ok |-> d.ok, t |-> [t EXCEPT !.recv = d.cipher], out |-> d.out]
      BY <3>2 DEF transport_decrypt
    <3> QED BY <1>2, <3>3, <3>4
  <2>2. u.send \in Keyed /\ u.recv \in Keyed
    BY <1>1, CipherFields
  <2>3. next_generation(u) = next_generation(t)
    BY DEF next_generation, next_key, advanced
  <2>4. transport_rekey(u) = next_generation(t)
    BY <2>2, <2>3, RekeyResult
  <2>5. needs_rekey(u) <=> ~(t.recv.n + 1 < REKEY_INTERVAL)
    <3>1. u.recv.n = t.recv.n + 1 /\ u.send.n = t.send.n
      BY DEF advanced
    <3>2. t.recv.n \in Nat /\ t.send.n \in Nat /\ t.send.n < REKEY_INTERVAL
      BY <1>1, CipherFields
    <3> QED BY <3>1, <3>2 DEF needs_rekey
  <2> QED BY <1>4, <2>1, <2>4, <2>5 DEF rekey_if_needed
<1>5. CASE ~op
  <2>1. decrypt_with_ad(t.recv, Empty, ct) = [ok |-> FALSE, cipher |-> t.recv, out |-> Empty]
    BY <1>1, <1>5, DecryptCipher
  <2>2. transport_decrypt(t, ct).ok = FALSE
    BY <2>1 DEF transport_decrypt
  <2>3. op = FALSE
    BY <1>3, <1>5
  <2> QED BY <2>2, <2>3
<1> QED BY <1>4, <1>5

(***************************************************************************)
(* Frames and positions.                                                   *)
(***************************************************************************)
\* What encrypt_with_ad returns under a key is a frame.
LEMMA SealIsFrame ==
    ASSUME NEW k \in Key, NEW n \in Nonce, NEW i \in Nat
    PROVE  seal(k, n, Empty, i) \in Frame
  BY DEF seal, Frame

\* A frame that opens at a position was sealed there; damaged frames do not open.
LEMMA OpensFields ==
    ASSUME NEW f \in Frame, NEW k, NEW n, opens(f, k, n, Empty)
    PROVE  f[2] = k /\ f[3] = n /\ plaintext(f) \in Nat
<1>1. f[1] = "aead"
  BY DEF opens, is_seal
<1>2. f # Garbage
  BY <1>1 DEF Garbage
<1>3. f \in {"aead"} \X Key \X Nonce \X {Empty} \X Nat
  BY <1>2 DEF Frame
<1>4. f[5] \in Nat
  BY <1>3
<1> QED BY <1>4 DEF opens, plaintext

\* A cipher moves forward in its key schedule.
LEMMA PositionsAdvance ==
    ASSUME NEW c \in Cipher
    PROVE  /\ position(c) \in Position
           /\ position(c) = [gen |-> c.k.gen, n |-> c.n]
           /\ before(position(c), position(advanced(c)))
           /\ before(position(c), position(next_key(c)))
<1>1. c.k.gen \in Nat /\ c.n \in Nat /\ c.n \in Nonce
  BY CipherFields, KeyedFields DEF Cipher
<1>2. position(c) \in Position
  BY <1>1 DEF position, Position
<1>3. before(position(c), position(advanced(c)))
  BY <1>1 DEF position, before, advanced
<1>4. before(position(c), position(next_key(c)))
  BY <1>1 DEF position, before, next_key
<1> QED BY <1>2, <1>3, <1>4 DEF position

\* The order of positions is transitive and irreflexive.
LEMMA BeforeOrder ==
    /\ \A a, b, c \in Position : before(a, b) /\ before(b, c) => before(a, c)
    /\ \A a \in Position : ~before(a, a)
<1>1. \A a \in Position : a.gen \in Nat /\ a.n \in Nat
  BY DEF Position, Nonce
<1> QED BY <1>1 DEF before

(***************************************************************************)
(* Each call as an update of the variables.                                *)
(***************************************************************************)
\* There are two sides, and other maps each to the other one.
LEMMA Sides == \A p \in Side : other(p) \in Side /\ other(p) # p /\ other(other(p)) = p
  BY DEF Side, other

after_encrypt(t) ==
    IF t.send.n + 1 < REKEY_INTERVAL THEN [send |-> advanced(t.send), recv |-> t.recv]
                                     ELSE next_generation(t)

after_decrypt(t) ==
    IF t.recv.n + 1 < REKEY_INTERVAL THEN [send |-> t.send, recv |-> advanced(t.recv)]
                                     ELSE next_generation(t)

\* The TransportState after each call: its type, its keys, and that neither
\* direction moves backwards.
LEMMA AfterFields ==
    ASSUME NEW t \in Transport
    PROVE  \A u \in {after_encrypt(t), after_decrypt(t), next_generation(t)} :
              /\ u \in Transport
              /\ u.send.k.base = t.send.k.base /\ u.recv.k.base = t.recv.k.base
              /\ u.send = t.send \/ before(position(t.send), position(u.send))
              /\ u.recv = t.recv \/ before(position(t.recv), position(u.recv))
<1>1. t.send \in Cipher /\ t.recv \in Cipher
  BY DEF Transport
<1>2. advanced(t.send).k.base = t.send.k.base /\ next_key(t.send).k.base = t.send.k.base
      /\ advanced(t.recv).k.base = t.recv.k.base /\ next_key(t.recv).k.base = t.recv.k.base
  BY DEF advanced, next_key
<1>3. ASSUME t.send.n + 1 < REKEY_INTERVAL
      PROVE  [send |-> advanced(t.send), recv |-> t.recv] \in Transport
  BY <1>1, <1>3, CipherFields DEF Transport
<1>4. ASSUME t.recv.n + 1 < REKEY_INTERVAL
      PROVE  [send |-> t.send, recv |-> advanced(t.recv)] \in Transport
  BY <1>1, <1>4, CipherFields DEF Transport
<1>5. next_generation(t) \in Transport
  BY <1>1, CipherFields DEF Transport, next_generation
<1>6. /\ before(position(t.send), position(advanced(t.send)))
      /\ before(position(t.send), position(next_key(t.send)))
      /\ before(position(t.recv), position(advanced(t.recv)))
      /\ before(position(t.recv), position(next_key(t.recv)))
  BY <1>1, PositionsAdvance
<1>7. next_generation(t).send = next_key(t.send) /\ next_generation(t).recv = next_key(t.recv)
  BY DEF next_generation
<1> QED BY <1>2, <1>3, <1>4, <1>5, <1>6, <1>7 DEF after_encrypt, after_decrypt

\* noise_encrypt.
LEMMA EncryptStep ==
    ASSUME TypeOK, NEW p \in Side, NEW oom \in BOOLEAN, noise_encrypt(p, oom)
    PROVE  /\ tr' = [tr EXCEPT ![p] = after_encrypt(tr[p])]
           /\ \/ chan' = chan
              \/ chan' = [chan EXCEPT ![other(p)] =
                            Append(@, seal(tr[p].send.k, tr[p].send.n, Empty, Len(log[p]) + 1))]
           /\ log' = [log EXCEPT ![p] = Append(@, position(tr[p].send))]
           /\ got' = got /\ rekeys' = rekeys
           /\ faults' \in Nat
<1>1. tr[p] \in Transport
  BY DEF TypeOK, Transport
<1>2. tr' = [tr EXCEPT ![p] = after_encrypt(tr[p])]
  BY <1>1, EncryptResult DEF noise_encrypt, after_encrypt
<1>3. faults' \in Nat
  BY DEF noise_encrypt, fails, TypeOK
<1> QED BY <1>1, <1>2, <1>3, EncryptResult DEF noise_encrypt

\* noise_decrypt: the head frame is consumed; it counts only if it opens.
LEMMA DecryptStep ==
    ASSUME TypeOK, NEW p \in Side, NEW oom \in BOOLEAN, noise_decrypt(p, oom)
    PROVE  /\ chan[p] # <<>> /\ chan' = [chan EXCEPT ![p] = Tail(@)]
           /\ log' = log /\ rekeys' = rekeys
           /\ faults' \in Nat
           /\ \/ /\ opens_here(p, Head(chan[p]))
                 /\ tr' = [tr EXCEPT ![p] = after_decrypt(tr[p])]
                 /\ \/ got' = got
                    \/ got' = [got EXCEPT ![p] = Append(@, plaintext(Head(chan[p])))]
              \/ tr' = tr /\ got' = got /\ ~opens_here(p, Head(chan[p]))
           /\ ~oom /\ opens_here(p, Head(chan[p])) =>
                got' = [got EXCEPT ![p] = Append(@, plaintext(Head(chan[p])))]
<1> DEFINE f == Head(chan[p])
           d == transport_decrypt(tr[p], f)
<1>1. tr[p] \in Transport
  BY DEF TypeOK, Transport
<1>2. /\ d.ok = opens_here(p, f)
      /\ d.ok => d.out = plaintext(f)
      /\ d.ok => rekey_if_needed(d.t) = after_decrypt(tr[p])
  BY <1>1, DecryptResult DEF opens_here, after_decrypt
<1>3. faults' \in Nat
  BY DEF noise_decrypt, fails, TypeOK
<1>4. chan[p] # <<>> /\ chan' = [chan EXCEPT ![p] = Tail(@)]
      /\ log' = log /\ rekeys' = rekeys
  BY DEF noise_decrypt
<1>5. /\ tr' = IF d.ok THEN [tr EXCEPT ![p] = rekey_if_needed(d.t)] ELSE tr
      /\ got' = IF d.ok /\ ~oom THEN [got EXCEPT ![p] = Append(@, d.out)] ELSE got
  BY DEF noise_decrypt
<1> HIDE DEF d
<1>6. CASE opens_here(p, f)
  BY <1>2, <1>3, <1>4, <1>5, <1>6
<1>7. CASE ~opens_here(p, f)
  BY <1>2, <1>3, <1>4, <1>5, <1>7
<1> QED BY <1>6, <1>7

\* noise_rekey.
LEMMA RekeyStep ==
    ASSUME TypeOK, NEW p \in Side, noise_rekey(p)
    PROVE  /\ tr' = [tr EXCEPT ![p] = next_generation(tr[p])]
           /\ chan' = chan /\ log' = log /\ got' = got /\ faults' = faults
           /\ rekeys' \in Nat
<1>1. tr[p].send \in Keyed /\ tr[p].recv \in Keyed
  BY CipherFields DEF TypeOK
<1>2. transport_rekey(tr[p]) = next_generation(tr[p])
  BY <1>1, RekeyResult
<1>3. tr' = [tr EXCEPT ![p] = next_generation(tr[p])]
  BY <1>2 DEF noise_rekey
<1>4. rekeys' \in Nat
  BY DEF noise_rekey, TypeOK
<1> QED BY <1>3, <1>4 DEF noise_rekey

\* The link: no fault makes a frame that was not in flight.
LEMMA LinkStep ==
    ASSUME TypeOK, NEW p \in Side, lose(p) \/ duplicate(p) \/ reorder(p) \/ damage(p)
    PROVE  /\ tr' = tr /\ got' = got /\ log' = log /\ rekeys' = rekeys
           /\ faults' \in Nat
           /\ chan' \in [Side -> Seq(Frame)]
           /\ \A q \in Side : q # p => chan'[q] = chan[q]
           /\ \A i \in DOMAIN chan'[p] :
                 chan'[p][i] = Garbage \/ \E j \in DOMAIN chan[p] : chan'[p][i] = chan[p][j]
<1> DEFINE s == chan[p]
           r == chan'[p]
<1>1. s \in Seq(Frame) /\ s # <<>> /\ chan \in [Side -> Seq(Frame)]
  BY DEF TypeOK, lose, duplicate, reorder, damage
<1>2. Garbage \in Frame
  BY DEF Frame
<1>3. Head(s) \in Frame /\ Head(s) = s[1] /\ 1 \in DOMAIN s /\ Len(s) \in Nat /\ DOMAIN s = 1..Len(s)
  BY <1>1
<1>4. Tail(s) \in Seq(Frame) /\ Len(Tail(s)) = Len(s) - 1
      /\ \A i \in 1..Len(Tail(s)) : Tail(s)[i] = s[i + 1] /\ i + 1 \in DOMAIN s
  BY <1>1, <1>3
<1>5. \/ r = Tail(s) \/ r = Append(s, Head(s)) \/ r = Append(Tail(s), Head(s))
      \/ r = [s EXCEPT ![1] = Garbage]
  BY <1>1 DEF lose, duplicate, reorder, damage
<1>6. chan' = [chan EXCEPT ![p] = r]
  <2>1. CASE lose(p)
    BY <1>1, <2>1 DEF lose
  <2>2. CASE duplicate(p)
    BY <1>1, <2>2 DEF duplicate
  <2>3. CASE reorder(p)
    BY <1>1, <2>3 DEF reorder
  <2>4. CASE damage(p)
    BY <1>1, <2>4 DEF damage
  <2> QED BY <2>1, <2>2, <2>3, <2>4
<1>7. r \in Seq(Frame) /\ \A i \in DOMAIN r : r[i] = Garbage \/ \E j \in DOMAIN s : r[i] = s[j]
  <2>1. CASE r = Tail(s)
    BY <1>4, <2>1
  <2>2. CASE r = Append(s, Head(s))
    BY <1>1, <1>3, <2>2
  <2>3. CASE r = Append(Tail(s), Head(s))
    <3>1. r \in Seq(Frame) /\ Len(r) = Len(Tail(s)) + 1 /\ DOMAIN r = 1..Len(r)
      BY <1>3, <1>4, <2>3
    <3>2. \A i \in 1..Len(Tail(s)) : r[i] = Tail(s)[i]
      BY <1>3, <1>4, <2>3
    <3>3. r[Len(Tail(s)) + 1] = s[1]
      BY <1>3, <1>4, <2>3
    <3>4. \A i \in DOMAIN r : i \in 1..Len(Tail(s)) \/ i = Len(Tail(s)) + 1
      BY <1>3, <1>4, <3>1
    <3>5. \A i \in DOMAIN r : \E j \in DOMAIN s : r[i] = s[j]
      <4> TAKE i \in DOMAIN r
      <4>1. CASE i \in 1..Len(Tail(s))
        BY <1>4, <3>2, <4>1
      <4>2. CASE i = Len(Tail(s)) + 1
        BY <1>3, <3>3, <4>2
      <4> QED BY <3>4, <4>1, <4>2
    <3> QED BY <3>1, <3>5
  <2>4. CASE r = [s EXCEPT ![1] = Garbage]
    BY <1>1, <1>2, <1>3, <2>4
  <2> QED BY <1>5, <2>1, <2>2, <2>3, <2>4
<1>8. tr' = tr /\ got' = got /\ log' = log /\ rekeys' = rekeys /\ faults' \in Nat
  BY DEF TypeOK, lose, duplicate, reorder, damage, link_fault
<1> HIDE DEF s, r
<1> QED BY <1>1, <1>6, <1>7, <1>8 DEF s, r

(***************************************************************************)
(* Types.                                                                  *)
(***************************************************************************)
\* The types of the ciphers survive a call on one side.
LEMMA TransportTypes ==
    ASSUME TypeOK, NEW p \in Side,
           NEW u \in {after_encrypt(tr[p]), after_decrypt(tr[p]), next_generation(tr[p])},
           tr' = [tr EXCEPT ![p] = u]
    PROVE  /\ tr' \in [Side -> [send : Cipher, recv : Cipher]]
           /\ \A q \in Side : tr'[q].send.k.base = base(q) /\ tr'[q].recv.k.base = base(other(q))
<1>1. tr[p] \in Transport /\ tr \in [Side -> Transport]
  BY DEF TypeOK, Transport
<1>2. u \in Transport /\ u.send.k.base = tr[p].send.k.base /\ u.recv.k.base = tr[p].recv.k.base
  BY <1>1, AfterFields
<1> QED BY <1>1, <1>2 DEF TypeOK, Transport

\* The types hold of the two TransportStates a Split builds.
LEMMA TypeInit == Init => TypeOK
<1> SUFFICES ASSUME Init PROVE TypeOK
  OBVIOUS
<1>1. \A p \in Side : base(p) \in {K1, K2}
  BY DEF base
<1>2. 0 \in Nonce
  BY DEF Nonce
<1>3. \A p \in Side : initialize_key(CipherKey(base(p))) \in Cipher
                      /\ initialize_key(CipherKey(base(p))).k.base = base(p)
  BY <1>1, <1>2 DEF initialize_key, CipherKey, Cipher, Key
<1> QED BY <1>3, Sides DEF Init, TypeOK

\* Every call and every link fault preserves the types.
LEMMA TypeNext ==
    ASSUME TypeOK, [Next]_vars
    PROVE  TypeOK'
<1>1. CASE UNCHANGED vars
  BY <1>1 DEF TypeOK, vars
<1>2. ASSUME NEW p \in Side, NEW oom \in BOOLEAN, noise_encrypt(p, oom) PROVE TypeOK'
  <2>1. tr' = [tr EXCEPT ![p] = after_encrypt(tr[p])]
    BY <1>2, EncryptStep
  <2>2. tr[p].send \in Cipher
    BY DEF TypeOK
  <2>3. position(tr[p].send) \in Position
    BY <2>2, PositionsAdvance
  <2>4. log' \in [Side -> Seq(Position)] /\ Len(log[p]) + 1 \in Nat
    <3>1. log' = [log EXCEPT ![p] = Append(@, position(tr[p].send))]
      BY <1>2, EncryptStep
    <3>2. log[p] \in Seq(Position) /\ log \in [Side -> Seq(Position)]
      BY DEF TypeOK
    <3>3. Append(log[p], position(tr[p].send)) \in Seq(Position)
      BY <2>3, <3>2
    <3> QED BY <3>1, <3>2, <3>3
  <2>5. seal(tr[p].send.k, tr[p].send.n, Empty, Len(log[p]) + 1) \in Frame
    BY <2>2, <2>4, SealIsFrame DEF Cipher
  <2>6. chan' \in [Side -> Seq(Frame)]
    <3> DEFINE f == seal(tr[p].send.k, tr[p].send.n, Empty, Len(log[p]) + 1)
               q == other(p)
    <3>1. chan' = chan \/ chan' = [chan EXCEPT ![q] = Append(@, f)]
      BY <1>2, EncryptStep
    <3>2. q \in Side /\ chan[q] \in Seq(Frame) /\ chan \in [Side -> Seq(Frame)]
      BY Sides DEF TypeOK
    <3>3. Append(chan[q], f) \in Seq(Frame)
      BY <2>5, <3>2
    <3> HIDE DEF f, q
    <3> QED BY <3>1, <3>2, <3>3
  <2>7. got' = got /\ rekeys' = rekeys /\ faults' \in Nat
    BY <1>2, EncryptStep
  <2> QED BY <2>1, <2>4, <2>6, <2>7, TransportTypes DEF TypeOK
<1>3. ASSUME NEW p \in Side, NEW oom \in BOOLEAN, noise_decrypt(p, oom) PROVE TypeOK'
  <2>1. chan[p] # <<>> /\ chan[p] \in Seq(Frame) /\ Head(chan[p]) \in Frame
    BY <1>3, DecryptStep DEF TypeOK
  <2>2. chan' \in [Side -> Seq(Frame)]
    <3>1. chan' = [chan EXCEPT ![p] = Tail(@)]
      BY <1>3, DecryptStep
    <3>2. Tail(chan[p]) \in Seq(Frame) /\ chan \in [Side -> Seq(Frame)]
      BY <2>1 DEF TypeOK
    <3> QED BY <3>1, <3>2
  <2>3. log' = log /\ rekeys' = rekeys /\ faults' \in Nat
    BY <1>3, DecryptStep
  <2>4. CASE tr' = tr /\ got' = got
    BY <2>2, <2>3, <2>4 DEF TypeOK
  <2>5. CASE opens_here(p, Head(chan[p])) /\ tr' = [tr EXCEPT ![p] = after_decrypt(tr[p])]
    <3>1. plaintext(Head(chan[p])) \in Nat
      BY <2>1, <2>5, OpensFields DEF opens_here
    <3>2. got' \in [Side -> Seq(Nat)]
      <4>1. got' = got \/ got' = [got EXCEPT ![p] = Append(@, plaintext(Head(chan[p])))]
        BY <1>3, <2>5, DecryptStep
      <4>2. got[p] \in Seq(Nat) /\ got \in [Side -> Seq(Nat)]
        BY DEF TypeOK
      <4>3. Append(got[p], plaintext(Head(chan[p]))) \in Seq(Nat)
        BY <3>1, <4>2
      <4> QED BY <4>1, <4>2, <4>3
    <3> QED BY <2>2, <2>3, <2>5, <3>2, TransportTypes DEF TypeOK
  <2> QED BY <1>3, <2>4, <2>5, DecryptStep
<1>4. ASSUME NEW p \in Side, noise_rekey(p) PROVE TypeOK'
  BY <1>4, RekeyStep, TransportTypes DEF TypeOK
<1>5. ASSUME NEW p \in Side, lose(p) \/ duplicate(p) \/ reorder(p) \/ damage(p) PROVE TypeOK'
  BY <1>5, LinkStep DEF TypeOK
<1> QED BY <1>1, <1>2, <1>3, <1>4, <1>5 DEF Next

\* TypeOK holds of every reachable state on any link: in particular no nonce
\* ever reaches the threshold between calls, so no call can abort.
THEOREM TypeCorrect == Spec => []TypeOK
  BY TypeInit, TypeNext, PTL DEF Spec

(***************************************************************************)
(* Order of use: the inductive invariant LinkInv.                          *)
(***************************************************************************)
\* encrypt and decrypt leave the position they used behind.
LEMMA StrictAdvance ==
    ASSUME NEW t \in Transport
    PROVE  /\ before(position(t.send), position(after_encrypt(t).send))
           /\ before(position(t.recv), position(after_decrypt(t).recv))
<1>1. t.send \in Cipher /\ t.recv \in Cipher
  BY DEF Transport
<1>2. /\ after_encrypt(t).send \in {advanced(t.send), next_key(t.send)}
      /\ after_decrypt(t).recv \in {advanced(t.recv), next_key(t.recv)}
  BY DEF after_encrypt, after_decrypt, next_generation
<1> QED BY <1>1, <1>2, PositionsAdvance

\* No call moves a cipher of either side backwards.
LEMMA CiphersMonotone ==
    ASSUME TypeOK, TypeOK', NEW p \in Side,
           NEW u \in {after_encrypt(tr[p]), after_decrypt(tr[p]), next_generation(tr[p])},
           tr' = tr \/ tr' = [tr EXCEPT ![p] = u],
           NEW r \in Side, NEW a \in Position
    PROVE  /\ before(a, position(tr[r].send)) => before(a, position(tr'[r].send))
           /\ before(a, position(tr[r].recv)) => before(a, position(tr'[r].recv))
<1>1. /\ position(tr[r].send) \in Position /\ position(tr[r].recv) \in Position
      /\ position(tr'[r].send) \in Position /\ position(tr'[r].recv) \in Position
  BY PositionsAdvance DEF TypeOK
<1>2. tr'[r] = tr[r] \/ (r = p /\ tr'[r] = u)
  BY DEF TypeOK
<1>3. tr[p] \in Transport
  BY DEF TypeOK, Transport
<1>4. /\ tr'[r].send = tr[r].send \/ before(position(tr[r].send), position(tr'[r].send))
      /\ tr'[r].recv = tr[r].recv \/ before(position(tr[r].recv), position(tr'[r].recv))
  BY <1>2, <1>3, AfterFields
<1> QED BY <1>1, <1>4, BeforeOrder

\* A frame that opens at p is the one sealed at the position p reads next.
LEMMA OpenedFrame ==
    ASSUME TypeOK, FramesGenuine, NEW p \in Side, chan[p] # <<>>,
           opens_here(p, Head(chan[p]))
    PROVE  LET m == plaintext(Head(chan[p]))
           IN  m \in DOMAIN log[other(p)] /\ log[other(p)][m] = position(tr[p].recv)
<1> DEFINE f == Head(chan[p])
           q == other(p)
           c == tr[p].recv
<1>1. chan[p] \in Seq(Frame) /\ f = chan[p][1] /\ 1 \in DOMAIN chan[p] /\ f \in Frame
  BY DEF TypeOK
<1>2. f[1] = "aead" /\ f[2] = c.k /\ f[3] = c.n
  BY <1>1 DEF opens_here, opens, is_seal
<1>3. f # Garbage
  BY <1>2 DEF Garbage
<1>4. PICK m \in DOMAIN log[q] : f = sealed_frame(q, m)
  BY <1>1, <1>3 DEF FramesGenuine
<1>5. /\ f[2] = [base |-> base(q), gen |-> log[q][m].gen]
      /\ f[3] = log[q][m].n /\ f[5] = m
  BY <1>4 DEF sealed_frame, seal
<1>6. log[q] \in Seq(Position) /\ log[q][m] \in Position
  BY <1>4, Sides DEF TypeOK
<1>7. log[q][m] = [gen |-> log[q][m].gen, n |-> log[q][m].n]
  BY <1>6 DEF Position
<1>8. c.k.gen = log[q][m].gen /\ c.n = log[q][m].n
  BY <1>2, <1>5
<1>9. log[q][m] = position(c)
  BY <1>7, <1>8 DEF position
<1> QED BY <1>4, <1>5, <1>9 DEF plaintext

\* LinkInv holds before the first frame.
LEMMA LinkInvInit == Init => LinkInv
<1> SUFFICES ASSUME Init PROVE LinkInv
  OBVIOUS
<1>1. TypeOK
  BY TypeInit
<1>2. \A p \in Side : DOMAIN log[p] = {} /\ DOMAIN chan[p] = {} /\ DOMAIN got[p] = {}
  BY DEF Init
<1> QED BY <1>1, <1>2 DEF LinkInv, LogOrdered, FramesGenuine, ReadBehind

\* noise_encrypt preserves LinkInv.
LEMMA EncryptPreserves ==
    ASSUME LinkInv, TypeOK', NEW p \in Side, NEW oom \in BOOLEAN, noise_encrypt(p, oom)
    PROVE  LinkInv'
<1> DEFINE c == tr[p].send
           L == log[p]
           u == after_encrypt(tr[p])
           q == other(p)
<1>1. TypeOK /\ LogOrdered /\ FramesGenuine /\ ReadBehind
  BY DEF LinkInv
<1>2. /\ tr' = [tr EXCEPT ![p] = u]
      /\ log' = [log EXCEPT ![p] = Append(@, position(c))]
      /\ got' = got
      /\ \/ chan' = chan
         \/ chan' = [chan EXCEPT ![q] = Append(@, seal(c.k, c.n, Empty, Len(L) + 1))]
  BY <1>1, EncryptStep
<1>3. /\ c \in Cipher /\ position(c) \in Position /\ L \in Seq(Position)
      /\ tr[p] \in Transport /\ tr \in [Side -> Transport] /\ log \in [Side -> Seq(Position)]
      /\ q \in Side /\ q # p
  BY <1>1, PositionsAdvance, Sides DEF TypeOK, Transport
<1>4. /\ log'[p] = Append(L, position(c)) /\ DOMAIN log'[p] = 1..(Len(L) + 1) /\ DOMAIN L = 1..Len(L)
      /\ Len(L) \in Nat
      /\ \A i \in DOMAIN L : log'[p][i] = L[i]
      /\ log'[p][Len(L) + 1] = position(c)
      /\ \A i \in DOMAIN log'[p] : i \in DOMAIN L \/ i = Len(L) + 1
  BY <1>2, <1>3
<1>5. \A r \in Side : r # p => log'[r] = log[r] /\ tr'[r] = tr[r]
  BY <1>2, <1>3
<1>6. before(position(c), position(tr'[p].send))
  BY <1>2, <1>3, StrictAdvance
<1>7. LogOrdered'
  <2> SUFFICES ASSUME NEW r \in Side
               PROVE  /\ \A i, j \in DOMAIN log'[r] : i < j => before(log'[r][i], log'[r][j])
                      /\ \A i \in DOMAIN log'[r] : before(log'[r][i], position(tr'[r].send))
    BY DEF LogOrdered
  <2>1. CASE r # p
    BY <1>1, <1>5, <2>1 DEF LogOrdered
  <2>2. CASE r = p
    <3>1. \A i \in DOMAIN L : before(L[i], position(c)) /\ L[i] \in Position
      BY <1>1, <1>3 DEF LogOrdered
    <3>2. \A i, j \in DOMAIN L : i < j => before(L[i], L[j])
      BY <1>1 DEF LogOrdered
    <3>3. position(tr'[p].send) \in Position
      BY PositionsAdvance DEF TypeOK
    <3>4. \A i \in DOMAIN L : before(L[i], position(tr'[p].send))
      BY <1>3, <1>6, <3>1, <3>3, BeforeOrder
    <3>5. \A i, j \in DOMAIN log'[p] : i < j => before(log'[p][i], log'[p][j])
      <4> TAKE i, j \in DOMAIN log'[p]
      <4> HAVE i < j
      <4>1. i \in DOMAIN L
        BY <1>4
      <4>2. CASE j \in DOMAIN L
        BY <1>4, <3>2, <4>1, <4>2
      <4>3. CASE j = Len(L) + 1
        BY <1>4, <3>1, <4>1, <4>3
      <4> QED BY <1>4, <4>2, <4>3
    <3> QED BY <1>4, <1>6, <2>2, <3>4, <3>5
  <2> QED BY <2>1, <2>2
<1>8. \A r \in Side : \A i \in DOMAIN log[r] : i \in DOMAIN log'[r] /\ log'[r][i] = log[r][i]
  BY <1>4, <1>5
<1>9. FramesGenuine'
  <2>1. \A r \in Side : \A m \in DOMAIN log[r] : sealed_frame(r, m)' = sealed_frame(r, m)
    BY <1>8 DEF sealed_frame
  <2>2. \A r \in Side : \A i \in DOMAIN chan[r] :
           \/ chan[r][i] = Garbage
           \/ \E m \in DOMAIN log'[other(r)] : chan[r][i] = sealed_frame(other(r), m)'
    BY <1>1, <1>8, <2>1, Sides DEF FramesGenuine
  <2>k. PICK k : k = Len(L) + 1
    OBVIOUS
  <2>3. seal(c.k, c.n, Empty, k) = sealed_frame(p, k)'
    <3>1. c.k \in Key /\ c.k.base = base(p)
      BY <1>1, <1>3 DEF Cipher, TypeOK
    <3>2. c.k = [base |-> base(p), gen |-> c.k.gen]
      BY <3>1 DEF Key
    <3>3. log'[p][k].gen = c.k.gen /\ log'[p][k].n = c.n
      BY <1>4, <2>k DEF position
    <3> QED BY <3>2, <3>3 DEF sealed_frame
  <2>4. CASE chan' = chan
    BY <2>2, <2>4 DEF FramesGenuine
  <2>5. CASE chan' = [chan EXCEPT ![q] = Append(@, seal(c.k, c.n, Empty, Len(L) + 1))]
    <3> DEFINE f == seal(c.k, c.n, Empty, k)
    <3>1. /\ chan[q] \in Seq(Frame) /\ chan'[q] = Append(chan[q], f)
          /\ \A r \in Side : r # q => chan'[r] = chan[r]
      BY <1>1, <1>3, <2>k, <2>5 DEF TypeOK
    <3>2. \A i \in DOMAIN chan'[q] : (i \in DOMAIN chan[q] /\ chan'[q][i] = chan[q][i]) \/ chan'[q][i] = f
      <4> HIDE DEF f
      <4> QED BY <3>1
    <3>3. k \in DOMAIN log'[p] /\ other(q) = p
      BY <1>4, <2>k, Sides
    <3>4. \A i \in DOMAIN chan'[q] :
             \/ chan'[q][i] = Garbage
             \/ \E m \in DOMAIN log'[other(q)] : chan'[q][i] = sealed_frame(other(q), m)'
      BY <1>3, <2>2, <2>3, <3>2, <3>3
    <3> QED BY <2>2, <3>1, <3>4 DEF FramesGenuine
  <2> QED BY <1>2, <2>4, <2>5
<1>10. ReadBehind'
  <2> SUFFICES ASSUME NEW r \in Side, NEW j \in DOMAIN got[r]
               PROVE  /\ got[r][j] \in DOMAIN log'[other(r)]
                      /\ before(log'[other(r)][got[r][j]], position(tr'[r].recv))
    BY <1>2 DEF ReadBehind
  <2>1. /\ got[r][j] \in DOMAIN log[other(r)]
        /\ before(log[other(r)][got[r][j]], position(tr[r].recv))
    BY <1>1 DEF ReadBehind
  <2>2. log[other(r)][got[r][j]] \in Position
    BY <1>3, <2>1, Sides
  <2>3. before(log[other(r)][got[r][j]], position(tr'[r].recv))
    BY <1>1, <1>2, <2>1, <2>2, CiphersMonotone
  <2> QED BY <1>8, <2>1, <2>3, Sides
<1> QED BY <1>7, <1>9, <1>10 DEF LinkInv

\* A step that leaves the logs alone, moves no cipher backwards and puts no
\* new frame in flight preserves the first two parts of LinkInv.
LEMMA QuietLogPreserves ==
    ASSUME LinkInv, TypeOK', log' = log, NEW p \in Side,
           NEW u \in {after_encrypt(tr[p]), after_decrypt(tr[p]), next_generation(tr[p])},
           tr' = tr \/ tr' = [tr EXCEPT ![p] = u],
           \A r \in Side : \A i \in DOMAIN chan'[r] :
              chan'[r][i] = Garbage \/ \E j \in DOMAIN chan[r] : chan'[r][i] = chan[r][j]
    PROVE  /\ LogOrdered' /\ FramesGenuine'
           /\ \A r \in Side : \A j \in DOMAIN got[r] :
                 /\ got[r][j] \in DOMAIN log'[other(r)]
                 /\ before(log'[other(r)][got[r][j]], position(tr'[r].recv))
<1>1. TypeOK /\ LogOrdered /\ FramesGenuine /\ ReadBehind
  BY DEF LinkInv
<1>2. \A r \in Side : \A i \in DOMAIN log[r] : log[r][i] \in Position
  BY <1>1 DEF TypeOK
<1>3. LogOrdered'
  <2>1. \A r \in Side : \A i \in DOMAIN log[r] : before(log[r][i], position(tr'[r].send))
    BY <1>1, <1>2, CiphersMonotone DEF LogOrdered
  <2> QED BY <1>1, <2>1 DEF LogOrdered
<1>4. FramesGenuine'
  <2>1. \A r \in Side : \A m \in DOMAIN log[r] : sealed_frame(r, m)' = sealed_frame(r, m)
    BY DEF sealed_frame
  <2> QED BY <1>1, <2>1, Sides DEF FramesGenuine
<1>5. \A r \in Side : \A j \in DOMAIN got[r] :
         /\ got[r][j] \in DOMAIN log'[other(r)]
         /\ before(log'[other(r)][got[r][j]], position(tr'[r].recv))
  BY <1>1, <1>2, CiphersMonotone, Sides DEF ReadBehind
<1> QED BY <1>3, <1>4, <1>5

\* noise_decrypt preserves LinkInv.
LEMMA DecryptPreserves ==
    ASSUME LinkInv, TypeOK', NEW p \in Side, NEW oom \in BOOLEAN, noise_decrypt(p, oom)
    PROVE  LinkInv'
<1> DEFINE f == Head(chan[p])
           q == other(p)
<1>1. TypeOK /\ LogOrdered /\ FramesGenuine /\ ReadBehind
  BY DEF LinkInv
<1>2. /\ chan[p] # <<>> /\ chan' = [chan EXCEPT ![p] = Tail(@)] /\ log' = log
      /\ tr' = tr \/ tr' = [tr EXCEPT ![p] = after_decrypt(tr[p])]
  BY <1>1, DecryptStep
<1>3. chan \in [Side -> Seq(Frame)] /\ chan[p] \in Seq(Frame) /\ got[p] \in Seq(Nat)
      /\ got \in [Side -> Seq(Nat)]
  BY <1>1 DEF TypeOK
<1>4. \A r \in Side : \A i \in DOMAIN chan'[r] : \E j \in DOMAIN chan[r] : chan'[r][i] = chan[r][j]
  <2> TAKE r \in Side
  <2>1. CASE r # p
    BY <1>2, <1>3, <2>1
  <2>2. CASE r = p
    <3>1. chan'[p] = Tail(chan[p])
      BY <1>2, <1>3
    <3>2. \A i \in DOMAIN Tail(chan[p]) : i + 1 \in DOMAIN chan[p] /\ Tail(chan[p])[i] = chan[p][i + 1]
      BY <1>2, <1>3
    <3> QED BY <2>2, <3>1, <3>2
  <2> QED BY <2>1, <2>2
<1>5. /\ LogOrdered' /\ FramesGenuine'
      /\ \A r \in Side : \A j \in DOMAIN got[r] :
            /\ got[r][j] \in DOMAIN log'[other(r)]
            /\ before(log'[other(r)][got[r][j]], position(tr'[r].recv))
  BY <1>2, <1>4, QuietLogPreserves
<1>6. ReadBehind'
  <2>1. CASE got' = got
    BY <1>5, <2>1 DEF ReadBehind
  <2>2. CASE /\ opens_here(p, f) /\ tr' = [tr EXCEPT ![p] = after_decrypt(tr[p])]
             /\ got' = [got EXCEPT ![p] = Append(@, plaintext(f))]
    <3> DEFINE m == plaintext(f)
    <3>1. m \in DOMAIN log[q] /\ log[q][m] = position(tr[p].recv)
      BY <1>1, <1>2, <2>2, OpenedFrame
    <3>2. tr[p] \in Transport /\ tr \in [Side -> Transport]
      BY <1>1 DEF TypeOK, Transport
    <3>3. before(position(tr[p].recv), position(tr'[p].recv))
      BY <2>2, <3>2, StrictAdvance
    <3> HIDE DEF m
    <3>4. got'[p] = Append(got[p], m) /\ \A r \in Side : r # p => got'[r] = got[r]
      BY <1>3, <2>2 DEF m
    <3>5. \A j \in DOMAIN got'[p] : (j \in DOMAIN got[p] /\ got'[p][j] = got[p][j]) \/ got'[p][j] = m
      BY <1>3, <3>4
    <3> QED BY <1>2, <1>5, <3>1, <3>3, <3>4, <3>5 DEF ReadBehind
  <2> QED BY <1>1, <2>1, <2>2, DecryptStep
<1> QED BY <1>5, <1>6 DEF LinkInv

\* Every call and every link fault preserves LinkInv.
LEMMA LinkInvNext ==
    ASSUME LinkInv, [Next]_vars
    PROVE  LinkInv'
<1>0. TypeOK
  BY DEF LinkInv
<1>1. TypeOK'
  BY <1>0, TypeNext
<1>2. CASE UNCHANGED vars
  BY <1>2 DEF LinkInv, TypeOK, LogOrdered, FramesGenuine, ReadBehind, sealed_frame, vars
<1>3. ASSUME NEW p \in Side, noise_rekey(p) PROVE LinkInv'
  <2>1. tr' = [tr EXCEPT ![p] = next_generation(tr[p])] /\ chan' = chan /\ log' = log /\ got' = got
    BY <1>0, <1>3, RekeyStep
  <2>2. /\ LogOrdered' /\ FramesGenuine'
        /\ \A r \in Side : \A j \in DOMAIN got[r] :
              /\ got[r][j] \in DOMAIN log'[other(r)]
              /\ before(log'[other(r)][got[r][j]], position(tr'[r].recv))
    BY <1>1, <2>1, QuietLogPreserves
  <2> QED BY <1>1, <2>1, <2>2 DEF LinkInv, ReadBehind
<1>4. ASSUME NEW p \in Side, lose(p) \/ duplicate(p) \/ reorder(p) \/ damage(p) PROVE LinkInv'
  <2>1. /\ tr' = tr /\ log' = log /\ got' = got
        /\ \A r \in Side : \A i \in DOMAIN chan'[r] :
              chan'[r][i] = Garbage \/ \E j \in DOMAIN chan[r] : chan'[r][i] = chan[r][j]
    BY <1>0, <1>4, LinkStep
  <2>2. /\ LogOrdered' /\ FramesGenuine'
        /\ \A r \in Side : \A j \in DOMAIN got[r] :
              /\ got[r][j] \in DOMAIN log'[other(r)]
              /\ before(log'[other(r)][got[r][j]], position(tr'[r].recv))
    BY <1>1, <2>1, QuietLogPreserves
  <2> QED BY <1>1, <2>1, <2>2 DEF LinkInv, ReadBehind
<1> QED BY <1>1, <1>2, <1>3, <1>4, EncryptPreserves, DecryptPreserves DEF Next

\* LinkInv is inductive: it holds of every reachable state on any link.
THEOREM LinkInvariant == Spec => []LinkInv
  BY LinkInvInit, LinkInvNext, PTL DEF Spec

\* No key and nonce seal two plaintexts, for any threshold, any number of
\* automatic and manual rekeys and any behaviour of the link.
THEOREM NoncesAreUnique == Spec => []NonceUnique
<1>1. LinkInv => NonceUnique
  <2> SUFFICES ASSUME LinkInv, NEW p \in Side, NEW q \in Side,
                      NEW i \in DOMAIN log[p], NEW j \in DOMAIN log[q],
                      base(p) = base(q), log[p][i] = log[q][j]
               PROVE  p = q /\ i = j
    BY DEF NonceUnique
  <2>1. p = q
    BY DEF base, Side
  <2>2. log[p] \in Seq(Position) /\ i \in Nat /\ j \in Nat /\ log[p][i] \in Position
    BY <2>1 DEF LinkInv, TypeOK
  <2>3. ~(i < j) /\ ~(j < i)
    BY <2>1, <2>2, BeforeOrder DEF LinkInv, LogOrdered
  <2> QED BY <2>1, <2>2, <2>3
<1> QED BY <1>1, LinkInvariant, PTL

(***************************************************************************)
(* Refinement of SecureChannel.                                            *)
(***************************************************************************)
\* What is delivered next comes after everything delivered before.
LEMMA DeliveredInOrder ==
    ASSUME LinkInv, NEW p \in Side, chan[p] # <<>>, opens_here(p, Head(chan[p]))
    PROVE  LET m == plaintext(Head(chan[p]))
           IN  /\ m \in 1..Len(log[other(p)])
               /\ \A j \in DOMAIN got[p] : got[p][j] < m
<1> DEFINE m == plaintext(Head(chan[p]))
           L == log[other(p)]
<1>1. m \in DOMAIN L /\ L[m] = position(tr[p].recv)
  BY OpenedFrame DEF LinkInv
<1>2. L \in Seq(Position) /\ DOMAIN L = 1..Len(L) /\ Len(L) \in Nat
  BY Sides DEF LinkInv, TypeOK
<1> HIDE DEF m, L
<1>3. ASSUME NEW j \in DOMAIN got[p] PROVE got[p][j] < m
  <2> DEFINE g == got[p][j]
  <2>1. g \in DOMAIN L /\ before(L[g], L[m])
    BY <1>1 DEF LinkInv, ReadBehind, L
  <2>2. g \in Nat /\ m \in Nat /\ L[g] \in Position /\ L[m] \in Position
    BY <1>1, <1>2, <2>1
  <2>3. m < g => before(L[m], L[g])
    BY <1>1, <2>1, Sides DEF LinkInv, LogOrdered, L
  <2>4. ~(m < g) /\ m # g
    BY <2>1, <2>2, <2>3, BeforeOrder
  <2> QED BY <2>2, <2>4
<1> QED BY <1>1, <1>2, <1>3 DEF m, L

\* The initial state maps to the initial state of SecureChannel.
LEMMA RefinesInit == Init => SC!Init
<1> SUFFICES ASSUME Init PROVE SC!Init
  OBVIOUS
<1>1. \A p \in Side : Len(log[p]) = 0 /\ got[other(p)] = <<>>
  BY Sides DEF Init
<1> QED BY <1>1 DEF SC!Init

\* noise_encrypt maps to send, a noise_decrypt that returns a plaintext to
\* deliver, and every other step to a stutter.
LEMMA RefinesNext ==
    ASSUME LinkInv, [Next]_vars
    PROVE  [SC!Next]_<<[p \in Side |-> Len(log[p])], [p \in Side |-> got[other(p)]]>>
<1> DEFINE S == [p \in Side |-> Len(log[p])]
           D == [p \in Side |-> got[other(p)]]
<1>0. TypeOK
  BY DEF LinkInv
<1>1. ASSUME log' = log, got' = got PROVE S' = S /\ D' = D
  BY <1>1
<1>2. ASSUME NEW p \in Side, NEW oom \in BOOLEAN, noise_encrypt(p, oom) PROVE SC!Next
  <2>1. log' = [log EXCEPT ![p] = Append(@, position(tr[p].send))] /\ got' = got
    BY <1>0, <1>2, EncryptStep
  <2>2. log \in [Side -> Seq(Position)] /\ position(tr[p].send) \in Position
    BY <1>0, PositionsAdvance DEF TypeOK
  <2>3. \A q \in Side : Len(log'[q]) = IF q = p THEN Len(log[q]) + 1 ELSE Len(log[q])
    BY <2>1, <2>2
  <2>4. S' = [S EXCEPT ![p] = @ + 1]
    BY <2>3
  <2>5. D' = D
    BY <2>1
  <2>6. SC!send(p)
    BY <2>4, <2>5 DEF SC!send
  <2> QED BY <2>6 DEF SC!Next
<1>3. ASSUME NEW p \in Side, NEW oom \in BOOLEAN, noise_decrypt(p, oom)
      PROVE  SC!Next \/ (S' = S /\ D' = D)
  <2> DEFINE m == plaintext(Head(chan[p]))
             q == other(p)
  <2>1. CASE got' = got
    BY <1>0, <1>1, <1>3, <2>1, DecryptStep
  <2>2. CASE opens_here(p, Head(chan[p])) /\ got' = [got EXCEPT ![p] = Append(@, m)]
    <3>1. chan[p] # <<>> /\ log' = log
      BY <1>0, <1>3, DecryptStep
    <3>2. m \in 1..Len(log[q]) /\ \A j \in DOMAIN got[p] : got[p][j] < m
      BY <2>2, <3>1, DeliveredInOrder
    <3> PICK i : i = m
      OBVIOUS
    <3>3. q \in Side /\ other(q) = p /\ \A r \in Side : other(r) = p => r = q
      BY Sides
    <3>4. S' = S
      BY <3>1
    <3>5. got \in [Side -> Seq(Nat)] /\ got' = [got EXCEPT ![p] = Append(@, i)]
      BY <1>0, <2>2 DEF TypeOK
    <3>6. \A r \in Side : got'[other(r)] = IF r = q THEN Append(got[other(r)], i) ELSE got[other(r)]
      BY <3>3, <3>5, Sides
    <3>7. D' = [D EXCEPT ![q] = Append(@, i)]
      BY <3>6
    <3>8. i \in 1..S[q] /\ \A j \in DOMAIN D[q] : D[q][j] < i
      BY <3>2, <3>3
    <3>9. SC!deliver(q, i)
      BY <3>4, <3>7, <3>8 DEF SC!deliver
    <3> QED BY <3>3, <3>8, <3>9 DEF SC!Next
  <2> QED BY <1>0, <1>3, <2>1, <2>2, DecryptStep
<1>4. ASSUME NEW p \in Side, noise_rekey(p) PROVE S' = S /\ D' = D
  BY <1>0, <1>1, <1>4, RekeyStep
<1>5. ASSUME NEW p \in Side, lose(p) \/ duplicate(p) \/ reorder(p) \/ damage(p) PROVE S' = S /\ D' = D
  BY <1>0, <1>1, <1>5, LinkStep
<1>6. CASE UNCHANGED vars
  BY <1>1, <1>6 DEF vars
<1> QED BY <1>2, <1>3, <1>4, <1>5, <1>6 DEF Next

\* TransportLink implements SecureChannel on any link: each side is given
\* the other's plaintexts at most once and in the order they were sent.
THEOREM Refinement == Spec => ImplementsSecureChannel
<1>1. LinkInv /\ [Next]_vars
        => [SC!Next]_<<[p \in Side |-> Len(log[p])], [p \in Side |-> got[other(p)]]>>
  BY RefinesNext
<1> QED BY <1>1, RefinesInit, LinkInvariant, PTL DEF Spec, ImplementsSecureChannel, SC!Spec
==============================================================================
