-------------------------- MODULE AuthenticityProofs --------------------------
(***************************************************************************)
(* Theorems about NoiseSession that rest on where a seal comes from: no    *)
(* two seals share a key and a nonce, whoever reads a sealed payload has   *)
(* the transcript of its writer, a session that a failed call has changed  *)
(* does not complete, and sessions that wait for each other without a      *)
(* fault have completed or failed.                                         *)
(***************************************************************************)
EXTENDS NoiseSessionProofs, WellFoundedInduction

(***************************************************************************)
(* Transcripts.  h is the hash over the name of the pattern, the prologue, *)
(* a first value a (the ephemeral of message 1 in XX, the static key of    *)
(* the responder in IK) and n more values.                                 *)
(***************************************************************************)
prologue_hash(p) == blake2b(protocol_name(p), Prologue)

Transcript(h, p, a, n) ==
    \E f : /\ f[0] = blake2b(prologue_hash(p), a) /\ f[n] = h
           /\ \A i \in 1..n : f[i] = blake2b(f[i - 1], f[i][3])

\* The least-number principle.
LEMMA Least ==
    ASSUME NEW T, T \subseteq Nat, T # {}
    PROVE  \E n \in T : \A m \in T : n <= m
<1>1. \E R : /\ IsWellFoundedOn(R, Nat)
             /\ \A x, y \in Nat : x < y => <<x, y>> \in R
  <2>1. IsWellFoundedOn(OpToRel(<, Nat), Nat)
    BY NatLessThanWellFounded
  <2>2. \A x, y \in Nat : x < y => <<x, y>> \in OpToRel(<, Nat)
    BY DEF OpToRel
  <2> QED BY <2>1, <2>2, Zenon
<1>2. PICK R : IsWellFoundedOn(R, Nat) /\ \A x, y \in Nat : x < y => <<x, y>> \in R
  BY <1>1, Zenon
<1>3. IsWellFoundedOn(R, Nat)
  BY <1>2, Zenon
<1>4. \E x \in T : \A y \in T : ~(<<y, x>> \in R)
  BY ONLY <1>3, WFMin, T \subseteq Nat, T # {}, Zenon
<1>5. PICK x \in T : \A y \in T : ~(<<y, x>> \in R)
  BY <1>4
<1>6. \A y \in T : x <= y
  <2> SUFFICES ASSUME NEW y \in T PROVE x <= y
    OBVIOUS
  <2>1. x \in Nat /\ y \in Nat /\ ~(<<y, x>> \in R)
    BY <1>5
  <2>2. ~(y < x)
    BY <2>1, <1>2
  <2> QED BY <2>1, <2>2
<1> QED BY <1>6

\* A hash gives back what went into it.
LEMMA Hashed ==
    \A a, b : blake2b(a, b)[1] = "blake2b" /\ blake2b(a, b)[2] = a /\ blake2b(a, b)[3] = b
  BY DEF blake2b

\* The shortest transcript.
LEMMA TranscriptStarts ==
    \A p, a : Transcript(blake2b(prologue_hash(p), a), p, a, 0)
<1> SUFFICES ASSUME NEW p, NEW a PROVE Transcript(blake2b(prologue_hash(p), a), p, a, 0)
  OBVIOUS
<1> DEFINE f == [i \in {0} |-> blake2b(prologue_hash(p), a)]
<1>1. f[0] = blake2b(prologue_hash(p), a) /\ 1..0 = {}
  OBVIOUS
<1> QED BY <1>1 DEF Transcript

\* mix_hash makes it one longer.
LEMMA TranscriptGrows ==
    ASSUME NEW h, NEW p, NEW a, NEW n \in Nat, Transcript(h, p, a, n), NEW d
    PROVE  Transcript(blake2b(h, d), p, a, n + 1)
<1>1. PICK f : /\ f[0] = blake2b(prologue_hash(p), a) /\ f[n] = h
               /\ \A i \in 1..n : f[i] = blake2b(f[i - 1], f[i][3])
  BY DEF Transcript
<1> DEFINE g == [i \in 0..(n + 1) |-> IF i = n + 1 THEN blake2b(h, d) ELSE f[i]]
<1>2. g[n + 1] = blake2b(h, d) /\ \A i \in 0..n : g[i] = f[i]
  OBVIOUS
<1> HIDE DEF g
<1>3. ASSUME NEW i \in 1..(n + 1)
      PROVE  g[i] = blake2b(g[i - 1], g[i][3])
  <2>1. CASE i = n + 1
    <3>1. g[i - 1] = h /\ g[i] = blake2b(h, d)
      BY <1>1, <1>2, <2>1
    <3> QED BY <3>1, Hashed
  <2>2. CASE i # n + 1
    <3>1. i \in 1..n /\ i \in 0..n /\ i - 1 \in 0..n
      BY <2>2
    <3> QED BY <1>1, <1>2, <3>1
  <2> QED BY <2>1, <2>2
<1>4. g[0] = blake2b(prologue_hash(p), a)
  BY <1>1, <1>2
<1> QED BY <1>2, <1>3, <1>4 DEF Transcript

\* Two transcripts of one hash have the same values at the same distance
\* from their ends.
LEMMA TranscriptsAlign ==
    ASSUME NEW f, NEW n \in Nat, \A i \in 1..n : f[i] = blake2b(f[i - 1], f[i][3]),
           NEW g, NEW m \in Nat, \A i \in 1..m : g[i] = blake2b(g[i - 1], g[i][3]),
           f[n] = g[m], n <= m
    PROVE  f[0] = g[m - n]
<1> DEFINE T == {i \in 0..n : f[n - i] # g[m - i]}
<1>1. CASE T = {}
  <2>1. n \in 0..n /\ n \notin T
    BY <1>1
  <2>2. n - n = 0
    OBVIOUS
  <2> QED BY <2>1, <2>2
<1>2. CASE T # {}
  <2>1. PICK i \in T : \A j \in T : i <= j
    <3>1. T \subseteq Nat
      OBVIOUS
    <3> HIDE DEF T
    <3> QED BY <1>2, <3>1, Least
  <2>2. i \in 0..n /\ f[n - i] # g[m - i]
    BY <2>1
  <2>3. i # 0
    <3>1. n - 0 = n /\ m - 0 = m
      OBVIOUS
    <3> QED BY <2>2, <3>1
  <2>4. i - 1 \in 0..n /\ ~(i <= i - 1)
    BY <2>2, <2>3
  <2>5. i - 1 \notin T
    BY <2>1, <2>4
  <2>6. f[n - (i - 1)] = g[m - (i - 1)]
    BY <2>4, <2>5
  <2>7. /\ n - (i - 1) \in 1..n /\ n - (i - 1) - 1 = n - i
        /\ m - (i - 1) \in 1..m /\ m - (i - 1) - 1 = m - i
    BY <2>2, <2>3
  <2>8. /\ f[n - (i - 1)] = blake2b(f[n - i], f[n - (i - 1)][3])
        /\ g[m - (i - 1)] = blake2b(g[m - i], g[m - (i - 1)][3])
    BY <2>7
  <2>9. f[n - i] = g[m - i]
    BY <2>6, <2>8, Hashed
  <2> QED BY <2>2, <2>9
<1> QED BY <1>1, <1>2

\* The case of TranscriptUnique where the first is not the longer one.
LEMMA TranscriptOrdered ==
    ASSUME NEW h, NEW p, NEW a, NEW n \in Nat, Transcript(h, p, a, n),
           NEW q, NEW b, NEW m \in Nat, Transcript(h, q, b, m), n <= m
    PROVE  p = q /\ a = b /\ n = m
<1>1. PICK f : /\ f[0] = blake2b(prologue_hash(p), a) /\ f[n] = h
               /\ \A i \in 1..n : f[i] = blake2b(f[i - 1], f[i][3])
  BY DEF Transcript
<1>2. PICK g : /\ g[0] = blake2b(prologue_hash(q), b) /\ g[m] = h
               /\ \A i \in 1..m : g[i] = blake2b(g[i - 1], g[i][3])
  BY DEF Transcript
<1>3. f[0] = g[m - n]
  BY <1>1, <1>2, TranscriptsAlign
<1>4. m = n
  <2> SUFFICES ASSUME m # n PROVE FALSE
    OBVIOUS
  <2>1. m - n \in 1..m /\ (m - n) - 1 \in 0..m /\ ((m - n) - 1 = 0 \/ (m - n) - 1 \in 1..m)
    OBVIOUS
  <2>2. g[m - n][2] = g[(m - n) - 1]
    BY <1>2, <2>1, Hashed
  <2>3. g[(m - n) - 1][2] [1] = "blake2b"
    <3>1. CASE (m - n) - 1 = 0
      <4>1. g[0][2] = prologue_hash(q)
        BY <1>2, Hashed
      <4> QED BY <3>1, <4>1, Hashed DEF prologue_hash
    <3>2. CASE (m - n) - 1 \in 1..m
      <4> DEFINE k == (m - n) - 1
      <4>1. g[k][2] = g[k - 1] /\ (k - 1 = 0 \/ k - 1 \in 1..m)
        BY <1>2, <3>2, Hashed
      <4> HIDE DEF k
      <4>2. g[k - 1][1] = "blake2b"
        BY <1>2, <4>1, Hashed
      <4> QED BY <4>1, <4>2 DEF k
    <3> QED BY <2>1, <3>1, <3>2
  <2>4. f[0][2] = prologue_hash(p) /\ prologue_hash(p)[2] = protocol_name(p)
    BY <1>1, Hashed DEF prologue_hash
  <2> QED BY <1>3, <2>2, <2>3, <2>4 DEF protocol_name
<1>5. blake2b(prologue_hash(p), a) = blake2b(prologue_hash(q), b)
  <2>1. m - n = 0
    BY <1>4
  <2> QED BY <1>1, <1>2, <1>3, <2>1
<1>6. a = b /\ prologue_hash(p) = prologue_hash(q)
  BY <1>5, Hashed
<1>7. protocol_name(p) = protocol_name(q)
  BY <1>6, Hashed DEF prologue_hash
<1> QED BY <1>4, <1>6, <1>7 DEF protocol_name

\* The hash tells the pattern, the first value and how much was hashed since.
LEMMA TranscriptUnique ==
    ASSUME NEW h, NEW p, NEW a, NEW n \in Nat, Transcript(h, p, a, n),
           NEW q, NEW b, NEW m \in Nat, Transcript(h, q, b, m)
    PROVE  p = q /\ a = b /\ n = m
<1>1. n <= m \/ m <= n
  OBVIOUS
<1> QED BY <1>1, TranscriptOrdered
-----------------------------------------------------------------------------
(***************************************************************************)
(* The seals of a message, and the messages of a queue.                    *)
(***************************************************************************)
seals_in(m) == {m.fields[i].val : i \in {j \in DOMAIN m.fields : is_seal(m.fields[j].val)}}

elements(q) == {q[i] : i \in DOMAIN q}

\* What no step sealed is no seal.
LEMMA NotSeals ==
    /\ ~is_seal(Garbage) /\ ~is_seal(Zero) /\ ~is_seal(Empty)
    /\ \A t : t[1] = "ephemeral" \/ Static(t) => ~is_seal(t)
  BY DEF is_seal, Garbage, Zero, Empty, Static

\* A queue and the messages in it.
LEMMA Elements ==
    ASSUME NEW q, IsSeq(q)
    PROVE  /\ q # <<>> => Head(q) \in elements(q) /\ elements(Tail(q)) \subseteq elements(q)
           /\ \A m : /\ elements(Append(q, m)) \subseteq elements(q) \cup {m}
                     /\ elements(<<m>> \o q) \subseteq elements(q) \cup {m}
<1> DEFINE S == elements(q)
<1>1. q \in Seq(S)
  BY DEF elements, IsSeq
<1>2. \A i \in DOMAIN q : q[i] \in S
  BY DEF elements
<1> HIDE DEF S
<1>3. ASSUME q # <<>>
      PROVE  Head(q) \in S /\ elements(Tail(q)) \subseteq S
  <2>1. /\ 1 \in DOMAIN q /\ Head(q) = q[1]
        /\ \A i \in DOMAIN Tail(q) : i + 1 \in DOMAIN q /\ Tail(q)[i] = q[i + 1]
    BY <1>1, <1>3
  <2> QED BY <1>2, <2>1 DEF elements
<1>4. ASSUME NEW m
      PROVE  elements(Append(q, m)) \subseteq S \cup {m} /\ elements(<<m>> \o q) \subseteq S \cup {m}
  <2>1. q \in Seq(S \cup {m}) /\ m \in S \cup {m}
    BY <1>1
  <2>2. \A i \in DOMAIN Append(q, m) : Append(q, m)[i] \in S \cup {m}
    BY <2>1
  <2>3. \A i \in DOMAIN (<<m>> \o q) : (<<m>> \o q)[i] \in S \cup {m}
    BY <2>1
  <2> QED BY <2>2, <2>3 DEF elements
<1> QED BY <1>3, <1>4 DEF S

\* put adds at most the value that is put.
LEMMA SealsPut ==
    ASSUME NEW m, IsSeq(m.fields), NEW len, NEW val
    PROVE  /\ seals_in(put(m, len, val)) \subseteq seals_in(m) \cup {val}
           /\ ~is_seal(val) => seals_in(put(m, len, val)) \subseteq seals_in(m)
<1> DEFINE f == [len |-> len, val |-> val]
           q == m.fields
           p == put(m, len, val)
<1>1. CASE len = 0
  BY <1>1 DEF put
<1>2. CASE len # 0
  <2>1. p.fields = Append(q, f) /\ f.val = val
    BY <1>2 DEF put
  <2>2. q \in Seq(elements(q))
    BY DEF elements, IsSeq
  <2>3. q \in Seq(elements(q) \cup {f})
    BY <2>2
  <2> HIDE DEF f, q, p
  <2>4. \A i \in DOMAIN Append(q, f) : Append(q, f)[i] = f \/ (i \in DOMAIN q /\ Append(q, f)[i] = q[i])
    BY <2>3
  <2> QED BY <2>1, <2>4 DEF seals_in, q, p
<1> QED BY <1>1, <1>2

\* An empty message has none.
LEMMA SealsNone == seals_in(NoBytes) = {} /\ IsSeq(NoBytes.fields)
  BY DEF seals_in, NoBytes, IsSeq

\* take leaves the seals of the rest, and a seal that is taken was there.
LEMMA SealsTake ==
    ASSUME NEW m, IsSeq(m.fields), NEW len
    PROVE  LET t == take(m, len)
           IN  /\ seals_in(t.rest) \subseteq seals_in(m) /\ IsSeq(t.rest.fields)
               /\ is_seal(t.val) => t.val \in seals_in(m)
<1> DEFINE q == m.fields
           t == take(m, len)
<1>1. q \in Seq(elements(q))
  BY DEF elements, IsSeq
<1>2. CASE aligned(m, len)
  <2>1. t.val = Head(q).val /\ t.rest.fields = Tail(q) /\ q # <<>>
    BY <1>2 DEF take, aligned
  <2> HIDE DEF q, t
  <2>2. /\ 1 \in DOMAIN q /\ Head(q) = q[1] /\ Tail(q) \in Seq(elements(q))
        /\ \A i \in DOMAIN Tail(q) : i + 1 \in DOMAIN q /\ Tail(q)[i] = q[i + 1]
    BY <1>1, <2>1
  <2>3. IsSeq(Tail(q))
    BY <2>2, Sequence
  <2>4. seals_in(t.rest) \subseteq seals_in(m)
    BY <2>1, <2>2 DEF seals_in, q
  <2>5. is_seal(t.val) => t.val \in seals_in(m)
    BY <2>1, <2>2 DEF seals_in, q
  <2> QED BY <2>1, <2>3, <2>4, <2>5 DEF t
<1>3. CASE ~aligned(m, len)
  <2>1. t.val = Garbage /\ t.rest = put(NoBytes, m.size - len, Garbage)
    BY <1>3 DEF take
  <2>2. seals_in(t.rest) \subseteq {}
    BY <2>1, SealsPut, SealsNone, NotSeals
  <2>3. IsSeq(t.rest.fields)
    <3>1. t.rest.fields = <<>> \/ \E f : t.rest.fields = <<f>>
      BY <2>1 DEF put, NoBytes
    <3>2. \A f : IsSeq(<<f>>)
      <4> SUFFICES ASSUME NEW f PROVE IsSeq(<<f>>)
        OBVIOUS
      <4>1. <<f>> \in Seq({f})
        OBVIOUS
      <4> QED BY <4>1, Sequence
    <3> QED BY <3>1, <3>2, SealsNone DEF NoBytes
  <2> QED BY <2>1, <2>2, <2>3, NotSeals
<1> QED BY <1>2, <1>3

\* A seal that is the rest of a message was in it.
LEMMA SealsRemainder ==
    ASSUME NEW m, IsSeq(m.fields), is_seal(remainder(m))
    PROVE  remainder(m) \in seals_in(m)
<1>1. remainder(m) # Empty /\ remainder(m) # <<"bytes", m.fields>>
  BY DEF is_seal, Empty
<1>2. Len(m.fields) = 1 /\ remainder(m) = Head(m.fields).val
  BY <1>1 DEF remainder
<1>3. 1 \in DOMAIN m.fields /\ Head(m.fields) = m.fields[1]
  BY <1>2 DEF IsSeq
<1> QED BY <1>2, <1>3 DEF seals_in

\* The faults of the link make no seals.
LEMMA SealsDamaged ==
    ASSUME NEW m, NEW P, Message(m, P)
    PROVE  /\ \A i \in DOMAIN m.fields, val \in {Garbage, Zero} :
                 seals_in(with_field(m, i, val)) \subseteq seals_in(m)
           /\ seals_in(truncated(m)) \subseteq seals_in(m)
           /\ seals_in(put(m, 1, Garbage)) \subseteq seals_in(m)
<1>1. /\ IsSeq(m.fields) /\ m = [size |-> m.size, fields |-> m.fields]
      /\ \A i \in DOMAIN m.fields : FieldOK(m.fields[i], P)
  BY DEF Message
<1>2. m.fields \in Seq(elements(m.fields))
  BY <1>1 DEF elements, IsSeq
<1>3. ASSUME NEW i \in DOMAIN m.fields, NEW val \in {Garbage, Zero}
      PROVE  seals_in(with_field(m, i, val)) \subseteq seals_in(m)
  <2> DEFINE f == [m.fields[i] EXCEPT !.val = val]
             s == [m.fields EXCEPT ![i] = f]
  <2>1. m.fields[i] = [len |-> m.fields[i].len, val |-> m.fields[i].val]
    BY <1>1 DEF FieldOK
  <2>2. f.val = val
    BY <2>1
  <2>3. with_field(m, i, val) = [m EXCEPT !.fields = s]
    BY DEF with_field
  <2>4. [m EXCEPT !.fields = s].fields = s
    BY <1>1
  <2> HIDE DEF f
  <2>5. DOMAIN s = DOMAIN m.fields /\ \A j \in DOMAIN s : s[j] = f \/ s[j] = m.fields[j]
    BY <1>2
  <2> HIDE DEF s
  <2>6. ~is_seal(val)
    BY NotSeals
  <2> QED BY <2>2, <2>3, <2>4, <2>5, <2>6 DEF seals_in
<1>4. seals_in(truncated(m)) \subseteq seals_in(m)
  <2> DEFINE k == Len(m.fields)
             s == SubSeq(m.fields, 1, k - 1)
             b == [size |-> m.size - m.fields[k].len, fields |-> s]
  <2>1. k \in Nat
    BY <1>2
  <2>2. /\ s \in Seq(elements(m.fields))
        /\ \A j \in DOMAIN s : j \in DOMAIN m.fields /\ s[j] = m.fields[j]
    BY <1>2, <2>1
  <2>3. b.fields = s
    OBVIOUS
  <2>4. truncated(m) = put(b, m.fields[k].len - 1, Garbage)
    BY DEF truncated
  <2> HIDE DEF b, s, k
  <2>5. IsSeq(b.fields)
    BY <2>2, <2>3, Sequence
  <2>6. seals_in(b) \subseteq seals_in(m)
    BY <2>2, <2>3 DEF seals_in
  <2>7. seals_in(truncated(m)) \subseteq seals_in(b)
    BY <2>4, <2>5, SealsPut, NotSeals
  <2> QED BY <2>6, <2>7
<1>5. seals_in(put(m, 1, Garbage)) \subseteq seals_in(m)
  BY <1>1, SealsPut, NotSeals
<1> QED BY <1>3, <1>4, <1>5
-----------------------------------------------------------------------------
(***************************************************************************)
(* What a message does to the hash and to the chaining key.  A seal v was  *)
(* made under the key that goes with ck, with nonce n, over ad; ck was     *)
(* made by mixing d into another chaining key; x is a proper function.     *)
(***************************************************************************)
SealUnder(v, ck, n, ad) == is_seal(v) /\ ck_of(v[2]) = ck /\ v[3] = n /\ v[4] = ad

Chained(ck, d) == ck = chained(below(ck), d)

IsFun(x) == x = [i \in DOMAIN x |-> x[i]]

\* The key of the cipher is the one that mix_key derived with ck.
KeyedBy(s) == s.cipher.has_key /\ ck_of(s.cipher.k) = s.ck

\* A chaining key that mix_key left.
LEMMA ChainedFacts ==
    \A ck, d : /\ Chained(chained(ck, d), d)
               /\ Chained(ck, d) => mixed(ck) = d /\ ck[1] = "hmac"
<1>1. \A ck, d : chained(ck, d)[1] = "hmac"
  BY DEF chained, hkdf2, hmac_blake2b
<1> QED BY <1>1, Chain DEF Chained

\* Token e of a writer.
LEMMA EphemeralOut ==
    ASSUME NEW h, IsHandshake(h), NEW e
    PROVE  LET r == write_e(call(h, NoBytes), e)
           IN  /\ IsCall(r) /\ r.ok /\ IsSeq(r.bytes.fields)
               /\ r.hs.symmetric.ck = h.symmetric.ck
               /\ r.hs.symmetric.cipher = h.symmetric.cipher
               /\ r.hs.symmetric.h = blake2b(h.symmetric.h, e)
               /\ r.hs.e_pk = e /\ r.hs.e_sk = e /\ SameParty(r.hs, h)
               /\ r.hs.rs = h.rs /\ r.hs.re = h.re /\ r.hs.step = h.step
               /\ ~is_seal(e) => seals_in(r.bytes) = {}
<1> DEFINE c == call(h, NoBytes)
           r == write_e(c, e)
<1>1. IsCall(c) /\ c.ok /\ c.hs = h /\ c.bytes = NoBytes
  BY NewCall
<1> HIDE DEF c
<1>2. /\ IsCall(r) /\ r.ok /\ r.bytes = put(NoBytes, 32, e)
      /\ r.hs.symmetric.ck = h.symmetric.ck
      /\ r.hs.symmetric.cipher = h.symmetric.cipher
      /\ r.hs.e_pk = e /\ r.hs.e_sk = e /\ SameParty(r.hs, h)
      /\ r.hs.rs = h.rs /\ r.hs.re = h.re /\ r.hs.step = h.step
  BY <1>1, WriteE
<1>3. r.hs.symmetric.h = blake2b(h.symmetric.h, e)
  BY <1>1 DEF write_e, mix_hash, IsCall, IsHandshake, IsSymmetric
<1>4. ~is_seal(e) => seals_in(r.bytes) = {}
  BY <1>2, SealsPut, SealsNone
<1>5. IsSeq(r.bytes.fields)
  <2>1. r.bytes.fields = <<[len |-> 32, val |-> e]>>
    BY <1>2 DEF put, NoBytes
  <2>2. \A f : <<f>> \in Seq({f})
    OBVIOUS
  <2> QED BY <2>1, <2>2, Sequence
<1> QED BY <1>2, <1>3, <1>4, <1>5 DEF c

\* put keeps a sequence a sequence.
LEMMA PutSeq ==
    ASSUME NEW m, IsSeq(m.fields), NEW len, NEW val
    PROVE  IsSeq(put(m, len, val).fields)
<1> DEFINE f == [len |-> len, val |-> val]
           q == m.fields
<1>1. put(m, len, val).fields = q \/ put(m, len, val).fields = Append(q, f)
  BY DEF put
<1>2. q \in Seq(elements(q))
  BY DEF elements, IsSeq
<1> HIDE DEF f, q
<1>3. q \in Seq(elements(q) \cup {f})
  BY <1>2
<1>4. Append(q, f) \in Seq(elements(q) \cup {f})
  BY <1>3
<1> QED BY <1>1, <1>2, <1>4, Sequence

\* A sealed field of a writer.
LEMMA SealOut ==
    ASSUME NEW c, IsCall(c), c.ok, NEW p, NEW z, KeyedBy(c.hs.symmetric), IsSeq(c.bytes.fields)
    PROVE  LET s == c.hs.symmetric
               r == write_sealed(c, p, z)
           IN  /\ IsCall(r) /\ r.ok /\ IsSeq(r.bytes.fields) /\ Kept(r.hs, c.hs)
               /\ KeyedBy(r.hs.symmetric) /\ r.hs.symmetric.ck = s.ck
               /\ r.hs.symmetric.cipher.n = incr(s.cipher.n)
               /\ \E v : /\ SealUnder(v, s.ck, s.cipher.n, s.h)
                         /\ r.hs.symmetric.h = blake2b(s.h, v)
                         /\ seals_in(r.bytes) \subseteq seals_in(c.bytes) \cup {v}
<1> DEFINE s == c.hs.symmetric
           v == seal(s.cipher.k, s.cipher.n, s.h, p)
           r == write_sealed(c, p, z)
<1>1. /\ IsCall(r) /\ r.ok /\ r.bytes = put(c.bytes, z + 16, v)
      /\ Holds(r.hs.symmetric, s.ck, blake2b(s.h, v), s.cipher.k, incr(s.cipher.n))
      /\ Kept(r.hs, c.hs)
  BY WriteSealed DEF KeyedBy
<1>2. SealUnder(v, s.ck, s.cipher.n, s.h)
  BY DEF SealUnder, KeyedBy, seal, is_seal
<1> HIDE DEF v, r
<1>3. seals_in(r.bytes) \subseteq seals_in(c.bytes) \cup {v} /\ IsSeq(r.bytes.fields)
  BY <1>1, SealsPut, PutSeq
<1>4. KeyedBy(r.hs.symmetric) /\ r.hs.symmetric.ck = s.ck
  BY <1>1 DEF Holds, KeyedBy
<1> QED BY <1>1, <1>2, <1>3, <1>4 DEF Holds, r

\* A DH token.
LEMMA DhToken ==
    ASSUME NEW c, IsCall(c), c.ok, NEW sk \in {"s_sk", "e_sk"}, NEW pk \in {"rs", "re"},
           c.hs[pk] # Zero
    PROVE  LET r == mix_dh(c, sk, pk)
               s == r.hs.symmetric
           IN  /\ IsCall(r) /\ r.ok /\ r.bytes = c.bytes /\ Kept(r.hs, c.hs)
               /\ s.ck = chained(c.hs.symmetric.ck, dh(c.hs[sk], c.hs[pk]))
               /\ s.h = c.hs.symmetric.h /\ s.cipher.n = 0 /\ KeyedBy(s)
  BY MixDhOk, Chain DEF Holds, KeyedBy

\* A message changes no key but the ones it is about.
Held(g, h) == SameParty(g, h) /\ SameOwn(g, h) /\ g.rs = h.rs /\ g.re = h.re

\* The payload and the end of a message.
LEMMA LastOut ==
    ASSUME NEW c, IsCall(c), c.ok, KeyedBy(c.hs.symmetric), IsSeq(c.bytes.fields)
    PROVE  LET s == c.hs.symmetric
               w == advance(encrypt_payload(c))
           IN  /\ w.ok /\ w.hs.symmetric.ck = s.ck /\ IsFun(w.hs) /\ Held(w.hs, c.hs)
               /\ \E v : /\ SealUnder(v, s.ck, s.cipher.n, s.h)
                         /\ w.hs.symmetric.h = blake2b(s.h, v)
                         /\ seals_in(w.bytes) \subseteq seals_in(c.bytes) \cup {v}
<1> DEFINE s == c.hs.symmetric
           d == encrypt_payload(c)
           w == advance(d)
<1>1. PICK v : /\ IsCall(d) /\ d.ok /\ d.hs.symmetric.ck = s.ck /\ Kept(d.hs, c.hs)
               /\ SealUnder(v, s.ck, s.cipher.n, s.h) /\ d.hs.symmetric.h = blake2b(s.h, v)
               /\ seals_in(d.bytes) \subseteq seals_in(c.bytes) \cup {v}
  BY SealOut DEF encrypt_payload
<1> HIDE DEF d
<1>2. /\ w.ok /\ w.bytes = d.bytes /\ w.hs.symmetric = d.hs.symmetric
      /\ Held(w.hs, c.hs)
  BY <1>1, Advanced DEF Held, Kept, SameParty, SameOwn
<1>3. IsFun(w.hs)
  <2>1. w.hs = [d.hs EXCEPT !.step = @ + 1]
    BY <1>1 DEF advance, IsCall
  <2> HIDE DEF w
  <2> QED BY <2>1 DEF IsFun
<1> QED BY <1>1, <1>2, <1>3 DEF d

\* Tokens s and a DH with the static key, the payload and the end of a
\* message: messages 2 and 3 of XX and message 1 of IK.
LEMMA StaticPayloadOut ==
    ASSUME NEW c, IsCall(c), c.ok, KeyedBy(c.hs.symmetric), IsSeq(c.bytes.fields),
           NEW pk \in {"rs", "re"}, c.hs[pk] # Zero
    PROVE  LET s  == c.hs.symmetric
               w  == advance(encrypt_payload(mix_dh(encrypt_static(c), "s_sk", pk)))
               ck == chained(s.ck, dh(c.hs.s_sk, c.hs[pk]))
           IN  /\ w.ok /\ w.hs.symmetric.ck = ck /\ IsFun(w.hs) /\ Held(w.hs, c.hs)
               /\ \E st, pl :
                     /\ SealUnder(st, s.ck, s.cipher.n, s.h)
                     /\ SealUnder(pl, ck, 0, blake2b(s.h, st))
                     /\ w.hs.symmetric.h = blake2b(blake2b(s.h, st), pl)
                     /\ seals_in(w.bytes) \subseteq seals_in(c.bytes) \cup {st, pl}
<1> DEFINE s  == c.hs.symmetric
           d  == encrypt_static(c)
           g  == mix_dh(d, "s_sk", pk)
           w  == advance(encrypt_payload(g))
           ck == chained(s.ck, dh(c.hs.s_sk, c.hs[pk]))
<1>1. PICK st : /\ IsCall(d) /\ d.ok /\ IsSeq(d.bytes.fields) /\ Kept(d.hs, c.hs)
                /\ d.hs.symmetric.ck = s.ck /\ SealUnder(st, s.ck, s.cipher.n, s.h)
                /\ d.hs.symmetric.h = blake2b(s.h, st)
                /\ seals_in(d.bytes) \subseteq seals_in(c.bytes) \cup {st}
  BY SealOut DEF encrypt_static
<1> HIDE DEF d
<1>2. d.hs[pk] = c.hs[pk] /\ d.hs.s_sk = c.hs.s_sk
  BY <1>1 DEF Kept, SameParty
<1>3. /\ IsCall(g) /\ g.ok /\ g.bytes = d.bytes /\ g.hs.symmetric.ck = ck
      /\ g.hs.symmetric.h = blake2b(s.h, st) /\ g.hs.symmetric.cipher.n = 0
      /\ KeyedBy(g.hs.symmetric) /\ Kept(g.hs, d.hs)
  BY <1>1, <1>2, DhToken
<1> HIDE DEF g, ck
<1>4. PICK pl : /\ w.ok /\ w.hs.symmetric.ck = ck /\ IsFun(w.hs) /\ Held(w.hs, g.hs)
                /\ SealUnder(pl, ck, 0, blake2b(s.h, st))
                /\ w.hs.symmetric.h = blake2b(blake2b(s.h, st), pl)
                /\ seals_in(w.bytes) \subseteq seals_in(g.bytes) \cup {pl}
  BY <1>1, <1>3, LastOut
<1>5. seals_in(w.bytes) \subseteq seals_in(c.bytes) \cup {st, pl}
  BY <1>1, <1>3, <1>4
<1>6. Held(w.hs, c.hs)
  BY <1>1, <1>3, <1>4 DEF Held, Kept, SameParty, SameOwn
<1> QED BY <1>1, <1>4, <1>5, <1>6 DEF g, d, ck

(***************************************************************************)
(* The messages, as written.  h is the hash and ck the chaining key after  *)
(* a message, S the seals in it: a payload, or a static and a payload.     *)
(***************************************************************************)
OneSeal(h, ck, S) ==
    h = blake2b(h[2], h[3]) /\ SealUnder(h[3], ck, 0, h[2]) /\ S \subseteq {h[3]}

TwoSeals(h, ck, n, S) ==
    /\ h = blake2b(h[2], h[3]) /\ h[2] = blake2b(h[2][2], h[2][3])
    /\ SealUnder(h[3], ck, 0, h[2]) /\ SealUnder(h[2][3], below(ck), n, h[2][2])
    /\ S \subseteq {h[3], h[2][3]}

\* How the object g differs from h after a message that was written with e.
Carries(g, h, e) ==
    /\ SameParty(g, h) /\ g.e_pk = e /\ g.rs = h.rs /\ g.re = h.re

\* Message 1 of XX.
LEMMA XX1Written ==
    ASSUME NEW h, NEW D, NEW P, Session(h, D, P), NEW e, e[1] = "ephemeral",
           h.pattern = "XX", h.step = 0
    PROVE  LET w == write_message(h, e)
           IN  /\ w.ok /\ seals_in(w.bytes) = {} /\ Carries(w.hs, h, e)
               /\ w.hs.symmetric.h = blake2b(blake2b(h.symmetric.h, e), Empty)
<1> DEFINE c == write_e(call(h, NoBytes), e)
           d == encrypt_payload(c)
           w == write_message(h, e)
<1>1. w = advance(d)
  BY Steps DEF write_message, is_complete
<1>2. IsHandshake(h) /\ ~h.symmetric.cipher.has_key /\ ~is_seal(e)
  BY NotSeals DEF Session, Object
<1>3. /\ IsCall(c) /\ c.ok /\ c.hs.symmetric.cipher = h.symmetric.cipher
      /\ c.hs.symmetric.h = blake2b(h.symmetric.h, e)
      /\ c.hs.e_pk = e /\ SameParty(c.hs, h) /\ c.hs.rs = h.rs /\ c.hs.re = h.re
      /\ seals_in(c.bytes) = {}
  BY <1>2, EphemeralOut
<1> HIDE DEF c, w
<1>4. IsCall(d) /\ d.ok /\ d.bytes = c.bytes /\ Kept(d.hs, c.hs)
  BY <1>2, <1>3, WritePlainPayload
<1>5. d.hs.symmetric.h = blake2b(c.hs.symmetric.h, Empty)
  BY <1>2, <1>3 DEF encrypt_payload, write_sealed, encrypt_and_hash, encrypt_with_ad, mix_hash,
                    IsCall, IsHandshake, IsSymmetric
<1> HIDE DEF d
<1>6. /\ w.ok /\ w.bytes = d.bytes /\ w.hs.symmetric = d.hs.symmetric /\ Held(w.hs, d.hs)
  BY <1>1, <1>4, Advanced DEF Held
<1> QED BY <1>3, <1>4, <1>5, <1>6 DEF Held, Kept, SameParty, SameOwn, Carries, w

\* Message 2 of XX: it fails when the peer's ephemeral is a low-order point.
LEMMA XX2Written ==
    ASSUME NEW h, NEW D, NEW P, Session(h, D, P), NEW e, e[1] = "ephemeral",
           h.pattern = "XX", h.step = 1
    PROVE  LET w == write_message(h, e)
               s == h.symmetric
               t == w.hs.symmetric
           IN  /\ Carries(w.hs, h, e)
               /\ h.re = Zero => ~w.ok /\ t.h = blake2b(s.h, e)
               /\ h.re # Zero =>
                     /\ w.ok /\ IsFun(w.hs) /\ TwoSeals(t.h, t.ck, 0, seals_in(w.bytes))
                     /\ t.h[2][2] = blake2b(s.h, e)
                     /\ t.ck = chained(chained(s.ck, dh(e, h.re)), dh(h.s_pk, h.re))
<1> DEFINE s == h.symmetric
           c == write_e(call(h, NoBytes), e)
           d == mix_dh(c, "e_sk", "re")
           w == write_message(h, e)
<1>1. w = advance(encrypt_payload(mix_dh(encrypt_static(d), "s_sk", "re")))
  BY Steps DEF write_message, is_complete
<1>2. IsHandshake(h) /\ h.s_sk = h.s_pk /\ ~is_seal(e)
  BY NotSeals DEF Session, Object
<1>3. /\ IsCall(c) /\ c.ok /\ c.hs.symmetric.ck = s.ck /\ IsSeq(c.bytes.fields)
      /\ c.hs.symmetric.h = blake2b(s.h, e)
      /\ c.hs.e_pk = e /\ c.hs.e_sk = e /\ SameParty(c.hs, h) /\ c.hs.rs = h.rs /\ c.hs.re = h.re
      /\ seals_in(c.bytes) = {}
  BY <1>2, EphemeralOut
<1> HIDE DEF c, w
<1>4. CASE h.re = Zero
  <2>1. d = failed(c)
    BY <1>3, <1>4, MixDhZero
  <2>2. ~d.ok /\ d.hs = c.hs
    BY <1>3, <2>1, FailedCall
  <2> HIDE DEF d
  <2>3. w = d
    BY <1>1, <2>2, FailedStays
  <2> QED BY <1>3, <1>4, <2>2, <2>3 DEF Carries, w
<1>5. CASE h.re # Zero
  <2>1. /\ IsCall(d) /\ d.ok /\ d.bytes = c.bytes /\ Kept(d.hs, c.hs)
        /\ d.hs.symmetric.ck = chained(s.ck, dh(e, h.re))
        /\ d.hs.symmetric.h = blake2b(s.h, e) /\ d.hs.symmetric.cipher.n = 0
        /\ KeyedBy(d.hs.symmetric)
    BY <1>3, <1>5, DhToken
  <2>2. d.hs.re = h.re /\ d.hs.s_sk = h.s_pk /\ d.hs.rs = h.rs /\ d.hs.e_pk = e /\ SameParty(d.hs, h)
    BY <1>2, <1>3, <2>1 DEF Kept, SameParty, SameOwn
  <2> HIDE DEF d
  <2> DEFINE ck == chained(chained(s.ck, dh(e, h.re)), dh(h.s_pk, h.re))
  <2>3. PICK st, pl :
           /\ w.ok /\ w.hs.symmetric.ck = ck /\ IsFun(w.hs) /\ Held(w.hs, d.hs)
           /\ SealUnder(st, chained(s.ck, dh(e, h.re)), 0, blake2b(s.h, e))
           /\ SealUnder(pl, ck, 0, blake2b(blake2b(s.h, e), st))
           /\ w.hs.symmetric.h = blake2b(blake2b(blake2b(s.h, e), st), pl)
           /\ seals_in(w.bytes) \subseteq seals_in(d.bytes) \cup {st, pl}
    BY <1>1, <1>3, <1>5, <2>1, <2>2, StaticPayloadOut
  <2>4. below(ck) = chained(s.ck, dh(e, h.re))
    BY Chain
  <2> HIDE DEF ck
  <2>5. TwoSeals(w.hs.symmetric.h, ck, 0, seals_in(w.bytes)) /\ w.hs.symmetric.h[2][2] = blake2b(s.h, e)
    BY <1>3, <2>1, <2>3, <2>4, Hashed DEF TwoSeals
  <2>6. Carries(w.hs, h, e)
    BY <2>2, <2>3 DEF Held, Carries, SameParty, SameOwn
  <2> QED BY <1>5, <2>3, <2>5, <2>6 DEF w, ck
<1> QED BY <1>4, <1>5

\* Message 3 of XX.
LEMMA XX3Written ==
    ASSUME NEW h, NEW D, NEW P, Session(h, D, P), NEW e,
           h.pattern = "XX", h.step = 2, h.initiator, h.symmetric.cipher.n = 1
    PROVE  LET w == write_message(h, e)
               s == h.symmetric
               t == w.hs.symmetric
           IN  /\ Carries(w.hs, h, h.e_pk)
               /\ w.ok /\ TwoSeals(t.h, t.ck, 1, seals_in(w.bytes))
               /\ t.h[2][2] = s.h /\ t.ck = chained(s.ck, dh(h.s_pk, h.re))
<1> DEFINE s == h.symmetric
           c == call(h, NoBytes)
           w == write_message(h, e)
           ck == chained(s.ck, dh(h.s_pk, h.re))
<1>1. w = advance(encrypt_payload(mix_dh(encrypt_static(c), "s_sk", "re")))
  BY Steps DEF write_message, is_complete
<1>2. IsHandshake(h) /\ h.s_sk = h.s_pk /\ h.re # Zero /\ KeyedBy(s)
  BY DEF Session, Object, AfterXX2, KeyedBy
<1>3. IsCall(c) /\ c.ok /\ c.hs = h /\ c.bytes = NoBytes
  BY <1>2, NewCall
<1> HIDE DEF c, w
<1>4. PICK st, pl :
         /\ w.ok /\ w.hs.symmetric.ck = ck /\ Held(w.hs, h)
         /\ SealUnder(st, s.ck, 1, s.h)
         /\ SealUnder(pl, ck, 0, blake2b(s.h, st))
         /\ w.hs.symmetric.h = blake2b(blake2b(s.h, st), pl)
         /\ seals_in(w.bytes) \subseteq seals_in(NoBytes) \cup {st, pl}
  BY <1>1, <1>2, <1>3, SealsNone, StaticPayloadOut
<1>5. below(ck) = s.ck
  BY Chain
<1> HIDE DEF ck
<1>6. TwoSeals(w.hs.symmetric.h, ck, 1, seals_in(w.bytes)) /\ w.hs.symmetric.h[2][2] = s.h
  BY <1>4, <1>5, Hashed, SealsNone DEF TwoSeals
<1>7. Carries(w.hs, h, h.e_pk)
  BY <1>4 DEF Held, Carries, SameParty, SameOwn
<1> QED BY <1>4, <1>6, <1>7 DEF w, ck

\* Message 1 of IK.
LEMMA IK1Written ==
    ASSUME NEW h, NEW D, NEW P, Session(h, D, P), NEW e, e[1] = "ephemeral",
           h.pattern = "IK", h.step = 0, h.initiator
    PROVE  LET w == write_message(h, e)
               s == h.symmetric
               t == w.hs.symmetric
           IN  /\ Carries(w.hs, h, e)
               /\ w.ok /\ TwoSeals(t.h, t.ck, 0, seals_in(w.bytes))
               /\ t.h[2][2] = blake2b(s.h, e)
               /\ t.ck = chained(chained(s.ck, dh(e, h.rs)), dh(h.s_pk, h.rs))
<1> DEFINE s == h.symmetric
           c == write_e(call(h, NoBytes), e)
           d == mix_dh(c, "e_sk", "rs")
           w == write_message(h, e)
           ck == chained(chained(s.ck, dh(e, h.rs)), dh(h.s_pk, h.rs))
<1>1. w = advance(encrypt_payload(mix_dh(encrypt_static(d), "s_sk", "rs")))
  BY Steps DEF write_message, is_complete
<1>2. IsHandshake(h) /\ h.s_sk = h.s_pk /\ ~is_seal(e) /\ h.rs # Zero
  BY NotSeals DEF Session, Object, Static, Zero
<1>3. /\ IsCall(c) /\ c.ok /\ c.hs.symmetric.ck = s.ck /\ IsSeq(c.bytes.fields)
      /\ c.hs.symmetric.h = blake2b(s.h, e)
      /\ c.hs.e_pk = e /\ c.hs.e_sk = e /\ SameParty(c.hs, h) /\ c.hs.rs = h.rs /\ c.hs.re = h.re
      /\ seals_in(c.bytes) = {}
  BY <1>2, EphemeralOut
<1> HIDE DEF c, w
<1>4. /\ IsCall(d) /\ d.ok /\ d.bytes = c.bytes /\ Kept(d.hs, c.hs)
      /\ d.hs.symmetric.ck = chained(s.ck, dh(e, h.rs))
      /\ d.hs.symmetric.h = blake2b(s.h, e) /\ d.hs.symmetric.cipher.n = 0
      /\ KeyedBy(d.hs.symmetric)
  BY <1>2, <1>3, DhToken
<1>5. d.hs.re = h.re /\ d.hs.s_sk = h.s_pk /\ d.hs.rs = h.rs /\ d.hs.e_pk = e /\ SameParty(d.hs, h)
  BY <1>2, <1>3, <1>4 DEF Kept, SameParty, SameOwn
<1> HIDE DEF d
<1>6. PICK st, pl :
         /\ w.ok /\ w.hs.symmetric.ck = ck /\ Held(w.hs, d.hs)
         /\ SealUnder(st, chained(s.ck, dh(e, h.rs)), 0, blake2b(s.h, e))
         /\ SealUnder(pl, ck, 0, blake2b(blake2b(s.h, e), st))
         /\ w.hs.symmetric.h = blake2b(blake2b(blake2b(s.h, e), st), pl)
         /\ seals_in(w.bytes) \subseteq seals_in(d.bytes) \cup {st, pl}
  BY <1>1, <1>2, <1>3, <1>4, <1>5, StaticPayloadOut
<1>7. below(ck) = chained(s.ck, dh(e, h.rs))
  BY Chain
<1> HIDE DEF ck
<1>8. TwoSeals(w.hs.symmetric.h, ck, 0, seals_in(w.bytes)) /\ w.hs.symmetric.h[2][2] = blake2b(s.h, e)
  BY <1>3, <1>4, <1>6, <1>7, Hashed DEF TwoSeals
<1>9. Carries(w.hs, h, e)
  BY <1>5, <1>6 DEF Held, Carries, SameParty, SameOwn
<1> QED BY <1>6, <1>8, <1>9 DEF w, ck

\* Message 2 of IK.
LEMMA IK2Written ==
    ASSUME NEW h, NEW D, NEW P, Session(h, D, P), NEW e, e[1] = "ephemeral",
           h.pattern = "IK", h.step = 1, ~h.initiator
    PROVE  LET w == write_message(h, e)
               s == h.symmetric
               t == w.hs.symmetric
           IN  /\ Carries(w.hs, h, e)
               /\ w.ok /\ OneSeal(t.h, t.ck, seals_in(w.bytes))
               /\ t.h[2] = blake2b(s.h, e)
               /\ t.ck = chained(chained(s.ck, dh(e, h.re)), dh(h.s_pk, h.re))
<1> DEFINE s == h.symmetric
           c == write_e(call(h, NoBytes), e)
           d == mix_dh(c, "e_sk", "re")
           g == mix_dh(d, "s_sk", "re")
           w == write_message(h, e)
           ck == chained(chained(s.ck, dh(e, h.re)), dh(h.s_pk, h.re))
<1>1. w = advance(encrypt_payload(g))
  BY Steps DEF write_message, is_complete
<1>2. IsHandshake(h) /\ h.s_sk = h.s_pk /\ ~is_seal(e) /\ h.re # Zero
  BY NotSeals DEF Session, Object, AfterIK1
<1>3. /\ IsCall(c) /\ c.ok /\ c.hs.symmetric.ck = s.ck /\ IsSeq(c.bytes.fields)
      /\ c.hs.symmetric.h = blake2b(s.h, e)
      /\ c.hs.e_pk = e /\ c.hs.e_sk = e /\ SameParty(c.hs, h) /\ c.hs.rs = h.rs /\ c.hs.re = h.re
      /\ seals_in(c.bytes) = {}
  BY <1>2, EphemeralOut
<1> HIDE DEF c, w
<1>4. /\ IsCall(d) /\ d.ok /\ d.bytes = c.bytes /\ Kept(d.hs, c.hs)
      /\ d.hs.symmetric.ck = chained(s.ck, dh(e, h.re)) /\ d.hs.symmetric.h = blake2b(s.h, e)
  BY <1>2, <1>3, DhToken
<1>5. d.hs.re = h.re /\ d.hs.s_sk = h.s_pk
  BY <1>2, <1>3, <1>4 DEF Kept, SameParty
<1> HIDE DEF d
<1>6. /\ IsCall(g) /\ g.ok /\ g.bytes = d.bytes /\ Kept(g.hs, d.hs)
      /\ g.hs.symmetric.ck = ck /\ g.hs.symmetric.h = blake2b(s.h, e)
      /\ g.hs.symmetric.cipher.n = 0 /\ KeyedBy(g.hs.symmetric)
  BY <1>2, <1>4, <1>5, DhToken
<1> HIDE DEF g, ck
<1>7. PICK pl :
         /\ w.ok /\ w.hs.symmetric.ck = ck /\ Held(w.hs, g.hs)
         /\ SealUnder(pl, ck, 0, blake2b(s.h, e))
         /\ w.hs.symmetric.h = blake2b(blake2b(s.h, e), pl)
         /\ seals_in(w.bytes) \subseteq seals_in(g.bytes) \cup {pl}
  BY <1>1, <1>3, <1>4, <1>6, LastOut
<1>8. OneSeal(w.hs.symmetric.h, ck, seals_in(w.bytes)) /\ w.hs.symmetric.h[2] = blake2b(s.h, e)
  BY <1>3, <1>4, <1>6, <1>7, Hashed DEF OneSeal
<1>9. Carries(w.hs, h, e)
  BY <1>3, <1>4, <1>6, <1>7 DEF Held, Kept, Carries, SameParty, SameOwn
<1> QED BY <1>7, <1>8, <1>9 DEF w, ck

(***************************************************************************)
(* The messages, as read.                                                  *)
(***************************************************************************)
\* What opens was sealed with the nonce and over the hash it opens with.
LEMMA OpenedSeal ==
    ASSUME NEW s, IsSymmetric(s), KeyedBy(s), NEW ct, decrypt_and_hash(s, ct).ok
    PROVE  SealUnder(ct, s.ck, s.cipher.n, s.h)
<1>1. decrypt_with_ad(s.cipher, s.h, ct).ok
  BY DEF decrypt_and_hash
<1>2. opens(ct, s.cipher.k, s.cipher.n, s.h)
  BY <1>1 DEF decrypt_with_ad, KeyedBy
<1> QED BY <1>2 DEF opens, SealUnder, KeyedBy

\* Token e of a reader.
LEMMA EphemeralIn ==
    ASSUME NEW h, IsHandshake(h), NEW m, NEW P, Message(m, P)
    PROVE  LET r == read_e(call(h, m))
           IN  /\ IsCall(r) /\ Message(r.bytes, P) /\ seals_in(r.bytes) \subseteq seals_in(m)
               /\ ~r.ok => r.hs = h
               /\ r.ok =>
                    /\ r.hs.re \in P \cup {Zero, Garbage}
                    /\ r.hs.symmetric.ck = h.symmetric.ck
                    /\ r.hs.symmetric.h = blake2b(h.symmetric.h, r.hs.re)
                    /\ r.hs.symmetric.cipher = h.symmetric.cipher
                    /\ SameParty(r.hs, h) /\ SameOwn(r.hs, h) /\ r.hs.rs = h.rs
<1> DEFINE c == call(h, m)
           t == take(m, 32)
           r == read_e(c)
<1>1. IsCall(c) /\ c.ok /\ c.hs = h /\ c.bytes = m
  BY NewCall
<1> HIDE DEF c
<1>2. /\ IsCall(r) /\ Message(r.bytes, P) /\ (~r.ok => r.hs = h)
      /\ r.ok => /\ r.hs.re \in P \cup {Zero, Garbage}
                 /\ r.hs.symmetric.ck = h.symmetric.ck
                 /\ r.hs.symmetric.cipher = h.symmetric.cipher
                 /\ SameParty(r.hs, h) /\ SameOwn(r.hs, h) /\ r.hs.rs = h.rs
  BY ReadE DEF c
<1>3. CASE m.size < 32
  <2>1. r = failed(c)
    BY <1>1, <1>3 DEF read_e, DH_PUBLIC_KEY_BYTES
  <2>2. ~r.ok /\ r.bytes = m
    BY <1>1, <2>1, FailedCall
  <2> QED BY <1>2, <2>2 DEF c
<1>4. CASE ~(m.size < 32)
  <2>1. r = [c EXCEPT !.hs.re = t.val, !.hs.symmetric = mix_hash(@, t.val), !.bytes = t.rest]
    BY <1>1, <1>4 DEF read_e, DH_PUBLIC_KEY_BYTES
  <2>2. seals_in(t.rest) \subseteq seals_in(m)
    BY SealsTake DEF Message
  <2> HIDE DEF t
  <2>3. r.bytes = t.rest
    BY <1>1, <2>1 DEF IsCall
  <2>4. r.hs = [c.hs EXCEPT !.re = t.val, !.symmetric = mix_hash(c.hs.symmetric, t.val)]
    BY <1>1, <2>1 DEF IsCall, IsHandshake
  <2>5. r.hs.re = t.val /\ r.hs.symmetric.h = blake2b(h.symmetric.h, t.val)
    BY <1>1, <2>4 DEF mix_hash, IsCall, IsHandshake, IsSymmetric
  <2> HIDE DEF r
  <2> QED BY <1>2, <2>2, <2>3, <2>5 DEF r, c
<1> QED BY <1>3, <1>4

\* Token s of a reader.
LEMMA SealedStaticIn ==
    ASSUME NEW c, IsCall(c), c.ok, c.hs.symmetric.cipher.has_key,
           NEW D, NEW P, Points(D, P), Message(c.bytes, P)
    PROVE  LET s == c.hs.symmetric
               r == read_encrypted_static(c)
           IN  /\ IsCall(r) /\ Message(r.bytes, P) /\ seals_in(r.bytes) \subseteq seals_in(c.bytes)
               /\ SameParty(r.hs, c.hs) /\ SameOwn(r.hs, c.hs) /\ r.hs.re = c.hs.re
               /\ ~r.ok => /\ r.hs.symmetric = s /\ r.hs.rs = c.hs.rs
                           /\ IsFun(c.hs) => r.hs = c.hs
               /\ r.ok => /\ Static(r.hs.rs) /\ r.hs.symmetric.ck = s.ck
                          /\ \E v \in seals_in(c.bytes) :
                                /\ KeyedBy(s) => SealUnder(v, s.ck, s.cipher.n, s.h)
                                /\ r.hs.symmetric.h = blake2b(s.h, v)
<1> DEFINE s == c.hs.symmetric
           t == take(c.bytes, 48)
           d == decrypt_and_hash(s, t.val)
           r == read_encrypted_static(c)
<1>1. IsSymmetric(s) /\ IsSeq(c.bytes.fields) /\ s.cipher.has_key
  BY DEF IsCall, IsHandshake, Message
<1>2. /\ ~d.ok => d.sym = s
      /\ d.ok => /\ Holds(d.sym, s.ck, blake2b(s.h, t.val), s.cipher.k, incr(s.cipher.n))
                 /\ is_seal(t.val)
  BY <1>1, Opened
<1>3. d.ok /\ KeyedBy(s) => SealUnder(t.val, s.ck, s.cipher.n, s.h)
  BY <1>1, OpenedSeal
<1>4. seals_in(t.rest) \subseteq seals_in(c.bytes) /\ (is_seal(t.val) => t.val \in seals_in(c.bytes))
  BY <1>1, SealsTake
<1>5. /\ c.bytes.size < 48 => r = failed(c)
      /\ ~(c.bytes.size < 48) /\ d.ok =>
            r = [c EXCEPT !.hs.symmetric = d.sym, !.hs.rs = d.out, !.hs.rs_known = TRUE,
                          !.bytes = t.rest]
      /\ ~(c.bytes.size < 48) /\ ~d.ok => r = failed([c EXCEPT !.hs.symmetric = d.sym])
  BY <1>1 DEF read_encrypted_static, sealed_size, DH_PUBLIC_KEY_BYTES, AEAD_TAG_BYTES
<1>6. /\ IsCall(r) /\ Message(r.bytes, P)
      /\ SameParty(r.hs, c.hs) /\ SameOwn(r.hs, c.hs) /\ r.hs.re = c.hs.re
      /\ ~r.ok => r.hs.symmetric = s /\ r.hs.rs = c.hs.rs
      /\ r.ok => Static(r.hs.rs)
  BY <1>1, ReadStatic
<1> HIDE DEF t, d, r
<1>7. CASE c.bytes.size < 48
  <2>1. ~r.ok /\ r.hs = c.hs /\ r.bytes = c.bytes
    BY <1>5, <1>7, FailedCall
  <2> QED BY <1>6, <2>1 DEF r
<1>8. CASE ~(c.bytes.size < 48) /\ d.ok
  <2>1. r = [c EXCEPT !.hs.symmetric = d.sym, !.hs.rs = d.out, !.hs.rs_known = TRUE,
                      !.bytes = t.rest]
    BY <1>5, <1>8
  <2>2. r.ok /\ r.bytes = t.rest
    BY <2>1 DEF IsCall
  <2>3. r.hs = [c.hs EXCEPT !.symmetric = d.sym, !.rs = d.out, !.rs_known = TRUE]
    BY <2>1 DEF IsCall, IsHandshake
  <2>4. r.hs.symmetric = d.sym
    BY <2>3 DEF IsCall, IsHandshake
  <2>5. r.hs.symmetric.ck = s.ck /\ r.hs.symmetric.h = blake2b(s.h, t.val)
    BY <1>2, <1>8, <2>4 DEF Holds
  <2>6. t.val \in seals_in(c.bytes) /\ (KeyedBy(s) => SealUnder(t.val, s.ck, s.cipher.n, s.h))
    BY <1>2, <1>3, <1>4, <1>8
  <2> QED BY <1>4, <1>6, <2>2, <2>5, <2>6 DEF r
<1>9. CASE ~(c.bytes.size < 48) /\ ~d.ok
  <2> DEFINE b == [c EXCEPT !.hs.symmetric = d.sym]
  <2>1. r = failed(b)
    BY <1>5, <1>9
  <2>2. b.bytes = c.bytes /\ DOMAIN b = {"ok", "hs", "bytes"}
        /\ b.hs = [c.hs EXCEPT !.symmetric = d.sym]
    BY DEF IsCall
  <2> HIDE DEF b
  <2>3. IsFun(c.hs) => b.hs = c.hs
    BY <1>2, <1>9, <2>2 DEF IsFun, IsCall, IsHandshake
  <2>4. ~r.ok /\ r.hs = b.hs /\ r.bytes = b.bytes
    BY <2>1, <2>2 DEF failed
  <2> QED BY <1>6, <2>2, <2>3, <2>4 DEF r
<1> QED BY <1>7, <1>8, <1>9

\* The payload of a reader and the end of a message.
LEMMA LastIn ==
    ASSUME NEW c, IsCall(c), c.ok, NEW D, NEW P, Points(D, P), Message(c.bytes, P)
    PROVE  LET s == c.hs.symmetric
               r == advance(read_payload(c))
           IN  /\ Held(r.hs, c.hs) /\ r.hs.symmetric.ck = s.ck /\ r.bytes = NoBytes /\ IsFun(r.hs)
               /\ ~s.cipher.has_key => /\ r.ok /\ r.hs.symmetric.cipher = s.cipher
                                       /\ \E x : r.hs.symmetric.h = blake2b(s.h, x)
               /\ KeyedBy(s) => /\ ~r.ok => r.hs.symmetric.h = s.h
                                /\ r.ok => /\ r.hs.symmetric.cipher.n = incr(s.cipher.n)
                                           /\ r.hs.symmetric.cipher.has_key
                                           /\ \E v \in seals_in(c.bytes) :
                                                 /\ SealUnder(v, s.ck, s.cipher.n, s.h)
                                                 /\ r.hs.symmetric.h = blake2b(s.h, v)
<1> DEFINE s == c.hs.symmetric
           v == remainder(c.bytes)
           d == decrypt_and_hash(s, v)
           b == read_payload(c)
           r == advance(b)
<1>1. IsSymmetric(s) /\ IsSeq(c.bytes.fields)
  BY DEF IsCall, IsHandshake, Message
<1>2. b = [c EXCEPT !.ok = d.ok, !.hs.symmetric = d.sym, !.bytes = NoBytes]
  BY DEF read_payload
<1>3. KeyedBy(s) =>
      /\ ~d.ok => d.sym = s
      /\ d.ok => /\ Holds(d.sym, s.ck, blake2b(s.h, v), s.cipher.k, incr(s.cipher.n))
                 /\ SealUnder(v, s.ck, s.cipher.n, s.h) /\ v \in seals_in(c.bytes)
  <2>1. KeyedBy(s) => s.cipher.has_key
    BY DEF KeyedBy
  <2>2. s.cipher.has_key =>
         /\ ~d.ok => d.sym = s
         /\ d.ok => Holds(d.sym, s.ck, blake2b(s.h, v), s.cipher.k, incr(s.cipher.n))
    BY <1>1, Opened
  <2>3. KeyedBy(s) /\ d.ok => SealUnder(v, s.ck, s.cipher.n, s.h)
    BY <1>1, OpenedSeal
  <2>4. KeyedBy(s) /\ d.ok => v \in seals_in(c.bytes)
    BY <1>1, <2>3, SealsRemainder DEF SealUnder
  <2> QED BY <2>1, <2>2, <2>3, <2>4
<1>4. ~s.cipher.has_key => /\ d.sym.h = blake2b(s.h, v)
  BY <1>1 DEF decrypt_and_hash, decrypt_with_ad, mix_hash, IsSymmetric
<1>5. /\ IsCall(b) /\ b.bytes = NoBytes /\ Kept(b.hs, c.hs)
      /\ ~s.cipher.has_key => b.ok /\ b.hs.symmetric.ck = s.ck /\ b.hs.symmetric.cipher = s.cipher
  BY ReadPayload
<1> HIDE DEF v, d, b
<1>6. (b.ok <=> d.ok) /\ b.hs = [c.hs EXCEPT !.symmetric = d.sym] /\ b.hs.symmetric = d.sym
  BY <1>2 DEF IsCall, IsHandshake
<1>7. IsFun(b.hs)
  BY <1>6 DEF IsFun
<1>8. /\ (r.ok <=> b.ok) /\ r.bytes = NoBytes /\ r.hs.symmetric = b.hs.symmetric
      /\ Held(r.hs, b.hs) /\ IsFun(r.hs)
  <2>1. CASE b.ok
    <3>1. r.hs = [b.hs EXCEPT !.step = @ + 1]
      BY <1>5, <2>1 DEF advance, IsCall
    <3>2. IsFun(r.hs)
      <4> HIDE DEF r
      <4> QED BY <3>1 DEF IsFun
    <3> QED BY <1>5, <2>1, <3>2, Advanced DEF Held
  <2>2. CASE ~b.ok
    BY <1>5, <1>7, <2>2, FailedStays DEF Held, SameParty, SameOwn
  <2> QED BY <2>1, <2>2
<1> HIDE DEF r
<1>9. Held(r.hs, c.hs)
  BY <1>5, <1>8 DEF Held, Kept, SameParty, SameOwn
<1>10. r.hs.symmetric.ck = s.ck
  <2>1. CASE ~s.cipher.has_key
    BY <1>5, <1>8, <2>1
  <2>2. CASE s.cipher.has_key
    <3>1. d.sym = s \/ Holds(d.sym, s.ck, blake2b(s.h, v), s.cipher.k, incr(s.cipher.n))
      BY <1>1, <2>2, Opened DEF d
    <3> QED BY <1>6, <1>8, <3>1 DEF Holds
  <2> QED BY <2>1, <2>2
<1>11. ~s.cipher.has_key => /\ r.ok /\ r.hs.symmetric.cipher = s.cipher
                            /\ \E x : r.hs.symmetric.h = blake2b(s.h, x)
  BY <1>4, <1>5, <1>6, <1>8
<1>12. KeyedBy(s) => /\ ~r.ok => r.hs.symmetric.h = s.h
                     /\ r.ok => /\ r.hs.symmetric.cipher.n = incr(s.cipher.n)
                                /\ r.hs.symmetric.cipher.has_key
                                /\ \E x \in seals_in(c.bytes) :
                                      /\ SealUnder(x, s.ck, s.cipher.n, s.h)
                                      /\ r.hs.symmetric.h = blake2b(s.h, x)
  BY <1>3, <1>6, <1>8 DEF Holds
<1> QED BY <1>8, <1>9, <1>10, <1>11, <1>12 DEF r, b

\* Tokens s and a DH with that key, the payload and the end of a message:
\* messages 2 and 3 of XX and message 1 of IK.
LEMMA StaticPayloadIn ==
    ASSUME NEW c, IsCall(c), c.ok, c.hs.symmetric.cipher.has_key, NEW sk \in {"s_sk", "e_sk"},
           NEW D, NEW P, Points(D, P), Message(c.bytes, P)
    PROVE  LET s == c.hs.symmetric
               r == advance(read_payload(mix_dh(read_encrypted_static(c), sk, "rs")))
               t == r.hs.symmetric
           IN  /\ SameParty(r.hs, c.hs) /\ SameOwn(r.hs, c.hs) /\ r.hs.re = c.hs.re
               /\ \/ ~r.ok /\ t = s /\ r.hs.rs = c.hs.rs /\ (IsFun(c.hs) => r.hs = c.hs)
                  \/ \E st \in seals_in(c.bytes) :
                        /\ IsFun(r.hs) /\ Static(r.hs.rs)
                        /\ KeyedBy(s) => SealUnder(st, s.ck, s.cipher.n, s.h)
                        /\ t.ck = chained(s.ck, dh(c.hs[sk], r.hs.rs))
                        /\ ~r.ok => t.h = blake2b(s.h, st)
                        /\ r.ok => /\ t.cipher.n = 1
                                   /\ \E pl \in seals_in(c.bytes) :
                                         /\ SealUnder(pl, t.ck, 0, blake2b(s.h, st))
                                         /\ t.h = blake2b(blake2b(s.h, st), pl)
<1> DEFINE s == c.hs.symmetric
           b == read_encrypted_static(c)
           d == mix_dh(b, sk, "rs")
           r == advance(read_payload(d))
           t == r.hs.symmetric
<1>1. /\ IsCall(b) /\ Message(b.bytes, P) /\ seals_in(b.bytes) \subseteq seals_in(c.bytes)
      /\ SameParty(b.hs, c.hs) /\ SameOwn(b.hs, c.hs) /\ b.hs.re = c.hs.re
      /\ ~b.ok => b.hs.symmetric = s /\ b.hs.rs = c.hs.rs /\ (IsFun(c.hs) => b.hs = c.hs)
      /\ b.ok => /\ Static(b.hs.rs) /\ b.hs.symmetric.ck = s.ck
                 /\ \E v \in seals_in(c.bytes) :
                       /\ KeyedBy(s) => SealUnder(v, s.ck, s.cipher.n, s.h)
                       /\ b.hs.symmetric.h = blake2b(s.h, v)
  BY SealedStaticIn
<1> HIDE DEF b
<1>2. CASE ~b.ok
  <2>1. r = b
    BY <1>2, FailedStays
  <2> HIDE DEF r
  <2> QED BY <1>1, <1>2, <2>1 DEF r, d, b
<1>3. CASE b.ok
  <2>1. PICK st \in seals_in(c.bytes) : /\ KeyedBy(s) => SealUnder(st, s.ck, s.cipher.n, s.h)
                                        /\ b.hs.symmetric.h = blake2b(s.h, st)
    BY <1>1, <1>3
  <2>2. b.hs.rs # Zero /\ b.hs[sk] = c.hs[sk]
    BY <1>1, <1>3 DEF Static, Zero, SameParty, SameOwn
  <2>3. /\ IsCall(d) /\ d.ok /\ d.bytes = b.bytes /\ Kept(d.hs, b.hs)
        /\ d.hs.symmetric.ck = chained(s.ck, dh(c.hs[sk], b.hs.rs))
        /\ d.hs.symmetric.h = blake2b(s.h, st) /\ d.hs.symmetric.cipher.n = 0
        /\ KeyedBy(d.hs.symmetric)
    BY <1>1, <1>3, <2>1, <2>2, DhToken
  <2> HIDE DEF d
  <2>4. /\ Held(r.hs, d.hs) /\ t.ck = d.hs.symmetric.ck /\ IsFun(r.hs)
        /\ ~r.ok => t.h = d.hs.symmetric.h
        /\ r.ok => /\ t.cipher.n = incr(0)
                   /\ \E v \in seals_in(d.bytes) :
                         /\ SealUnder(v, d.hs.symmetric.ck, 0, d.hs.symmetric.h)
                         /\ t.h = blake2b(d.hs.symmetric.h, v)
    BY <1>1, <2>3, LastIn
  <2> HIDE DEF r
  <2>5. r.hs.rs = b.hs.rs /\ SameParty(r.hs, c.hs) /\ SameOwn(r.hs, c.hs) /\ r.hs.re = c.hs.re
    BY <1>1, <2>3, <2>4 DEF Held, Kept, SameParty, SameOwn
  <2>6. r.ok => /\ t.cipher.n = 1
                /\ \E pl \in seals_in(c.bytes) :
                      /\ SealUnder(pl, t.ck, 0, blake2b(s.h, st))
                      /\ t.h = blake2b(blake2b(s.h, st), pl)
    BY <1>1, <2>3, <2>4, Incr
  <2> QED BY <1>1, <1>3, <2>1, <2>3, <2>4, <2>5, <2>6 DEF r, d, b
<1> QED BY <1>2, <1>3

\* The hash h ends with a seal of S, opened under the key of ck at nonce 0.
LastOpened(h, ck, S) ==
    h = blake2b(h[2], h[3]) /\ h[3] \in S /\ SealUnder(h[3], ck, 0, h[2])

\* Message 1 of XX: nothing in it is sealed.
LEMMA XX1Read ==
    ASSUME NEW h, NEW D, NEW P, Points(D, P), NEW m, Message(m, P),
           Session(h, D, P), h.pattern = "XX", h.step = 0
    PROVE  LET r == read_message(h, m)
               s == h.symmetric
               t == r.hs.symmetric
           IN  /\ ~r.ok => r.hs = h
               /\ r.ok => /\ ~t.cipher.has_key
                          /\ \E x : t.h = blake2b(blake2b(s.h, r.hs.re), x)
<1> DEFINE c == read_e(call(h, m))
           r == read_message(h, m)
<1>1. r = advance(read_payload(c))
  BY Steps DEF read_message, is_complete
<1>2. IsHandshake(h) /\ ~h.symmetric.cipher.has_key
  BY DEF Session, Object
<1>3. /\ IsCall(c) /\ Message(c.bytes, P) /\ (~c.ok => c.hs = h)
      /\ c.ok => /\ c.hs.symmetric.h = blake2b(h.symmetric.h, c.hs.re)
                 /\ c.hs.symmetric.cipher = h.symmetric.cipher
  BY <1>2, EphemeralIn
<1> HIDE DEF c, r
<1>4. CASE ~c.ok
  <2>1. r = c
    BY <1>1, <1>4, FailedStays
  <2> QED BY <1>3, <1>4, <2>1 DEF r
<1>5. CASE c.ok
  <2>1. /\ Held(r.hs, c.hs) /\ r.ok /\ r.hs.symmetric.cipher = c.hs.symmetric.cipher
        /\ \E x : r.hs.symmetric.h = blake2b(c.hs.symmetric.h, x)
    BY <1>1, <1>2, <1>3, <1>5, LastIn
  <2> QED BY <1>2, <1>3, <1>5, <2>1 DEF Held, r
<1> QED BY <1>4, <1>5

\* Message 2 of XX.
LEMMA XX2Read ==
    ASSUME NEW h, NEW D, NEW P, Points(D, P), NEW m, Message(m, P),
           Session(h, D, P), h.pattern = "XX", h.step = 1
    PROVE  LET r == read_message(h, m)
               s == h.symmetric
               t == r.hs.symmetric
           IN  /\ ~r.ok => \/ r.hs = h
                           \/ \E x : t.h = blake2b(s.h, x)
                           \/ \E x, y : t.h = blake2b(blake2b(s.h, x), y)
               /\ r.ok => /\ LastOpened(t.h, t.ck, seals_in(m))
                          /\ LastOpened(t.h[2], below(t.ck), seals_in(m))
                          /\ t.h[2][2] = blake2b(s.h, r.hs.re) /\ t.cipher.n = 1
                          /\ t.ck = chained(chained(s.ck, dh(h.e_pk, r.hs.re)), dh(h.e_pk, r.hs.rs))
<1> DEFINE s == h.symmetric
           c == read_e(call(h, m))
           d == mix_dh(c, "e_sk", "re")
           r == read_message(h, m)
           t == r.hs.symmetric
<1>1. r = advance(read_payload(mix_dh(read_encrypted_static(d), "e_sk", "rs")))
  BY Steps DEF read_message, is_complete
<1>2. IsHandshake(h) /\ h.e_sk = h.e_pk
  BY DEF Session, Object
<1>3. /\ IsCall(c) /\ Message(c.bytes, P) /\ seals_in(c.bytes) \subseteq seals_in(m)
      /\ ~c.ok => c.hs = h
      /\ c.ok => /\ c.hs.symmetric.ck = s.ck /\ c.hs.symmetric.h = blake2b(s.h, c.hs.re)
                 /\ SameOwn(c.hs, h)
  BY <1>2, EphemeralIn
<1> HIDE DEF c, r
<1>4. CASE ~c.ok
  <2>1. r = c
    BY <1>1, <1>4, FailedStays
  <2> QED BY <1>3, <1>4, <2>1 DEF r
<1>5. CASE c.ok /\ c.hs.re = Zero
  <2>1. d = failed(c)
    BY <1>5, MixDhZero
  <2>2. ~d.ok /\ d.hs = c.hs
    BY <1>3, <2>1, FailedCall
  <2> HIDE DEF d
  <2>3. r = d
    BY <1>1, <2>2, FailedStays
  <2> QED BY <1>3, <1>5, <2>2, <2>3 DEF r
<1>6. CASE c.ok /\ c.hs.re # Zero
  <2> DEFINE ck == chained(s.ck, dh(h.e_pk, c.hs.re))
  <2>1. /\ IsCall(d) /\ d.ok /\ d.bytes = c.bytes /\ Kept(d.hs, c.hs)
        /\ d.hs.symmetric.ck = ck /\ d.hs.symmetric.h = blake2b(s.h, c.hs.re)
        /\ d.hs.symmetric.cipher.n = 0 /\ KeyedBy(d.hs.symmetric)
    BY <1>2, <1>3, <1>6, DhToken DEF SameOwn
  <2>2. d.hs.e_sk = h.e_pk /\ d.hs.re = c.hs.re
    BY <1>2, <1>3, <1>6, <2>1 DEF Kept, SameOwn
  <2> HIDE DEF d, ck
  <2>3. /\ r.hs.re = d.hs.re
        /\ \/ ~r.ok /\ t = d.hs.symmetric
           \/ \E st \in seals_in(d.bytes) :
                 /\ SealUnder(st, ck, 0, blake2b(s.h, c.hs.re))
                 /\ t.ck = chained(ck, dh(h.e_pk, r.hs.rs))
                 /\ ~r.ok => t.h = blake2b(blake2b(s.h, c.hs.re), st)
                 /\ r.ok => /\ t.cipher.n = 1
                            /\ \E pl \in seals_in(d.bytes) :
                                  /\ SealUnder(pl, t.ck, 0, blake2b(blake2b(s.h, c.hs.re), st))
                                  /\ t.h = blake2b(blake2b(blake2b(s.h, c.hs.re), st), pl)
    <3>1. d.hs.symmetric.cipher.has_key /\ Message(d.bytes, P)
      BY <1>3, <2>1 DEF KeyedBy
    <3> QED BY <1>1, <2>1, <2>2, <3>1, StaticPayloadIn
  <2>4. CASE ~r.ok /\ t = d.hs.symmetric
    BY <2>1, <2>4 DEF r
  <2>5. ASSUME NEW st \in seals_in(d.bytes), ~r.ok, t.h = blake2b(blake2b(s.h, c.hs.re), st)
        PROVE  \E x, y : t.h = blake2b(blake2b(s.h, x), y)
    BY <2>5
  <2>6. ASSUME r.ok, NEW st \in seals_in(d.bytes), NEW pl \in seals_in(d.bytes),
               SealUnder(st, ck, 0, blake2b(s.h, c.hs.re)),
               t.ck = chained(ck, dh(h.e_pk, r.hs.rs)), t.cipher.n = 1,
               SealUnder(pl, t.ck, 0, blake2b(blake2b(s.h, c.hs.re), st)),
               t.h = blake2b(blake2b(blake2b(s.h, c.hs.re), st), pl)
        PROVE  /\ LastOpened(t.h, t.ck, seals_in(m))
               /\ LastOpened(t.h[2], below(t.ck), seals_in(m))
               /\ t.h[2][2] = blake2b(s.h, r.hs.re) /\ t.cipher.n = 1
               /\ t.ck = chained(chained(s.ck, dh(h.e_pk, r.hs.re)), dh(h.e_pk, r.hs.rs))
    <3>1. st \in seals_in(m) /\ pl \in seals_in(m) /\ r.hs.re = c.hs.re /\ below(t.ck) = ck
      BY <1>3, <2>1, <2>2, <2>3, <2>6, Chain
    <3>2. /\ t.h[2] = blake2b(blake2b(s.h, c.hs.re), st) /\ t.h[3] = pl
          /\ t.h[2][2] = blake2b(s.h, c.hs.re) /\ t.h[2][3] = st
      BY <2>6, Hashed
    <3>3. LastOpened(t.h, t.ck, seals_in(m))
      BY <2>6, <3>1, <3>2 DEF LastOpened
    <3>4. LastOpened(t.h[2], below(t.ck), seals_in(m))
      BY <2>6, <3>1, <3>2 DEF LastOpened
    <3> QED BY <2>6, <3>1, <3>2, <3>3, <3>4 DEF ck
  <2> QED BY <2>3, <2>4, <2>5, <2>6 DEF r
<1> QED BY <1>4, <1>5, <1>6

\* Message 3 of XX.
LEMMA XX3Read ==
    ASSUME NEW h, NEW D, NEW P, Points(D, P), NEW m, Message(m, P),
           Session(h, D, P), h.pattern = "XX", h.step = 2, ~h.initiator
    PROVE  LET r == read_message(h, m)
               s == h.symmetric
               t == r.hs.symmetric
           IN  /\ ~r.ok => \/ t = s /\ (IsFun(h) => r.hs = h)
                           \/ IsFun(r.hs) /\ \E x : t.h = blake2b(s.h, x)
               /\ r.ok => /\ LastOpened(t.h, t.ck, seals_in(m)) /\ t.h[2][3] \in seals_in(m)
                          /\ t.h[2] = blake2b(s.h, t.h[2][3])
                          /\ t.ck = chained(s.ck, dh(h.e_pk, r.hs.rs))
<1> DEFINE s == h.symmetric
           c == call(h, m)
           r == read_message(h, m)
           t == r.hs.symmetric
<1>1. r = advance(read_payload(mix_dh(read_encrypted_static(c), "e_sk", "rs")))
  BY Steps DEF read_message, is_complete
<1>2. IsHandshake(h) /\ h.e_sk = h.e_pk /\ s.cipher.has_key
  BY DEF Session, Object, AfterXX2
<1>3. IsCall(c) /\ c.ok /\ c.hs = h /\ c.bytes = m
  BY <1>2, NewCall
<1> HIDE DEF c, r
<1>4. \/ ~r.ok /\ t = s /\ (IsFun(h) => r.hs = h)
      \/ \E st \in seals_in(m) :
            /\ IsFun(r.hs) /\ t.ck = chained(s.ck, dh(h.e_pk, r.hs.rs))
            /\ ~r.ok => t.h = blake2b(s.h, st)
            /\ r.ok => \E pl \in seals_in(m) : /\ SealUnder(pl, t.ck, 0, blake2b(s.h, st))
                                               /\ t.h = blake2b(blake2b(s.h, st), pl)
  BY <1>1, <1>2, <1>3, StaticPayloadIn
<1>5. ASSUME r.ok, NEW st \in seals_in(m), NEW pl \in seals_in(m),
             SealUnder(pl, t.ck, 0, blake2b(s.h, st)), t.h = blake2b(blake2b(s.h, st), pl)
      PROVE  /\ LastOpened(t.h, t.ck, seals_in(m)) /\ t.h[2][3] \in seals_in(m)
             /\ t.h[2] = blake2b(s.h, t.h[2][3])
  <2>1. t.h[2] = blake2b(s.h, st) /\ t.h[3] = pl /\ t.h[2][3] = st
    BY <1>5, Hashed
  <2> QED BY <1>5, <2>1 DEF LastOpened
<1> QED BY <1>4, <1>5 DEF r

\* Message 1 of IK: it may fail before anything has changed, at the low-order
\* ephemeral or the static, or at the payload.
LEMMA IK1Read ==
    ASSUME NEW h, NEW D, NEW P, Points(D, P), NEW m, Message(m, P),
           Session(h, D, P), h.pattern = "IK", h.step = 0
    PROVE  LET r == read_message(h, m)
               s == h.symmetric
               t == r.hs.symmetric
               mid == chained(s.ck, dh(h.s_pk, r.hs.re))
           IN  /\ ~r.ok => \/ r.hs = h
                           \/ /\ t.h = blake2b(s.h, r.hs.re) /\ r.hs.rs = h.rs
                              /\ \/ r.hs.re = Zero /\ t.ck = s.ck
                                 \/ r.hs.re # Zero /\ t.ck = mid
                           \/ /\ LastOpened(t.h, below(t.ck), seals_in(m))
                              /\ t.h[2] = blake2b(s.h, r.hs.re)
                              /\ t.ck = chained(mid, dh(h.s_pk, r.hs.rs)) /\ Static(r.hs.rs)
               /\ r.ok => /\ LastOpened(t.h, t.ck, seals_in(m))
                          /\ LastOpened(t.h[2], below(t.ck), seals_in(m))
                          /\ t.h[2][2] = blake2b(s.h, r.hs.re)
                          /\ t.ck = chained(mid, dh(h.s_pk, r.hs.rs))
<1> DEFINE s == h.symmetric
           c == read_e(call(h, m))
           d == mix_dh(c, "s_sk", "re")
           r == read_message(h, m)
           t == r.hs.symmetric
<1>1. r = advance(read_payload(mix_dh(read_encrypted_static(d), "s_sk", "rs")))
  BY Steps DEF read_message, is_complete
<1>2. IsHandshake(h) /\ h.s_sk = h.s_pk
  BY DEF Session, Object
<1>3. /\ IsCall(c) /\ Message(c.bytes, P) /\ seals_in(c.bytes) \subseteq seals_in(m)
      /\ ~c.ok => c.hs = h
      /\ c.ok => /\ c.hs.symmetric.ck = s.ck /\ c.hs.symmetric.h = blake2b(s.h, c.hs.re)
                 /\ SameParty(c.hs, h) /\ c.hs.rs = h.rs
  BY <1>2, EphemeralIn
<1> HIDE DEF c, r
<1>4. CASE ~c.ok
  <2>1. r = c
    BY <1>1, <1>4, FailedStays
  <2> QED BY <1>3, <1>4, <2>1 DEF r
<1>5. CASE c.ok /\ c.hs.re = Zero
  <2>1. d = failed(c)
    BY <1>5, MixDhZero
  <2>2. ~d.ok /\ d.hs = c.hs
    BY <1>3, <2>1, FailedCall
  <2> HIDE DEF d
  <2>3. r = d
    BY <1>1, <2>2, FailedStays
  <2> QED BY <1>3, <1>5, <2>2, <2>3 DEF r
<1>6. CASE c.ok /\ c.hs.re # Zero
  <2> DEFINE ck == chained(s.ck, dh(h.s_pk, c.hs.re))
  <2>1. /\ IsCall(d) /\ d.ok /\ d.bytes = c.bytes /\ Kept(d.hs, c.hs)
        /\ d.hs.symmetric.ck = ck /\ d.hs.symmetric.h = blake2b(s.h, c.hs.re)
        /\ d.hs.symmetric.cipher.n = 0 /\ KeyedBy(d.hs.symmetric)
    BY <1>2, <1>3, <1>6, DhToken DEF SameParty
  <2>2. d.hs.s_sk = h.s_pk /\ d.hs.re = c.hs.re /\ d.hs.rs = h.rs
    BY <1>2, <1>3, <1>6, <2>1 DEF Kept, SameParty
  <2> HIDE DEF d, ck
  <2>3. /\ r.hs.re = c.hs.re
        /\ \/ ~r.ok /\ t = d.hs.symmetric /\ r.hs.rs = h.rs
           \/ \E st \in seals_in(d.bytes) :
                 /\ SealUnder(st, ck, 0, blake2b(s.h, c.hs.re)) /\ Static(r.hs.rs)
                 /\ t.ck = chained(ck, dh(h.s_pk, r.hs.rs))
                 /\ ~r.ok => t.h = blake2b(blake2b(s.h, c.hs.re), st)
                 /\ r.ok => /\ \E pl \in seals_in(d.bytes) :
                                  /\ SealUnder(pl, t.ck, 0, blake2b(blake2b(s.h, c.hs.re), st))
                                  /\ t.h = blake2b(blake2b(blake2b(s.h, c.hs.re), st), pl)
    <3>1. d.hs.symmetric.cipher.has_key /\ Message(d.bytes, P)
      BY <1>3, <2>1 DEF KeyedBy
    <3> QED BY <1>1, <2>1, <2>2, <3>1, StaticPayloadIn
  <2>4. CASE ~r.ok /\ t = d.hs.symmetric /\ r.hs.rs = h.rs
    BY <1>6, <2>1, <2>3, <2>4 DEF r, ck
  <2>5. ASSUME NEW st \in seals_in(d.bytes), ~r.ok, t.h = blake2b(blake2b(s.h, c.hs.re), st),
               SealUnder(st, ck, 0, blake2b(s.h, c.hs.re)),
               t.ck = chained(ck, dh(h.s_pk, r.hs.rs))
        PROVE  /\ LastOpened(t.h, below(t.ck), seals_in(m)) /\ t.h[2] = blake2b(s.h, r.hs.re)
               /\ t.ck = chained(chained(s.ck, dh(h.s_pk, r.hs.re)), dh(h.s_pk, r.hs.rs))
    <3>1. st \in seals_in(m) /\ below(t.ck) = ck
      BY <1>3, <2>1, <2>5, Chain
    <3>2. t.h[2] = blake2b(s.h, c.hs.re) /\ t.h[3] = st
      BY <2>5, Hashed
    <3> QED BY <2>3, <2>5, <3>1, <3>2 DEF LastOpened, ck
  <2>6. ASSUME r.ok, NEW st \in seals_in(d.bytes), NEW pl \in seals_in(d.bytes),
               SealUnder(st, ck, 0, blake2b(s.h, c.hs.re)),
               t.ck = chained(ck, dh(h.s_pk, r.hs.rs)),
               SealUnder(pl, t.ck, 0, blake2b(blake2b(s.h, c.hs.re), st)),
               t.h = blake2b(blake2b(blake2b(s.h, c.hs.re), st), pl)
        PROVE  /\ LastOpened(t.h, t.ck, seals_in(m))
               /\ LastOpened(t.h[2], below(t.ck), seals_in(m))
               /\ t.h[2][2] = blake2b(s.h, r.hs.re)
               /\ t.ck = chained(chained(s.ck, dh(h.s_pk, r.hs.re)), dh(h.s_pk, r.hs.rs))
    <3>1. st \in seals_in(m) /\ pl \in seals_in(m) /\ below(t.ck) = ck
      BY <1>3, <2>1, <2>6, Chain
    <3>2. /\ t.h[2] = blake2b(blake2b(s.h, c.hs.re), st) /\ t.h[3] = pl
          /\ t.h[2][2] = blake2b(s.h, c.hs.re) /\ t.h[2][3] = st
      BY <2>6, Hashed
    <3>3. LastOpened(t.h, t.ck, seals_in(m))
      BY <2>6, <3>1, <3>2 DEF LastOpened
    <3>4. LastOpened(t.h[2], below(t.ck), seals_in(m))
      BY <2>6, <3>1, <3>2 DEF LastOpened
    <3> QED BY <2>3, <2>6, <3>2, <3>3, <3>4 DEF ck
  <2> QED BY <2>3, <2>4, <2>5, <2>6 DEF r
<1> QED BY <1>4, <1>5, <1>6

\* Message 2 of IK.
LEMMA IK2Read ==
    ASSUME NEW h, NEW D, NEW P, Points(D, P), NEW m, Message(m, P),
           Session(h, D, P), h.pattern = "IK", h.step = 1
    PROVE  LET r == read_message(h, m)
               s == h.symmetric
               t == r.hs.symmetric
           IN  /\ ~r.ok => r.hs = h \/ (t.h = blake2b(s.h, r.hs.re) /\ r.hs.rs = h.rs)
               /\ r.ok => /\ LastOpened(t.h, t.ck, seals_in(m)) /\ r.hs.rs = h.rs
                          /\ t.h[2] = blake2b(s.h, r.hs.re)
                          /\ t.ck = chained(chained(s.ck, dh(h.e_pk, r.hs.re)), dh(h.e_pk, h.rs))
<1> DEFINE s == h.symmetric
           c == read_e(call(h, m))
           d == mix_dh(c, "e_sk", "re")
           g == mix_dh(d, "e_sk", "rs")
           r == read_message(h, m)
           t == r.hs.symmetric
<1>1. r = advance(read_payload(g))
  BY Steps DEF read_message, is_complete
<1>2. IsHandshake(h) /\ h.e_sk = h.e_pk /\ h.rs # Zero
  BY DEF Session, Object, AfterIK1, Static, Zero
<1>3. /\ IsCall(c) /\ Message(c.bytes, P) /\ seals_in(c.bytes) \subseteq seals_in(m)
      /\ ~c.ok => c.hs = h
      /\ c.ok => /\ c.hs.symmetric.ck = s.ck /\ c.hs.symmetric.h = blake2b(s.h, c.hs.re)
                 /\ SameOwn(c.hs, h) /\ c.hs.rs = h.rs
  BY <1>2, EphemeralIn
<1> HIDE DEF c, r
<1>4. CASE ~c.ok
  <2>1. r = c
    BY <1>1, <1>4, FailedStays
  <2> QED BY <1>3, <1>4, <2>1 DEF r
<1>5. CASE c.ok /\ c.hs.re = Zero
  <2>1. d = failed(c)
    BY <1>5, MixDhZero
  <2>2. ~d.ok /\ d.hs = c.hs
    BY <1>3, <2>1, FailedCall
  <2> HIDE DEF d
  <2>3. r = d
    BY <1>1, <2>2, FailedStays
  <2> QED BY <1>3, <1>5, <2>2, <2>3 DEF r
<1>6. CASE c.ok /\ c.hs.re # Zero
  <2>1. /\ IsCall(d) /\ d.ok /\ d.bytes = c.bytes /\ Kept(d.hs, c.hs)
        /\ d.hs.symmetric.ck = chained(s.ck, dh(h.e_pk, c.hs.re))
        /\ d.hs.symmetric.h = blake2b(s.h, c.hs.re)
    BY <1>2, <1>3, <1>6, DhToken DEF SameOwn
  <2>2. d.hs.e_sk = h.e_pk /\ d.hs.re = c.hs.re /\ d.hs.rs = h.rs
    BY <1>2, <1>3, <1>6, <2>1 DEF Kept, SameOwn
  <2> HIDE DEF d
  <2> DEFINE ck == chained(chained(s.ck, dh(h.e_pk, c.hs.re)), dh(h.e_pk, h.rs))
  <2>3. /\ IsCall(g) /\ g.ok /\ g.bytes = d.bytes /\ Kept(g.hs, d.hs)
        /\ g.hs.symmetric.ck = ck /\ g.hs.symmetric.h = blake2b(s.h, c.hs.re)
        /\ g.hs.symmetric.cipher.n = 0 /\ KeyedBy(g.hs.symmetric)
    BY <1>2, <2>1, <2>2, DhToken
  <2> HIDE DEF g, ck
  <2>4. /\ Held(r.hs, g.hs) /\ t.ck = ck
        /\ ~r.ok => t.h = blake2b(s.h, c.hs.re)
        /\ r.ok => \E v \in seals_in(m) : /\ SealUnder(v, ck, 0, blake2b(s.h, c.hs.re))
                                          /\ t.h = blake2b(blake2b(s.h, c.hs.re), v)
    BY <1>1, <1>3, <2>1, <2>3, LastIn
  <2>5. r.hs.re = c.hs.re /\ r.hs.rs = h.rs
    BY <2>2, <2>3, <2>4 DEF Held, Kept
  <2>6. ASSUME r.ok
        PROVE  LastOpened(t.h, t.ck, seals_in(m)) /\ t.h[2] = blake2b(s.h, r.hs.re)
    <3>1. PICK v \in seals_in(m) : /\ SealUnder(v, ck, 0, blake2b(s.h, c.hs.re))
                                   /\ t.h = blake2b(blake2b(s.h, c.hs.re), v)
      BY <2>4, <2>6
    <3>2. t.h[2] = blake2b(s.h, c.hs.re) /\ t.h[3] = v
      BY <3>1, Hashed
    <3> QED BY <2>4, <2>5, <3>1, <3>2 DEF LastOpened
  <2> QED BY <2>4, <2>5, <2>6 DEF r, ck
<1> QED BY <1>4, <1>5, <1>6
-----------------------------------------------------------------------------
(***************************************************************************)
(* What is known of a message that was written: which secrets are in the   *)
(* chaining keys that it was sealed with, and what its seals were mixed    *)
(* into.  A session of IK that absorbed message 1 without success has the  *)
(* secrets of that message in its chaining key, each over a static key.    *)
(***************************************************************************)
IsEphemeral(t) == t[1] = "ephemeral" /\ t[2] \in Nat

Older(r, e) == r = Garbage \/ (IsEphemeral(r) /\ r[2] < e[2])

IKck(ck) ==
    LET name == protocol_name("IK")
    IN  ck = name \/ (HasStatic(mixed(ck)) /\ (below(ck) = name \/ HasStatic(mixed(below(ck)))))

SecondXX(v) ==
    /\ TwoSeals(v.h, v.ck, 0, v.seals) /\ v.h[2][2][3] = v.eph /\ Older(v.re, v.eph)
    /\ Chained(v.ck, dh(v.self, v.re)) /\ Chained(below(v.ck), dh(v.eph, v.re))

ThirdXX(v) ==
    /\ TwoSeals(v.h, v.ck, 1, v.seals) /\ ~Static(v.re) /\ Static(v.peer)
    /\ Chained(v.ck, dh(v.self, v.re)) /\ Chained(below(v.ck), dh(v.eph, v.peer))
    /\ Chained(below(below(v.ck)), dh(v.eph, v.re))

FirstIK(v) ==
    /\ TwoSeals(v.h, v.ck, 0, v.seals) /\ v.h[2][2][3] = v.eph /\ Static(v.peer)
    /\ Chained(v.ck, dh(v.self, v.peer)) /\ Chained(below(v.ck), dh(v.eph, v.peer))
    /\ IKck(below(below(v.ck)))

SecondIK(v) ==
    /\ OneSeal(v.h, v.ck, v.seals) /\ v.h[2][3] = v.eph /\ Older(v.re, v.eph)
    /\ Chained(v.ck, dh(v.self, v.re)) /\ Chained(below(v.ck), dh(v.eph, v.re))

Shape(v) ==
    /\ Static(v.self) /\ IsEphemeral(v.eph)
    /\ \/ v.pattern = "XX" /\ v.step = 1 /\ v.initiator /\ v.seals = {}
       \/ v.pattern = "XX" /\ v.step = 2 /\ ~v.initiator /\ SecondXX(v)
       \/ v.pattern = "XX" /\ v.step = 3 /\ v.initiator /\ ThirdXX(v)
       \/ v.pattern = "IK" /\ v.step = 1 /\ v.initiator /\ FirstIK(v)
       \/ v.pattern = "IK" /\ v.step = 2 /\ ~v.initiator /\ SecondIK(v)

\* What a writer's object must hold beyond Session.
Ready(h) ==
    LET s == h.symmetric
    IN  /\ h.pattern = "XX" /\ h.step = 2 =>
              /\ s.cipher.n = 1 /\ Chained(s.ck, dh(h.e_pk, h.rs))
              /\ Chained(below(s.ck), dh(h.e_pk, h.re))
        /\ h.pattern = "IK" /\ h.step = 0 => IKck(s.ck)

\* Whose turn it is to write.
LEMMA Turns ==
    ASSUME NEW h, NEW D, NEW P, Session(h, D, P), writer_turn(h), ~is_complete(h)
    PROVE  \/ h.pattern = "XX" /\ h.step = 0 /\ h.initiator
           \/ h.pattern = "XX" /\ h.step = 1 /\ ~h.initiator
           \/ h.pattern = "XX" /\ h.step = 2 /\ h.initiator
           \/ h.pattern = "IK" /\ h.step = 0 /\ h.initiator
           \/ h.pattern = "IK" /\ h.step = 1 /\ ~h.initiator
<1>1. /\ h.pattern \in {"XX", "IK"} /\ h.step \in 0..pattern_total_steps[h.pattern]
      /\ h.initiator \in BOOLEAN
  BY DEF Session, Object
<1>2. CASE h.pattern = "XX"
  <2>1. h.step = 0 \/ h.step = 1 \/ h.step = 2
    BY <1>1, <1>2, Steps DEF is_complete
  <2> QED BY <1>1, <1>2, <2>1 DEF writer_turn
<1>3. CASE h.pattern = "IK"
  <2>1. h.step = 0 \/ h.step = 1
    BY <1>1, <1>3, Steps DEF is_complete
  <2> QED BY <1>1, <1>3, <2>1 DEF writer_turn
<1> QED BY <1>1, <1>2, <1>3

\* The record v of a message w has its shape.
LEMMA WriteShape ==
    ASSUME NEW h, NEW D, NEW P, Points(D, P), Session(h, D, P), Ready(h),
           NEW k, IsEphemeral(k), \A t \in D : IsEphemeral(t) /\ t[2] < k[2],
           writer_turn(h), ~is_complete(h),
           LET w == write_message(h, k) IN w.ok /\ Wrote(w, h, k, D, P),
           NEW e, NEW v, Notes(v, e, "write", write_message(h, k).hs),
           v.seals = seals_in(write_message(h, k).bytes)
    PROVE  Shape(v)
<1> DEFINE w == write_message(h, k)
           s == h.symmetric
           t == w.hs.symmetric
<1>1. /\ w.ok /\ w.hs.step = h.step + 1 /\ SameParty(w.hs, h)
      /\ w.hs.e_pk = IF h.step < 2 THEN k ELSE h.e_pk
  BY DEF Wrote
<1>2. /\ v.pattern = h.pattern /\ v.initiator = h.initiator /\ v.step = h.step + 1
      /\ v.h = t.h /\ v.ck = t.ck /\ v.self = h.s_pk /\ v.peer = w.hs.rs
      /\ v.eph = w.hs.e_pk /\ v.re = w.hs.re /\ v.seals = seals_in(w.bytes)
  BY <1>1 DEF Notes, SameParty
<1>3. /\ Static(h.s_pk) /\ h.e_pk \in D \cup {Zero} /\ h.re \in D \cup {Zero, Garbage}
      /\ \A x \in D : ~Static(x) /\ IsEphemeral(x)
  BY Kinds DEF Session, Object, Points
<1>4. h.re # Zero => Older(h.re, k)
  BY <1>3 DEF Older
<1>5. k[1] = "ephemeral" /\ ~Static(Garbage) /\ ~Static(Zero)
  BY DEF IsEphemeral, Static, Garbage, Zero
<1>6. ~Static(h.re)
  BY <1>3, <1>5
<1>7. CASE h.pattern = "XX" /\ h.step = 0 /\ h.initiator
  <2>1. seals_in(w.bytes) = {}
    BY <1>5, <1>7, XX1Written
  <2> HIDE DEF w
  <2> QED BY <1>1, <1>2, <1>3, <1>7, <2>1 DEF Shape
<1>8. CASE h.pattern = "XX" /\ h.step = 1 /\ ~h.initiator
  <2>1. /\ Carries(w.hs, h, k) /\ h.re # Zero /\ TwoSeals(t.h, t.ck, 0, seals_in(w.bytes))
        /\ t.h[2][2] = blake2b(s.h, k)
        /\ t.ck = chained(chained(s.ck, dh(k, h.re)), dh(h.s_pk, h.re))
    BY <1>1, <1>5, <1>8, XX2Written
  <2> HIDE DEF w
  <2>2. /\ v.re = h.re /\ v.eph = k /\ v.h[2][2][3] = k
    BY <1>2, <2>1, Hashed DEF Carries
  <2>3. Chained(t.ck, dh(h.s_pk, h.re)) /\ Chained(below(t.ck), dh(k, h.re))
    BY <2>1, Chain, ChainedFacts
  <2> QED BY <1>2, <1>3, <1>4, <1>8, <2>1, <2>2, <2>3 DEF Shape, SecondXX
<1>9. CASE h.pattern = "XX" /\ h.step = 2 /\ h.initiator
  <2>1. /\ s.cipher.n = 1 /\ Chained(s.ck, dh(h.e_pk, h.rs)) /\ Chained(below(s.ck), dh(h.e_pk, h.re))
    BY <1>9 DEF Ready
  <2>2. h.e_pk \in D /\ Static(h.rs)
    BY <1>3, <1>9 DEF Session, AfterXX2
  <2>3. /\ Carries(w.hs, h, h.e_pk) /\ TwoSeals(t.h, t.ck, 1, seals_in(w.bytes))
        /\ t.ck = chained(s.ck, dh(h.s_pk, h.re))
    BY <1>9, <2>1, XX3Written
  <2> HIDE DEF w
  <2>4. v.re = h.re /\ v.eph = h.e_pk /\ v.peer = h.rs /\ IsEphemeral(h.e_pk)
    BY <1>2, <1>3, <2>2, <2>3 DEF Carries
  <2>5. Chained(t.ck, dh(h.s_pk, h.re)) /\ below(t.ck) = s.ck
    BY <2>3, Chain, ChainedFacts
  <2> QED BY <1>2, <1>3, <1>6, <1>9, <2>1, <2>2, <2>3, <2>4, <2>5 DEF Shape, ThirdXX
<1>10. CASE h.pattern = "IK" /\ h.step = 0 /\ h.initiator
  <2>1. /\ Carries(w.hs, h, k) /\ TwoSeals(t.h, t.ck, 0, seals_in(w.bytes))
        /\ t.h[2][2] = blake2b(s.h, k)
        /\ t.ck = chained(chained(s.ck, dh(k, h.rs)), dh(h.s_pk, h.rs))
    BY <1>5, <1>10, IK1Written
  <2>2. Static(h.rs) /\ IKck(s.ck)
    BY <1>10 DEF Session, Ready
  <2> HIDE DEF w
  <2>3. v.peer = h.rs /\ v.eph = k /\ v.h[2][2][3] = k
    BY <1>2, <2>1, Hashed DEF Carries
  <2>4. /\ Chained(t.ck, dh(h.s_pk, h.rs)) /\ Chained(below(t.ck), dh(k, h.rs))
        /\ below(below(t.ck)) = s.ck
    BY <2>1, Chain, ChainedFacts
  <2> QED BY <1>2, <1>3, <1>10, <2>1, <2>2, <2>3, <2>4 DEF Shape, FirstIK
<1>11. CASE h.pattern = "IK" /\ h.step = 1 /\ ~h.initiator
  <2>1. /\ Carries(w.hs, h, k) /\ OneSeal(t.h, t.ck, seals_in(w.bytes))
        /\ t.h[2] = blake2b(s.h, k)
        /\ t.ck = chained(chained(s.ck, dh(k, h.re)), dh(h.s_pk, h.re))
    BY <1>5, <1>11, IK2Written
  <2>2. h.re # Zero
    BY <1>11 DEF Session, AfterIK1
  <2> HIDE DEF w
  <2>3. v.re = h.re /\ v.eph = k /\ v.h[2][3] = k
    BY <1>2, <2>1, Hashed DEF Carries
  <2>4. Chained(t.ck, dh(h.s_pk, h.re)) /\ Chained(below(t.ck), dh(k, h.re))
    BY <2>1, Chain, ChainedFacts
  <2> QED BY <1>2, <1>3, <1>4, <1>11, <2>1, <2>2, <2>3, <2>4 DEF Shape, SecondIK
<1> QED BY <1>7, <1>8, <1>9, <1>10, <1>11, Turns

(***************************************************************************)
(* The place of a seal, told from its chaining key and nonce: which        *)
(* message and field it is, and the ephemeral of the session that made it. *)
(***************************************************************************)
newest(s) == CHOOSE t \in s[2] : t # Garbage /\ \A u \in s[2] : u = t \/ Older(u, t)

AllStatic(s) == \A t \in s[2] : Static(t)

slot(ck, n) ==
    IF n = 1 THEN "static of XX 3"
    ELSE IF ~HasStatic(mixed(ck)) THEN "static of XX 2"
    ELSE IF AllStatic(mixed(ck)) THEN "payload of IK 1"
    ELSE IF IKck(below(ck)) THEN "static of IK 1"
    ELSE IF HasStatic(mixed(below(ck))) THEN "payload of XX 3"
    ELSE "payload of 2"

slot_eph(ck, n) ==
    CASE slot(ck, n) \in {"static of XX 3", "static of IK 1"}    -> other_of(mixed(ck))
      [] slot(ck, n) \in {"payload of XX 3", "payload of IK 1"}  -> other_of(mixed(below(ck)))
      [] slot(ck, n) = "static of XX 2"                          -> newest(mixed(ck))
      [] slot(ck, n) = "payload of 2"                            -> newest(mixed(below(ck)))

\* Seal a of the message v lies in slot k.
Lies(v, a, k) ==
    CASE k = "static of XX 2"  -> v.pattern = "XX" /\ v.step = 2 /\ a = v.h[2][3]
      [] k = "static of XX 3"  -> v.pattern = "XX" /\ v.step = 3 /\ a = v.h[2][3]
      [] k = "static of IK 1"  -> v.pattern = "IK" /\ v.step = 1 /\ a = v.h[2][3]
      [] k = "payload of XX 3" -> v.pattern = "XX" /\ v.step = 3 /\ a = v.h[3]
      [] k = "payload of IK 1" -> v.pattern = "IK" /\ v.step = 1 /\ a = v.h[3]
      [] k = "payload of 2"    -> v.step = 2 /\ a = v.h[3]

\* The younger half of a secret of two ephemerals.
LEMMA Newest ==
    \A r, e : IsEphemeral(e) /\ Older(r, e) => newest(dh(e, r)) = e
<1> SUFFICES ASSUME NEW r, NEW e, IsEphemeral(e), Older(r, e)
             PROVE  newest(dh(e, r)) = e
  OBVIOUS
<1> DEFINE Young(t) == t # Garbage /\ \A u \in {e, r} : u = t \/ Older(u, t)
<1>1. dh(e, r)[2] = {e, r}
  BY DEF dh
<1>2. e # Garbage
  BY DEF IsEphemeral, Garbage
<1>3. Young(e)
  BY <1>2
<1>4. ASSUME Young(r)
      PROVE  r = e
  <2> SUFFICES ASSUME r # e PROVE FALSE
    OBVIOUS
  <2>1. Older(e, r) /\ r # Garbage
    BY <1>4
  <2>2. e[2] \in Nat /\ r[2] \in Nat /\ e[2] < r[2] /\ r[2] < e[2]
    BY <1>2, <2>1 DEF Older, IsEphemeral
  <2> QED BY <2>2
<1>5. newest(dh(e, r)) = CHOOSE t \in {e, r} : Young(t)
  BY <1>1 DEF newest
<1>6. \E t \in {e, r} : Young(t)
  BY <1>3
<1> HIDE DEF Young
<1>7. newest(dh(e, r)) \in {e, r} /\ Young(newest(dh(e, r)))
  BY <1>5, <1>6
<1> QED BY <1>4, <1>7

\* Secrets of a static and another key, and of two statics.
LEMMA Mix ==
    \A a, b : /\ Static(a) /\ Static(b) => AllStatic(dh(a, b)) /\ HasStatic(dh(a, b))
              /\ ~Static(b) => ~AllStatic(dh(a, b)) /\ ~AllStatic(dh(b, a))
<1>1. \A a, b : dh(a, b)[2] = {a, b}
  BY DEF dh
<1> QED BY <1>1 DEF AllStatic, HasStatic

\* A chaining key that mix_key made is no protocol name.
LEMMA NotName ==
    \A ck, d, p : Chained(ck, d) => ck # protocol_name(p)
<1>1. \A p : protocol_name(p)[1] = "protocol"
  BY DEF protocol_name
<1> QED BY <1>1, ChainedFacts

\* Every seal of a written message is where its key and nonce say.
LEMMA SealPlace ==
    ASSUME NEW v, Shape(v), NEW a \in v.seals
    PROVE  LET C == ck_of(a[2])
               n == a[3]
           IN  Lies(v, a, slot(C, n)) /\ v.eph = slot_eph(C, n)
<1> DEFINE C == ck_of(a[2])
           n == a[3]
<1>1. Static(v.self) /\ IsEphemeral(v.eph) /\ ~Static(v.eph)
  BY DEF Shape, IsEphemeral, Static
<1>2. \A r : Older(r, v.eph) => ~Static(r)
  BY DEF Older, IsEphemeral, Static, Garbage
<1>3. CASE v.pattern = "XX" /\ v.step = 2 /\ SecondXX(v)
  <2>1. /\ ~Static(v.re) /\ mixed(v.ck) = dh(v.self, v.re) /\ mixed(below(v.ck)) = dh(v.eph, v.re)
        /\ newest(dh(v.eph, v.re)) = v.eph
    BY <1>1, <1>2, <1>3, ChainedFacts, Newest DEF SecondXX
  <2>2. HasStatic(mixed(v.ck)) /\ ~AllStatic(mixed(v.ck)) /\ ~HasStatic(mixed(below(v.ck)))
    BY <1>1, <2>1, Halves, Mix
  <2>3. ~IKck(below(v.ck))
    BY <1>3, <2>2, NotName DEF IKck, SecondXX
  <2>4. CASE a = v.h[3]
    <3>1. C = v.ck /\ n = 0
      BY <1>3, <2>4 DEF SecondXX, TwoSeals, SealUnder
    <3>2. slot(C, n) = "payload of 2"
      BY <2>2, <2>3, <3>1 DEF slot
    <3> QED BY <1>3, <2>1, <2>4, <3>1, <3>2 DEF Lies, slot_eph
  <2>5. CASE a = v.h[2][3]
    <3>1. C = below(v.ck) /\ n = 0
      BY <1>3, <2>5 DEF SecondXX, TwoSeals, SealUnder
    <3>2. slot(C, n) = "static of XX 2"
      BY <2>2, <3>1 DEF slot
    <3> QED BY <1>3, <2>1, <2>5, <3>1, <3>2 DEF Lies, slot_eph
  <2> QED BY <1>3, <2>4, <2>5 DEF SecondXX, TwoSeals
<1>4. CASE v.pattern = "XX" /\ v.step = 3 /\ ThirdXX(v)
  <2>1. /\ ~Static(v.re) /\ Static(v.peer) /\ mixed(v.ck) = dh(v.self, v.re)
        /\ mixed(below(v.ck)) = dh(v.eph, v.peer) /\ mixed(below(below(v.ck))) = dh(v.eph, v.re)
    BY <1>4, ChainedFacts DEF ThirdXX
  <2>2. /\ HasStatic(mixed(v.ck)) /\ ~AllStatic(mixed(v.ck)) /\ HasStatic(mixed(below(v.ck)))
        /\ other_of(mixed(below(v.ck))) = v.eph /\ ~HasStatic(mixed(below(below(v.ck))))
    BY <1>1, <2>1, Halves, Mix
  <2>3. ~IKck(below(v.ck))
    BY <1>4, <2>2, NotName DEF IKck, ThirdXX
  <2>4. CASE a = v.h[3]
    <3>1. C = v.ck /\ n = 0
      BY <1>4, <2>4 DEF ThirdXX, TwoSeals, SealUnder
    <3>2. slot(C, n) = "payload of XX 3"
      BY <2>2, <2>3, <3>1 DEF slot
    <3> QED BY <1>4, <2>2, <2>4, <3>1, <3>2 DEF Lies, slot_eph
  <2>5. CASE a = v.h[2][3]
    <3>1. C = below(v.ck) /\ n = 1
      BY <1>4, <2>5 DEF ThirdXX, TwoSeals, SealUnder
    <3>2. slot(C, n) = "static of XX 3"
      BY <3>1 DEF slot
    <3> QED BY <1>4, <2>2, <2>5, <3>1, <3>2 DEF Lies, slot_eph
  <2> QED BY <1>4, <2>4, <2>5 DEF ThirdXX, TwoSeals
<1>5. CASE v.pattern = "IK" /\ v.step = 1 /\ FirstIK(v)
  <2>1. /\ Static(v.peer) /\ mixed(v.ck) = dh(v.self, v.peer)
        /\ mixed(below(v.ck)) = dh(v.eph, v.peer) /\ IKck(below(below(v.ck)))
    BY <1>5, ChainedFacts DEF FirstIK
  <2>2. /\ HasStatic(mixed(v.ck)) /\ AllStatic(mixed(v.ck))
        /\ HasStatic(mixed(below(v.ck))) /\ ~AllStatic(mixed(below(v.ck)))
        /\ other_of(mixed(below(v.ck))) = v.eph
    BY <1>1, <2>1, Halves, Mix
  <2>3. CASE a = v.h[3]
    <3>1. C = v.ck /\ n = 0
      BY <1>5, <2>3 DEF FirstIK, TwoSeals, SealUnder
    <3>2. slot(C, n) = "payload of IK 1"
      BY <2>2, <3>1 DEF slot
    <3> QED BY <1>5, <2>2, <2>3, <3>1, <3>2 DEF Lies, slot_eph
  <2>4. CASE a = v.h[2][3]
    <3>1. C = below(v.ck) /\ n = 0
      BY <1>5, <2>4 DEF FirstIK, TwoSeals, SealUnder
    <3>2. slot(C, n) = "static of IK 1"
      BY <2>1, <2>2, <3>1 DEF slot
    <3> QED BY <1>5, <2>2, <2>4, <3>1, <3>2 DEF Lies, slot_eph
  <2> QED BY <1>5, <2>3, <2>4 DEF FirstIK, TwoSeals
<1>6. CASE v.pattern = "IK" /\ v.step = 2 /\ SecondIK(v)
  <2>1. /\ ~Static(v.re) /\ mixed(v.ck) = dh(v.self, v.re) /\ mixed(below(v.ck)) = dh(v.eph, v.re)
        /\ newest(dh(v.eph, v.re)) = v.eph
    BY <1>1, <1>2, <1>6, ChainedFacts, Newest DEF SecondIK
  <2>2. HasStatic(mixed(v.ck)) /\ ~AllStatic(mixed(v.ck)) /\ ~HasStatic(mixed(below(v.ck)))
    BY <1>1, <2>1, Halves, Mix
  <2>3. ~IKck(below(v.ck))
    BY <1>6, <2>2, NotName DEF IKck, SecondIK
  <2>4. a = v.h[3] /\ C = v.ck /\ n = 0
    BY <1>6 DEF SecondIK, OneSeal, SealUnder
  <2>5. slot(C, n) = "payload of 2"
    BY <2>2, <2>3, <2>4 DEF slot
  <2> QED BY <1>6, <2>1, <2>4, <2>5 DEF Lies, slot_eph
<1> QED BY <1>3, <1>4, <1>5, <1>6 DEF Shape
-----------------------------------------------------------------------------
(***************************************************************************)
(* Nonces.  Every message on record that was written has its shape, and a  *)
(* session of IK before its first message has the chaining key that the    *)
(* shape needs.                                                            *)
(***************************************************************************)
FirstKey(h) == h.pattern = "IK" /\ h.step = 0 => IKck(h.symmetric.ck)

FirstKeys == \A e \in Endpoint : state[e] = "open" /\ ~split_done[e] => FirstKey(hs[e])

Shaped == \A v \in events : (v.kind = "write" => Shape(v)) /\ (v.kind # "write" => v.seals = {})

NonceInv == SessionInv /\ FirstKeys /\ Shaped

\* A message that was read with success is used up.
LEMMA ReadNoBytes ==
    ASSUME NEW h, NEW m, read_message(h, m).ok
    PROVE  read_message(h, m).bytes = NoBytes
<1> DEFINE Has(c) == "bytes" \in DOMAIN c /\ "ok" \in DOMAIN c
           c == call(h, m)
<1>1. Has(c)
  BY DEF call
<1>2. \A b : Has(b) => Has(failed(b)) /\ ~failed(b).ok
  BY DEF failed
<1>3. \A b, sk, pk : Has(b) => Has(mix_dh(b, sk, pk))
  BY <1>2 DEF mix_dh
<1>4. Has(read_e(c))
  BY <1>1, <1>2 DEF read_e
<1>5. \A b : Has(b) => Has(read_encrypted_static(b))
  <2> SUFFICES ASSUME NEW b, Has(b) PROVE Has(read_encrypted_static(b))
    OBVIOUS
  <2>1. \A s : Has([b EXCEPT !.hs.symmetric = s])
    OBVIOUS
  <2>2. \A s, x, r : Has([b EXCEPT !.hs.symmetric = s, !.hs.rs = x, !.hs.rs_known = TRUE, !.bytes = r])
    OBVIOUS
  <2> HIDE DEF Has
  <2> QED BY <1>2, <2>1, <2>2 DEF read_encrypted_static
<1>6. \A b : Has(b) /\ advance(read_payload(b)).ok => advance(read_payload(b)).bytes = NoBytes
  <2> SUFFICES ASSUME NEW b, Has(b), advance(read_payload(b)).ok
               PROVE  advance(read_payload(b)).bytes = NoBytes
    OBVIOUS
  <2>1. read_payload(b).ok
    BY DEF advance
  <2>2. b.ok
    BY <2>1, FailedStays
  <2>3. Has(read_payload(b)) /\ read_payload(b).bytes = NoBytes
    BY <2>2 DEF read_payload
  <2> QED BY <2>1, <2>3 DEF advance
<1> HIDE DEF c
<1>7. ~is_complete(h)
  BY <1>1, <1>2 DEF read_message, c
<1> HIDE DEF Has
<1>8. \E b : Has(b) /\ read_message(h, m) = advance(read_payload(b))
  <2>1. CASE h.step = 0 /\ h.pattern = "IK"
    <3>1. read_message(h, m) = advance(read_payload(
             mix_dh(read_encrypted_static(mix_dh(read_e(c), "s_sk", "re")), "s_sk", "rs")))
      BY <1>7, <2>1 DEF read_message, c
    <3>2. Has(mix_dh(read_encrypted_static(mix_dh(read_e(c), "s_sk", "re")), "s_sk", "rs"))
      BY <1>3, <1>4, <1>5
    <3> QED BY <3>1, <3>2
  <2>2. CASE h.step = 0 /\ h.pattern = "XX"
    BY <1>4, <1>7, <2>2 DEF read_message, c
  <2>3. CASE h.step = 1 /\ h.pattern = "IK"
    <3>1. read_message(h, m) = advance(read_payload(
             mix_dh(mix_dh(read_e(c), "e_sk", "re"), "e_sk", "rs")))
      BY <1>7, <2>3 DEF read_message, c
    <3>2. Has(mix_dh(mix_dh(read_e(c), "e_sk", "re"), "e_sk", "rs"))
      BY <1>3, <1>4
    <3> QED BY <3>1, <3>2
  <2>4. CASE h.step = 1 /\ h.pattern = "XX"
    <3>1. read_message(h, m) = advance(read_payload(
             mix_dh(read_encrypted_static(mix_dh(read_e(c), "e_sk", "re")), "e_sk", "rs")))
      BY <1>7, <2>4 DEF read_message, c
    <3>2. Has(mix_dh(read_encrypted_static(mix_dh(read_e(c), "e_sk", "re")), "e_sk", "rs"))
      BY <1>3, <1>4, <1>5
    <3> QED BY <3>1, <3>2
  <2>5. CASE h.step = 2
    <3>1. read_message(h, m) = advance(read_payload(mix_dh(read_encrypted_static(c), "e_sk", "rs")))
      BY <1>7, <2>5 DEF read_message, c
    <3>2. Has(mix_dh(read_encrypted_static(c), "e_sk", "rs"))
      BY <1>1, <1>3, <1>5
    <3> QED BY <3>1, <3>2
  <2>6. CASE /\ ~(h.step = 0 /\ h.pattern = "IK") /\ ~(h.step = 0 /\ h.pattern = "XX")
             /\ ~(h.step = 1 /\ h.pattern = "IK") /\ ~(h.step = 1 /\ h.pattern = "XX")
             /\ h.step # 2
    <3>1. read_message(h, m) = advance(read_payload(failed(c)))
      BY <1>7, <2>6 DEF read_message, c
    <3> QED BY <1>1, <1>2, <3>1
  <2> QED BY <2>1, <2>2, <2>3, <2>4, <2>5, <2>6
<1> QED BY <1>6, <1>8

\* event records the seals of the bytes that were written, and none of those
\* that were read.
LEMMA EventSeals ==
    /\ \A e, kind, c : event(e, kind, c).seals = seals_in(c.bytes)
    /\ \A e, h, m : read_message(h, m).ok => event(e, "read", read_message(h, m)).seals = {}
<1>1. \A e, kind, c : event(e, kind, c).seals = seals_in(c.bytes)
  BY DEF event, seals_in
<1> QED BY <1>1, ReadNoBytes, SealsNone

\* A secret over a static key more keeps the chaining key one of IK.
LEMMA IKckGrows ==
    \A ck, s, x : IKck(ck) /\ Static(s) => IKck(chained(ck, dh(s, x)))
<1> SUFFICES ASSUME NEW ck, NEW s, NEW x, IKck(ck), Static(s)
             PROVE  IKck(chained(ck, dh(s, x)))
  OBVIOUS
<1>1. mixed(chained(ck, dh(s, x))) = dh(s, x) /\ below(chained(ck, dh(s, x))) = ck
  BY Chain
<1>2. HasStatic(dh(s, x))
  BY Halves
<1> QED BY <1>1, <1>2 DEF IKck

\* A message 1 that does not read leaves a chaining key of IK.
LEMMA ReadFirstKey ==
    ASSUME NEW h, NEW D, NEW P, Points(D, P), NEW m, Message(m, P), Session(h, D, P),
           FirstKey(h), Read(read_message(h, m), h, D, P)
    PROVE  FirstKey(read_message(h, m).hs)
<1> DEFINE r == read_message(h, m)
           s == h.symmetric
           t == r.hs.symmetric
<1> SUFFICES ASSUME r.hs.pattern = "IK", r.hs.step = 0
             PROVE  IKck(t.ck)
  BY DEF FirstKey
<1>1. h.pattern = "IK" /\ h.step \in Nat /\ Static(h.s_pk)
  BY Steps DEF Read, SameParty, Session, Object
<1>2. h.step = 0 /\ ~r.ok
  BY <1>1 DEF Read
<1>3. IKck(s.ck)
  BY <1>1, <1>2 DEF FirstKey
<1> DEFINE mid == chained(s.ck, dh(h.s_pk, r.hs.re))
<1>4. r.hs = h \/ t.ck = s.ck \/ t.ck = mid \/ t.ck = chained(mid, dh(h.s_pk, r.hs.rs))
  BY <1>1, <1>2, IK1Read
<1>5. IKck(mid)
  BY <1>1, <1>3, IKckGrows
<1> HIDE DEF mid, r
<1>6. IKck(chained(mid, dh(h.s_pk, r.hs.rs)))
  BY <1>1, <1>5, IKckGrows
<1> QED BY <1>3, <1>4, <1>5, <1>6

\* Whoever has just read a message is ready to write.
LEMMA ReadReady ==
    ASSUME NEW h, NEW D, NEW P, Points(D, P), NEW m, Message(m, P), Session(h, D, P),
           read_message(h, m).ok, Read(read_message(h, m), h, D, P)
    PROVE  Ready(read_message(h, m).hs)
<1> DEFINE r == read_message(h, m)
           s == h.symmetric
           t == r.hs.symmetric
<1>1. h.step \in Nat /\ r.hs.step = h.step + 1 /\ r.hs.pattern = h.pattern /\ r.hs.e_pk = h.e_pk
  BY Steps DEF Read, SameParty, Session, Object
<1>2. CASE h.pattern = "XX" /\ h.step = 1
  <2>1. /\ t.cipher.n = 1
        /\ t.ck = chained(chained(s.ck, dh(h.e_pk, r.hs.re)), dh(h.e_pk, r.hs.rs))
    BY <1>2, XX2Read
  <2> HIDE DEF r
  <2>2. Chained(t.ck, dh(h.e_pk, r.hs.rs)) /\ Chained(below(t.ck), dh(h.e_pk, r.hs.re))
    BY <2>1, Chain, ChainedFacts
  <2> QED BY <1>1, <1>2, <2>1, <2>2 DEF Ready, r
<1>3. CASE ~(h.pattern = "XX" /\ h.step = 1)
  BY <1>1, <1>3 DEF Ready
<1> QED BY <1>2, <1>3

\* A session at rest is as ready as its first key.
LEMMA RestsReady ==
    ASSUME NEW h, h.initiator \in BOOLEAN, Rests(h), writer_turn(h), FirstKey(h)
    PROVE  Ready(h)
<1>1. ~(h.pattern = "XX" /\ h.step = 2)
  BY DEF Rests, writer_turn
<1> QED BY <1>1 DEF Ready, FirstKey

\* A message that is written keeps the record in shape.
LEMMA WriteNonce ==
    ASSUME NonceInv, NEW e \in Endpoint, state[e] = "open", ~split_done[e],
           ~is_complete(hs[e]), NEW h, NEW M, Before(e, h, M), writer_turn(h), ~is_complete(h),
           Ready(h), \A v \in M : v.seals = {}, NEW inbound, NEW oom \in BOOLEAN,
           write_branch(e, h, inbound, M, oom)
    PROVE  FirstKeys' /\ Shaped'
<1> DEFINE k == generate_keypair(ephemerals + 1)
           w == write_message(h, k)
           x == event(e, "write", w)
<1>1. Points(drawn, sent) /\ ephemerals \in Nat /\ Session(h, drawn, sent)
  BY SentDrawn, SessionAssumption DEF NonceInv, SessionInv, Flags, Before
<1>2. k \notin drawn /\ k[1] = "ephemeral" /\ k \notin sent
  BY <1>1, Drawn DEF Points
<1>3. IsEphemeral(k) /\ \A t \in drawn : IsEphemeral(t) /\ t[2] < k[2]
  <2>1. k[1] = "ephemeral" /\ k[2] = ephemerals + 1
    BY DEF generate_keypair
  <2>2. \A t \in drawn : \E i \in 1..ephemerals : t[1] = "ephemeral" /\ t[2] = i
    BY DEF drawn, generate_keypair
  <2> QED BY <1>1, <2>1, <2>2 DEF IsEphemeral
<1>4. /\ hs' = [hs EXCEPT ![e] = w.hs] /\ state' = state /\ split_done' = split_done
      /\ events' = (events \cup M) \cup (IF w.ok THEN {x} ELSE {})
  BY DEF write_branch
<1> HIDE DEF k
<1>5. (w.ok /\ Wrote(w, h, k, drawn, sent)) \/ (~w.ok /\ WriteFailed(w, h, k, drawn, sent))
  BY <1>1, <1>2, WriteSession
<1>6. Notes(x, e, "write", w.hs) /\ x.seals = seals_in(w.bytes)
  BY EventNotes, EventSeals
<1> HIDE DEF x
<1>7. w.ok => Shape(x)
  <2> SUFFICES ASSUME w.ok PROVE Shape(x)
    OBVIOUS
  <2>1. Wrote(w, h, k, drawn, sent)
    BY <1>5
  <2> QED BY <1>1, <1>3, <1>6, <2>1, WriteShape
<1> HIDE DEF w
<1>8. w.hs.step # 0
  <2>1. h.step \in Nat
    BY <1>1, Steps DEF Session, Object
  <2> QED BY <1>5, <2>1 DEF Wrote, WriteFailed
<1>9. FirstKeys'
  <2>1. \A f \in Endpoint : hs'[f] = IF f = e THEN w.hs ELSE hs[f]
    BY <1>4 DEF NonceInv, SessionInv, Objects
  <2> QED BY <1>4, <1>8, <2>1 DEF NonceInv, FirstKeys, FirstKey
<1>10. Shaped'
  <2>1. \A v \in M : v.kind = "read"
    BY DEF Before
  <2>2. x.kind = "write"
    BY <1>6 DEF Notes
  <2> QED BY <1>4, <1>7, <2>1, <2>2 DEF NonceInv, Shaped
<1> QED BY <1>9, <1>10

\* Nothing is written or read, and no session is before its first message
\* that was not.
LEMMA NonceQuiet ==
    ASSUME NonceInv, events' = events,
           \A f \in Endpoint : state'[f] = "open" /\ ~split_done'[f] =>
               FirstKey(hs'[f]) \/ (state[f] = "open" /\ ~split_done[f] /\ hs'[f] = hs[f])
    PROVE  FirstKeys' /\ Shaped'
<1>1. FirstKeys'
  BY DEF NonceInv, FirstKeys
<1> QED BY <1>1 DEF NonceInv, Shaped

\* handshake_step preserves the shapes.
LEMMA NonceStep ==
    ASSUME NonceInv, NEW e \in Endpoint, handshake_step(e)
    PROVE  FirstKeys' /\ Shaped'
<1> USE DEF NonceInv
<1>1. ASSUME NEW oom \in BOOLEAN, step_without_input(e, oom)
      PROVE  FirstKeys' /\ Shaped'
  <2>1. state[e] = "open" /\ writer_turn(hs[e]) /\ write_branch(e, hs[e], chan, {}, oom)
    BY <1>1 DEF step_without_input
  <2>2. CASE is_complete(hs[e])
    <3> DEFINE w == write_message(hs[e], generate_keypair(ephemerals + 1))
    <3>1. ~w.ok /\ w.hs = hs[e]
      BY <2>1, <2>2, OpenSession, CompleteRefuses
    <3>2. /\ hs' = [hs EXCEPT ![e] = w.hs] /\ UNCHANGED <<state, split_done>>
          /\ ~w.ok => events' = (events \cup {}) \cup {}
      BY <2>1 DEF write_branch
    <3> HIDE DEF w
    <3>3. events' = events /\ \A f \in Endpoint : hs'[f] = hs[f]
      BY <3>1, <3>2 DEF SessionInv, Objects
    <3> QED BY <3>2, <3>3, NonceQuiet
  <2>3. CASE ~is_complete(hs[e])
    <3>1. ~split_done[e] /\ Session(hs[e], drawn, sent) /\ Rests(hs[e])
      BY <2>1, <2>3, OpenSession
    <3>2. Before(e, hs[e], {})
      <4>1. hs[e].step <= hs[e].step
        BY <3>1, Steps DEF Session, Object
      <4> QED BY <3>1, <4>1 DEF Before, SameParty
    <3>3. Ready(hs[e])
      BY <2>1, <3>1, RestsReady DEF FirstKeys, Session, Object
    <3> QED BY <2>1, <2>3, <3>1, <3>2, <3>3, WriteNonce
  <2> QED BY <2>2, <2>3
<1>2. ASSUME NEW oom \in BOOLEAN, step_read_and_write(e, oom)
      PROVE  FirstKeys' /\ Shaped'
  <2> DEFINE m == Head(chan[e])
             r == read_message(hs[e], m)
             q == [chan EXCEPT ![e] = Tail(@)]
  <2>1. /\ state[e] = "open" /\ chan[e] # <<>> /\ ~no_write_after(r)
        /\ write_branch(e, r.hs, q, {event(e, "read", r)}, oom)
    BY <1>2 DEF step_read_and_write
  <2>2. Message(m, sent)
    BY <2>1, Popped
  <2> HIDE DEF m, q
  <2>3. r.ok /\ writer_turn(r.hs) /\ ~is_complete(r.hs)
    BY <2>1 DEF no_write_after
  <2>4. ~is_complete(hs[e])
    BY <2>1, <2>3, OpenSession, CompleteRefuses
  <2>5. /\ Before(e, r.hs, {event(e, "read", r)}) /\ Read(r, hs[e], drawn, sent)
        /\ ~split_done[e] /\ Session(hs[e], drawn, sent) /\ Points(drawn, sent)
    BY <2>1, <2>2, <2>3, <2>4, ReadProgress, OpenSession, SentDrawn DEF SessionInv
  <2>6. Ready(r.hs)
    BY <2>2, <2>3, <2>5, ReadReady
  <2>7. event(e, "read", r).seals = {}
    BY <2>3, EventSeals
  <2> HIDE DEF r
  <2> QED BY <2>1, <2>3, <2>4, <2>5, <2>6, <2>7, WriteNonce
<1>3. ASSUME step_read_only(e)
      PROVE  FirstKeys' /\ Shaped'
  <2> DEFINE m == Head(chan[e])
             r == read_message(hs[e], m)
             x == event(e, "read", r)
  <2>1. /\ state[e] = "open" /\ chan[e] # <<>>
        /\ hs' = [hs EXCEPT ![e] = r.hs] /\ events' = events \cup (IF r.ok THEN {x} ELSE {})
        /\ UNCHANGED <<state, split_done>>
    BY <1>3 DEF step_read_only
  <2>2. Message(m, sent)
    BY <2>1, Popped
  <2> HIDE DEF m
  <2>3. x.kind = "read" /\ (r.ok => x.seals = {})
    BY EventSeals, EventNotes DEF Notes
  <2>4. Shaped'
    <3> HIDE DEF r, x
    <3> QED BY <2>1, <2>3 DEF Shaped
  <2>5. \A f \in Endpoint : hs'[f] = IF f = e THEN r.hs ELSE hs[f]
    BY <2>1 DEF SessionInv, Objects
  <2>6. ~split_done[e] => FirstKey(r.hs)
    <3>1. CASE is_complete(hs[e])
      <4>1. r.hs = hs[e]
        BY <2>1, <3>1, OpenSession, CompleteRefuses
      <4> QED BY <2>1, <4>1 DEF FirstKeys
    <3>2. CASE ~is_complete(hs[e])
      <4>1. /\ Session(hs[e], drawn, sent) /\ Points(drawn, sent) /\ ~split_done[e]
            /\ Read(r, hs[e], drawn, sent)
        BY <2>1, <2>2, <3>2, ReadProgress, OpenSession, SentDrawn DEF SessionInv
      <4> QED BY <2>1, <2>2, <4>1, ReadFirstKey DEF FirstKeys
    <3> QED BY <3>1, <3>2
  <2> HIDE DEF r
  <2>7. FirstKeys'
    BY <2>1, <2>5, <2>6 DEF FirstKeys
  <2> QED BY <2>4, <2>7
<1> QED BY <1>1, <1>2, <1>3 DEF handshake_step

\* The object that the constructor leaves.
LEMMA ConstructedKey ==
    ASSUME NEW p \in {"XX", "IK"}, NEW i \in BOOLEAN, NEW s, NEW rs
    PROVE  construct(p, i, s, rs).symmetric.ck = protocol_name(p)
  BY DEF construct, mix_hash, initialize

\* Every step of the sessions and of the link keeps it.
LEMMA NonceNext == NonceInv /\ [Next]_vars => NonceInv'
<1> SUFFICES ASSUME NonceInv, [Next]_vars PROVE NonceInv'
  OBVIOUS
<1> USE DEF NonceInv
<1>1. SessionInv'
  BY SessionNext
<1> SUFFICES FirstKeys' /\ Shaped'
  BY <1>1
<1>2. ASSUME NEW e \in Endpoint, NEW args \in OpenArgs[e], handshake_open(e, args)
      PROVE  FirstKeys' /\ Shaped'
  <2> DEFINE s  == ed25519_to_x25519(args.local)
             rs == IF pins_remote(args) THEN ed25519_to_x25519(args.remote) ELSE Empty
             g  == construct(args.pattern, args.initiator, s, rs)
  <2>1. /\ events' = events /\ hs' = [hs EXCEPT ![e] = g]
        /\ state' = [state EXCEPT ![e] = "open"]
        /\ split_done' = [split_done EXCEPT ![e] = FALSE]
    BY <1>2 DEF handshake_open
  <2>2. g.pattern = args.pattern /\ g.symmetric.ck = protocol_name(args.pattern)
    <3>1. args.pattern \in {"XX", "IK"} /\ args.initiator \in BOOLEAN
      BY SessionAssumption
    <3>2. g.pattern = args.pattern
      BY DEF construct
    <3> HIDE DEF s, rs
    <3> QED BY <3>1, <3>2, ConstructedKey
  <2> HIDE DEF g
  <2>3. FirstKey(g)
    BY <2>2 DEF FirstKey, IKck
  <2>4. \A f \in Endpoint : /\ hs'[f] = IF f = e THEN g ELSE hs[f]
                            /\ f # e => state'[f] = state[f] /\ split_done'[f] = split_done[f]
    BY <2>1 DEF SessionInv, Objects, Flags
  <2> QED BY <2>1, <2>3, <2>4, NonceQuiet
<1>3. ASSUME NEW e \in Endpoint, handshake_step(e)
      PROVE  FirstKeys' /\ Shaped'
  BY <1>3, NonceStep
<1>4. ASSUME NEW e \in Endpoint, export_transport_keys(e)
      PROVE  FirstKeys' /\ Shaped'
  <2>1. /\ events' = events /\ state' = state /\ split_done' = [split_done EXCEPT ![e] = TRUE]
        /\ hs' = [hs EXCEPT ![e] = handshake_split(hs[e]).hs]
    BY <1>4 DEF export_transport_keys
  <2>2. \A f \in Endpoint : IF f = e THEN split_done'[f]
                            ELSE hs'[f] = hs[f] /\ split_done'[f] = split_done[f]
    BY <2>1 DEF SessionInv, Objects, Flags
  <2> QED BY <2>1, <2>2, NonceQuiet
<1>5. ASSUME NEW e \in Endpoint, handshake_close(e)
      PROVE  FirstKeys' /\ Shaped'
  <2>1. /\ events' = events /\ state' = [state EXCEPT ![e] = "none"] /\ split_done' = split_done
        /\ hs' = [hs EXCEPT ![e] = destroyed(@)]
    BY <1>5 DEF handshake_close
  <2>2. \A f \in Endpoint : IF f = e THEN state'[f] = "none"
                            ELSE hs'[f] = hs[f] /\ state'[f] = state[f]
    BY <2>1 DEF SessionInv, Objects, Flags
  <2> QED BY <2>1, <2>2, NonceQuiet
<1>6. ASSUME NEW e \in Endpoint, link(e)
      PROVE  FirstKeys' /\ Shaped'
  <2>1. link_only
    BY <1>6 DEF link, lose, duplicate, reorder, damage, truncate, extend
  <2> QED BY <2>1, NonceQuiet DEF link_only
<1>7. CASE UNCHANGED vars
  BY <1>7, NonceQuiet DEF vars
<1> QED BY <1>2, <1>3, <1>4, <1>5, <1>6, <1>7 DEF Next

\* First keys and the form of what was recorded hold in every state of the
\* handshake sessions: what handshake_step has sealed shows its session, its
\* message and its field.
THEOREM NonceInvariant == Spec => []NonceInv
<1>1. Init => NonceInv
  BY SessionInit DEF Init, NonceInv, FirstKeys, Shaped
<1> QED BY <1>1, NonceNext, PTL DEF Spec

\* Two handshake ciphertexts never share a key and a nonce: the key and the
\* nonce of a seal tell the session (by its ephemeral), the message and the
\* field that it comes from, and a session takes each step once.
THEOREM NoncesUnique == Spec => []HandshakeNoncesUnique
<1>1. NonceInv => HandshakeNoncesUnique
  <2> SUFFICES ASSUME NonceInv, NEW v \in events, NEW w \in events,
                      NEW a \in v.seals, NEW b \in w.seals, a[2] = b[2], a[3] = b[3]
               PROVE  a = b
    BY DEF HandshakeNoncesUnique
  <2> DEFINE C == ck_of(a[2])
             n == a[3]
             k == slot(C, n)
  <2>1. Shape(v) /\ Shape(w)
    BY DEF NonceInv, Shaped
  <2>2. Lies(v, a, k) /\ v.eph = slot_eph(C, n) /\ Lies(w, b, k) /\ w.eph = slot_eph(C, n)
    BY <2>1, SealPlace
  <2>3. v.eph # Zero
    BY <2>1 DEF Shape, IsEphemeral, Zero
  <2>4. same_session(v, w)
    BY <2>2, <2>3 DEF NonceInv, SessionInv, EphemeralsUnique
  <2>5. v.step = w.step => v = w
    BY <2>4 DEF NonceInv, SessionInv, StepsOnce
  <2>6. k \in {"static of XX 2", "static of XX 3", "static of IK 1", "payload of XX 3",
               "payload of IK 1", "payload of 2"}
    BY DEF slot
  <2> HIDE DEF k
  <2> QED BY <2>2, <2>5, <2>6 DEF Lies
<1> QED BY <1>1, NonceInvariant, PTL
-----------------------------------------------------------------------------
(***************************************************************************)
(* Authenticity.  What is on the wire was written, and the hash of every   *)
(* session between two calls (and between the read and the write of one    *)
(* call) is a transcript of its pattern; how long it is tells whether a    *)
(* failed call has added to it.                                            *)
(*                                                                         *)
(* Before the first message of IK the hash may have grown by messages that *)
(* did not read; b is such a hash, with chaining key ck, of the owner of   *)
(* static key s: its last value is the pinned static, a low-order point, a *)
(* sealed static, or a point whose secret with s is the last in ck.        *)
(***************************************************************************)
written == UNION {v.seals : v \in events}

Carried == \A e \in Endpoint : \A m \in elements(chan[e]) : seals_in(m) \subseteq written

IKBase(b, ck, s) == Static(b[3]) \/ b[3] = Zero \/ is_seal(b[3]) \/ mixed(ck) = dh(s, b[3])

\* Waiting for a message; p says that a failed call has changed the object.
AtXX1(h, p) ==
    \/ h.initiator /\ h.e_pk = Zero
    \/ h.initiator /\ \E n \in Nat : Transcript(h.symmetric.h, "XX", h.e_pk, n) /\ n >= 1 /\ (p => n >= 2)
    \/ ~h.initiator /\ \E n \in Nat : Transcript(h.symmetric.h, "XX", Zero, n)

AtXX2(h, p) ==
    /\ IsFun(h)
    /\ \E a : \E n \in Nat : /\ Transcript(h.symmetric.h, "XX", a, n)
                             /\ a = Zero \/ (n >= 4 /\ (p => n >= 5))

AtIK0(h, p) ==
    LET s == h.symmetric
    IN  /\ IKBase(s.h, s.ck, h.s_pk) /\ (p => ~Static(s.h[3]))
        /\ \E n \in Nat : Transcript(s.h, "IK", IF h.initiator THEN h.rs ELSE h.s_pk, n)
        /\ h.initiator => h.rs # h.s_pk /\ ~is_seal(s.h[3])

AtIK1(h, p) ==
    LET s == h.symmetric
        b == s.h[2][2][2]
    IN  /\ h.rs # h.s_pk /\ \E n \in Nat : Transcript(s.h, "IK", h.rs, n)
        /\ is_seal(s.h[3]) => /\ IKBase(b, below(below(s.ck)), h.s_pk)
                              /\ ~is_seal(b[3]) /\ (p => ~Static(b[3]))

Trail(h, p) ==
    /\ h.pattern = "XX" /\ h.step = 0 =>
          h.symmetric.h = prologue_hash("XX") /\ h.e_pk = Zero /\ ~p
    /\ h.pattern = "XX" /\ h.step = 1 => AtXX1(h, p)
    /\ h.pattern = "XX" /\ h.step = 2 => AtXX2(h, p)
    /\ h.pattern = "IK" /\ h.step = 0 => AtIK0(h, p)
    /\ h.pattern = "IK" /\ h.step = 1 => AtIK1(h, p)

\* About to write.
DueXX2(h, p) ==
    \E a : \E n \in Nat : /\ Transcript(h.symmetric.h, "XX", a, n)
                          /\ a = Zero \/ (n = 1 /\ ~p /\ h.re # Zero)

DueXX3(h, p) == Transcript(h.symmetric.h, "XX", h.e_pk, 4) /\ ~p

DueIK2(h, p) ==
    LET s == h.symmetric
        b == s.h[2][2][2]
    IN  /\ \E n \in Nat : Transcript(s.h, "IK", h.s_pk, n)
        /\ is_seal(s.h[3]) /\ IKBase(b, below(below(s.ck)), h.s_pk) /\ (p => b[3] = Zero)

Due(h, p) ==
    /\ h.pattern = "XX" /\ h.step = 0 =>
          h.symmetric.h = prologue_hash("XX") /\ h.e_pk = Zero /\ ~p
    /\ h.pattern = "XX" /\ h.step = 1 => DueXX2(h, p)
    /\ h.pattern = "XX" /\ h.step = 2 => DueXX3(h, p)
    /\ h.pattern = "IK" /\ h.step = 0 => AtIK0(h, p)
    /\ h.pattern = "IK" /\ h.step = 1 => DueIK2(h, p)

\* A message on record that was written.
WrittenTrail(v) ==
    /\ v.pattern = "XX" /\ v.step = 2 =>
          \E a : \E n \in Nat : Transcript(v.h, "XX", a, n) /\ (a = Zero \/ n = 4)
    /\ v.pattern = "XX" /\ v.step = 3 => Transcript(v.h, "XX", v.eph, 6)
    /\ v.pattern = "IK" /\ v.step = 1 =>
          /\ v.self # v.peer /\ \E n \in Nat : Transcript(v.h, "IK", v.peer, n)
          /\ IKBase(v.h[2][2][2], below(below(v.ck)), v.self) /\ ~is_seal(v.h[2][2][2][3])
    /\ v.pattern = "IK" /\ v.step = 2 =>
          /\ \E n \in Nat : Transcript(v.h, "IK", v.self, n)
          /\ is_seal(v.h[2][2][3])
          /\ IKBase(v.h[2][2][2][2][2], below(below(below(below(v.ck)))), v.self)

\* The hash grows by two and by three values.
LEMMA TranscriptLonger ==
    ASSUME NEW h, NEW p, NEW a, NEW n \in Nat, Transcript(h, p, a, n), NEW x, NEW y, NEW z
    PROVE  /\ Transcript(blake2b(h, x), p, a, n + 1)
           /\ Transcript(blake2b(blake2b(h, x), y), p, a, n + 2)
           /\ Transcript(blake2b(blake2b(blake2b(h, x), y), z), p, a, n + 3)
<1>1. Transcript(blake2b(h, x), p, a, n + 1) /\ n + 1 \in Nat
  BY TranscriptGrows
<1>2. Transcript(blake2b(blake2b(h, x), y), p, a, (n + 1) + 1) /\ (n + 1) + 1 \in Nat
  BY <1>1, TranscriptGrows
<1>3. Transcript(blake2b(blake2b(blake2b(h, x), y), z), p, a, ((n + 1) + 1) + 1)
  BY <1>2, TranscriptGrows
<1>4. (n + 1) + 1 = n + 2 /\ ((n + 1) + 1) + 1 = n + 3
  OBVIOUS
<1> QED BY <1>1, <1>2, <1>3, <1>4

\* A session at rest whose turn it is to write may write.
LEMMA RestsDue ==
    ASSUME NEW h, NEW p, h.initiator \in BOOLEAN, Rests(h), writer_turn(h), Trail(h, p)
    PROVE  Due(h, p)
<1>1. ~(h.pattern = "XX" /\ h.step = 2) /\ ~(h.pattern = "IK" /\ h.step = 1)
  BY DEF Rests, writer_turn
<1>2. ASSUME h.pattern = "XX", h.step = 1
      PROVE  DueXX2(h, p)
  <2>1. ~h.initiator
    BY <1>2 DEF writer_turn
  <2> QED BY <1>2, <2>1 DEF Trail, AtXX1, DueXX2
<1> QED BY <1>1, <1>2 DEF Due, Trail

\* What a write does to the trail of its session and to the record.
LEMMA WriteTrail ==
    ASSUME NEW h, NEW p, NEW D, NEW P, Points(D, P), Session(h, D, P), Ready(h), Due(h, p),
           NEW k, k[1] = "ephemeral", writer_turn(h), ~is_complete(h),
           NEW e, NEW v, Notes(v, e, "write", write_message(h, k).hs),
           LET w == write_message(h, k) IN w.ok => Wrote(w, h, k, D, P),
           LET w == write_message(h, k) IN ~w.ok => WriteFailed(w, h, k, D, P)
    PROVE  LET w == write_message(h, k)
           IN  /\ w.ok => WrittenTrail(v)
               /\ w.ok /\ ~is_complete(w.hs) => Trail(w.hs, p)
               /\ w.ok /\ is_complete(w.hs) /\ p => low_order_start(w.hs)
               /\ ~w.ok => \A q : Trail(w.hs, q)
<1> DEFINE w == write_message(h, k)
           s == h.symmetric
           t == w.hs.symmetric
<1>1. w.ok => /\ w.hs.step = h.step + 1 /\ SameParty(w.hs, h)
              /\ v.pattern = h.pattern /\ v.step = h.step + 1 /\ v.h = t.h /\ v.ck = t.ck
              /\ v.self = h.s_pk /\ v.peer = w.hs.rs /\ v.eph = w.hs.e_pk
  BY DEF Notes, Wrote, SameParty
<1>2. ~is_seal(k)
  BY NotSeals
<1>3. CASE h.pattern = "XX" /\ h.step = 0 /\ h.initiator
  <2>1. w.ok /\ Carries(w.hs, h, k) /\ t.h = blake2b(blake2b(s.h, k), Empty)
    BY <1>3, XX1Written
  <2>2. s.h = prologue_hash("XX") /\ ~p
    BY <1>3 DEF Due
  <2> HIDE DEF w
  <2>3. Transcript(t.h, "XX", k, 1)
    <3>1. Transcript(blake2b(s.h, k), "XX", k, 0)
      BY <2>2, TranscriptStarts
    <3>2. Transcript(blake2b(blake2b(s.h, k), Empty), "XX", k, 0 + 1)
      BY <3>1, TranscriptGrows
    <3> QED BY <2>1, <3>2
  <2>4. w.hs.pattern = "XX" /\ w.hs.step = 1 /\ w.hs.initiator /\ w.hs.e_pk = k
    BY <1>1, <1>3, <2>1 DEF Carries, SameParty
  <2>5. AtXX1(w.hs, p)
    BY <2>2, <2>3, <2>4 DEF AtXX1
  <2>6. ~is_complete(w.hs)
    BY <2>4, Steps DEF is_complete
  <2> QED BY <1>1, <1>3, <2>1, <2>4, <2>5, <2>6 DEF Trail, WrittenTrail, w
<1>4. CASE h.pattern = "XX" /\ h.step = 1 /\ ~h.initiator
  <2>1. PICK a : \E n \in Nat : /\ Transcript(s.h, "XX", a, n)
                                /\ a = Zero \/ (n = 1 /\ ~p /\ h.re # Zero)
    BY <1>4 DEF Due, DueXX2
  <2>2. PICK n \in Nat : /\ Transcript(s.h, "XX", a, n)
                         /\ a = Zero \/ (n = 1 /\ ~p /\ h.re # Zero)
    BY <2>1
  <2>3. /\ Carries(w.hs, h, k)
        /\ h.re = Zero => ~w.ok /\ t.h = blake2b(s.h, k)
        /\ h.re # Zero => /\ w.ok /\ IsFun(w.hs) /\ TwoSeals(t.h, t.ck, 0, seals_in(w.bytes))
                          /\ t.h[2][2] = blake2b(s.h, k)
    BY <1>4, XX2Written
  <2>4. CASE h.re = Zero
    <3>1. w.hs.pattern = "XX" /\ w.hs.step = 1 /\ ~w.hs.initiator
      BY <1>4, <2>3, <2>4 DEF Carries, SameParty, WriteFailed
    <3> HIDE DEF w
    <3>2. Transcript(t.h, "XX", Zero, n + 1)
      BY <2>2, <2>3, <2>4, TranscriptGrows
    <3>3. \A q : AtXX1(w.hs, q)
      BY <3>1, <3>2 DEF AtXX1
    <3> QED BY <2>3, <2>4, <3>1, <3>3 DEF Trail, w
  <2>5. CASE h.re # Zero
    <3> HIDE DEF w
    <3>1. t.h = blake2b(blake2b(blake2b(s.h, k), t.h[2][3]), t.h[3])
      BY <2>3, <2>5 DEF TwoSeals
    <3>2. Transcript(t.h, "XX", a, n + 3)
      BY <2>2, <3>1, TranscriptLonger
    <3>3. /\ w.ok /\ w.hs.pattern = "XX" /\ w.hs.step = 2 /\ ~is_complete(w.hs)
      BY <1>1, <1>4, <2>3, <2>5, Steps DEF SameParty, is_complete
    <3>4. AtXX2(w.hs, p)
      BY <2>2, <2>3, <2>5, <3>2 DEF AtXX2
    <3>5. a = Zero \/ n + 3 = 4
      BY <2>2
    <3>6. WrittenTrail(v)
      BY <1>1, <1>4, <3>2, <3>3, <3>5 DEF WrittenTrail
    <3> QED BY <3>3, <3>4, <3>6 DEF Trail, w
  <2> QED BY <2>4, <2>5
<1>5. CASE h.pattern = "XX" /\ h.step = 2 /\ h.initiator
  <2>1. h.symmetric.cipher.n = 1
    BY <1>5 DEF Ready
  <2>2. /\ w.ok /\ Carries(w.hs, h, h.e_pk) /\ TwoSeals(t.h, t.ck, 1, seals_in(w.bytes))
        /\ t.h[2][2] = s.h
    BY <1>5, <2>1, XX3Written
  <2>3. Transcript(s.h, "XX", h.e_pk, 4) /\ ~p
    BY <1>5 DEF Due, DueXX3
  <2> HIDE DEF w
  <2>4. w.hs.e_pk = h.e_pk
    BY <2>2 DEF Carries
  <2>5. t.h = blake2b(blake2b(s.h, t.h[2][3]), t.h[3])
    BY <2>2 DEF TwoSeals
  <2>6. Transcript(t.h, "XX", h.e_pk, 4 + 2)
    BY <2>3, <2>5, TranscriptLonger
  <2>7. is_complete(w.hs)
    BY <1>1, <1>5, <2>2, Steps DEF is_complete, SameParty
  <2> QED BY <1>1, <1>5, <2>2, <2>3, <2>4, <2>6, <2>7 DEF WrittenTrail, w
<1>6. CASE h.pattern = "IK" /\ h.step = 0 /\ h.initiator
  <2>1. /\ w.ok /\ Carries(w.hs, h, k) /\ TwoSeals(t.h, t.ck, 0, seals_in(w.bytes))
        /\ t.h[2][2] = blake2b(s.h, k)
        /\ t.ck = chained(chained(s.ck, dh(k, h.rs)), dh(h.s_pk, h.rs))
    BY <1>6, IK1Written
  <2>2. AtIK0(h, p)
    BY <1>6 DEF Due
  <2>3. PICK n \in Nat : Transcript(s.h, "IK", h.rs, n)
    BY <1>6, <2>2 DEF AtIK0
  <2> HIDE DEF w
  <2>4. t.h = blake2b(blake2b(blake2b(s.h, k), t.h[2][3]), t.h[3]) /\ is_seal(t.h[3])
    BY <2>1 DEF TwoSeals, SealUnder
  <2>5. Transcript(t.h, "IK", h.rs, n + 3)
    BY <2>3, <2>4, TranscriptLonger
  <2>6. t.h[2][2][2] = s.h /\ below(below(t.ck)) = s.ck
    BY <2>1, Chain, Hashed
  <2>7. /\ w.hs.pattern = "IK" /\ w.hs.step = 1 /\ w.hs.rs = h.rs /\ w.hs.s_pk = h.s_pk
        /\ ~is_complete(w.hs)
    BY <1>1, <1>6, <2>1, Steps DEF SameParty, Carries, is_complete
  <2>8. AtIK1(w.hs, p)
    BY <1>6, <2>2, <2>4, <2>5, <2>6, <2>7 DEF AtIK1, AtIK0
  <2>9. WrittenTrail(v)
    BY <1>1, <1>6, <2>1, <2>2, <2>5, <2>6, <2>7 DEF WrittenTrail, AtIK0
  <2> QED BY <2>1, <2>7, <2>8, <2>9 DEF Trail, w
<1>7. CASE h.pattern = "IK" /\ h.step = 1 /\ ~h.initiator
  <2>2. /\ w.ok /\ Carries(w.hs, h, k) /\ OneSeal(t.h, t.ck, seals_in(w.bytes))
        /\ t.h[2] = blake2b(s.h, k)
        /\ t.ck = chained(chained(s.ck, dh(k, h.re)), dh(h.s_pk, h.re))
    BY <1>7, IK2Written
  <2>3. DueIK2(h, p)
    BY <1>7 DEF Due
  <2>4. PICK n \in Nat : Transcript(s.h, "IK", h.s_pk, n)
    BY <2>3 DEF DueIK2
  <2> HIDE DEF w
  <2>5. t.h = blake2b(blake2b(s.h, k), t.h[3])
    BY <2>2 DEF OneSeal
  <2>6. Transcript(t.h, "IK", h.s_pk, n + 2)
    BY <2>4, <2>5, TranscriptLonger
  <2>7. t.h[2][2] = s.h /\ below(below(t.ck)) = s.ck
    BY <2>2, Chain, Hashed
  <2>8. w.hs.pattern = "IK" /\ is_complete(w.hs)
    BY <1>1, <1>7, <2>2, Steps DEF is_complete, SameParty
  <2>9. WrittenTrail(v)
    BY <1>1, <1>7, <2>2, <2>3, <2>6, <2>7 DEF WrittenTrail, DueIK2
  <2>10. p => low_order_start(w.hs)
    BY <2>3, <2>7, <2>8 DEF DueIK2, low_order_start
  <2> QED BY <2>2, <2>8, <2>9, <2>10 DEF w
<1> QED BY <1>3, <1>4, <1>5, <1>6, <1>7, Turns

(***************************************************************************)
(* Whoever opens a seal finds its writer on record.                        *)
(***************************************************************************)
WrittenTrails == \A v \in events : v.kind = "write" => WrittenTrail(v)

payload_slots == {"payload of 2", "payload of XX 3", "payload of IK 1"}

\* A seal on record was written.
LEMMA Writer ==
    ASSUME NonceInv, NEW a \in written
    PROVE  \E w \in events : /\ w.kind = "write" /\ Shape(w) /\ a \in w.seals
                             /\ Lies(w, a, slot(ck_of(a[2]), a[3]))
<1>1. PICK w \in events : a \in w.seals
  BY DEF written
<1>2. w.kind = "write" /\ Shape(w)
  BY <1>1 DEF NonceInv, Shaped
<1> QED BY <1>1, <1>2, SealPlace

\* A payload that opens under C over ad: the message ended with C and with
\* the hash of ad and the payload.
LEMMA PayloadWriter ==
    ASSUME NonceInv, NEW a \in written, NEW C, NEW ad, SealUnder(a, C, 0, ad),
           slot(C, 0) \in payload_slots \/ is_seal(ad[3])
    PROVE  /\ slot(C, 0) \in payload_slots
           /\ \E w \in events : /\ w.kind = "write" /\ Shape(w) /\ Lies(w, a, slot(C, 0))
                                /\ w.h = blake2b(ad, a) /\ w.ck = C
<1>1. PICK w \in events : w.kind = "write" /\ Shape(w) /\ Lies(w, a, slot(ck_of(a[2]), a[3]))
  BY Writer
<1>2. ck_of(a[2]) = C /\ a[3] = 0 /\ a[4] = ad
  BY DEF SealUnder
<1>3. slot(C, 0) \in payload_slots \cup {"static of XX 2", "static of IK 1"}
  BY DEF slot, payload_slots
<1>4. Lies(w, a, slot(C, 0))
  BY <1>1, <1>2
<1>5. CASE slot(C, 0) = "static of XX 2"
  <2>1. w.pattern = "XX" /\ w.step = 2 /\ a = w.h[2][3]
    BY <1>4, <1>5 DEF Lies
  <2>2. SecondXX(w) /\ IsEphemeral(w.eph)
    BY <1>1, <2>1 DEF Shape
  <2>3. ad[3] = w.eph
    BY <1>2, <2>1, <2>2 DEF SecondXX, TwoSeals, SealUnder
  <2> QED BY <1>5, <2>2, <2>3, NotSeals DEF IsEphemeral, payload_slots
<1>6. CASE slot(C, 0) = "static of IK 1"
  <2>1. w.pattern = "IK" /\ w.step = 1 /\ a = w.h[2][3]
    BY <1>4, <1>6 DEF Lies
  <2>2. FirstIK(w) /\ IsEphemeral(w.eph)
    BY <1>1, <2>1 DEF Shape
  <2>3. ad[3] = w.eph
    BY <1>2, <2>1, <2>2 DEF FirstIK, TwoSeals, SealUnder
  <2> QED BY <1>6, <2>2, <2>3, NotSeals DEF IsEphemeral, payload_slots
<1>7. CASE slot(C, 0) \in payload_slots
  <2>1. /\ a = w.h[3]
        /\ \/ w.pattern = "XX" /\ w.step = 3
           \/ w.pattern = "IK" /\ w.step = 1
           \/ w.step = 2
    BY <1>4, <1>7 DEF Lies, payload_slots
  <2>2. w.h = blake2b(w.h[2], w.h[3]) /\ SealUnder(w.h[3], w.ck, 0, w.h[2])
    BY <1>1, <2>1 DEF Shape, SecondXX, ThirdXX, FirstIK, SecondIK, TwoSeals, OneSeal
  <2> QED BY <1>1, <1>2, <1>4, <1>7, <2>1, <2>2 DEF SealUnder
<1> QED BY <1>3, <1>5, <1>6, <1>7

\* The chaining key at the end of a second message.
LEMMA SecondSlot ==
    ASSUME NEW ck, NEW e, NEW re, NEW rs, ~Static(e), ~Static(re), Static(rs)
    PROVE  slot(chained(chained(ck, dh(e, re)), dh(e, rs)), 0) = "payload of 2"
<1> DEFINE mid == chained(ck, dh(e, re))
           C == chained(mid, dh(e, rs))
<1>1. mixed(C) = dh(e, rs) /\ below(C) = mid /\ mixed(mid) = dh(e, re)
  BY Chain
<1>2. HasStatic(dh(e, rs)) /\ ~AllStatic(dh(e, rs)) /\ ~HasStatic(dh(e, re))
  BY Halves, Mix
<1>3. Chained(mid, dh(e, re))
  BY ChainedFacts
<1> HIDE DEF C, mid
<1>4. ~IKck(mid)
  BY <1>1, <1>2, <1>3, NotName DEF IKck
<1>5. slot(C, 0) = "payload of 2"
  BY <1>1, <1>2, <1>4 DEF slot
<1> QED BY <1>5 DEF C, mid

\* A static of IK that opens at step 0 was sealed for this reader, by a
\* session with the same hash and chaining key.
LEMMA FirstStatic ==
    ASSUME NonceInv, NEW st \in written, NEW ck, NEW s, NEW re, NEW ad,
           IKck(ck), Static(s), ~Static(re),
           SealUnder(st, chained(ck, dh(s, re)), 0, ad)
    PROVE  \E w \in events : /\ w.kind = "write" /\ Shape(w)
                             /\ w.pattern = "IK" /\ w.step = 1
                             /\ w.peer = s /\ w.h[2] = blake2b(ad, st) /\ w.h = blake2b(w.h[2], w.h[3])
<1> DEFINE C == chained(ck, dh(s, re))
<1>1. mixed(C) = dh(s, re) /\ below(C) = ck
  BY Chain
<1>2. HasStatic(dh(s, re)) /\ ~AllStatic(dh(s, re))
  BY Halves, Mix
<1> HIDE DEF C
<1>3. slot(C, 0) = "static of IK 1"
  BY <1>1, <1>2 DEF slot
<1>4. ck_of(st[2]) = C /\ st[3] = 0 /\ st[4] = ad
  BY DEF SealUnder, C
<1>5. PICK w \in events : w.kind = "write" /\ Shape(w) /\ Lies(w, st, slot(C, 0))
  BY <1>4, Writer
<1>6. w.pattern = "IK" /\ w.step = 1 /\ st = w.h[2][3]
  BY <1>3, <1>5 DEF Lies
<1>7. FirstIK(w) /\ IsEphemeral(w.eph)
  BY <1>5, <1>6 DEF Shape
<1>8. /\ w.h = blake2b(w.h[2], w.h[3]) /\ w.h[2] = blake2b(w.h[2][2], st)
      /\ SealUnder(st, below(w.ck), 0, w.h[2][2])
  BY <1>6, <1>7 DEF FirstIK, TwoSeals
<1>9. below(w.ck) = C /\ w.h[2][2] = ad
  BY <1>4, <1>8 DEF SealUnder
<1>10. dh(w.eph, w.peer) = dh(s, re)
  BY <1>1, <1>7, <1>9, ChainedFacts DEF FirstIK
<1>11. w.peer = s
  <2>1. Static(w.peer) /\ ~Static(w.eph)
    BY <1>7 DEF FirstIK, IsEphemeral, Static
  <2> QED BY <1>10, <2>1, SameSecret
<1> QED BY <1>5, <1>6, <1>8, <1>9, <1>11
-----------------------------------------------------------------------------
(***************************************************************************)
(* What a read does to the trail of its session.  r is read_message of h   *)
(* (poisoned or not: p) on a message m from the wire.                      *)
(***************************************************************************)
Reader(h, p, m) ==
    /\ Session(h, drawn, sent) /\ Rests(h) /\ FirstKey(h) /\ Trail(h, p) /\ p \in BOOLEAN
    /\ Message(m, sent) /\ seals_in(m) \subseteq written /\ Points(drawn, sent)
    /\ Read(read_message(h, m), h, drawn, sent)

Answers(w, g) ==
    /\ w.kind = "write" /\ w.step = g.step /\ w.pattern = g.pattern
    /\ w.h = g.symmetric.h /\ w.ck = g.symmetric.ck
    /\ w.self = g.rs /\ w.initiator # g.initiator

Outcome(r, h, p) ==
    /\ ~r.ok => \A q \in BOOLEAN : q = (p \/ r.hs # h) => Trail(r.hs, q)
    /\ r.ok => /\ r.hs.symmetric.cipher.has_key => \E w \in events : Answers(w, r.hs)
               /\ is_complete(r.hs) /\ p => low_order_start(r.hs)
               /\ ~is_complete(r.hs) /\ writer_turn(r.hs) => Due(r.hs, p)
               /\ ~is_complete(r.hs) /\ ~writer_turn(r.hs) => Trail(r.hs, p)

\* Message 1 of XX, which anyone can read.
LEMMA ReadsXX1 ==
    ASSUME NEW h, NEW p, NEW m, Reader(h, p, m), h.pattern = "XX", h.step = 0
    PROVE  Outcome(read_message(h, m), h, p)
<1> DEFINE r == read_message(h, m)
           s == h.symmetric
           t == r.hs.symmetric
<1>1. /\ ~r.ok => r.hs = h
      /\ r.ok => ~t.cipher.has_key /\ \E x : t.h = blake2b(blake2b(s.h, r.hs.re), x)
  BY XX1Read DEF Reader
<1>2. /\ SameParty(r.hs, h) /\ r.hs.e_pk = h.e_pk /\ (r.ok => r.hs.step = 1)
      /\ h.initiator \in BOOLEAN /\ p \in BOOLEAN /\ Trail(h, p)
  BY DEF Reader, Read, Session, Object
<1>3. s.h = prologue_hash("XX") /\ h.e_pk = Zero /\ ~p
  BY <1>2 DEF Trail
<1> HIDE DEF r
<1>4. CASE ~r.ok
  BY <1>1, <1>2, <1>4 DEF Outcome, r
<1>5. CASE r.ok
  <2>1. r.hs.pattern = "XX" /\ r.hs.step = 1 /\ r.hs.initiator = h.initiator /\ ~is_complete(r.hs)
    BY <1>2, <1>5, Steps DEF SameParty, is_complete
  <2>2. Transcript(t.h, "XX", r.hs.re, 1)
    <3>1. PICK x : t.h = blake2b(blake2b(s.h, r.hs.re), x)
      BY <1>1, <1>5
    <3>2. Transcript(blake2b(s.h, r.hs.re), "XX", r.hs.re, 0)
      BY <1>3, TranscriptStarts
    <3>3. Transcript(blake2b(blake2b(s.h, r.hs.re), x), "XX", r.hs.re, 0 + 1)
      BY <3>2, TranscriptGrows
    <3> QED BY <3>1, <3>3
  <2>3. writer_turn(r.hs) => Due(r.hs, p)
    <3>1. DueXX2(r.hs, p)
      BY <1>3, <2>2 DEF DueXX2
    <3> QED BY <2>1, <3>1 DEF Due
  <2>4. ~writer_turn(r.hs) => Trail(r.hs, p)
    <3> SUFFICES ASSUME ~writer_turn(r.hs) PROVE Trail(r.hs, p)
      OBVIOUS
    <3>1. r.hs.initiator
      BY <1>2, <2>1 DEF writer_turn
    <3>2. AtXX1(r.hs, p)
      BY <1>2, <1>3, <3>1 DEF AtXX1
    <3> QED BY <2>1, <3>2 DEF Trail
  <2> QED BY <1>1, <1>5, <2>1, <2>3, <2>4 DEF Outcome, r
<1> QED BY <1>4, <1>5

\* Message 2 of XX, when it does not read: the hash has grown.
LEMMA RefusesXX2 ==
    ASSUME NEW h, NEW p, NEW m, Reader(h, p, m), h.pattern = "XX", h.step = 1,
           ~read_message(h, m).ok
    PROVE  Outcome(read_message(h, m), h, p)
<1> DEFINE r == read_message(h, m)
           s == h.symmetric
           t == r.hs.symmetric
<1>1. \/ r.hs = h
      \/ \E x : t.h = blake2b(s.h, x)
      \/ \E x, y : t.h = blake2b(blake2b(s.h, x), y)
  BY XX2Read DEF Reader
<1>2. /\ SameParty(r.hs, h) /\ r.hs.e_pk = h.e_pk /\ r.hs.step = 1
      /\ h.initiator \in BOOLEAN /\ p \in BOOLEAN /\ Trail(h, p)
  BY DEF Reader, Read, Session, Object
<1> HIDE DEF r
<1>3. SUFFICES ASSUME NEW q \in BOOLEAN, q = (p \/ r.hs # h)
               PROVE  Trail(r.hs, q)
  BY DEF Outcome, r
<1>4. r.hs.pattern = "XX" /\ r.hs.initiator = h.initiator
  BY <1>2 DEF SameParty
<1>5. CASE r.hs = h
  BY <1>2, <1>3, <1>5
<1>6. ASSUME NEW x, NEW y, t.h = blake2b(s.h, x) \/ t.h = blake2b(blake2b(s.h, x), y)
      PROVE  AtXX1(r.hs, q)
  <2>1. AtXX1(h, p)
    BY <1>2 DEF Trail
  <2>2. CASE h.initiator /\ h.e_pk = Zero
    BY <1>2, <1>4, <2>2 DEF AtXX1
  <2>3. ASSUME NEW a, NEW n \in Nat, Transcript(s.h, "XX", a, n)
        PROVE  \E k \in Nat : Transcript(t.h, "XX", a, k) /\ k >= n + 1
    <3>1. Transcript(blake2b(s.h, x), "XX", a, n + 1) /\ Transcript(blake2b(blake2b(s.h, x), y), "XX", a, n + 2)
      BY <2>3, TranscriptLonger
    <3> QED BY <1>6, <3>1
  <2>4. CASE h.initiator /\ \E n \in Nat : Transcript(s.h, "XX", h.e_pk, n) /\ n >= 1
    <3>1. PICK n \in Nat : Transcript(s.h, "XX", h.e_pk, n) /\ n >= 1
      BY <2>4
    <3>2. PICK k \in Nat : Transcript(t.h, "XX", h.e_pk, k) /\ k >= n + 1
      BY <2>3, <3>1
    <3>3. k >= 2 /\ k >= 1
      BY <3>1, <3>2
    <3> QED BY <1>2, <1>4, <2>4, <3>2, <3>3 DEF AtXX1
  <2>5. CASE ~h.initiator /\ \E n \in Nat : Transcript(s.h, "XX", Zero, n)
    BY <1>4, <2>3, <2>5 DEF AtXX1
  <2> QED BY <2>1, <2>2, <2>4, <2>5 DEF AtXX1
<1>7. r.hs # h => AtXX1(r.hs, q)
  BY <1>1, <1>6
<1> QED BY <1>2, <1>4, <1>5, <1>7 DEF Trail

\* The payload of a second message, of either pattern, opened by the owner
\* of ephemeral e: its writer has the static key rs.
LEMMA SecondWriter ==
    ASSUME NonceInv, NEW H, NEW ck, NEW e, NEW re, NEW rs, ~Static(e), ~Static(re), Static(rs),
           LastOpened(H, chained(chained(ck, dh(e, re)), dh(e, rs)), written)
    PROVE  \E w \in events : /\ w.kind = "write" /\ Shape(w) /\ w.step = 2 /\ ~w.initiator
                             /\ w.h = H /\ w.self = rs
                             /\ w.ck = chained(chained(ck, dh(e, re)), dh(e, rs))
<1> DEFINE C == chained(chained(ck, dh(e, re)), dh(e, rs))
<1>1. slot(C, 0) = "payload of 2"
  BY SecondSlot
<1>2. mixed(C) = dh(e, rs)
  BY Chain
<1> HIDE DEF C
<1>3. H = blake2b(H[2], H[3]) /\ H[3] \in written /\ SealUnder(H[3], C, 0, H[2])
  BY DEF LastOpened, C
<1>4. slot(C, 0) \in payload_slots
  BY <1>1 DEF payload_slots
<1>5. PICK w \in events : /\ w.kind = "write" /\ Shape(w) /\ Lies(w, H[3], slot(C, 0))
                          /\ w.h = blake2b(H[2], H[3]) /\ w.ck = C
  BY <1>3, <1>4, PayloadWriter
<1>6. w.step = 2
  BY <1>1, <1>5 DEF Lies
<1>7. Static(w.self) /\ ~w.initiator /\ Chained(w.ck, dh(w.self, w.re))
  BY <1>5, <1>6 DEF Shape, SecondXX, SecondIK
<1>8. dh(w.self, w.re) = dh(e, rs)
  BY <1>2, <1>5, <1>7, ChainedFacts
<1>9. w.self = rs
  BY <1>7, <1>8, SameSecret
<1> QED BY <1>3, <1>5, <1>6, <1>7, <1>9 DEF C

\* Points on the wire are no static keys.
LEMMA WirePoints ==
    ASSUME NEW h, NEW D, NEW P, Points(D, P), Session(h, D, P)
    PROVE  ~Static(h.e_pk) /\ ~Static(h.re) /\ ~is_seal(h.re) /\ Static(h.s_pk)
<1>1. h.e_pk \in D \cup {Zero} /\ h.re \in D \cup {Zero, Garbage} /\ Static(h.s_pk)
  BY DEF Session, Object, Points
<1>2. \A t \in D \cup {Zero, Garbage} : ~Static(t) /\ ~is_seal(t)
  BY NotSeals DEF Points, Static, Zero, Garbage
<1> QED BY <1>1, <1>2

\* Message 2 of XX, when it reads: the reader wrote message 1, and the writer
\* had read just that.
LEMMA ReadsXX2 ==
    ASSUME NonceInv, WrittenTrails, NEW h, NEW p, NEW m, Reader(h, p, m),
           h.pattern = "XX", h.step = 1, read_message(h, m).ok
    PROVE  Outcome(read_message(h, m), h, p)
<1> DEFINE r == read_message(h, m)
           s == h.symmetric
           t == r.hs.symmetric
<1>1. /\ LastOpened(t.h, t.ck, seals_in(m)) /\ LastOpened(t.h[2], below(t.ck), seals_in(m))
      /\ t.h[2][2] = blake2b(s.h, r.hs.re)
      /\ t.ck = chained(chained(s.ck, dh(h.e_pk, r.hs.re)), dh(h.e_pk, r.hs.rs))
  BY XX2Read DEF Reader
<1>2. /\ SameParty(r.hs, h) /\ r.hs.e_pk = h.e_pk /\ r.hs.step = 2 /\ Session(r.hs, drawn, sent)
      /\ Sent(h, sent) /\ h.initiator \in BOOLEAN /\ p \in BOOLEAN /\ Trail(h, p)
      /\ seals_in(m) \subseteq written /\ Points(drawn, sent)
  BY DEF Reader, Read, Session, Object
<1> HIDE DEF r
<1>3. r.hs.pattern = "XX" /\ r.hs.initiator = h.initiator
  BY <1>2 DEF SameParty
<1>4. AfterXX2(r.hs) /\ Sent(r.hs, sent) /\ h.e_pk # Zero
  BY <1>2, <1>3 DEF Session, AfterXX2
<1>5. h.initiator
  BY <1>2, <1>3, <1>4 DEF Sent
<1>6. Static(r.hs.rs) /\ ~Static(h.e_pk) /\ ~Static(r.hs.re)
  BY <1>2, <1>3, <1>4, <1>5, WirePoints DEF AfterXX2
<1>7. PICK n \in Nat : Transcript(s.h, "XX", h.e_pk, n) /\ n >= 1 /\ (p => n >= 2)
  BY <1>2, <1>4, <1>5 DEF Trail, AtXX1
<1>8. Transcript(t.h, "XX", h.e_pk, n + 3)
  <2>1. t.h = blake2b(blake2b(blake2b(s.h, r.hs.re), t.h[2][3]), t.h[3])
    BY <1>1 DEF LastOpened
  <2> QED BY <1>7, <2>1, TranscriptLonger
<1>9. PICK w \in events : /\ w.kind = "write" /\ Shape(w) /\ w.step = 2 /\ ~w.initiator
                          /\ w.h = t.h /\ w.self = r.hs.rs /\ w.ck = t.ck
  <2>1. LastOpened(t.h, chained(chained(s.ck, dh(h.e_pk, r.hs.re)), dh(h.e_pk, r.hs.rs)), written)
    BY <1>1, <1>2 DEF LastOpened
  <2> QED BY <1>1, <1>6, <2>1, SecondWriter
<1>10. WrittenTrail(w)
  BY <1>9 DEF WrittenTrails
<1>11. w.pattern = "XX"
  <2> SUFFICES ASSUME w.pattern = "IK" PROVE FALSE
    BY <1>9 DEF Shape
  <2>1. PICK k \in Nat : Transcript(t.h, "IK", w.self, k)
    BY <1>9, <1>10 DEF WrittenTrail
  <2> QED BY <1>8, <2>1, TranscriptUnique
<1>12. n = 1
  <2>1. PICK a : \E k \in Nat : Transcript(t.h, "XX", a, k) /\ (a = Zero \/ k = 4)
    BY <1>9, <1>10, <1>11 DEF WrittenTrail
  <2>2. PICK k \in Nat : Transcript(t.h, "XX", a, k) /\ (a = Zero \/ k = 4)
    BY <2>1
  <2>3. a = h.e_pk /\ k = n + 3
    BY <1>8, <2>2, TranscriptUnique
  <2> QED BY <1>4, <2>2, <2>3
<1>13. Due(r.hs, p)
  <2>1. ~p /\ n + 3 = 4
    BY <1>2, <1>7, <1>12
  <2>2. DueXX3(r.hs, p)
    BY <1>2, <1>8, <2>1 DEF DueXX3
  <2> QED BY <1>2, <1>3, <2>2 DEF Due
<1>14. ~is_complete(r.hs)
  BY <1>2, <1>3, Steps DEF is_complete
<1>15. Answers(w, r.hs)
  BY <1>2, <1>3, <1>5, <1>9, <1>11 DEF Answers
<1>16. writer_turn(r.hs)
  <2>1. r.hs.step % 2 = 0 /\ r.hs.initiator = TRUE
    BY <1>2, <1>3, <1>5
  <2> QED BY <2>1 DEF writer_turn
<1> QED BY <1>13, <1>14, <1>15, <1>16 DEF Outcome, r

\* Message 3 of XX: when it does not read the hash is as long as before or
\* longer, and when it does the hash is that of its writer, which is exact.
LEMMA ReadsXX3 ==
    ASSUME NonceInv, WrittenTrails, NEW h, NEW p, NEW m, Reader(h, p, m),
           h.pattern = "XX", h.step = 2
    PROVE  Outcome(read_message(h, m), h, p)
<1> DEFINE r == read_message(h, m)
           s == h.symmetric
           t == r.hs.symmetric
<1>1. /\ SameParty(r.hs, h) /\ r.hs.e_pk = h.e_pk /\ Session(r.hs, drawn, sent)
      /\ r.hs.step = (IF r.ok THEN 3 ELSE 2)
      /\ Session(h, drawn, sent) /\ h.initiator \in BOOLEAN /\ p \in BOOLEAN /\ Trail(h, p)
      /\ seals_in(m) \subseteq written /\ Points(drawn, sent) /\ ~h.initiator
  BY DEF Reader, Read, Session, Object, Rests
<1>2. /\ ~r.ok => \/ t = s /\ (IsFun(h) => r.hs = h)
                  \/ IsFun(r.hs) /\ \E x : t.h = blake2b(s.h, x)
      /\ r.ok => /\ LastOpened(t.h, t.ck, seals_in(m)) /\ t.h[2][3] \in seals_in(m)
                 /\ t.h[2] = blake2b(s.h, t.h[2][3])
                 /\ t.ck = chained(s.ck, dh(h.e_pk, r.hs.rs))
  BY <1>1, XX3Read DEF Reader
<1> HIDE DEF r
<1>3. r.hs.pattern = "XX" /\ ~r.hs.initiator
  BY <1>1 DEF SameParty
<1>4. AtXX2(h, p) /\ AfterXX2(h)
  BY <1>1 DEF Trail, Session
<1>5. PICK a : \E n \in Nat : /\ Transcript(s.h, "XX", a, n)
                              /\ a = Zero \/ (n >= 4 /\ (p => n >= 5))
  BY <1>4 DEF AtXX2
<1>6. PICK n \in Nat : /\ Transcript(s.h, "XX", a, n)
                       /\ a = Zero \/ (n >= 4 /\ (p => n >= 5))
  BY <1>5
<1>7. CASE ~r.ok
  <2> SUFFICES ASSUME NEW q \in BOOLEAN, q = (p \/ r.hs # h)
               PROVE  Trail(r.hs, q)
    BY <1>7 DEF Outcome, r
  <2>1. CASE r.hs = h
    BY <1>1, <2>1
  <2>2. CASE r.hs # h
    <3>1. IsFun(r.hs) /\ \E x : t.h = blake2b(s.h, x)
      BY <1>2, <1>4, <1>7, <2>2 DEF AtXX2
    <3>2. PICK x : t.h = blake2b(s.h, x)
      BY <3>1
    <3>3. Transcript(t.h, "XX", a, n + 1) /\ n + 1 \in Nat
      BY <1>6, <3>2, TranscriptGrows
    <3>4. a = Zero \/ (n + 1 >= 4 /\ n + 1 >= 5)
      BY <1>6
    <3>5. AtXX2(r.hs, q)
      BY <3>1, <3>3, <3>4 DEF AtXX2
    <3> QED BY <1>1, <1>3, <1>7, <3>5 DEF Trail
  <2> QED BY <2>1, <2>2
<1>8. CASE r.ok
  <2> DEFINE C == t.ck
             ad == t.h[2]
  <2>1. /\ t.h = blake2b(ad, t.h[3]) /\ t.h[3] \in written /\ SealUnder(t.h[3], C, 0, ad)
        /\ ad = blake2b(s.h, ad[3]) /\ is_seal(ad[3])
        /\ mixed(C) = dh(h.e_pk, r.hs.rs) /\ below(C) = s.ck
    <3>1. is_seal(ad[3])
      BY <1>2, <1>8 DEF seals_in
    <3> QED BY <1>1, <1>2, <1>8, <3>1, Chain DEF LastOpened
  <2>2. r.hs.step = 3 /\ is_complete(r.hs) /\ Completed(r.hs)
    BY <1>1, <1>3, <1>8, Steps DEF is_complete, Session
  <2>3. Static(r.hs.rs) /\ ~Static(h.e_pk) /\ ~Static(h.re) /\ Static(h.s_pk)
    BY <1>1, <2>2, WirePoints DEF Completed
  <2> HIDE DEF C, ad
  <2>4. slot(C, 0) \in payload_slots
    BY <2>1, PayloadWriter
  <2>5. PICK w \in events : /\ w.kind = "write" /\ Shape(w) /\ Lies(w, t.h[3], slot(C, 0))
                            /\ w.h = t.h /\ w.ck = C
    BY <2>1, PayloadWriter
  <2>6. slot(C, 0) = "payload of XX 3"
    <3>1. HasStatic(mixed(C)) /\ ~AllStatic(mixed(C))
      BY <2>1, <2>3, Halves, Mix
    <3>2. HasStatic(mixed(below(C)))
      <4>1. \/ mixed(s.ck) = dh(h.s_pk, h.re)
            \/ \E u : Static(u) /\ mixed(s.ck) = dh(h.e_pk, u)
        BY <1>1, <1>4 DEF AfterXX2
      <4> QED BY <2>1, <2>3, <4>1, Halves
    <3> QED BY <2>4, <3>1, <3>2 DEF slot, payload_slots
  <2>7. w.pattern = "XX" /\ w.step = 3
    BY <2>5, <2>6 DEF Lies
  <2>8. w.initiator /\ ThirdXX(w) /\ Static(w.self) /\ IsEphemeral(w.eph)
    BY <2>5, <2>7 DEF Shape
  <2>9. w.self = r.hs.rs
    <3>1. dh(w.self, w.re) = dh(h.e_pk, r.hs.rs)
      BY <2>1, <2>5, <2>8, ChainedFacts DEF ThirdXX
    <3> QED BY <2>3, <2>8, <3>1, SameSecret
  <2>10. Transcript(t.h, "XX", w.eph, 6) /\ w.eph # Zero
    BY <2>5, <2>7, <2>8 DEF WrittenTrails, WrittenTrail, IsEphemeral, Zero
  <2>11. Transcript(t.h, "XX", a, n + 2)
    <3>1. t.h = blake2b(blake2b(s.h, ad[3]), t.h[3])
      BY <2>1
    <3> QED BY <1>6, <3>1, TranscriptLonger
  <2>12. a = w.eph /\ n + 2 = 6
    BY <2>10, <2>11, TranscriptUnique
  <2>13. ~p
    BY <1>6, <2>10, <2>12
  <2>14. Answers(w, r.hs)
    BY <1>3, <2>2, <2>5, <2>7, <2>8, <2>9 DEF Answers, C
  <2> QED BY <1>8, <2>2, <2>13, <2>14 DEF Outcome, r
<1> QED BY <1>7, <1>8

\* Only a responder opens the static of message 1 of IK: an initiator has
\* hashed the static key of its peer, and the message that it opens would
\* have been written for itself.
LEMMA OnlyResponders ==
    ASSUME NonceInv, WrittenTrails, NEW h, NEW p, AtIK0(h, p), IKck(h.symmetric.ck),
           Static(h.s_pk), NEW re, ~Static(re), NEW H, H[2] = blake2b(h.symmetric.h, re),
           LastOpened(H, chained(h.symmetric.ck, dh(h.s_pk, re)), written)
    PROVE  ~h.initiator
<1> SUFFICES ASSUME h.initiator PROVE FALSE
  OBVIOUS
<1>1. PICK n \in Nat : Transcript(h.symmetric.h, "IK", h.rs, n) /\ h.rs # h.s_pk
  BY DEF AtIK0
<1>2. /\ H = blake2b(H[2], H[3]) /\ H[3] \in written
      /\ SealUnder(H[3], chained(h.symmetric.ck, dh(h.s_pk, re)), 0, H[2])
  BY DEF LastOpened
<1>3. PICK w \in events : /\ w.kind = "write" /\ w.pattern = "IK" /\ w.step = 1 /\ w.peer = h.s_pk
                          /\ w.h[2] = blake2b(H[2], H[3]) /\ w.h = blake2b(w.h[2], w.h[3])
  BY <1>2, FirstStatic
<1>4. PICK k \in Nat : Transcript(w.h, "IK", h.s_pk, k)
  BY <1>3 DEF WrittenTrails, WrittenTrail
<1>5. Transcript(w.h, "IK", h.rs, n + 3)
  <2>1. w.h = blake2b(blake2b(blake2b(h.symmetric.h, re), H[3]), w.h[3])
    BY <1>3
  <2> QED BY <1>1, <2>1, TranscriptLonger
<1> QED BY <1>1, <1>4, <1>5, TranscriptUnique

\* The writer of a message 1 of IK that a responder opened.
LEMMA FirstWriter ==
    ASSUME NonceInv, NEW H, NEW ck, NEW s, NEW re, NEW rs,
           Static(s), Static(rs), ~Static(re), is_seal(H[2][3]),
           LastOpened(H, chained(chained(ck, dh(s, re)), dh(s, rs)), written)
    PROVE  \E w \in events : /\ w.kind = "write" /\ w.pattern = "IK" /\ w.step = 1 /\ w.initiator
                             /\ w.h = H /\ w.self = rs /\ w.peer = s
                             /\ w.ck = chained(chained(ck, dh(s, re)), dh(s, rs))
<1> DEFINE C == chained(chained(ck, dh(s, re)), dh(s, rs))
<1>1. mixed(C) = dh(s, rs) /\ mixed(below(C)) = dh(s, re)
  BY Chain
<1> HIDE DEF C
<1>2. H = blake2b(H[2], H[3]) /\ H[3] \in written /\ SealUnder(H[3], C, 0, H[2])
  BY DEF LastOpened, C
<1>3. PICK w \in events : /\ w.kind = "write" /\ Shape(w) /\ Lies(w, H[3], slot(C, 0))
                          /\ w.h = H /\ w.ck = C
  BY <1>2, PayloadWriter
<1>4. slot(C, 0) = "payload of IK 1"
  <2>1. HasStatic(mixed(C)) /\ AllStatic(mixed(C))
    BY <1>1, Mix
  <2> QED BY <2>1 DEF slot
<1>5. w.pattern = "IK" /\ w.step = 1
  BY <1>3, <1>4 DEF Lies
<1>6. w.initiator /\ FirstIK(w) /\ IsEphemeral(w.eph)
  BY <1>3, <1>5 DEF Shape
<1>7. dh(w.self, w.peer) = dh(s, rs) /\ dh(w.eph, w.peer) = dh(s, re) /\ Static(w.peer)
  BY <1>1, <1>3, <1>6, ChainedFacts DEF FirstIK
<1>8. w.peer = s
  BY <1>7, SameSecret
<1>9. w.self = rs
  BY <1>7, <1>8, SameSecret
<1> QED BY <1>3, <1>5, <1>6, <1>8, <1>9 DEF C

\* Message 1 of IK, when it does not read: the hash has grown, by a point or
\* by a point and a static.
LEMMA RefusesIK1 ==
    ASSUME NonceInv, WrittenTrails, NEW h, NEW p, NEW m, Reader(h, p, m),
           h.pattern = "IK", h.step = 0, ~read_message(h, m).ok
    PROVE  Outcome(read_message(h, m), h, p)
<1> DEFINE r == read_message(h, m)
           s == h.symmetric
           t == r.hs.symmetric
           mid == chained(s.ck, dh(h.s_pk, r.hs.re))
<1>1. \/ r.hs = h
      \/ /\ t.h = blake2b(s.h, r.hs.re) /\ r.hs.rs = h.rs
         /\ (r.hs.re = Zero /\ t.ck = s.ck) \/ (r.hs.re # Zero /\ t.ck = mid)
      \/ /\ LastOpened(t.h, below(t.ck), seals_in(m)) /\ t.h[2] = blake2b(s.h, r.hs.re)
         /\ t.ck = chained(mid, dh(h.s_pk, r.hs.rs)) /\ Static(r.hs.rs)
  BY IK1Read DEF Reader
<1>2. /\ SameParty(r.hs, h) /\ r.hs.step = 0 /\ Session(r.hs, drawn, sent)
      /\ h.initiator \in BOOLEAN /\ p \in BOOLEAN /\ Trail(h, p) /\ IKck(s.ck)
      /\ seals_in(m) \subseteq written /\ Points(drawn, sent)
  BY DEF Reader, Read, Session, Object, FirstKey
<1> HIDE DEF r
<1>3. /\ r.hs.pattern = "IK" /\ r.hs.initiator = h.initiator /\ r.hs.s_pk = h.s_pk
      /\ AtIK0(h, p) /\ ~Static(r.hs.re) /\ ~is_seal(r.hs.re) /\ Static(h.s_pk)
  BY <1>2, WirePoints DEF SameParty, Trail
<1>4. PICK n \in Nat : Transcript(s.h, "IK", IF h.initiator THEN h.rs ELSE h.s_pk, n)
  BY <1>3 DEF AtIK0
<1>5. SUFFICES ASSUME NEW q \in BOOLEAN, q = (p \/ r.hs # h)
               PROVE  Trail(r.hs, q)
  BY DEF Outcome, r
<1>6. CASE r.hs = h
  BY <1>2, <1>5, <1>6
<1>7. ASSUME t.h = blake2b(s.h, r.hs.re), r.hs.rs = h.rs,
             (r.hs.re = Zero /\ t.ck = s.ck) \/ (r.hs.re # Zero /\ t.ck = mid)
      PROVE  AtIK0(r.hs, q)
  <2>1. t.h[3] = r.hs.re
    BY <1>7, Hashed
  <2>2. IKBase(t.h, t.ck, h.s_pk) /\ ~Static(t.h[3]) /\ ~is_seal(t.h[3])
    BY <1>3, <1>7, <2>1, Chain DEF IKBase
  <2>3. Transcript(t.h, "IK", IF h.initiator THEN h.rs ELSE h.s_pk, n + 1) /\ n + 1 \in Nat
    BY <1>4, <1>7, TranscriptGrows
  <2>4. h.initiator => h.rs # h.s_pk
    BY <1>3 DEF AtIK0
  <2> QED BY <1>3, <1>7, <2>2, <2>3, <2>4 DEF AtIK0
<1>8. ASSUME LastOpened(t.h, below(t.ck), seals_in(m)), t.h[2] = blake2b(s.h, r.hs.re),
             t.ck = chained(mid, dh(h.s_pk, r.hs.rs))
      PROVE  AtIK0(r.hs, q)
  <2>1. below(t.ck) = mid
    BY <1>8, Chain
  <2>2. LastOpened(t.h, mid, written) /\ t.h = blake2b(t.h[2], t.h[3]) /\ is_seal(t.h[3])
    BY <1>2, <1>8, <2>1 DEF LastOpened, SealUnder
  <2>3. ~h.initiator
    BY <1>2, <1>3, <1>8, <2>2, OnlyResponders
  <2>4. IKBase(t.h, t.ck, h.s_pk) /\ ~Static(t.h[3])
    BY <2>2, NotSeals DEF IKBase
  <2>5. Transcript(t.h, "IK", h.s_pk, n + 2) /\ n + 2 \in Nat
    <3>1. Transcript(s.h, "IK", h.s_pk, n) /\ t.h = blake2b(blake2b(s.h, r.hs.re), t.h[3])
      BY <1>4, <1>8, <2>2, <2>3
    <3> QED BY <3>1, TranscriptLonger
  <2> QED BY <1>3, <2>3, <2>4, <2>5 DEF AtIK0
<1>9. r.hs # h => AtIK0(r.hs, q)
  BY <1>1, <1>7, <1>8
<1> QED BY <1>2, <1>3, <1>6, <1>9 DEF Trail

\* Two identities that agree on a hash which a failed call has added to can
\* only have absorbed a low-order point.
LEMMA SameBase ==
    ASSUME NEW b, NEW ck, NEW s, NEW u, IKBase(b, ck, s), IKBase(b, ck, u), s # u, Static(s),
           ~Static(b[3]), ~is_seal(b[3])
    PROVE  b[3] = Zero
<1> SUFFICES ASSUME b[3] # Zero PROVE FALSE
  OBVIOUS
<1>1. dh(s, b[3]) = dh(u, b[3])
  BY DEF IKBase
<1> QED BY <1>1, SameSecret

\* Message 1 of IK, when it reads.
LEMMA ReadsIK1 ==
    ASSUME NonceInv, WrittenTrails, NEW h, NEW p, NEW m, Reader(h, p, m),
           h.pattern = "IK", h.step = 0, read_message(h, m).ok
    PROVE  Outcome(read_message(h, m), h, p)
<1> DEFINE r == read_message(h, m)
           s == h.symmetric
           t == r.hs.symmetric
           mid == chained(s.ck, dh(h.s_pk, r.hs.re))
<1>1. /\ LastOpened(t.h, t.ck, seals_in(m)) /\ LastOpened(t.h[2], below(t.ck), seals_in(m))
      /\ t.h[2][2] = blake2b(s.h, r.hs.re) /\ t.ck = chained(mid, dh(h.s_pk, r.hs.rs))
  BY IK1Read DEF Reader
<1>2. /\ SameParty(r.hs, h) /\ r.hs.step = 1 /\ Session(r.hs, drawn, sent)
      /\ h.initiator \in BOOLEAN /\ p \in BOOLEAN /\ Trail(h, p) /\ IKck(s.ck)
      /\ seals_in(m) \subseteq written /\ Points(drawn, sent)
  BY DEF Reader, Read, Session, Object, FirstKey
<1> HIDE DEF r
<1>3. /\ r.hs.pattern = "IK" /\ r.hs.initiator = h.initiator /\ r.hs.s_pk = h.s_pk
      /\ AtIK0(h, p) /\ ~Static(r.hs.re) /\ Static(h.s_pk)
  BY <1>2, WirePoints DEF SameParty, Trail
<1>4. Static(r.hs.rs)
  BY <1>2, <1>3 DEF Session, AfterIK1
<1>5. /\ below(t.ck) = mid /\ below(below(t.ck)) = s.ck /\ t.h[2][2][2] = s.h
      /\ LastOpened(t.h, t.ck, written) /\ LastOpened(t.h[2], mid, written)
      /\ is_seal(t.h[3]) /\ is_seal(t.h[2][3])
      /\ t.h = blake2b(blake2b(blake2b(s.h, r.hs.re), t.h[2][3]), t.h[3])
  <2>1. below(t.ck) = mid /\ below(below(t.ck)) = s.ck /\ t.h[2][2][2] = s.h
    BY <1>1, Chain, Hashed
  <2>2. LastOpened(t.h, t.ck, written) /\ LastOpened(t.h[2], mid, written)
    BY <1>1, <1>2, <2>1 DEF LastOpened
  <2>3. t.h = blake2b(t.h[2], t.h[3]) /\ is_seal(t.h[3])
    BY <1>1 DEF LastOpened, SealUnder
  <2>4. t.h[2] = blake2b(t.h[2][2], t.h[2][3]) /\ is_seal(t.h[2][3])
    BY <1>1 DEF LastOpened, SealUnder
  <2>5. t.h = blake2b(blake2b(blake2b(s.h, r.hs.re), t.h[2][3]), t.h[3])
    BY <1>1, <2>3, <2>4
  <2> QED BY <2>1, <2>2, <2>3, <2>4, <2>5
<1>6. ~h.initiator
  BY <1>1, <1>2, <1>3, <1>5, OnlyResponders
<1>7. PICK w \in events : /\ w.kind = "write" /\ w.pattern = "IK" /\ w.step = 1 /\ w.initiator
                          /\ w.h = t.h /\ w.self = r.hs.rs /\ w.peer = h.s_pk /\ w.ck = t.ck
  BY <1>1, <1>3, <1>4, <1>5, FirstWriter
<1>8. /\ w.self # h.s_pk /\ IKBase(s.h, s.ck, w.self) /\ ~is_seal(s.h[3])
  <2>1. WrittenTrail(w)
    BY <1>7 DEF WrittenTrails
  <2>2. w.h[2][2][2] = s.h /\ below(below(w.ck)) = s.ck
    BY <1>5, <1>7
  <2> QED BY <1>7, <2>1, <2>2 DEF WrittenTrail
<1>9. IKBase(s.h, s.ck, h.s_pk) /\ (p => ~Static(s.h[3]))
  BY <1>3 DEF AtIK0
<1>10. p => s.h[3] = Zero
  BY <1>3, <1>8, <1>9, SameBase
<1>11. \E n \in Nat : Transcript(t.h, "IK", h.s_pk, n)
  <2>1. PICK n \in Nat : Transcript(s.h, "IK", h.s_pk, n)
    BY <1>3, <1>6 DEF AtIK0
  <2>2. Transcript(t.h, "IK", h.s_pk, n + 3) /\ n + 3 \in Nat
    BY <1>5, <2>1, TranscriptLonger
  <2> QED BY <2>2
<1>12. Due(r.hs, p)
  <2>1. DueIK2(r.hs, p)
    BY <1>3, <1>5, <1>9, <1>10, <1>11 DEF DueIK2
  <2> QED BY <1>2, <1>3, <2>1 DEF Due
<1>13. ~is_complete(r.hs)
  BY <1>2, <1>3, Steps DEF is_complete
<1>14. writer_turn(r.hs)
  <2>1. ~(r.hs.step % 2 = 0) /\ r.hs.initiator = FALSE
    BY <1>2, <1>3, <1>6
  <2> QED BY <2>1 DEF writer_turn
<1>15. Answers(w, r.hs)
  BY <1>2, <1>3, <1>6, <1>7 DEF Answers
<1> QED BY <1>12, <1>13, <1>14, <1>15 DEF Outcome, r

\* Message 2 of IK.
LEMMA ReadsIK2 ==
    ASSUME NonceInv, WrittenTrails, NEW h, NEW p, NEW m, Reader(h, p, m),
           h.pattern = "IK", h.step = 1
    PROVE  Outcome(read_message(h, m), h, p)
<1> DEFINE r == read_message(h, m)
           s == h.symmetric
           t == r.hs.symmetric
           b == s.h[2][2][2]
<1>1. /\ ~r.ok => r.hs = h \/ (t.h = blake2b(s.h, r.hs.re) /\ r.hs.rs = h.rs)
      /\ r.ok => /\ LastOpened(t.h, t.ck, seals_in(m)) /\ r.hs.rs = h.rs
                 /\ t.h[2] = blake2b(s.h, r.hs.re)
                 /\ t.ck = chained(chained(s.ck, dh(h.e_pk, r.hs.re)), dh(h.e_pk, h.rs))
  BY IK2Read DEF Reader
<1>2. /\ SameParty(r.hs, h) /\ r.hs.e_pk = h.e_pk /\ Session(r.hs, drawn, sent)
      /\ r.hs.step = (IF r.ok THEN 2 ELSE 1)
      /\ h.initiator /\ p \in BOOLEAN /\ Trail(h, p)
      /\ seals_in(m) \subseteq written /\ Points(drawn, sent)
  BY DEF Reader, Read, Rests
<1> HIDE DEF r
<1>3. /\ r.hs.pattern = "IK" /\ r.hs.initiator = h.initiator /\ r.hs.s_pk = h.s_pk
      /\ AtIK1(h, p) /\ ~Static(r.hs.re) /\ ~is_seal(r.hs.re) /\ ~Static(h.e_pk) /\ Static(h.s_pk)
  BY <1>2, WirePoints DEF SameParty, Trail
<1>4. PICK n \in Nat : Transcript(s.h, "IK", h.rs, n)
  BY <1>3 DEF AtIK1
<1>5. CASE ~r.ok
  <2> SUFFICES ASSUME NEW q \in BOOLEAN, q = (p \/ r.hs # h)
               PROVE  Trail(r.hs, q)
    BY <1>5 DEF Outcome, r
  <2>1. CASE r.hs = h
    BY <1>2, <2>1
  <2>2. CASE r.hs # h
    <3>1. t.h = blake2b(s.h, r.hs.re) /\ r.hs.rs = h.rs /\ t.h[3] = r.hs.re
      BY <1>1, <1>5, <2>2, Hashed
    <3>2. Transcript(t.h, "IK", h.rs, n + 1) /\ n + 1 \in Nat
      BY <1>4, <3>1, TranscriptGrows
    <3>3. AtIK1(r.hs, q)
      BY <1>3, <3>1, <3>2 DEF AtIK1
    <3> QED BY <1>2, <1>3, <1>5, <3>3 DEF Trail
  <2> QED BY <2>1, <2>2
<1>6. CASE r.ok
  <2>1. r.hs.step = 2 /\ is_complete(r.hs) /\ Completed(r.hs)
    BY <1>2, <1>3, <1>6, Steps DEF is_complete, Session
  <2>2. Static(h.rs) /\ r.hs.rs = h.rs
    BY <1>1, <1>6, <2>1 DEF Completed
  <2>3. LastOpened(t.h, t.ck, written) /\ t.h = blake2b(blake2b(s.h, r.hs.re), t.h[3])
    BY <1>1, <1>2, <1>6 DEF LastOpened
  <2>4. PICK w \in events : /\ w.kind = "write" /\ Shape(w) /\ w.step = 2 /\ ~w.initiator
                            /\ w.h = t.h /\ w.self = h.rs /\ w.ck = t.ck
    BY <1>1, <1>3, <1>6, <2>2, <2>3, SecondWriter
  <2>5. WrittenTrail(w)
    BY <2>4 DEF WrittenTrails
  <2>6. Transcript(t.h, "IK", h.rs, n + 2)
    BY <1>4, <2>3, TranscriptLonger
  <2>7. w.pattern = "IK"
    <3> SUFFICES ASSUME w.pattern = "XX" PROVE FALSE
      BY <2>4 DEF Shape
    <3>1. PICK a : \E k \in Nat : Transcript(t.h, "XX", a, k)
      BY <2>4, <2>5 DEF WrittenTrail
    <3>2. PICK k \in Nat : Transcript(t.h, "XX", a, k)
      BY <3>1
    <3> QED BY <2>6, <3>2, TranscriptUnique
  <2>8. t.h[2][2] = s.h /\ below(below(t.ck)) = s.ck
    BY <1>1, <1>6, Chain, Hashed
  <2>9. is_seal(s.h[3]) /\ IKBase(b, below(below(s.ck)), h.rs)
    <3>1. /\ is_seal(w.h[2][2][3])
          /\ IKBase(w.h[2][2][2][2][2], below(below(below(below(w.ck)))), w.self)
      BY <2>4, <2>5, <2>7 DEF WrittenTrail
    <3> QED BY <2>4, <2>8, <3>1
  <2>10. /\ h.rs # h.s_pk /\ IKBase(b, below(below(s.ck)), h.s_pk)
         /\ ~is_seal(b[3]) /\ (p => ~Static(b[3]))
    BY <1>3, <2>9 DEF AtIK1
  <2>11. p => b[3] = Zero
    BY <1>3, <2>9, <2>10, SameBase
  <2>12. p => low_order_start(r.hs)
    BY <1>3, <2>8, <2>11 DEF low_order_start
  <2>13. Answers(w, r.hs)
    BY <1>2, <1>3, <2>1, <2>2, <2>4, <2>7 DEF Answers
  <2> QED BY <1>6, <2>1, <2>12, <2>13 DEF Outcome, r
<1> QED BY <1>5, <1>6

\* Every read of a session that has not completed.
LEMMA ReadOutcome ==
    ASSUME NonceInv, WrittenTrails, NEW h, NEW p, NEW m, Reader(h, p, m), ~is_complete(h)
    PROVE  Outcome(read_message(h, m), h, p)
<1>1. h.pattern \in {"XX", "IK"} /\ h.step \in 0..pattern_total_steps[h.pattern]
  BY DEF Reader, Session, Object
<1>2. CASE h.pattern = "XX"
  <2>1. h.step = 0 \/ h.step = 1 \/ h.step = 2
    BY <1>1, <1>2, Steps DEF is_complete
  <2> QED BY <1>2, <2>1, ReadsXX1, ReadsXX2, RefusesXX2, ReadsXX3
<1>3. CASE h.pattern = "IK"
  <2>1. h.step = 0 \/ h.step = 1
    BY <1>1, <1>3, Steps DEF is_complete
  <2> QED BY <1>3, <2>1, ReadsIK1, RefusesIK1, ReadsIK2
<1> QED BY <1>1, <1>2, <1>3
-----------------------------------------------------------------------------
(***************************************************************************)
(* The invariant, and the actions.                                         *)
(***************************************************************************)
SessionTrail(h, p) ==
    /\ ~is_complete(h) => Trail(h, p)
    /\ is_complete(h) /\ p => low_order_start(h)

Trails == \A e \in Endpoint : state[e] = "open" => SessionTrail(hs[e], poisoned[e])

answered(r, w) ==
    /\ w.kind = "write" /\ w.step = r.step /\ w.pattern = r.pattern
    /\ w.h = r.h /\ w.ck = r.ck /\ w.self = r.peer /\ w.initiator # r.initiator

AuthInv == Carried /\ Trails /\ WrittenTrails /\ AuthenticatedReadsWereWritten

\* N is added to the record.
LEMMA AuthGrows ==
    ASSUME AuthInv, NEW N, events' = events \cup N, Carried',
           \A v \in N : /\ v.kind = "write" => WrittenTrail(v)
                        /\ v.kind = "read" /\ v.keyed => \E w \in events : answered(v, w),
           \A f \in Endpoint : state'[f] = "open" => SessionTrail(hs'[f], poisoned'[f])
    PROVE  AuthInv'
<1>1. Trails'
  BY DEF Trails
<1>2. WrittenTrails'
  BY DEF AuthInv, WrittenTrails
<1>3. AuthenticatedReadsWereWritten'
  <2>1. \A r \in events : r.kind = "read" /\ r.keyed => \E w \in events : answered(r, w)
    BY DEF AuthInv, AuthenticatedReadsWereWritten, answered
  <2>2. \A r \in events' : r.kind = "read" /\ r.keyed => \E w \in events' : answered(r, w)
    BY <2>1
  <2> QED BY <2>2 DEF AuthenticatedReadsWereWritten, answered
<1> QED BY <1>1, <1>2, <1>3 DEF AuthInv

\* Nothing is recorded: the seals on the wire are old ones, and every open
\* session is as it was or has a trail.
LEMMA AuthQuiet ==
    ASSUME AuthInv, events' = events,
           \A f \in Endpoint : \A m \in elements(chan'[f]) : seals_in(m) \subseteq written,
           \A f \in Endpoint : state'[f] = "open" =>
               \/ SessionTrail(hs'[f], poisoned'[f])
               \/ state[f] = "open" /\ hs'[f] = hs[f] /\ poisoned'[f] = poisoned[f]
    PROVE  AuthInv'
<1>1. Carried'
  BY DEF Carried, written
<1> DEFINE N == {}
<1>2. /\ events' = events \cup N
      /\ \A v \in N : /\ v.kind = "write" => WrittenTrail(v)
                      /\ v.kind = "read" /\ v.keyed => \E w \in events : answered(v, w)
  OBVIOUS
<1>3. \A f \in Endpoint : state'[f] = "open" => SessionTrail(hs'[f], poisoned'[f])
  BY DEF AuthInv, Trails
<1> HIDE DEF N
<1> QED BY <1>1, <1>2, <1>3, AuthGrows

\* The object and the mark of one session change.
LEMMA OneSession ==
    ASSUME SessionInv, AuthInv, NEW e \in Endpoint, NEW g, NEW q, state' = state,
           hs' = [hs EXCEPT ![e] = g], poisoned' = [poisoned EXCEPT ![e] = q],
           SessionTrail(g, q)
    PROVE  \A f \in Endpoint : state'[f] = "open" => SessionTrail(hs'[f], poisoned'[f])
<1>1. \A f \in Endpoint : /\ hs'[f] = IF f = e THEN g ELSE hs[f]
                          /\ poisoned'[f] = IF f = e THEN q ELSE poisoned[f]
  BY DEF SessionInv, Objects, Flags
<1> QED BY <1>1 DEF AuthInv, Trails

\* A call that writes.
LEMMA WriteAuth ==
    ASSUME NonceInv, AuthInv, NEW e \in Endpoint, state[e] = "open", ~split_done[e],
           ~is_complete(hs[e]), NEW h, NEW M, Before(e, h, M), writer_turn(h), ~is_complete(h),
           Ready(h), Due(h, poisoned[e]),
           \A v \in M : v.keyed => \E w \in events : answered(v, w),
           NEW inbound, DOMAIN inbound = Endpoint,
           \A f \in Endpoint : /\ Queue(inbound[f], sent)
                               /\ \A m \in elements(inbound[f]) : seals_in(m) \subseteq written,
           NEW oom \in BOOLEAN, write_branch(e, h, inbound, M, oom)
    PROVE  AuthInv'
<1> DEFINE k == generate_keypair(ephemerals + 1)
           w == write_message(h, k)
           x == event(e, "write", w)
           p == poisoned[e]
           q == p \/ (~w.ok /\ w.hs # h)
           N == IF w.ok THEN M \cup {x} ELSE M
<1>1. Points(drawn, sent) /\ ephemerals \in Nat /\ Session(h, drawn, sent) /\ p \in BOOLEAN
  BY SentDrawn, SessionAssumption DEF NonceInv, SessionInv, Flags, Before
<1>2. k[1] = "ephemeral" /\ k \notin sent
  BY <1>1, Drawn DEF Points
<1>3. /\ hs' = [hs EXCEPT ![e] = w.hs] /\ state' = state
      /\ poisoned' = [poisoned EXCEPT ![e] = q]
      /\ events' = (events \cup M) \cup (IF w.ok THEN {x} ELSE {})
      /\ chan' = IF emits(w, oom) THEN [inbound EXCEPT ![Peer[e]] = Append(@, w.bytes)] ELSE inbound
  BY DEF write_branch
<1> HIDE DEF k
<1>4. (w.ok /\ Wrote(w, h, k, drawn, sent)) \/ (~w.ok /\ WriteFailed(w, h, k, drawn, sent))
  BY <1>1, <1>2, WriteSession
<1>5. Notes(x, e, "write", w.hs) /\ x.seals = seals_in(w.bytes)
  BY EventNotes, EventSeals
<1> HIDE DEF x
<1>6. /\ w.ok => WrittenTrail(x)
      /\ w.ok /\ ~is_complete(w.hs) => Trail(w.hs, p)
      /\ w.ok /\ is_complete(w.hs) /\ p => low_order_start(w.hs)
      /\ ~w.ok => \A b : Trail(w.hs, b)
  BY <1>1, <1>2, <1>4, <1>5, WriteTrail
<1> HIDE DEF w
<1>7. ~w.ok => ~is_complete(w.hs)
  <2> SUFFICES ASSUME ~w.ok PROVE ~is_complete(w.hs)
    OBVIOUS
  <2>1. w.hs.step = 1 /\ w.hs.pattern \in {"XX", "IK"}
    BY <1>4 DEF WriteFailed, Session, Object
  <2> QED BY <2>1, Steps DEF is_complete
<1>8. SessionTrail(w.hs, q)
  <2>1. CASE w.ok
    <3>1. q = p
      BY <1>1, <2>1
    <3> QED BY <1>6, <2>1, <3>1 DEF SessionTrail
  <2>2. CASE ~w.ok
    BY <1>6, <1>7, <2>2 DEF SessionTrail
  <2> QED BY <2>1, <2>2
<1> HIDE DEF q
<1>9. \A f \in Endpoint : state'[f] = "open" => SessionTrail(hs'[f], poisoned'[f])
  BY <1>3, <1>8, OneSession DEF NonceInv
<1>10. events' = events \cup N
  BY <1>3
<1>11. \A v \in N : /\ v.kind = "write" => WrittenTrail(v)
                    /\ v.kind = "read" /\ v.keyed => \E u \in events : answered(v, u)
  <2>1. \A v \in M : v.kind = "read"
    BY DEF Before
  <2>2. x.kind = "write"
    BY <1>5 DEF Notes
  <2> QED BY <1>6, <2>1, <2>2
<1>12. Carried'
  <2>1. written \subseteq written' /\ (w.ok => seals_in(w.bytes) \subseteq written')
    BY <1>3, <1>5 DEF written
  <2>2. CASE emits(w, oom)
    <3>1. Peer[e] \in Endpoint /\ w.ok
      BY <2>2, SessionAssumption DEF emits
    <3>2. elements(Append(inbound[Peer[e]], w.bytes)) \subseteq elements(inbound[Peer[e]]) \cup {w.bytes}
      BY <3>1, Elements DEF Queue
    <3>3. \A f \in Endpoint : elements(chan'[f]) \subseteq elements(inbound[f]) \cup {w.bytes}
      BY <1>3, <2>2, <3>2
    <3> QED BY <2>1, <3>1, <3>3 DEF Carried
  <2>3. CASE ~emits(w, oom)
    BY <1>3, <2>1, <2>3 DEF Carried
  <2> QED BY <2>2, <2>3
<1> HIDE DEF N
<1> QED BY <1>9, <1>10, <1>11, <1>12, AuthGrows

\* A call that reads: the session that is handed the first message of its
\* queue.
LEMMA ReadAuth ==
    ASSUME NonceInv, AuthInv, NEW e \in Endpoint, state[e] = "open", ~is_complete(hs[e]),
           chan[e] # <<>>
    PROVE  LET r == read_message(hs[e], Head(chan[e]))
               x == event(e, "read", r)
           IN  /\ Outcome(r, hs[e], poisoned[e]) /\ Read(r, hs[e], drawn, sent)
               /\ r.ok /\ x.keyed => \E w \in events : answered(x, w)
<1> DEFINE m == Head(chan[e])
           r == read_message(hs[e], m)
           x == event(e, "read", r)
           p == poisoned[e]
<1>1. Message(m, sent) /\ IsSeq(chan[e])
  BY Popped DEF NonceInv, SessionInv, Wire, Queue
<1>2. m \in elements(chan[e])
  BY <1>1, Elements
<1> HIDE DEF m
<1>3. /\ ~split_done[e] /\ Session(hs[e], drawn, sent) /\ Rests(hs[e]) /\ Points(drawn, sent)
      /\ p \in BOOLEAN
  BY OpenSession, SentDrawn DEF NonceInv, SessionInv, Flags
<1>4. Read(r, hs[e], drawn, sent)
  BY <1>1, ReadProgress DEF NonceInv
<1>5. FirstKey(hs[e]) /\ Trail(hs[e], p) /\ seals_in(m) \subseteq written
  BY <1>2, <1>3 DEF NonceInv, FirstKeys, AuthInv, Trails, SessionTrail, Carried
<1>6. Reader(hs[e], p, m)
  BY <1>1, <1>3, <1>4, <1>5 DEF Reader
<1>7. Outcome(r, hs[e], p)
  BY <1>6, ReadOutcome DEF AuthInv
<1>8. Notes(x, e, "read", r.hs) /\ x.keyed = r.hs.symmetric.cipher.has_key
  BY EventNotes DEF event
<1> HIDE DEF r, x, p
<1>9. r.ok /\ x.keyed => \E w \in events : answered(x, w)
  <2> SUFFICES ASSUME r.ok, x.keyed PROVE \E w \in events : answered(x, w)
    OBVIOUS
  <2>1. PICK w \in events : Answers(w, r.hs)
    BY <1>7, <1>8 DEF Outcome
  <2>2. answered(x, w)
    BY <1>8, <2>1 DEF Answers, Notes, answered
  <2> QED BY <2>2
<1> QED BY <1>4, <1>7, <1>9 DEF r, x, p, m

\* The queues after a message was taken.
LEMMA PoppedSeals ==
    ASSUME NonceInv, AuthInv, NEW e \in Endpoint, chan[e] # <<>>
    PROVE  LET q == [chan EXCEPT ![e] = Tail(@)]
           IN  \A f \in Endpoint : \A m \in elements(q[f]) : seals_in(m) \subseteq written
<1>1. IsSeq(chan[e]) /\ DOMAIN chan = Endpoint
  BY DEF NonceInv, SessionInv, Wire, Queue
<1>2. elements(Tail(chan[e])) \subseteq elements(chan[e])
  BY <1>1, Elements
<1> QED BY <1>1, <1>2 DEF AuthInv, Carried

\* handshake_step with no input.
LEMMA AuthWithoutInput ==
    ASSUME NonceInv, AuthInv, NEW e \in Endpoint, NEW oom \in BOOLEAN, step_without_input(e, oom)
    PROVE  AuthInv'
<1>1. state[e] = "open" /\ writer_turn(hs[e]) /\ write_branch(e, hs[e], chan, {}, oom)
  BY DEF step_without_input
<1>2. \A f \in Endpoint : \A m \in elements(chan[f]) : seals_in(m) \subseteq written
  BY DEF AuthInv, Carried
<1>3. CASE is_complete(hs[e])
  <2> DEFINE w == write_message(hs[e], generate_keypair(ephemerals + 1))
  <2>1. ~w.ok /\ w.hs = hs[e]
    BY <1>1, <1>3, OpenSession, CompleteRefuses DEF NonceInv
  <2>2. /\ hs' = [hs EXCEPT ![e] = w.hs] /\ state' = state
        /\ poisoned' = [poisoned EXCEPT ![e] = @ \/ (~w.ok /\ w.hs # hs[e])]
        /\ ~w.ok => events' = (events \cup {}) \cup {}
        /\ ~emits(w, oom) => chan' = chan
    BY <1>1 DEF write_branch
  <2> HIDE DEF w
  <2>3. events' = events /\ chan' = chan
    BY <2>1, <2>2 DEF emits
  <2>4. \A f \in Endpoint : hs'[f] = hs[f] /\ poisoned'[f] = poisoned[f]
    BY <2>1, <2>2 DEF NonceInv, SessionInv, Objects, Flags
  <2> QED BY <1>2, <2>2, <2>3, <2>4, AuthQuiet
<1>4. CASE ~is_complete(hs[e])
  <2>1. ~split_done[e] /\ Session(hs[e], drawn, sent) /\ Rests(hs[e])
    BY <1>1, <1>4, OpenSession DEF NonceInv
  <2>2. hs[e].initiator \in BOOLEAN /\ hs[e].step <= hs[e].step
    BY <2>1, Steps DEF Session, Object
  <2>3. Before(e, hs[e], {})
    BY <2>1, <2>2 DEF Before, SameParty
  <2>4. Ready(hs[e])
    BY <1>1, <2>1, <2>2, RestsReady DEF NonceInv, FirstKeys
  <2>5. Due(hs[e], poisoned[e])
    BY <1>1, <1>4, <2>1, <2>2, RestsDue DEF AuthInv, Trails, SessionTrail
  <2>6. DOMAIN chan = Endpoint /\ \A f \in Endpoint : Queue(chan[f], sent)
    BY DEF NonceInv, SessionInv, Wire
  <2> DEFINE M == {}
  <2>7. \A v \in M : v.keyed => \E w \in events : answered(v, w)
    OBVIOUS
  <2>8. Before(e, hs[e], M) /\ write_branch(e, hs[e], chan, M, oom)
    BY <1>1, <2>3
  <2> HIDE DEF M
  <2> QED BY <1>1, <1>2, <1>4, <2>1, <2>4, <2>5, <2>6, <2>7, <2>8, WriteAuth
<1> QED BY <1>3, <1>4

\* handshake_step that reads and answers.
LEMMA AuthReadAndWrite ==
    ASSUME NonceInv, AuthInv, NEW e \in Endpoint, NEW oom \in BOOLEAN, step_read_and_write(e, oom)
    PROVE  AuthInv'
<1> DEFINE m == Head(chan[e])
           r == read_message(hs[e], m)
           q == [chan EXCEPT ![e] = Tail(@)]
           M == {event(e, "read", r)}
<1>1. /\ state[e] = "open" /\ chan[e] # <<>> /\ ~no_write_after(r)
      /\ write_branch(e, r.hs, q, M, oom)
  BY DEF step_read_and_write
<1>2. /\ Message(m, sent) /\ DOMAIN q = Endpoint
      /\ \A f \in Endpoint : /\ Queue(q[f], sent)
                             /\ \A c \in elements(q[f]) : seals_in(c) \subseteq written
  BY <1>1, Popped, PoppedSeals DEF NonceInv
<1>3. r.ok /\ writer_turn(r.hs) /\ ~is_complete(r.hs)
  BY <1>1 DEF no_write_after
<1>4. ~is_complete(hs[e])
  BY <1>1, <1>3, OpenSession, CompleteRefuses DEF NonceInv
<1>5. /\ Outcome(r, hs[e], poisoned[e])
      /\ event(e, "read", r).keyed => \E w \in events : answered(event(e, "read", r), w)
  BY <1>1, <1>3, <1>4, ReadAuth
<1> HIDE DEF m, q
<1>6. /\ Before(e, r.hs, M) /\ Read(r, hs[e], drawn, sent)
      /\ ~split_done[e] /\ Session(hs[e], drawn, sent) /\ Points(drawn, sent)
  BY <1>1, <1>2, <1>3, <1>4, ReadProgress, OpenSession, SentDrawn DEF NonceInv, SessionInv
<1>7. Ready(r.hs)
  BY <1>2, <1>3, <1>6, ReadReady
<1>8. \A v \in M : v.keyed => \E w \in events : answered(v, w)
  BY <1>5
<1> HIDE DEF r, M
<1>9. Due(r.hs, poisoned[e])
  BY <1>3, <1>5 DEF Outcome
<1> QED BY <1>1, <1>2, <1>3, <1>4, <1>6, <1>7, <1>8, <1>9, WriteAuth

\* handshake_step that reads and has nothing to write.
LEMMA AuthReadOnly ==
    ASSUME NonceInv, AuthInv, NEW e \in Endpoint, step_read_only(e)
    PROVE  AuthInv'
<1> DEFINE r == read_message(hs[e], Head(chan[e]))
           c == [chan EXCEPT ![e] = Tail(@)]
           x == event(e, "read", r)
           p == poisoned[e]
           q == p \/ (~r.ok /\ r.hs # hs[e])
           N == IF r.ok THEN {x} ELSE {}
<1>1. /\ state[e] = "open" /\ chan[e] # <<>> /\ no_write_after(r)
      /\ hs' = [hs EXCEPT ![e] = r.hs] /\ chan' = c /\ events' = events \cup N
      /\ poisoned' = [poisoned EXCEPT ![e] = q] /\ state' = state
  BY DEF step_read_only
<1>2. \A f \in Endpoint : \A m \in elements(c[f]) : seals_in(m) \subseteq written
  BY <1>1, PoppedSeals
<1> HIDE DEF c
<1>3. p \in BOOLEAN
  BY DEF NonceInv, SessionInv, Flags
<1>4. CASE is_complete(hs[e])
  <2>1. ~r.ok /\ r.hs = hs[e]
    BY <1>1, <1>4, OpenSession, CompleteRefuses DEF NonceInv
  <2> HIDE DEF r
  <2>2. events' = events
    BY <1>1, <2>1
  <2>3. q = p
    BY <1>3, <2>1
  <2> HIDE DEF q
  <2>4. \A f \in Endpoint : hs'[f] = hs[f] /\ poisoned'[f] = poisoned[f]
    BY <1>1, <2>1, <2>3 DEF NonceInv, SessionInv, Objects, Flags
  <2> QED BY <1>1, <1>2, <2>2, <2>4, AuthQuiet
<1>5. CASE ~is_complete(hs[e])
  <2>1. /\ Outcome(r, hs[e], p) /\ Read(r, hs[e], drawn, sent)
        /\ r.ok /\ x.keyed => \E w \in events : answered(x, w)
    BY <1>1, <1>5, ReadAuth
  <2>2. x.kind = "read"
    BY EventNotes DEF Notes
  <2> HIDE DEF r, x
  <2>3. SessionTrail(r.hs, q)
    <3>1. CASE r.ok
      <4>1. q = p
        BY <1>3, <3>1
      <4>2. is_complete(r.hs) \/ ~writer_turn(r.hs)
        BY <1>1, <3>1 DEF no_write_after
      <4> QED BY <2>1, <3>1, <4>1, <4>2 DEF Outcome, SessionTrail
    <3>2. CASE ~r.ok
      <4>1. ~is_complete(r.hs)
        BY <1>5, <2>1, <3>2 DEF Read, SameParty, is_complete
      <4>2. q \in BOOLEAN /\ q = (p \/ r.hs # hs[e])
        BY <1>3, <3>2
      <4> HIDE DEF q
      <4>3. Trail(r.hs, q)
        BY <2>1, <3>2, <4>2 DEF Outcome
      <4> QED BY <4>1, <4>3 DEF SessionTrail
    <3> QED BY <3>1, <3>2
  <2> HIDE DEF q
  <2>4. \A f \in Endpoint : state'[f] = "open" => SessionTrail(hs'[f], poisoned'[f])
    BY <1>1, <2>3, OneSession DEF NonceInv
  <2>5. Carried'
    <3>1. written \subseteq written'
      BY <1>1 DEF written
    <3> QED BY <1>1, <1>2, <3>1 DEF Carried
  <2>6. \A v \in N : /\ v.kind = "write" => WrittenTrail(v)
                     /\ v.kind = "read" /\ v.keyed => \E w \in events : answered(v, w)
    BY <2>1, <2>2
  <2> HIDE DEF N
  <2> QED BY <1>1, <2>4, <2>5, <2>6, AuthGrows
<1> QED BY <1>4, <1>5

\* The object that the constructor leaves: nothing but the name, the
\* prologue and the static key that IK knows beforehand is in its hash.
LEMMA ConstructedTrail ==
    ASSUME NEW p \in {"XX", "IK"}, NEW i \in BOOLEAN, NEW s, Static(s), NEW rs,
           p = "IK" /\ i => Static(rs) /\ rs # s, NEW q, ~q
    PROVE  SessionTrail(construct(p, i, s, rs), q)
<1> DEFINE g == construct(p, i, s, rs)
           a == IF i THEN rs ELSE s
<1>1. /\ g.pattern = p /\ g.initiator = i /\ g.step = 0 /\ g.s_pk = s /\ g.e_pk = Zero
      /\ p = "XX" => g.symmetric.h = prologue_hash("XX")
      /\ p = "IK" => g.symmetric.h = blake2b(prologue_hash("IK"), a) /\ (i => g.rs = rs)
  <2>1. g.pattern = p /\ g.initiator = i /\ g.step = 0 /\ g.s_pk = s /\ g.e_pk = Zero
    BY DEF construct
  <2>2. p = "XX" => g.symmetric.h = prologue_hash("XX")
    BY DEF construct, mix_hash, initialize, prologue_hash
  <2>3. p = "IK" /\ i => rs # Empty
    BY DEF Static, Empty
  <2>4. p = "IK" /\ i => g.rs = rs /\ g.symmetric.h = blake2b(prologue_hash("IK"), rs)
    BY <2>3 DEF construct, mix_hash, initialize, prologue_hash
  <2>5. p = "IK" /\ ~i => g.symmetric.h = blake2b(prologue_hash("IK"), s)
    BY DEF construct, mix_hash, initialize, prologue_hash
  <2> QED BY <2>1, <2>2, <2>4, <2>5
<1> SUFFICES SessionTrail(g, q)
  OBVIOUS
<1> HIDE DEF g
<1>2. ~is_complete(g)
  BY <1>1, Steps DEF is_complete
<1>3. CASE p = "XX"
  BY <1>1, <1>2, <1>3 DEF SessionTrail, Trail
<1>4. CASE p = "IK"
  <2>1. Transcript(g.symmetric.h, "IK", a, 0) /\ g.symmetric.h[3] = a /\ Static(a) /\ ~is_seal(a)
    BY <1>1, <1>4, TranscriptStarts, Hashed, NotSeals
  <2>2. a = IF g.initiator THEN g.rs ELSE g.s_pk
    BY <1>1, <1>4
  <2>3. \E n \in Nat : Transcript(g.symmetric.h, "IK", IF g.initiator THEN g.rs ELSE g.s_pk, n)
    BY <2>1, <2>2
  <2>4. IKBase(g.symmetric.h, g.symmetric.ck, g.s_pk)
    BY <2>1 DEF IKBase
  <2>5. g.initiator => g.rs # g.s_pk /\ ~is_seal(g.symmetric.h[3])
    BY <1>1, <1>4, <2>1
  <2>6. AtIK0(g, q)
    BY <2>3, <2>4, <2>5 DEF AtIK0
  <2>7. g.pattern = "IK" /\ g.step = 0
    BY <1>1, <1>4
  <2>8. Trail(g, q)
    BY <2>6, <2>7 DEF Trail
  <2> QED BY <1>2, <2>8 DEF SessionTrail
<1> QED BY <1>3, <1>4

\* handshake_open.
LEMMA AuthOpen ==
    ASSUME NobodyPinsItself, NonceInv, AuthInv, NEW e \in Endpoint, NEW args \in OpenArgs[e],
           handshake_open(e, args)
    PROVE  AuthInv'
<1> DEFINE s  == ed25519_to_x25519(args.local)
           rs == IF pins_remote(args) THEN ed25519_to_x25519(args.remote) ELSE Empty
           g  == construct(args.pattern, args.initiator, s, rs)
<1>1. /\ state[e] = "none" /\ convertible(args.local)
      /\ pins_remote(args) => args.remote # Empty /\ convertible(args.remote)
      /\ state' = [state EXCEPT ![e] = "open"] /\ hs' = [hs EXCEPT ![e] = g]
      /\ poisoned' = [poisoned EXCEPT ![e] = FALSE] /\ chan' = chan /\ events' = events
  BY DEF handshake_open
<1>2. SessionTrail(g, FALSE)
  <2>1. Static(s) /\ (args.pattern = "IK" /\ args.initiator => Static(rs))
    BY DEF Static, ed25519_to_x25519, X25519, pins_remote
  <2>2. args.pattern = "IK" /\ args.initiator => rs # s
    BY <1>1 DEF NobodyPinsItself, pins_remote
  <2>3. args.pattern \in {"XX", "IK"} /\ args.initiator \in BOOLEAN
    BY SessionAssumption
  <2> HIDE DEF s, rs
  <2> QED BY <2>1, <2>2, <2>3, ConstructedTrail
<1> HIDE DEF g
<1>3. \A f \in Endpoint : /\ hs'[f] = IF f = e THEN g ELSE hs[f]
                          /\ poisoned'[f] = IF f = e THEN FALSE ELSE poisoned[f]
                          /\ f # e => state'[f] = state[f]
  BY <1>1 DEF NonceInv, SessionInv, Objects, Flags
<1>4. \A f \in Endpoint : \A m \in elements(chan'[f]) : seals_in(m) \subseteq written
  BY <1>1 DEF AuthInv, Carried
<1>5. \A f \in Endpoint : state'[f] = "open" =>
          \/ SessionTrail(hs'[f], poisoned'[f])
          \/ state[f] = "open" /\ hs'[f] = hs[f] /\ poisoned'[f] = poisoned[f]
  BY <1>2, <1>3
<1> QED BY <1>1, <1>4, <1>5, AuthQuiet

\* export_transport_keys: Split leaves the hash alone.
LEMMA AuthExport ==
    ASSUME NonceInv, AuthInv, NEW e \in Endpoint, export_transport_keys(e)
    PROVE  AuthInv'
<1> DEFINE g == handshake_split(hs[e]).hs
           h == hs[e]
<1>1. /\ state[e] = "open" /\ is_complete(h) /\ hs' = [hs EXCEPT ![e] = g]
      /\ UNCHANGED <<state, chan, events, poisoned>>
  BY DEF export_transport_keys
<1>2. g.pattern = h.pattern /\ g.step = h.step /\ g.symmetric.h = h.symmetric.h
  <2>1. IsHandshake(h)
    BY <1>1, OpenSession DEF NonceInv
  <2>2. g = [h EXCEPT !.symmetric = [h.symmetric EXCEPT !.ck = Zero], !.s_sk = Zero,
                      !.e_sk = Zero, !.e_pk = Zero, !.re = Zero]
    BY DEF handshake_split, split
  <2>3. g.pattern = h.pattern /\ g.step = h.step /\ g.symmetric = [h.symmetric EXCEPT !.ck = Zero]
    BY <2>1, <2>2 DEF IsHandshake
  <2> HIDE DEF g
  <2> QED BY <2>1, <2>3 DEF IsHandshake, IsSymmetric
<1> HIDE DEF g
<1>3. SessionTrail(g, poisoned[e])
  <2>1. SessionTrail(h, poisoned[e]) /\ is_complete(g)
    BY <1>1, <1>2 DEF AuthInv, Trails, is_complete
  <2> QED BY <1>1, <1>2, <2>1 DEF SessionTrail, low_order_start
<1>4. \A f \in Endpoint : hs'[f] = IF f = e THEN g ELSE hs[f]
  BY <1>1 DEF NonceInv, SessionInv, Objects
<1>5. \A f \in Endpoint : \A m \in elements(chan'[f]) : seals_in(m) \subseteq written
  BY <1>1 DEF AuthInv, Carried
<1>6. \A f \in Endpoint : state'[f] = "open" =>
          \/ SessionTrail(hs'[f], poisoned'[f])
          \/ state[f] = "open" /\ hs'[f] = hs[f] /\ poisoned'[f] = poisoned[f]
  BY <1>1, <1>3, <1>4
<1> QED BY <1>1, <1>5, <1>6, AuthQuiet

\* handshake_close.
LEMMA AuthClose ==
    ASSUME NonceInv, AuthInv, NEW e \in Endpoint, handshake_close(e)
    PROVE  AuthInv'
<1> DEFINE g == destroyed(hs[e])
<1>1. /\ state' = [state EXCEPT ![e] = "none"] /\ hs' = [hs EXCEPT ![e] = g]
      /\ UNCHANGED <<chan, events, poisoned>>
  BY DEF handshake_close
<1> HIDE DEF g
<1>2. \A f \in Endpoint : IF f = e THEN state'[f] = "none"
                          ELSE state'[f] = state[f] /\ hs'[f] = hs[f]
  BY <1>1 DEF NonceInv, SessionInv, Objects, Flags
<1>3. \A f \in Endpoint : \A m \in elements(chan'[f]) : seals_in(m) \subseteq written
  BY <1>1 DEF AuthInv, Carried
<1>4. \A f \in Endpoint : state'[f] = "open" =>
          state[f] = "open" /\ hs'[f] = hs[f] /\ poisoned'[f] = poisoned[f]
  BY <1>1, <1>2
<1> QED BY <1>1, <1>3, <1>4, AuthQuiet

\* The link: no fault makes a seal.
LEMMA AuthLink ==
    ASSUME NonceInv, AuthInv, NEW e \in Endpoint, link(e)
    PROVE  AuthInv'
<1> DEFINE Old(q) == \A m \in elements(q) : seals_in(m) \subseteq written
           q == chan[e]
<1>1. link_only
  BY DEF link, lose, duplicate, reorder, damage, truncate, extend
<1>2. IsSeq(q) /\ Queue(q, sent) /\ Old(q) /\ DOMAIN chan = Endpoint
  BY DEF NonceInv, SessionInv, Wire, Queue, AuthInv, Carried
<1>3. ASSUME q # <<>>
      PROVE  /\ Message(Head(q), sent) /\ seals_in(Head(q)) \subseteq written
             /\ IsSeq(Tail(q)) /\ Old(Tail(q))
  BY <1>2, <1>3, QueueHead, Elements DEF Queue
<1>4. ASSUME NEW s, IsSeq(s), Old(s), NEW m, seals_in(m) \subseteq written
      PROVE  Old(Append(s, m)) /\ Old(<<m>> \o s)
  BY <1>4, Elements
<1>5. \E s : chan' = [chan EXCEPT ![e] = s] /\ Old(s)
  <2>1. CASE lose(e)
    BY <1>3, <2>1 DEF lose
  <2>2. CASE duplicate(e)
    <3>1. q # <<>> /\ chan' = [chan EXCEPT ![e] = <<Head(q)>> \o q]
      BY <2>2 DEF duplicate
    <3>2. Old(<<Head(q)>> \o q)
      BY <1>2, <1>3, <1>4, <3>1
    <3> QED BY <3>1, <3>2
  <2>3. CASE reorder(e)
    <3>1. q # <<>> /\ chan' = [chan EXCEPT ![e] = Append(Tail(q), Head(q))]
      BY <1>2, <2>3 DEF reorder, IsSeq
    <3>2. Old(Append(Tail(q), Head(q)))
      BY <1>3, <1>4, <3>1
    <3> QED BY <3>1, <3>2
  <2>4. ASSUME q # <<>>, NEW m, seals_in(m) \subseteq seals_in(Head(q)), rewrite_head(e, m)
        PROVE  \E s : chan' = [chan EXCEPT ![e] = s] /\ Old(s)
    <3>1. chan' = [chan EXCEPT ![e] = <<m>> \o Tail(q)]
      BY <2>4 DEF rewrite_head
    <3>2. Old(<<m>> \o Tail(q))
      BY <1>3, <1>4, <2>4
    <3> QED BY <3>1, <3>2
  <2>5. ASSUME NEW kind, NEW val \in {Garbage, Zero}, damage(e, kind, val)
        PROVE  \E s : chan' = [chan EXCEPT ![e] = s] /\ Old(s)
    <3>1. q # <<>>
      BY <2>5 DEF damage
    <3>2. PICK i \in DOMAIN Head(q).fields : rewrite_head(e, with_field(Head(q), i, val))
      BY <2>5 DEF damage
    <3>3. seals_in(with_field(Head(q), i, val)) \subseteq seals_in(Head(q))
      BY <1>3, <3>1, SealsDamaged
    <3> HIDE DEF Old
    <3> QED BY <2>4, <3>1, <3>2, <3>3
  <2>6. CASE truncate(e)
    <3>1. q # <<>> /\ rewrite_head(e, truncated(Head(q)))
      BY <2>6 DEF truncate
    <3>2. seals_in(truncated(Head(q))) \subseteq seals_in(Head(q))
      BY <1>3, <3>1, SealsDamaged
    <3> HIDE DEF Old
    <3> QED BY <2>4, <3>1, <3>2
  <2>7. CASE extend(e)
    <3>1. q # <<>> /\ rewrite_head(e, put(Head(q), 1, Garbage))
      BY <2>7 DEF extend
    <3>2. seals_in(put(Head(q), 1, Garbage)) \subseteq seals_in(Head(q))
      BY <1>3, <3>1, SealsDamaged
    <3> HIDE DEF Old
    <3> QED BY <2>4, <3>1, <3>2
  <2> HIDE DEF Old
  <2> QED BY <2>1, <2>2, <2>3, <2>5, <2>6, <2>7 DEF link
<1>6. \A f \in Endpoint : \A m \in elements(chan'[f]) : seals_in(m) \subseteq written
  <2>1. PICK s : chan' = [chan EXCEPT ![e] = s] /\ Old(s)
    BY <1>5
  <2> QED BY <1>2, <2>1 DEF AuthInv, Carried
<1> QED BY <1>1, <1>6, AuthQuiet DEF link_only

\* Every step.
LEMMA AuthNext ==
    ASSUME NobodyPinsItself
    PROVE  NonceInv /\ AuthInv /\ [Next]_vars => AuthInv'
<1> SUFFICES ASSUME NonceInv, AuthInv, [Next]_vars PROVE AuthInv'
  OBVIOUS
<1>1. CASE UNCHANGED vars
  <2>1. \A f \in Endpoint : \A m \in elements(chan'[f]) : seals_in(m) \subseteq written
    BY <1>1 DEF vars, AuthInv, Carried
  <2> QED BY <1>1, <2>1, AuthQuiet DEF vars
<1>2. ASSUME NEW e \in Endpoint, handshake_step(e)
      PROVE  AuthInv'
  BY <1>2, AuthWithoutInput, AuthReadAndWrite, AuthReadOnly DEF handshake_step
<1> QED BY <1>1, <1>2, AuthOpen, AuthExport, AuthClose, AuthLink DEF Next

\* The invariant holds at the start, where nothing is open or recorded.
LEMMA AuthInit == Init => AuthInv
<1> SUFFICES ASSUME Init PROVE AuthInv
  OBVIOUS
<1>1. \A e \in Endpoint : chan[e] = <<>>
  BY DEF Init
<1>2. elements(<<>>) = {}
  BY DEF elements
<1>3. Carried
  BY <1>1, <1>2 DEF Carried
<1> QED BY <1>3 DEF Init, AuthInv, Trails, WrittenTrails, AuthenticatedReadsWereWritten

\* When nobody pins its own key: what is on the wire was written, and the hash
\* of every session is a transcript whose length shows whether a failed
\* handshake_step has added to it.
THEOREM AuthInvariant ==
    ASSUME NobodyPinsItself
    PROVE  Spec => []AuthInv
<1>1. NonceInv /\ AuthInv /\ [Next]_vars => AuthInv'
  BY AuthNext
<1> QED BY <1>1, AuthInit, NonceInvariant, PTL DEF Spec

\* When nobody pins its own key, a message with a sealed payload that
\* read_message accepts was written at the same step, with the same hash and
\* chaining key, by a session of the other role that holds the static key
\* the reader now has, whatever the link did to the messages.
THEOREM Authenticity ==
    ASSUME NobodyPinsItself
    PROVE  Spec => []AuthenticatedReadsWereWritten
<1>1. AuthInv => AuthenticatedReadsWereWritten
  BY DEF AuthInv
<1> QED BY <1>1, AuthInvariant, PTL

\* When nobody pins its own key, a session that a failed call has changed
\* never completes, but for the low-order start.
THEOREM Poisoning ==
    ASSUME NobodyPinsItself
    PROVE  Spec => []PoisonedNeverCompletes
<1>1. AuthInv => PoisonedNeverCompletes
  BY DEF AuthInv, Trails, SessionTrail, PoisonedNeverCompletes
<1> QED BY <1>1, AuthInvariant, PTL
-----------------------------------------------------------------------------
(***************************************************************************)
(* Failures that show.  Messages 1 and 2 open with the ephemeral of their  *)
(* writer, and read_message stores it before anything can fail: a call     *)
(* that does not read them has changed the object.                         *)
(***************************************************************************)
Opening(m, e) ==
    /\ m.size \in Nat /\ m.size >= 32
    /\ IsSeq(m.fields) /\ m.fields # <<>> /\ Head(m.fields) = field(32, e)

\* What is put behind the ephemeral leaves it at the front.
LEMMA PutOpening ==
    ASSUME NEW m, NEW e, Opening(m, e), NEW len \in Nat, NEW val
    PROVE  Opening(put(m, len, val), e)
<1>1. CASE len = 0
  BY <1>1 DEF put
<1>2. CASE len # 0
  <2> DEFINE f == [len |-> len, val |-> val]
             q == Append(m.fields, f)
             S == {m.fields[i] : i \in DOMAIN m.fields}
  <2>1. put(m, len, val) = [size |-> m.size + len, fields |-> q]
    BY <1>2 DEF put
  <2>2. m.fields \in Seq(S \cup {f})
    BY DEF Opening, IsSeq
  <2> HIDE DEF f, S
  <2>3. q \in Seq(S \cup {f}) /\ q # <<>> /\ Head(q) = Head(m.fields)
    BY <2>2 DEF Opening
  <2>4. IsSeq(q)
    BY <2>3, Sequence
  <2> HIDE DEF q
  <2> QED BY <2>1, <2>3, <2>4 DEF Opening
<1> QED BY <1>1, <1>2

\* A writer's tokens after the first.
Opened_with(c, e) == IsCall(c) /\ Opening(c.bytes, e)

\* No token after the first takes the ephemeral from the front.
LEMMA OpeningTokens ==
    ASSUME NEW c, NEW e, Opened_with(c, e)
    PROVE  /\ \A sk \in {"s_sk", "e_sk"} : \A pk \in {"rs", "re"} : Opened_with(mix_dh(c, sk, pk), e)
           /\ Opened_with(encrypt_static(c), e) /\ Opened_with(encrypt_payload(c), e)
           /\ Opened_with(advance(c), e)
<1>1. CASE ~c.ok
  BY <1>1, FailedStays
<1>2. CASE c.ok
  <2>1. ASSUME NEW sk \in {"s_sk", "e_sk"}, NEW pk \in {"rs", "re"}
        PROVE  Opened_with(mix_dh(c, sk, pk), e)
    <3>1. CASE c.hs[pk] = Zero
      <4>1. mix_dh(c, sk, pk) = failed(c)
        BY <1>2, <3>1 DEF mix_dh, dh_ok
      <4> QED BY <4>1, FailedCall DEF Opened_with
    <3>2. CASE c.hs[pk] # Zero
      BY <1>2, <3>2, MixedDh DEF Opened_with
    <3> QED BY <3>1, <3>2
  <2>2. ASSUME NEW p, NEW z \in Nat
        PROVE  Opened_with(write_sealed(c, p, z), e)
    <3> DEFINE n == sealed_size(c.hs.symmetric, z)
               r == write_sealed(c, p, z)
               o == encrypt_and_hash(c.hs.symmetric, p).out
    <3>1. IsCall(r) /\ r.bytes = put(c.bytes, n, o)
      BY <1>2, WroteSealed DEF Opened_with, Sealing
    <3>2. n \in Nat
      BY DEF sealed_size, AEAD_TAG_BYTES
    <3> HIDE DEF n, r, o
    <3>3. Opening(r.bytes, e)
      BY <3>1, <3>2, PutOpening DEF Opened_with
    <3> QED BY <3>1, <3>3 DEF Opened_with, r
  <2>3. Opened_with(encrypt_static(c), e) /\ Opened_with(encrypt_payload(c), e)
    BY <2>2 DEF encrypt_static, encrypt_payload, DH_PUBLIC_KEY_BYTES
  <2>4. Opened_with(advance(c), e)
    BY <1>2, Advanced DEF Opened_with
  <2> QED BY <2>1, <2>3, <2>4
<1> QED BY <1>1, <1>2

\* Messages 1 and 2 of both patterns.
LEMMA WrittenOpens ==
    ASSUME NEW h, IsHandshake(h), h.pattern \in {"XX", "IK"}, h.step \in {0, 1}, NEW e
    PROVE  Opening(write_message(h, e).bytes, e)
<1> DEFINE c == write_e(call(h, NoBytes), e)
<1>1. Opened_with(c, e)
  <2>1. IsCall(c) /\ c.bytes = put(NoBytes, 32, e)
    BY NewCall, WroteE
  <2>2. put(NoBytes, 32, e) = one_field(field(32, e))
    BY PutFields
  <2>3. \A f : <<f>> \in Seq({f}) /\ <<f>> # <<>> /\ Head(<<f>>) = f
    OBVIOUS
  <2>4. IsSeq(<<field(32, e)>>)
    BY <2>3, Sequence
  <2>5. Opening(one_field(field(32, e)), e)
    BY <2>3, <2>4 DEF Opening, one_field, field
  <2> QED BY <2>1, <2>2, <2>5 DEF Opened_with
<1>2. \/ write_message(h, e) = advance(encrypt_payload(
                mix_dh(encrypt_static(mix_dh(c, "e_sk", "rs")), "s_sk", "rs")))
      \/ write_message(h, e) = advance(encrypt_payload(c))
      \/ write_message(h, e) = advance(encrypt_payload(
                mix_dh(mix_dh(c, "e_sk", "re"), "s_sk", "re")))
      \/ write_message(h, e) = advance(encrypt_payload(
                mix_dh(encrypt_static(mix_dh(c, "e_sk", "re")), "s_sk", "re")))
  <2>1. ~is_complete(h)
    BY Steps DEF is_complete
  <2> QED BY <2>1 DEF write_message
<1> HIDE DEF c
<1>3. Opened_with(write_message(h, e), e)
  <2> USE OpeningTokens
  <2>1. Opened_with(advance(encrypt_payload(c)), e)
    BY <1>1
  <2>2. \A x \in {"rs", "re"} : Opened_with(mix_dh(c, "e_sk", x), e)
    BY <1>1
  <2>3. \A x \in {"rs", "re"} : Opened_with(encrypt_static(mix_dh(c, "e_sk", x)), e)
    BY <2>2
  <2>4. \A x \in {"rs", "re"} : Opened_with(mix_dh(encrypt_static(mix_dh(c, "e_sk", x)), "s_sk", x), e)
    BY <2>3
  <2>5. Opened_with(mix_dh(mix_dh(c, "e_sk", "re"), "s_sk", "re"), e)
    BY <2>2
  <2>6. \A d : Opened_with(d, e) => Opened_with(advance(encrypt_payload(d)), e)
    OBVIOUS
  <2> QED BY ONLY <1>2, <2>1, <2>4, <2>5, <2>6
<1> QED BY <1>3 DEF Opened_with

\* A reader's tokens after the first: they keep re, and a DH token that goes
\* well leaves a cipher with a key.
Got(c, v) == IsCall(c) /\ c.hs.re = v
Keyed(c)  == c.ok => c.hs.symmetric.cipher.has_key

\* decrypt_and_hash leaves it to the cipher's key whether there is one.
LEMMA DecryptShape ==
    ASSUME NEW s, IsSymmetric(s), NEW ct
    PROVE  LET d == decrypt_and_hash(s, ct)
           IN  IsSymmetric(d.sym) /\ (d.sym.cipher.has_key <=> s.cipher.has_key)
<1> DEFINE d == decrypt_and_hash(s, ct)
<1>1. CASE s.cipher.has_key
  BY <1>1 DEF IsSymmetric, decrypt_and_hash, decrypt_with_ad, mix_hash
<1>2. CASE ~s.cipher.has_key
  BY <1>2 DEF IsSymmetric, decrypt_and_hash, decrypt_with_ad, mix_hash
<1> QED BY <1>1, <1>2

\* A DH token.
LEMMA GotDh ==
    ASSUME NEW c, NEW v, Got(c, v), NEW sk \in {"s_sk", "e_sk"}, NEW pk \in {"rs", "re"}
    PROVE  Got(mix_dh(c, sk, pk), v) /\ Keyed(mix_dh(c, sk, pk))
<1>1. CASE ~c.ok
  BY <1>1, FailedStays DEF Keyed
<1>2. CASE c.ok /\ c.hs[pk] = Zero
  <2>1. mix_dh(c, sk, pk) = failed(c)
    BY <1>2 DEF mix_dh, dh_ok
  <2> QED BY <2>1, FailedCall DEF Got, Keyed
<1>3. CASE c.ok /\ c.hs[pk] # Zero
  <2> DEFINE r == mix_dh(c, sk, pk)
             s == mix_key(c.hs.symmetric, dh(c.hs[sk], c.hs[pk]))
  <2>1. IsCall(r) /\ Kept(r.hs, c.hs) /\ r.hs.symmetric = s
    BY <1>3, MixedDh DEF Got
  <2>2. s.cipher.has_key
    BY SymmetricCalls DEF Got, IsCall, IsHandshake
  <2> HIDE DEF r, s
  <2> QED BY <2>1, <2>2 DEF Got, Keyed, Kept, r
<1> QED BY <1>1, <1>2, <1>3

\* The sealed static.
LEMMA GotSealedStatic ==
    ASSUME NEW c, NEW v, Got(c, v)
    PROVE  Got(read_encrypted_static(c), v)
<1> DEFINE r == read_encrypted_static(c)
           t == take(c.bytes, 48)
           p == decrypt_and_hash(c.hs.symmetric, t.val)
           d == [c EXCEPT !.hs.symmetric = p.sym]
           g == [c EXCEPT !.hs.symmetric = p.sym, !.hs.rs = p.out, !.hs.rs_known = TRUE,
                          !.bytes = t.rest]
<1>1. r = c \/ r = failed(c) \/ r = g \/ r = failed(d)
  BY DEF read_encrypted_static, DH_PUBLIC_KEY_BYTES, AEAD_TAG_BYTES
<1>2. IsSymmetric(p.sym)
  BY DecryptShape DEF Got, IsCall, IsHandshake
<1> HIDE DEF r, t, p
<1>3. Got(d, v)
  <2>1. d.hs = [c.hs EXCEPT !.symmetric = p.sym] /\ DOMAIN d = DOMAIN c
    BY DEF Got, IsCall, IsHandshake
  <2> HIDE DEF d
  <2> QED BY <1>2, <2>1 DEF Got, IsCall, IsHandshake
<1>4. Got(g, v)
  <2>1. /\ g.hs = [c.hs EXCEPT !.symmetric = p.sym, !.rs = p.out, !.rs_known = TRUE]
        /\ DOMAIN g = DOMAIN c
    BY DEF Got, IsCall, IsHandshake
  <2> HIDE DEF g
  <2> QED BY <1>2, <2>1 DEF Got, IsCall, IsHandshake
<1> HIDE DEF d, g
<1>5. Got(failed(c), v) /\ Got(failed(d), v)
  BY <1>3, FailedCall DEF Got
<1> QED BY <1>1, <1>3, <1>4, <1>5 DEF r

\* The payload and the step.
LEMMA GotLast ==
    ASSUME NEW c, NEW v, Got(c, v)
    PROVE  LET r == advance(read_payload(c))
           IN  Got(r, v) /\ (Keyed(c) => Keyed(r))
<1>1. CASE ~c.ok
  BY <1>1, FailedStays
<1>2. CASE c.ok
  <2> DEFINE p == decrypt_and_hash(c.hs.symmetric, remainder(c.bytes))
             d == read_payload(c)
             r == advance(d)
  <2>1. d = [c EXCEPT !.ok = p.ok, !.hs.symmetric = p.sym, !.bytes = NoBytes]
    BY <1>2 DEF read_payload
  <2>2. IsSymmetric(p.sym) /\ (p.sym.cipher.has_key <=> c.hs.symmetric.cipher.has_key)
    BY DecryptShape DEF Got, IsCall, IsHandshake
  <2> HIDE DEF p, d
  <2>3. d.hs = [c.hs EXCEPT !.symmetric = p.sym] /\ DOMAIN d = DOMAIN c
    BY <2>1 DEF Got, IsCall, IsHandshake
  <2>4. Got(d, v) /\ d.hs.symmetric = p.sym
    BY <2>2, <2>3 DEF Got, IsCall, IsHandshake
  <2>5. Keyed(c) => d.hs.symmetric.cipher.has_key
    BY <1>2, <2>2, <2>4 DEF Keyed
  <2>6. CASE ~d.ok
    <3>1. r = d
      BY <2>6, FailedStays
    <3> QED BY <2>4, <2>6, <3>1 DEF Keyed, d
  <2>7. CASE d.ok
    <3>1. IsCall(r) /\ r.hs.re = d.hs.re /\ r.hs.symmetric = d.hs.symmetric
      BY <2>4, <2>7, Advanced DEF Got
    <3> HIDE DEF r
    <3> QED BY <2>4, <2>5, <3>1 DEF Got, Keyed, r, d
  <2> QED BY <2>6, <2>7
<1> QED BY <1>1, <1>2

\* Whoever reads message 1 or 2 has its ephemeral afterwards; message 2 has a
\* sealed payload.
LEMMA ReadShows ==
    ASSUME NEW h, IsHandshake(h), h.pattern \in {"XX", "IK"}, h.step \in {0, 1},
           NEW m, NEW e, Opening(m, e)
    PROVE  LET r == read_message(h, m)
           IN  r.hs.re = e /\ (h.step = 1 => Keyed(r))
<1> DEFINE c == read_e(call(h, m))
           r == read_message(h, m)
<1>1. Got(c, e)
  <2> DEFINE b == [size |-> m.size - 32, fields |-> Tail(m.fields)]
  <2>1. take(m, 32) = [val |-> e, rest |-> b]
    <3>1. Head(m.fields).len = 32 /\ Head(m.fields).val = e
      BY DEF Opening, field
    <3>2. aligned(m, 32)
      BY <3>1 DEF Opening, aligned
    <3> QED BY <3>1, <3>2 DEF take
  <2>2. ~(m.size < 32)
    BY DEF Opening
  <2> HIDE DEF b
  <2> QED BY <2>1, <2>2, NewCall, GotE DEF Got
<1>2. /\ h.step = 0 =>
            \/ r = advance(read_payload(mix_dh(read_encrypted_static(mix_dh(c, "s_sk", "re")), "s_sk", "rs")))
            \/ r = advance(read_payload(c))
      /\ h.step = 1 =>
            \/ r = advance(read_payload(mix_dh(mix_dh(c, "e_sk", "re"), "e_sk", "rs")))
            \/ r = advance(read_payload(mix_dh(read_encrypted_static(mix_dh(c, "e_sk", "re")), "e_sk", "rs")))
  <2>1. ~is_complete(h)
    BY Steps DEF is_complete
  <2> QED BY <2>1 DEF read_message
<1> HIDE DEF c, r
<1>3. \A d : Got(d, e) => \A k \in {"s_sk", "e_sk"} :
          LET x == advance(read_payload(mix_dh(d, k, "rs"))) IN Got(x, e) /\ Keyed(x)
  BY GotDh, GotLast
<1>4. Got(advance(read_payload(c)), e)
  BY <1>1, GotLast
<1>5. \A k \in {"s_sk", "e_sk"} : /\ Got(mix_dh(c, k, "re"), e)
                                  /\ Got(read_encrypted_static(mix_dh(c, k, "re")), e)
  BY <1>1, GotDh, GotSealedStatic
<1>6. Got(r, e) /\ (h.step = 1 => Keyed(r))
  BY <1>2, <1>3, <1>4, <1>5
<1> QED BY <1>6 DEF Got, r

(***************************************************************************)
(* A link without faults and the first sessions at its two ends.           *)
(***************************************************************************)
\* The endpoints are the two ends of one link.
TwoEnds == \A e \in Endpoint : Peer[e] # e /\ Endpoint = {e, Peer[e]}

\* Then everyone else is the peer.
LEMMA OtherEnd ==
    ASSUME TwoEnds, NEW e \in Endpoint
    PROVE  /\ Peer[e] \in Endpoint /\ Peer[e] # e /\ Peer[Peer[e]] = e
           /\ \A f \in Endpoint : f = e \/ f = Peer[e]
<1>1. Peer[e] \in Endpoint /\ Peer[e] # e /\ Endpoint = {e, Peer[e]}
  BY SessionAssumption DEF TwoEnds
<1>2. Peer[Peer[e]] \in Endpoint /\ Peer[Peer[e]] # Peer[e]
  BY <1>1, SessionAssumption DEF TwoEnds
<1> QED BY <1>1, <1>2

\* Nothing has gone wrong so far: no fault, no second session, no failed call
\* that changed a session, and every initiator has written first.
Smooth ==
    /\ faults = 0
    /\ \A e \in Endpoint :
          /\ sessions[e] \in {0, 1} /\ ~poisoned[e]
          /\ sessions[e] = 1 => state[e] = "open"
          /\ state[e] = "open" /\ hs[e].initiator /\ hs[e].step > 0 => wrote_first(e)

\* What the count of sessions says, from the start.
Counted ==
    /\ \A e \in Endpoint : /\ state[e] = "open" => sessions[e] # 0
                           /\ sessions[e] = 0 => ~poisoned[e]
    /\ \A v \in events : v.session # 0

\* Then what is on record was done by the open sessions.
LEMMA OnRecord ==
    ASSUME SessionInv, Smooth, Counted, NEW v \in events
    PROVE  LET e == v.endpoint
           IN  /\ e \in Endpoint /\ state[e] = "open" /\ v.session = sessions[e]
               /\ v.pattern = hs[e].pattern /\ v.step <= hs[e].step
<1> DEFINE e == v.endpoint
<1>1. e \in Endpoint /\ v.session \in 0..sessions[e] /\ v.session # 0
  BY DEF SessionInv, Recorded, EventOK, Counted
<1>2. sessions[e] = 1 /\ v.session = 1
  BY <1>1 DEF Smooth
<1>3. state[e] = "open"
  BY <1>1, <1>2 DEF Smooth
<1> QED BY <1>1, <1>2, <1>3 DEF SessionInv, StepsOnce

(***************************************************************************)
(* The stages of a conversation.                                           *)
(***************************************************************************)
\* The symmetric state that every XX session is constructed with, and the
\* object before its first message.
started == mix_hash(initialize(protocol_name("XX")), Prologue)

Newborn(h) == h.step = 0 /\ h.re = Zero /\ (h.pattern = "XX" => h.symmetric = started)

Waiting(e) == state[e] = "open" => Newborn(hs[e])

\* h wrote m as its first message of XX.
StartedXX(h, m) ==
    \E g : /\ IsHandshake(g) /\ Newborn(g) /\ g.pattern = "XX" /\ g.initiator = TRUE
           /\ g.s_sk = g.s_pk /\ g.s_pk # Zero
           /\ h = write_message(g, h.e_pk).hs /\ m = write_message(g, h.e_pk).bytes

\* The initiator e has sent m, its first message, and heard nothing.
Asks(e, m) ==
    /\ state[e] = "open" /\ hs[e].initiator = TRUE /\ hs[e].step = 1 /\ hs[e].re = Zero
    /\ hs[e].e_pk # Zero /\ Opening(m, hs[e].e_pk)
    /\ hs[e].pattern = "XX" => StartedXX(hs[e], m)

\* The object q is due to read m, the second message of XX, which left h.
SecondXXof(h, m, q) ==
    \E g, k : /\ Ends(g, q, "XX", 1) /\ g.re # Zero /\ q.e_sk = g.re /\ k # Zero
              /\ h = write_message(g, k).hs /\ m = write_message(g, k).bytes

\* f has answered e with m.
Replies(f, m, e) ==
    /\ state[e] = "open" /\ hs[e].initiator = TRUE /\ hs[e].step = 1 /\ hs[e].re = Zero
    /\ state[f] = "open" /\ hs[f].initiator = FALSE /\ hs[f].step = 2
    /\ \E k : k # Zero /\ Opening(m, k)
    /\ hs[e].pattern = "XX" /\ hs[f].pattern = "XX" => SecondXXof(hs[f], m, hs[e])

\* The object q is due to read m, the third message of XX.
ThirdXXof(m, q) ==
    \E g, k : /\ Ends(g, q, "XX", 2) /\ g.symmetric.cipher.has_key
              /\ g.re # Zero /\ q.e_sk = g.re /\ m = write_message(g, k).bytes

\* e has closed the conversation with m, which f is to read.
Closes(e, m, f) ==
    /\ state[e] = "open" /\ is_complete(hs[e])
    /\ state[f] = "open" /\ ~is_complete(hs[f]) /\ hs[f].initiator = FALSE /\ ThirdXXof(m, hs[f])

\* Where the conversation can be: nobody has spoken; one or both have asked
\* (whatever their patterns, and an initiator may wait for an initiator);
\* there is an answer; the third message of XX is on its way; it is over.
Talk ==
    \/ \A e \in Endpoint : Waiting(e) /\ chan[e] = <<>>
    \/ \E e \in Endpoint : \E m : /\ Asks(e, m) /\ chan[e] = <<>>
                                  /\ Waiting(Peer[e]) /\ chan[Peer[e]] = <<m>>
    \/ \A e \in Endpoint : \E m : Asks(e, m) /\ chan[Peer[e]] = <<m>>
    \/ \E e \in Endpoint : \E m : Replies(Peer[e], m, e) /\ chan[e] = <<m>> /\ chan[Peer[e]] = <<>>
    \/ \E e \in Endpoint : \E m : Closes(e, m, Peer[e]) /\ chan[e] = <<>> /\ chan[Peer[e]] = <<m>>
    \/ \A e \in Endpoint : state[e] = "open" /\ is_complete(hs[e]) /\ chan[e] = <<>>

TalkInv == Counted /\ (Smooth => Talk)

\* The invariant gives the property.
LEMMA TalkReports ==
    ASSUME SessionInv, TalkInv, TwoEnds
    PROVE  StallIsReported
<1> SUFFICES ASSUME \A e \in Endpoint : /\ state[e] = "open" /\ sessions[e] = 1 /\ ~can_step(e)
                                        /\ hs[e].initiator => wrote_first(e),
                    faults = 0, \E e \in Endpoint : hs[e].initiator,
                    \A e \in Endpoint : ~poisoned[e]
             PROVE  \A e \in Endpoint : is_complete(hs[e])
  BY DEF StallIsReported
<1>1. Smooth
  BY DEF Smooth
<1>2. Talk
  BY <1>1 DEF TalkInv
<1>3. \A e \in Endpoint : chan[e] = <<>>
  BY DEF can_step
<1>4. \A m : <<m>> # <<>>
  OBVIOUS
<1>5. CASE \A e \in Endpoint : Waiting(e) /\ chan[e] = <<>>
  <2>1. PICK e \in Endpoint : hs[e].initiator
    OBVIOUS
  <2>2. hs[e].step = 0 /\ hs[e].initiator = TRUE /\ hs[e].pattern \in {"XX", "IK"}
    <3>1. hs[e].initiator \in BOOLEAN /\ hs[e].pattern \in {"XX", "IK"}
      BY OwnDrawn DEF SessionInv, Typed
    <3> QED BY <1>5, <2>1, <3>1 DEF Waiting, Newborn
  <2>3. writer_turn(hs[e]) /\ ~is_complete(hs[e])
    <3>1. 0 % 2 = 0
      OBVIOUS
    <3>2. writer_turn(hs[e])
      BY <2>2, <3>1 DEF writer_turn
    <3>3. ~is_complete(hs[e])
      BY <2>2, Steps DEF is_complete
    <3> QED BY <3>2, <3>3
  <2> QED BY <2>3 DEF can_step
<1>6. CASE \A e \in Endpoint : \E m : Asks(e, m) /\ chan[Peer[e]] = <<m>>
  BY <1>3, <1>4, <1>6, OtherEnd
<1> QED BY <1>2, <1>3, <1>4, <1>5, <1>6, OtherEnd DEF Talk

(***************************************************************************)
(* A handshake_step after which all is still smooth.                       *)
(***************************************************************************)
Speaks(e, h, inbound, M) ==
    LET k == generate_keypair(ephemerals + 1)
        w == write_message(h, k)
    IN  /\ w.ok /\ Wrote(w, h, k, drawn, sent) /\ k # Zero
        /\ hs' = [hs EXCEPT ![e] = w.hs] /\ state' = state /\ sessions' = sessions
        /\ events' = (events \cup M) \cup {event(e, "write", w)}
        /\ chan' = [inbound EXCEPT ![Peer[e]] = Append(@, w.bytes)]

\* A write that fails changes the object, and a lost message is a fault.
LEMMA Speaking ==
    ASSUME SessionInv, NEW e \in Endpoint, NEW h, NEW M, Before(e, h, M), writer_turn(h),
           ~is_complete(h), NEW inbound, NEW oom \in BOOLEAN, write_branch(e, h, inbound, M, oom),
           faults' = 0, ~poisoned'[e]
    PROVE  Speaks(e, h, inbound, M) /\ faults = 0 /\ ~poisoned[e]
<1> DEFINE k == generate_keypair(ephemerals + 1)
           w == write_message(h, k)
<1>1. Points(drawn, sent) /\ ephemerals \in Nat /\ faults \in Nat /\ poisoned \in [Endpoint -> BOOLEAN]
  BY SentDrawn, SessionAssumption DEF SessionInv, Flags
<1>2. k \notin drawn /\ k # Zero /\ k[1] = "ephemeral"
  BY <1>1, Drawn
<1>3. /\ hs' = [hs EXCEPT ![e] = w.hs] /\ state' = state /\ sessions' = sessions
      /\ events' = (events \cup M) \cup (IF w.ok THEN {event(e, "write", w)} ELSE {})
      /\ poisoned' = [poisoned EXCEPT ![e] = @ \/ (~w.ok /\ w.hs # h)]
      /\ chan' = IF emits(w, oom) THEN [inbound EXCEPT ![Peer[e]] = Append(@, w.bytes)] ELSE inbound
      /\ faults' = faults + (IF oom THEN 1 ELSE 0)
  BY DEF write_branch
<1> HIDE DEF k
<1>4. Session(h, drawn, sent) /\ h.e_pk \in drawn \cup {Zero}
  BY DEF Before, Session, Object
<1>5. (w.ok /\ Wrote(w, h, k, drawn, sent)) \/ (~w.ok /\ WriteFailed(w, h, k, drawn, sent))
  <2>1. k \notin sent
    BY <1>1, <1>2 DEF Points
  <2> QED BY <1>1, <1>2, <1>4, <2>1, WriteSession
<1> HIDE DEF w
<1>6. ~poisoned[e] /\ ~(~w.ok /\ w.hs # h)
  <2>1. poisoned'[e] = (poisoned[e] \/ (~w.ok /\ w.hs # h))
    BY <1>1, <1>3
  <2> QED BY <2>1
<1>7. w.ok /\ Wrote(w, h, k, drawn, sent)
  <2>1. ASSUME ~w.ok PROVE FALSE
    <3>1. w.hs.e_pk = k
      BY <1>5, <2>1 DEF WriteFailed
    <3> QED BY <1>2, <1>4, <1>6, <2>1, <3>1
  <2> QED BY <1>5, <2>1
<1>8. ~oom /\ faults = 0
  BY <1>1, <1>3
<1>9. emits(w, oom)
  BY <1>7, <1>8 DEF emits
<1> QED BY <1>2, <1>3, <1>6, <1>7, <1>8, <1>9 DEF Speaks, k, w

\* All was smooth before a step of one session, if it is afterwards.
LEMMA SmoothBefore ==
    ASSUME SessionInv, Smooth', NEW e \in Endpoint, NEW g, NEW N, hs' = [hs EXCEPT ![e] = g],
           state' = state, sessions' = sessions, faults = 0, events' = events \cup N,
           \A f \in Endpoint : ~poisoned'[f] => ~poisoned[f],
           g.initiator = hs[e].initiator, g.step \in Nat, hs[e].step <= g.step,
           \A v \in N : v.endpoint = e /\ (v.kind = "write" => v.step > hs[e].step)
    PROVE  Smooth
<1>1. \A f \in Endpoint : hs[f].step \in Nat
  BY OwnDrawn, Steps DEF SessionInv, Typed
<1>2. \A f \in Endpoint : hs'[f] = IF f = e THEN g ELSE hs[f]
  BY DEF SessionInv, Objects
<1>3. ASSUME NEW f \in Endpoint, state[f] = "open", hs[f].initiator, hs[f].step > 0
      PROVE  wrote_first(f)
  <2>1. hs'[f].initiator /\ hs'[f].step > 0
    BY <1>1, <1>2, <1>3
  <2>2. wrote_first(f)'
    BY <1>3, <2>1 DEF Smooth
  <2>3. PICK v \in events' : v.endpoint = f /\ v.session = sessions[f] /\ v.kind = "write" /\ v.step = 1
    BY <2>2 DEF wrote_first
  <2>4. v \in events
    BY <1>1, <1>3, <2>3
  <2> QED BY <2>3, <2>4 DEF wrote_first
<1> QED BY <1>3 DEF Smooth

\* What a session that has not completed holds.
LEMMA Incomplete ==
    ASSUME NonceInv, NEW e \in Endpoint, state[e] = "open", ~is_complete(hs[e])
    PROVE  LET h == hs[e]
           IN  /\ IsHandshake(h) /\ Session(h, drawn, sent) /\ Rests(h)
               /\ h.pattern \in {"XX", "IK"} /\ h.initiator \in BOOLEAN /\ h.step \in Nat
               /\ h.s_sk = h.s_pk /\ h.s_pk # Zero
<1>1. IsHandshake(hs[e]) /\ Session(hs[e], drawn, sent) /\ Rests(hs[e])
  BY OpenSession DEF NonceInv
<1> QED BY <1>1, Steps DEF Session, Object, Static, Zero

\* The first message of an initiator.
LEMMA AskedFirst ==
    ASSUME NEW h, NEW D, NEW P, Session(h, D, P), Newborn(h), h.initiator = TRUE,
           NEW k, k[1] = "ephemeral", k # Zero
    PROVE  LET w == write_message(h, k)
           IN  /\ w.hs.initiator = TRUE /\ w.hs.re = Zero /\ w.hs.e_pk = k
               /\ Opening(w.bytes, k) /\ w.hs.pattern = h.pattern
               /\ h.pattern = "XX" => StartedXX(w.hs, w.bytes)
<1> DEFINE w == write_message(h, k)
<1>1. /\ IsHandshake(h) /\ h.pattern \in {"XX", "IK"} /\ h.step = 0 /\ h.re = Zero
      /\ h.s_sk = h.s_pk /\ h.s_pk # Zero
  BY DEF Session, Object, Static, Zero, Newborn
<1>2. Carries(w.hs, h, k)
  <2>1. CASE h.pattern = "XX"
    BY <1>1, <2>1, XX1Written
  <2>2. CASE h.pattern = "IK"
    BY <1>1, <2>2, IK1Written
  <2> QED BY <1>1, <2>1, <2>2
<1>3. Opening(w.bytes, k)
  BY <1>1, WrittenOpens
<1>4. h.pattern = "XX" => StartedXX(w.hs, w.bytes)
  <2> SUFFICES ASSUME h.pattern = "XX" PROVE StartedXX(w.hs, w.bytes)
    OBVIOUS
  <2>1. w.hs.e_pk = k
    BY <1>2 DEF Carries
  <2>2. w.hs = write_message(h, w.hs.e_pk).hs /\ w.bytes = write_message(h, w.hs.e_pk).bytes
    BY <2>1
  <2> HIDE DEF w
  <2> QED BY <1>1, <2>2 DEF StartedXX
<1> HIDE DEF w
<1> QED BY <1>1, <1>2, <1>3, <1>4 DEF Carries, SameParty, w

\* The kernel kicks a session that is to write.
LEMMA KickTalk ==
    ASSUME NonceInv, TwoEnds, Talk, NEW e \in Endpoint, state[e] = "open",
           writer_turn(hs[e]), ~is_complete(hs[e]), Speaks(e, hs[e], chan, {})
    PROVE  Talk'
<1> DEFINE p == Peer[e]
           h == hs[e]
           k == generate_keypair(ephemerals + 1)
           w == write_message(h, k)
<1>1. p \in Endpoint /\ p # e /\ Peer[p] = e /\ \A f \in Endpoint : f = e \/ f = p
  BY OtherEnd
<1>2. /\ IsHandshake(h) /\ Session(h, drawn, sent) /\ Rests(h)
      /\ h.pattern \in {"XX", "IK"} /\ h.initiator \in BOOLEAN /\ h.step \in Nat
  BY Incomplete
<1>3. (h.step = 0 /\ h.initiator = TRUE) \/ (h.step = 1 /\ h.initiator = FALSE)
  BY <1>2, Turns DEF Rests
<1>4. /\ Wrote(w, h, k, drawn, sent) /\ k # Zero
      /\ hs' = [hs EXCEPT ![e] = w.hs] /\ state' = state
      /\ chan' = [chan EXCEPT ![p] = Append(@, w.bytes)]
  BY DEF Speaks
<1>5. k[1] = "ephemeral"
  BY DEF generate_keypair
<1> HIDE DEF k
<1>6. PICK g, b : g = w.hs /\ b = w.bytes
  OBVIOUS
<1>7. ASSUME Newborn(h)
      PROVE  /\ g.initiator = TRUE /\ g.re = Zero /\ g.e_pk = k /\ g.step = 1
             /\ Opening(b, k) /\ (g.pattern = "XX" => StartedXX(g, b))
  <2>1. g.step = 1 /\ h.initiator = TRUE
    BY <1>3, <1>4, <1>6, <1>7 DEF Wrote, Newborn
  <2>2. /\ w.hs.initiator = TRUE /\ w.hs.re = Zero /\ w.hs.e_pk = k
        /\ Opening(w.bytes, k) /\ w.hs.pattern = h.pattern
        /\ h.pattern = "XX" => StartedXX(w.hs, w.bytes)
    <3> HIDE DEF h
    <3> QED BY ONLY <1>2, <1>4, <1>5, <1>7, <2>1, AskedFirst
  <2> HIDE DEF w
  <2> QED BY <1>6, <2>1, <2>2
<1> HIDE DEF w
<1>8. hs'[e] = g /\ hs'[p] = hs[p] /\ chan'[e] = chan[e] /\ chan'[p] = Append(chan[p], b)
  BY <1>1, <1>4, <1>6 DEF NonceInv, SessionInv, Objects, Wire
<1>9. ASSUME Newborn(h) PROVE Asks(e, b)'
  BY <1>4, <1>7, <1>8, <1>9 DEF Asks
<1>10. Append(<<>>, b) = <<b>>
  OBVIOUS
<1>11. CASE \A f \in Endpoint : Waiting(f) /\ chan[f] = <<>>
  <2>1. Newborn(h) /\ chan[e] = <<>> /\ chan[p] = <<>> /\ Waiting(p)
    BY <1>1, <1>11 DEF Waiting
  <2>2. Waiting(p)'
    BY <1>4, <1>8, <2>1 DEF Waiting
  <2> QED BY <1>8, <1>9, <1>10, <2>1, <2>2 DEF Talk
<1>12. ASSUME NEW i \in Endpoint, NEW m, Asks(i, m), chan[i] = <<>>,
              Waiting(Peer[i]), chan[Peer[i]] = <<m>>
       PROVE  Talk'
  <2>1. i = p
    BY <1>1, <1>3, <1>12 DEF Asks
  <2>2. Newborn(h) /\ chan[e] = <<m>> /\ chan[p] = <<>> /\ Asks(p, m)
    BY <1>1, <1>12, <2>1 DEF Waiting
  <2>3. Asks(p, m)'
    BY <1>4, <1>8, <2>2 DEF Asks
  <2>4. \A f \in Endpoint : \E x : Asks(f, x)' /\ chan'[Peer[f]] = <<x>>
    BY <1>1, <1>8, <1>9, <1>10, <2>2, <2>3
  <2> QED BY <2>4 DEF Talk
<1>13. ~(\A f \in Endpoint : \E m : Asks(f, m) /\ chan[Peer[f]] = <<m>>)
  BY <1>3 DEF Asks
<1>14. ~(\E i \in Endpoint : \E m : Replies(Peer[i], m, i) /\ chan[i] = <<m>> /\ chan[Peer[i]] = <<>>)
  BY <1>1, <1>3 DEF Replies
<1>15. ~(\E i \in Endpoint : \E m : Closes(i, m, Peer[i]) /\ chan[i] = <<>> /\ chan[Peer[i]] = <<m>>)
  <2>1. \A m : ThirdXXof(m, h) => h.step = 2
    BY DEF ThirdXXof, Ends
  <2> QED BY <1>1, <1>3, <2>1 DEF Closes
<1> QED BY <1>11, <1>12, <1>13, <1>14, <1>15 DEF Talk

\* What reading the next message can be part of, if all stays smooth: the
\* responder reads message 1, the initiator message 2 of its own pattern, or
\* the responder message 3.
Hears(e, m) ==
    LET p == Peer[e]
    IN  /\ chan[e] = <<m>> /\ chan[p] = <<>> /\ ~is_complete(hs[e])
        /\ \/ Newborn(hs[e]) /\ hs[e].initiator = FALSE /\ Asks(p, m)
           \/ Replies(p, m, e) /\ hs[p].pattern = hs[e].pattern
           \/ Closes(p, m, e)

\* A call that changes nothing when it fails has not failed: messages 1 and 2
\* leave their ephemeral in the object, and message 2 of another pattern, or
\* of an initiator, is not authentic to the reader.
LEMMA Hearing ==
    ASSUME NonceInv, AuthInv, TwoEnds, Smooth, Counted, Talk,
           NEW e \in Endpoint, state[e] = "open", chan[e] # <<>>,
           NEW r, r = read_message(hs[e], Head(chan[e])),
           ~r.ok => r.hs = hs[e], ~(r.ok /\ hs[e].initiator /\ hs[e].step = 0)
    PROVE  r.ok /\ Hears(e, Head(chan[e]))
<1> DEFINE p == Peer[e]
           h == hs[e]
           x == event(e, "read", r)
<1>1. p \in Endpoint /\ p # e /\ Peer[p] = e /\ \A f \in Endpoint : f = e \/ f = p
  BY OtherEnd
<1>2. ~is_complete(h) =>
         /\ IsHandshake(h) /\ h.pattern \in {"XX", "IK"} /\ h.initiator \in BOOLEAN
         /\ h.s_sk = h.s_pk /\ h.s_pk # Zero
         /\ Read(r, h, drawn, sent)
         /\ r.ok /\ x.keyed => \E w \in events : answered(x, w)
  BY Incomplete, ReadAuth
<1>3. h.pattern \in {"XX", "IK"} /\ h.initiator \in BOOLEAN
  BY OwnDrawn DEF NonceInv, SessionInv, Typed
<1>4. h.step \in {0, 1} => ~is_complete(h)
  BY <1>3, Steps DEF is_complete
<1>5. \A m : chan[e] = <<m>> => Head(chan[e]) = m
  OBVIOUS
<1>6. \A m : <<m>> # <<>>
  OBVIOUS
\* Messages 1 and 2 open with an ephemeral, so the call has read them.
<1>7. ASSUME NEW m, NEW k, chan[e] = <<m>>, Opening(m, k), k # Zero, h.step \in {0, 1}, h.re = Zero
      PROVE  r.ok /\ (h.step = 1 => \E w \in events : w.step = 2 /\ w.pattern = h.pattern)
  <2>1. r = read_message(h, m) /\ IsHandshake(h) /\ h.pattern \in {"XX", "IK"}
    BY <1>2, <1>4, <1>5, <1>7
  <2>2. r.hs.re = k /\ (h.step = 1 => Keyed(r))
    BY <1>7, <2>1, ReadShows
  <2>3. r.ok
    BY <1>7, <2>2
  <2>4. ASSUME h.step = 1 PROVE \E w \in events : w.step = 2 /\ w.pattern = h.pattern
    <3>1. x.keyed = r.hs.symmetric.cipher.has_key /\ Notes(x, e, "read", r.hs)
      BY EventNotes DEF event
    <3>2. r.hs.step = 2 /\ r.hs.pattern = h.pattern
      BY <1>2, <1>4, <1>7, <2>3, <2>4 DEF Read, SameParty
    <3> HIDE DEF x
    <3>3. PICK w \in events : answered(x, w)
      BY <1>2, <1>4, <1>7, <2>2, <2>3, <2>4, <3>1 DEF Keyed
    <3> QED BY <3>1, <3>2, <3>3 DEF answered, Notes
  <2> QED BY <2>3, <2>4
<1> HIDE DEF x
<1>8. \A w \in events : /\ w.endpoint = e \/ w.endpoint = p
                        /\ w.pattern = hs[w.endpoint].pattern /\ w.step <= hs[w.endpoint].step
  BY <1>1, OnRecord DEF NonceInv
<1>9. CASE \A f \in Endpoint : Waiting(f) /\ chan[f] = <<>>
  BY <1>9
<1>10. ASSUME NEW i \in Endpoint, NEW m, Asks(i, m), chan[i] = <<>>,
              Waiting(Peer[i]), chan[Peer[i]] = <<m>>
       PROVE  r.ok /\ Hears(e, Head(chan[e]))
  <2>1. i = p
    BY <1>1, <1>10
  <2>2. Newborn(h) /\ chan[e] = <<m>> /\ chan[p] = <<>> /\ Asks(p, m)
    BY <1>1, <1>10, <2>1 DEF Waiting
  <2>3. h.step = 0 /\ h.re = Zero /\ Opening(m, hs[p].e_pk) /\ hs[p].e_pk # Zero
    BY <2>2 DEF Newborn, Asks
  <2>4. r.ok
    BY <1>7, <2>2, <2>3
  <2>5. h.initiator = FALSE
    BY <1>3, <2>3, <2>4
  <2> QED BY <1>4, <1>5, <2>2, <2>3, <2>4, <2>5 DEF Hears
<1>11. CASE \A f \in Endpoint : \E m : Asks(f, m) /\ chan[Peer[f]] = <<m>>
  <2>1. PICK m : Asks(p, m) /\ chan[e] = <<m>>
    BY <1>1, <1>11
  <2>2. h.step = 1 /\ h.re = Zero /\ hs[p].step = 1 /\ Opening(m, hs[p].e_pk) /\ hs[p].e_pk # Zero
    BY <1>11, <2>1 DEF Asks
  <2>3. PICK w \in events : w.step = 2
    BY <1>7, <2>1, <2>2
  <2> QED BY <1>8, <2>2, <2>3
<1>12. ASSUME NEW i \in Endpoint, NEW m, Replies(Peer[i], m, i), chan[i] = <<m>>, chan[Peer[i]] = <<>>
       PROVE  r.ok /\ Hears(e, Head(chan[e]))
  <2>1. i = e /\ Replies(p, m, e) /\ chan[e] = <<m>> /\ chan[p] = <<>>
    BY <1>1, <1>12
  <2>2. h.step = 1 /\ h.re = Zero /\ \E k : k # Zero /\ Opening(m, k)
    BY <2>1 DEF Replies
  <2>3. r.ok /\ \E w \in events : w.step = 2 /\ w.pattern = h.pattern
    BY <1>7, <2>1, <2>2
  <2>4. PICK w \in events : w.step = 2 /\ w.pattern = h.pattern
    BY <2>3
  <2>5. w.endpoint = p
    BY <1>8, <2>2, <2>4
  <2>6. hs[p].pattern = h.pattern
    BY <1>8, <2>4, <2>5
  <2> QED BY <1>4, <1>5, <2>1, <2>2, <2>3, <2>6 DEF Hears
<1>13. ASSUME NEW i \in Endpoint, NEW m, Closes(i, m, Peer[i]), chan[i] = <<>>, chan[Peer[i]] = <<m>>
       PROVE  r.ok /\ Hears(e, Head(chan[e]))
  <2>1. i = p /\ Closes(p, m, e) /\ chan[e] = <<m>> /\ chan[p] = <<>>
    BY <1>1, <1>13
  <2>2. PICK g, k : /\ Ends(g, h, "XX", 2) /\ g.symmetric.cipher.has_key
                    /\ g.re # Zero /\ h.e_sk = g.re /\ m = write_message(g, k).bytes
    BY <2>1 DEF Closes, ThirdXXof
  <2>3. Talked(g, h, write_message(g, k), read_message(h, write_message(g, k).bytes))
    BY <2>2, TalkXX3
  <2>4. r.ok
    BY <1>5, <2>1, <2>2, <2>3 DEF Talked
  <2> QED BY <1>5, <2>1, <2>4 DEF Hears, Closes
<1> QED BY <1>9, <1>10, <1>11, <1>12, <1>13 DEF Talk

\* What the message was, as the reader holds it.
LEMMA Heard ==
    ASSUME NonceInv, TwoEnds, NEW e \in Endpoint, state[e] = "open", NEW m, Hears(e, m),
           NEW r, r = read_message(hs[e], m), r.ok, Read(r, hs[e], drawn, sent)
    PROVE  LET p == Peer[e]
               g == r.hs
           IN  \/ /\ Asks(p, m) /\ g.step = 1 /\ g.initiator = FALSE
                  /\ writer_turn(g) /\ ~is_complete(g)
                  /\ g.pattern = "XX" /\ hs[p].pattern = "XX" =>
                        Ends(g, hs[p], "XX", 1) /\ g.re # Zero /\ hs[p].e_sk = g.re
               \/ /\ Replies(p, m, e) /\ g.step = 2 /\ g.initiator = TRUE
                  /\ g.pattern = "XX" /\ hs[p].pattern = "XX" /\ writer_turn(g) /\ ~is_complete(g)
                  /\ Ends(g, hs[p], "XX", 2) /\ g.symmetric.cipher.has_key
                  /\ g.re # Zero /\ hs[p].e_sk = g.re
               \/ state[p] = "open" /\ is_complete(hs[p]) /\ is_complete(g)
<1> DEFINE p == Peer[e]
           h == hs[e]
           g == r.hs
<1>1. p \in Endpoint /\ p # e
  BY OtherEnd
<1>2. /\ IsHandshake(h) /\ h.pattern \in {"XX", "IK"} /\ h.initiator \in BOOLEAN
      /\ h.s_sk = h.s_pk /\ h.s_pk # Zero /\ ~is_complete(h)
  BY Incomplete DEF Hears
<1>3. g.step = h.step + 1 /\ SameParty(g, h)
  BY DEF Read
<1>4. g.pattern = h.pattern /\ g.initiator = h.initiator
  BY <1>3 DEF SameParty
<1>5. CASE Newborn(h) /\ h.initiator = FALSE /\ Asks(p, m)
  <2>1. g.step = 1 /\ g.initiator = FALSE /\ h.step = 0
    BY <1>3, <1>4, <1>5 DEF Newborn
  <2>2. writer_turn(g) /\ ~is_complete(g)
    <3>1. g.step % 2 # 0 /\ g.initiator = FALSE
      BY <2>1
    <3>2. writer_turn(g)
      BY <3>1, Zenon DEF writer_turn
    <3>3. ~is_complete(g)
      BY <1>2, <1>4, <2>1, Steps DEF is_complete
    <3> QED BY <3>2, <3>3
  <2>3. ASSUME g.pattern = "XX", hs[p].pattern = "XX"
        PROVE  Ends(g, hs[p], "XX", 1) /\ g.re # Zero /\ hs[p].e_sk = g.re
    <3> DEFINE k == hs[p].e_pk
    <3>1. StartedXX(hs[p], m) /\ k # Zero
      BY <1>5, <2>3 DEF Asks
    <3>2. PICK q : /\ IsHandshake(q) /\ Newborn(q) /\ q.pattern = "XX" /\ q.initiator = TRUE
                   /\ q.s_sk = q.s_pk /\ q.s_pk # Zero
                   /\ hs[p] = write_message(q, k).hs /\ m = write_message(q, k).bytes
      BY <3>1 DEF StartedXX
    <3>3. q.symmetric = started /\ h.symmetric = started /\ q.step = 0
      BY <1>4, <1>5, <2>3, <3>2 DEF Newborn
    <3>4. ~started.cipher.has_key
      BY DEF started, mix_hash, initialize, zeroized
    <3> HIDE DEF h, g, k
    <3>5. Ends(q, h, "XX", 0)
      BY <1>2, <1>4, <1>5, <2>1, <2>3, <3>2, <3>3 DEF Ends
    <3>6. /\ Talked(q, h, write_message(q, k), read_message(h, write_message(q, k).bytes))
          /\ write_message(q, k).hs.e_sk = k
          /\ read_message(h, write_message(q, k).bytes).hs.re = k
      BY <3>3, <3>4, <3>5, TalkXX1
    <3>7. Talked(q, h, write_message(q, k), r) /\ hs[p].e_sk = k /\ g.re = k
      BY <3>2, <3>6 DEF h, g
    <3>8. Ends(r.hs, write_message(q, k).hs, "XX", 0 + 1)
      BY <3>5, <3>7, NextEnds
    <3>9. Ends(g, hs[p], "XX", 1)
      BY <3>2, <3>8 DEF g, k
    <3> QED BY <3>1, <3>7, <3>9 DEF k
  <2> QED BY <1>5, <2>1, <2>2, <2>3
<1>6. CASE Replies(p, m, e) /\ hs[p].pattern = h.pattern
  <2>1. /\ h.step = 1 /\ h.initiator = TRUE /\ state[p] = "open" /\ hs[p].step = 2
        /\ hs[p].initiator = FALSE
    BY <1>6 DEF Replies
  <2>2. g.step = 2 /\ g.initiator = TRUE
    BY <1>3, <1>4, <2>1
  <2>3. CASE h.pattern = "IK"
    BY <1>2, <1>4, <1>6, <2>1, <2>2, <2>3, Steps DEF is_complete
  <2>4. CASE h.pattern = "XX"
    <3>1. writer_turn(g) /\ ~is_complete(g)
      <4>1. 2 % 2 = 0
        OBVIOUS
      <4>2. writer_turn(g)
        BY <2>2, <4>1 DEF writer_turn
      <4>3. ~is_complete(g)
        BY <1>2, <1>4, <2>2, <2>4, Steps DEF is_complete
      <4> QED BY <4>2, <4>3
    <3>2. SecondXXof(hs[p], m, h)
      BY <1>6, <2>4 DEF Replies
    <3>3. PICK q, k : /\ Ends(q, h, "XX", 1) /\ q.re # Zero /\ h.e_sk = q.re /\ k # Zero
                      /\ hs[p] = write_message(q, k).hs /\ m = write_message(q, k).bytes
      BY <3>2 DEF SecondXXof
    <3> HIDE DEF h, g
    <3>4. /\ Talked(q, h, write_message(q, k), read_message(h, write_message(q, k).bytes))
          /\ write_message(q, k).hs.symmetric.cipher.has_key
          /\ write_message(q, k).hs.e_sk = k
          /\ read_message(h, write_message(q, k).bytes).hs.re = k
      BY <3>3, TalkXX2
    <3>5. Talked(q, h, write_message(q, k), r) /\ hs[p].e_sk = k /\ g.re = k
          /\ hs[p].symmetric.cipher.has_key
      BY <3>3, <3>4 DEF h, g
    <3>6. Ends(r.hs, write_message(q, k).hs, "XX", 1 + 1)
      BY <3>3, <3>5, NextEnds
    <3>7. Ends(g, hs[p], "XX", 2)
      BY <3>3, <3>6 DEF g
    <3>8. g.symmetric.cipher.has_key
      BY <3>5, <3>7 DEF Ends
    <3> QED BY <1>4, <1>6, <2>2, <2>4, <3>1, <3>3, <3>5, <3>7, <3>8 DEF g, h
  <2> QED BY <1>2, <2>3, <2>4
<1>7. CASE Closes(p, m, e)
  <2>1. state[p] = "open" /\ is_complete(hs[p]) /\ ThirdXXof(m, h)
    BY <1>7 DEF Closes
  <2>2. h.step = 2
    BY <2>1 DEF ThirdXXof, Ends
  <2>3. g.step = 3
    BY <1>3, <2>2
  <2>4. is_complete(g)
    BY <1>2, <1>4, <2>3, Steps DEF is_complete
  <2> QED BY <2>1, <2>4
<1> QED BY <1>5, <1>6, <1>7 DEF Hears

\* A message that leaves nothing to write was the last one.
LEMMA LastTalk ==
    ASSUME NonceInv, TwoEnds, NEW e \in Endpoint, state[e] = "open", NEW m, Hears(e, m),
           NEW r, r = read_message(hs[e], m), r.ok, Read(r, hs[e], drawn, sent),
           no_write_after(r), state' = state, hs' = [hs EXCEPT ![e] = r.hs],
           chan' = [chan EXCEPT ![e] = Tail(@)]
    PROVE  Talk'
<1> DEFINE p == Peer[e]
<1>1. p \in Endpoint /\ p # e /\ \A f \in Endpoint : f = e \/ f = p
  BY OtherEnd
<1>2. state[p] = "open" /\ is_complete(hs[p]) /\ is_complete(r.hs)
  BY Heard DEF no_write_after
<1>3. chan[e] = <<m>> /\ chan[p] = <<>>
  BY DEF Hears
<1>4. Tail(<<m>>) = <<>>
  OBVIOUS
<1>5. hs'[e] = r.hs /\ hs'[p] = hs[p] /\ chan'[e] = <<>> /\ chan'[p] = <<>>
  BY <1>1, <1>3, <1>4 DEF NonceInv, SessionInv, Objects, Wire
<1>6. \A f \in Endpoint : state'[f] = "open" /\ is_complete(hs'[f]) /\ chan'[f] = <<>>
  BY <1>1, <1>2, <1>5
<1> QED BY <1>6 DEF Talk, is_complete

\* A message that is answered.
LEMMA AnswerTalk ==
    ASSUME NonceInv, TwoEnds, NEW e \in Endpoint, state[e] = "open", NEW m, Hears(e, m),
           NEW r, r = read_message(hs[e], m), r.ok, Read(r, hs[e], drawn, sent),
           ~no_write_after(r), NEW M, Speaks(e, r.hs, [chan EXCEPT ![e] = Tail(@)], M)
    PROVE  Talk'
<1> DEFINE p == Peer[e]
           kk == generate_keypair(ephemerals + 1)
           ww == write_message(r.hs, kk)
<1>1. p \in Endpoint /\ p # e /\ Peer[p] = e /\ \A f \in Endpoint : f = e \/ f = p
  BY OtherEnd
<1>2. PICK k, w : k = kk /\ w = ww
  OBVIOUS
<1>3. /\ w = write_message(r.hs, k) /\ Wrote(w, r.hs, k, drawn, sent) /\ k # Zero
      /\ hs' = [hs EXCEPT ![e] = w.hs] /\ state' = state
      /\ chan' = [[chan EXCEPT ![e] = Tail(@)] EXCEPT ![p] = Append(@, w.bytes)]
  BY <1>2 DEF Speaks
<1> HIDE DEF kk, ww
<1>4. ~is_complete(r.hs)
  BY DEF no_write_after
<1>5. chan[e] = <<m>> /\ chan[p] = <<>>
  BY DEF Hears
<1>6. Tail(<<m>>) = <<>> /\ Append(<<>>, w.bytes) = <<w.bytes>>
  OBVIOUS
<1>7. hs'[e] = w.hs /\ hs'[p] = hs[p] /\ chan'[e] = <<>> /\ chan'[p] = <<w.bytes>>
  BY <1>1, <1>3, <1>5, <1>6 DEF NonceInv, SessionInv, Objects, Wire
<1>8. w.hs.step = r.hs.step + 1 /\ SameParty(w.hs, r.hs)
  BY <1>3 DEF Wrote
<1>9. /\ IsHandshake(r.hs) /\ r.hs.pattern \in {"XX", "IK"} /\ r.hs.initiator \in BOOLEAN
      /\ w.hs.pattern = r.hs.pattern /\ w.hs.initiator = r.hs.initiator
  BY <1>8 DEF Read, Session, Object, SameParty
<1>10. CASE /\ Asks(p, m) /\ r.hs.step = 1 /\ r.hs.initiator = FALSE
            /\ r.hs.pattern = "XX" /\ hs[p].pattern = "XX" =>
                 Ends(r.hs, hs[p], "XX", 1) /\ r.hs.re # Zero /\ hs[p].e_sk = r.hs.re
  <2>1. Opening(w.bytes, k)
    BY <1>3, <1>9, <1>10, WrittenOpens
  <2>2. w.hs.pattern = "XX" /\ hs[p].pattern = "XX" => SecondXXof(w.hs, w.bytes, hs[p])
    BY <1>3, <1>9, <1>10 DEF SecondXXof
  <2>3. w.hs.step = 2 /\ w.hs.initiator = FALSE
    BY <1>8, <1>9, <1>10
  <2>4. Replies(e, w.bytes, p)'
    BY <1>3, <1>7, <1>10, <2>1, <2>2, <2>3 DEF Replies, Asks
  <2> QED BY <1>1, <1>7, <2>4 DEF Talk
<1>11. CASE /\ Replies(p, m, e) /\ r.hs.step = 2 /\ r.hs.pattern = "XX" /\ hs[p].pattern = "XX"
            /\ Ends(r.hs, hs[p], "XX", 2) /\ r.hs.symmetric.cipher.has_key
            /\ r.hs.re # Zero /\ hs[p].e_sk = r.hs.re
  <2>1. ThirdXXof(w.bytes, hs[p])
    BY <1>3, <1>11 DEF ThirdXXof
  <2>2. w.hs.step = 3 /\ is_complete(w.hs)
    BY <1>8, <1>9, <1>11, Steps DEF is_complete
  <2>3. state[p] = "open" /\ hs[p].initiator = FALSE /\ ~is_complete(hs[p])
    BY <1>11, Steps DEF Replies, is_complete
  <2>4. Closes(e, w.bytes, p)'
    BY <1>3, <1>7, <2>1, <2>2, <2>3 DEF Closes, is_complete
  <2> QED BY <1>1, <1>7, <2>4 DEF Talk
<1> QED BY <1>4, <1>10, <1>11, Heard

(***************************************************************************)
(* The actions.                                                            *)
(***************************************************************************)
\* A call of one open session: the counts.
LEMMA CountedStep ==
    ASSUME Counted, NEW e \in Endpoint, state[e] = "open", state' = state, sessions' = sessions,
           NEW N, events' = events \cup N, \A v \in N : v.session = sessions[e],
           \A f \in Endpoint : f # e => poisoned'[f] = poisoned[f]
    PROVE  Counted'
  BY DEF Counted

\* The stages are about the objects and the queues.
LEMMA TalkQuiet ==
    ASSUME Talk, state' = state, chan' = chan, \A f \in Endpoint : hs'[f] = hs[f]
    PROVE  Talk'
<1>1. \A f \in Endpoint : Peer[f] \in Endpoint
  BY SessionAssumption
<1>2. \A f \in Endpoint : /\ Waiting(f) => Waiting(f)'
                          /\ \A m : Asks(f, m) => Asks(f, m)'
  BY DEF Waiting, Asks
<1>3. \A f \in Endpoint : \A m : /\ Replies(Peer[f], m, f) => Replies(Peer[f], m, f)'
                                 /\ Closes(f, m, Peer[f]) => Closes(f, m, Peer[f])'
  BY <1>1 DEF Replies, Closes, is_complete
<1>4. (\A f \in Endpoint : is_complete(hs[f])) => \A f \in Endpoint : is_complete(hs'[f])
  BY DEF is_complete
<1>5. CASE \A f \in Endpoint : Waiting(f) /\ chan[f] = <<>>
  BY <1>2, <1>5 DEF Talk
<1>6. CASE \E f \in Endpoint : \E m : /\ Asks(f, m) /\ chan[f] = <<>>
                                      /\ Waiting(Peer[f]) /\ chan[Peer[f]] = <<m>>
  BY <1>1, <1>2, <1>6 DEF Talk
<1>7. CASE \A f \in Endpoint : \E m : Asks(f, m) /\ chan[Peer[f]] = <<m>>
  <2>1. \A f \in Endpoint : \E m : Asks(f, m)' /\ chan'[Peer[f]] = <<m>>
    BY <1>2, <1>7
  <2> QED BY <2>1 DEF Talk
<1>8. CASE \E f \in Endpoint : \E m : Replies(Peer[f], m, f) /\ chan[f] = <<m>> /\ chan[Peer[f]] = <<>>
  BY <1>3, <1>8 DEF Talk
<1>9. CASE \E f \in Endpoint : \E m : Closes(f, m, Peer[f]) /\ chan[f] = <<>> /\ chan[Peer[f]] = <<m>>
  BY <1>3, <1>9 DEF Talk
<1>10. CASE \A f \in Endpoint : state[f] = "open" /\ is_complete(hs[f]) /\ chan[f] = <<>>
  BY <1>4, <1>10 DEF Talk
<1> QED BY <1>5, <1>6, <1>7, <1>8, <1>9, <1>10 DEF Talk

\* An initiator that reads before it has written is out of turn.
LEMMA InTurn ==
    ASSUME SessionInv, Smooth', NEW e \in Endpoint, state[e] = "open", state' = state,
           sessions' = sessions, NEW N, events' = events \cup N,
           \A v \in N : v.kind = "write" => v.step # 1,
           hs'[e].initiator = hs[e].initiator, hs'[e].step > 0
    PROVE  ~(hs[e].initiator /\ hs[e].step = 0)
<1> SUFFICES ASSUME hs[e].initiator, hs[e].step = 0 PROVE FALSE
  OBVIOUS
<1>1. wrote_first(e)'
  BY DEF Smooth
<1>2. PICK v \in events' : v.endpoint = e /\ v.session = sessions[e] /\ v.kind = "write" /\ v.step = 1
  BY <1>1 DEF wrote_first
<1>3. v \in events
  BY <1>2
<1>4. v.step <= hs[e].step
  BY <1>2, <1>3 DEF SessionInv, StepsOnce
<1> QED BY <1>2, <1>4

\* handshake_step with no input.
LEMMA TalkWithoutInput ==
    ASSUME NonceInv, AuthInv, TwoEnds, TalkInv,
           NEW e \in Endpoint, NEW oom \in BOOLEAN, step_without_input(e, oom)
    PROVE  TalkInv'
<1> DEFINE k == generate_keypair(ephemerals + 1)
           w == write_message(hs[e], k)
           x == event(e, "write", w)
<1>1. state[e] = "open" /\ writer_turn(hs[e]) /\ write_branch(e, hs[e], chan, {}, oom)
  BY DEF step_without_input
<1>2. SessionInv /\ faults \in Nat /\ poisoned \in [Endpoint -> BOOLEAN]
  BY SessionAssumption DEF NonceInv, SessionInv, Flags
<1>3. /\ hs' = [hs EXCEPT ![e] = w.hs] /\ state' = state /\ sessions' = sessions
      /\ poisoned' = [poisoned EXCEPT ![e] = @ \/ (~w.ok /\ w.hs # hs[e])]
      /\ events' = (events \cup {}) \cup (IF w.ok THEN {x} ELSE {})
      /\ ~emits(w, oom) => chan' = chan
      /\ faults' = faults + (IF oom THEN 1 ELSE 0)
  BY <1>1 DEF write_branch
<1>4. Notes(x, e, "write", w.hs)
  BY EventNotes
<1> HIDE DEF x, w, k
<1>5. \A f \in Endpoint : /\ f # e => poisoned'[f] = poisoned[f]
                          /\ ~poisoned'[f] => ~poisoned[f]
  BY <1>2, <1>3
<1>6. PICK N : events' = events \cup N /\ N \subseteq {x} /\ (w.ok => N = {x}) /\ (~w.ok => N = {})
  <2>1. CASE w.ok
    BY <1>3, <2>1
  <2>2. CASE ~w.ok
    BY <1>3, <2>2
  <2> QED BY <2>1, <2>2
<1>7. Counted'
  BY <1>1, <1>3, <1>4, <1>5, <1>6, CountedStep DEF TalkInv, Notes
<1>8. ASSUME Smooth' PROVE Talk'
  <2>1. faults' = 0 /\ ~poisoned'[e]
    BY <1>8 DEF Smooth
  <2>2. CASE is_complete(hs[e])
    <3>1. ~w.ok /\ w.hs = hs[e]
      BY <1>1, <1>2, <2>2, OpenSession, CompleteRefuses DEF w, k
    <3>2. faults = 0
      BY <1>2, <1>3, <2>1
    <3>3. hs[e].step \in Nat /\ hs[e].step <= hs[e].step
      BY <1>2, OwnDrawn, Steps DEF SessionInv, Typed
    <3>4. N = {} /\ hs' = [hs EXCEPT ![e] = hs[e]] /\ chan' = chan
      BY <1>3, <1>6, <3>1 DEF emits
    <3>5. Smooth
      BY <1>2, <1>3, <1>5, <1>6, <1>8, <3>2, <3>3, <3>4, SmoothBefore
    <3>6. \A f \in Endpoint : hs'[f] = hs[f]
      BY <1>2, <3>4 DEF SessionInv, Objects
    <3> QED BY <1>3, <3>4, <3>5, <3>6, TalkQuiet DEF TalkInv
  <2>3. CASE ~is_complete(hs[e])
    <3>1. Session(hs[e], drawn, sent) /\ hs[e].step \in Nat /\ hs[e].step <= hs[e].step
      BY <1>1, <1>2, <2>3, OpenSession, Steps DEF Session, Object
    <3>2. Before(e, hs[e], {})
      BY <3>1 DEF Before, SameParty
    <3>3. Speaks(e, hs[e], chan, {}) /\ faults = 0
      BY <1>1, <1>2, <2>1, <2>3, <3>2, Speaking
    <3>4. w.ok /\ Wrote(w, hs[e], k, drawn, sent)
      BY <3>3 DEF Speaks, w, k
    <3>5. w.hs.step = hs[e].step + 1 /\ w.hs.initiator = hs[e].initiator
      BY <3>4 DEF Wrote, SameParty
    <3>6. \A v \in N : v.endpoint = e /\ v.step > hs[e].step
      BY <1>4, <1>6, <3>1, <3>5 DEF Notes
    <3>7. w.hs.step \in Nat /\ hs[e].step <= w.hs.step
      BY <3>1, <3>5
    <3>8. Smooth
      <4>1. \A v \in N : v.endpoint = e /\ (v.kind = "write" => v.step > hs[e].step)
        BY <3>6
      <4> QED BY <1>2, <1>3, <1>5, <1>6, <1>8, <3>3, <3>5, <3>7, <4>1, SmoothBefore
    <3> QED BY <1>1, <2>3, <3>3, <3>8, KickTalk DEF TalkInv
  <2> QED BY <2>2, <2>3
<1> QED BY <1>7, <1>8 DEF TalkInv

\* handshake_step that reads and answers.
LEMMA TalkReadAndWrite ==
    ASSUME NonceInv, AuthInv, TwoEnds, TalkInv,
           NEW e \in Endpoint, NEW oom \in BOOLEAN, step_read_and_write(e, oom)
    PROVE  TalkInv'
<1> DEFINE m  == Head(chan[e])
           rr == read_message(hs[e], m)
           q  == [chan EXCEPT ![e] = Tail(@)]
<1>1. PICK r : r = rr
  OBVIOUS
<1> DEFINE M == {event(e, "read", r)}
           k == generate_keypair(ephemerals + 1)
           w == write_message(r.hs, k)
           x == event(e, "write", w)
<1>2. /\ state[e] = "open" /\ chan[e] # <<>> /\ ~no_write_after(r)
      /\ write_branch(e, r.hs, q, M, oom)
  BY <1>1 DEF step_read_and_write
<1>3. SessionInv /\ faults \in Nat /\ poisoned \in [Endpoint -> BOOLEAN]
  BY SessionAssumption DEF NonceInv, SessionInv, Flags
<1>4. /\ hs' = [hs EXCEPT ![e] = w.hs] /\ state' = state /\ sessions' = sessions
      /\ poisoned' = [poisoned EXCEPT ![e] = @ \/ (~w.ok /\ w.hs # r.hs)]
      /\ events' = (events \cup M) \cup (IF w.ok THEN {x} ELSE {})
  BY <1>2 DEF write_branch
<1>5. Notes(x, e, "write", w.hs) /\ \A v \in M : Notes(v, e, "read", r.hs)
  BY EventNotes
<1> HIDE DEF x, w, k, M, q, rr
<1>6. \A f \in Endpoint : /\ f # e => poisoned'[f] = poisoned[f]
                          /\ ~poisoned'[f] => ~poisoned[f]
  BY <1>3, <1>4
<1>7. PICK N : events' = events \cup N /\ N \subseteq M \cup {x}
  <2>1. CASE w.ok
    <3>1. events' = events \cup (M \cup {x})
      BY <1>4, <2>1
    <3> QED BY <3>1
  <2>2. CASE ~w.ok
    <3>1. events' = events \cup M
      BY <1>4, <2>2
    <3> QED BY <3>1
  <2> QED BY <2>1, <2>2
<1>8. Counted'
  <2>1. \A v \in N : v.session = sessions[e]
    BY <1>5, <1>7 DEF Notes
  <2> QED BY <1>2, <1>4, <1>6, <1>7, <2>1, CountedStep DEF TalkInv
<1>9. ASSUME Smooth' PROVE Talk'
  <2>1. faults' = 0 /\ ~poisoned'[e]
    BY <1>9 DEF Smooth
  <2>2. r.ok /\ writer_turn(r.hs) /\ ~is_complete(r.hs)
    BY <1>2 DEF no_write_after
  <2>3. ~is_complete(hs[e])
    BY <1>1, <1>2, <1>3, <2>2, OpenSession, CompleteRefuses DEF rr
  <2>4. Read(r, hs[e], drawn, sent) /\ Before(e, r.hs, M)
    <3>1. Message(m, sent)
      BY <1>2, <1>3, Popped
    <3> HIDE DEF m
    <3>2. /\ Read(rr, hs[e], drawn, sent)
          /\ rr.ok => Before(e, rr.hs, {event(e, "read", rr)})
      BY <1>2, <1>3, <2>3, <3>1, ReadProgress DEF rr
    <3> QED BY <1>1, <2>2, <3>2 DEF M
  <2>5. Speaks(e, r.hs, q, M) /\ faults = 0
    BY <1>2, <1>3, <2>1, <2>2, <2>4, Speaking
  <2>6. w.ok /\ Wrote(w, r.hs, k, drawn, sent)
    BY <2>5 DEF Speaks, w, k
  <2>7. /\ r.hs.step = hs[e].step + 1 /\ w.hs.step = r.hs.step + 1 /\ hs[e].step \in Nat
        /\ w.hs.initiator = hs[e].initiator
    BY <1>3, <2>2, <2>4, <2>6, OwnDrawn, Steps DEF Read, Wrote, SameParty, SessionInv, Typed
  <2>8. \A v \in N : v.endpoint = e /\ (v.kind = "write" => v.step = hs[e].step + 2)
    BY <1>5, <1>7, <2>7 DEF Notes
  <2>9. w.hs.step \in Nat /\ hs[e].step <= w.hs.step /\ w.hs.step > 0
    BY <2>7
  <2>10. Smooth
    <3>1. \A v \in N : v.endpoint = e /\ (v.kind = "write" => v.step > hs[e].step)
      BY <2>7, <2>8
    <3> QED BY <1>3, <1>4, <1>6, <1>7, <1>9, <2>5, <2>7, <2>9, <3>1, SmoothBefore
  <2>11. ~(r.ok /\ hs[e].initiator /\ hs[e].step = 0)
    <3>1. hs'[e] = w.hs
      BY <1>3, <1>4 DEF SessionInv, Objects
    <3>2. \A v \in N : v.kind = "write" => v.step # 1
      BY <2>7, <2>8
    <3> QED BY <1>2, <1>3, <1>4, <1>7, <1>9, <2>7, <2>9, <3>1, <3>2, InTurn
  <2>12. Hears(e, m)
    BY <1>1, <1>2, <2>2, <2>10, <2>11, Hearing DEF TalkInv, rr
  <2> HIDE DEF m
  <2> QED BY <1>1, <1>2, <2>2, <2>4, <2>5, <2>12, AnswerTalk DEF rr, q
<1> QED BY <1>8, <1>9 DEF TalkInv

\* handshake_step that reads and has nothing to write.
LEMMA TalkReadOnly ==
    ASSUME NonceInv, AuthInv, TwoEnds, TalkInv, NEW e \in Endpoint, step_read_only(e)
    PROVE  TalkInv'
<1> DEFINE m  == Head(chan[e])
           rr == read_message(hs[e], m)
<1>1. PICK r : r = rr
  OBVIOUS
<1> DEFINE x == event(e, "read", r)
           N == IF r.ok THEN {x} ELSE {}
<1>2. /\ state[e] = "open" /\ chan[e] # <<>> /\ no_write_after(r)
      /\ hs' = [hs EXCEPT ![e] = r.hs] /\ chan' = [chan EXCEPT ![e] = Tail(@)]
      /\ events' = events \cup N /\ state' = state /\ sessions' = sessions /\ faults' = faults
      /\ poisoned' = [poisoned EXCEPT ![e] = @ \/ (~r.ok /\ r.hs # hs[e])]
  BY <1>1 DEF step_read_only
<1>3. SessionInv /\ poisoned \in [Endpoint -> BOOLEAN]
  BY DEF NonceInv, SessionInv, Flags
<1>4. Notes(x, e, "read", r.hs)
  BY EventNotes
<1> HIDE DEF x, rr
<1>5. \A f \in Endpoint : /\ f # e => poisoned'[f] = poisoned[f]
                          /\ ~poisoned'[f] => ~poisoned[f]
  BY <1>2, <1>3
<1>6. \A v \in N : v.endpoint = e /\ v.session = sessions[e] /\ v.kind # "write"
  BY <1>4 DEF Notes
<1>7. Counted'
  <2> HIDE DEF N
  <2> QED BY <1>2, <1>5, <1>6, CountedStep DEF TalkInv
<1>8. ASSUME Smooth' PROVE Talk'
  <2>1. faults = 0 /\ ~poisoned'[e]
    BY <1>2, <1>8 DEF Smooth
  <2>2. ~r.ok => r.hs = hs[e]
    BY <1>2, <1>3, <2>1
  <2>3. is_complete(hs[e]) => ~r.ok
    BY <1>1, <1>2, <1>3, OpenSession, CompleteRefuses DEF rr
  <2>4. ~is_complete(hs[e]) => Read(r, hs[e], drawn, sent)
    <3>1. Message(m, sent)
      BY <1>2, <1>3, Popped
    <3> HIDE DEF m
    <3> QED BY <1>1, <1>2, <1>3, <3>1, ReadProgress DEF rr
  <2>5. hs[e].step \in Nat
    BY <1>3, OwnDrawn, Steps DEF SessionInv, Typed
  <2>6. r.hs.initiator = hs[e].initiator /\ r.hs.step = IF r.ok THEN hs[e].step + 1 ELSE hs[e].step
    BY <2>2, <2>3, <2>4 DEF Read, SameParty
  <2>7. r.hs.step \in Nat /\ hs[e].step <= r.hs.step
    BY <2>5, <2>6
  <2>8. \A v \in N : /\ v.endpoint = e /\ (v.kind = "write" => v.step > hs[e].step)
                     /\ v.kind = "write" => v.step # 1
    BY <1>6
  <2> HIDE DEF N
  <2>9. Smooth
    BY <1>2, <1>3, <1>5, <1>8, <2>1, <2>6, <2>7, <2>8, SmoothBefore
  <2>10. ~(r.ok /\ hs[e].initiator /\ hs[e].step = 0)
    <3> SUFFICES ASSUME r.ok PROVE ~(hs[e].initiator /\ hs[e].step = 0)
      OBVIOUS
    <3>1. hs'[e] = r.hs /\ r.hs.step > 0
      BY <1>2, <1>3, <2>5, <2>6 DEF SessionInv, Objects
    <3> QED BY <1>2, <1>3, <1>8, <2>6, <2>8, <3>1, InTurn
  <2>11. r.ok /\ Hears(e, m)
    BY <1>1, <1>2, <2>2, <2>9, <2>10, Hearing DEF TalkInv, rr
  <2>12. Read(r, hs[e], drawn, sent)
    BY <2>3, <2>4, <2>11
  <2> HIDE DEF m
  <2> QED BY <1>1, <1>2, <2>11, <2>12, LastTalk DEF rr
<1> QED BY <1>7, <1>8 DEF TalkInv

\* The constructor leaves a newborn object.
LEMMA ConstructedNewborn ==
    ASSUME NEW p \in {"XX", "IK"}, NEW i \in BOOLEAN, NEW s, NEW rs
    PROVE  Newborn(construct(p, i, s, rs))
<1> DEFINE named == mix_hash(initialize(protocol_name(p)), Prologue)
           pins  == p = "IK" /\ i /\ rs # Empty
           pre   == CASE pins            -> mix_hash(named, rs)
                      [] p = "IK" /\ ~i  -> mix_hash(named, s)
                      [] OTHER           -> named
           h     == construct(p, i, s, rs)
<1>1. h = [pattern |-> p, initiator |-> i, step |-> 0, symmetric |-> pre,
           s_sk |-> s, s_pk |-> s, e_sk |-> Zero, e_pk |-> Zero,
           rs |-> IF pins THEN rs ELSE Zero, re |-> Zero, rs_known |-> pins]
  BY DEF construct
<1>2. p = "XX" => pre = started
  BY DEF started
<1> HIDE DEF h, pre
<1> QED BY <1>1, <1>2 DEF Newborn, h

\* handshake_open.
LEMMA TalkOpen ==
    ASSUME NonceInv, TwoEnds, TalkInv, NEW e \in Endpoint, NEW args \in OpenArgs[e],
           handshake_open(e, args)
    PROVE  TalkInv'
<1> DEFINE p == Peer[e]
           c == construct(args.pattern, args.initiator, ed25519_to_x25519(args.local),
                          IF pins_remote(args) THEN ed25519_to_x25519(args.remote) ELSE Empty)
<1>1. PICK g : g = c
  OBVIOUS
<1>2. /\ state[e] = "none" /\ state' = [state EXCEPT ![e] = "open"]
      /\ hs' = [hs EXCEPT ![e] = g] /\ sessions' = [sessions EXCEPT ![e] = @ + 1]
      /\ poisoned' = [poisoned EXCEPT ![e] = FALSE]
      /\ chan' = chan /\ events' = events /\ faults' = faults
  BY <1>1 DEF handshake_open
<1>3. Newborn(g)
  BY <1>1, SessionAssumption, ConstructedNewborn
<1> HIDE DEF c
<1>4. /\ \A f \in Endpoint : sessions[f] \in Nat
      /\ DOMAIN state = Endpoint /\ DOMAIN sessions = Endpoint /\ DOMAIN poisoned = Endpoint
      /\ DOMAIN hs = Endpoint
  BY SessionAssumption DEF NonceInv, SessionInv, Flags, Objects
<1>5. /\ state'[e] = "open" /\ hs'[e] = g /\ sessions'[e] = sessions[e] + 1 /\ ~poisoned'[e]
      /\ \A f \in Endpoint : f # e => /\ state'[f] = state[f] /\ hs'[f] = hs[f]
                                      /\ sessions'[f] = sessions[f] /\ poisoned'[f] = poisoned[f]
  BY <1>2, <1>4
<1>6. Counted'
  BY <1>2, <1>4, <1>5 DEF Counted, TalkInv
<1>7. p \in Endpoint /\ p # e /\ Peer[p] = e /\ \A f \in Endpoint : f = e \/ f = p
  BY OtherEnd
<1>8. ASSUME Smooth' PROVE Talk'
  <2>1. sessions[e] = 0
    BY <1>4, <1>5, <1>8 DEF Smooth
  <2>2. \A f \in Endpoint : f # e => (wrote_first(f)' => wrote_first(f))
    BY <1>2, <1>5 DEF wrote_first
  <2>3. Smooth
    BY <1>2, <1>5, <1>8, <2>1, <2>2 DEF Smooth, TalkInv, Counted
  <2>4. Waiting(e)'
    BY <1>3, <1>5 DEF Waiting
  <2>5. (Waiting(p) => Waiting(p)') /\ \A m : Asks(p, m) => Asks(p, m)'
    BY <1>5, <1>7 DEF Waiting, Asks
  <2>6. Talk
    BY <2>3 DEF TalkInv
  <2>7. CASE \A f \in Endpoint : Waiting(f) /\ chan[f] = <<>>
    BY <1>2, <1>7, <2>4, <2>5, <2>7 DEF Talk
  <2>8. ASSUME NEW i \in Endpoint, NEW m, Asks(i, m), chan[i] = <<>>,
               Waiting(Peer[i]), chan[Peer[i]] = <<m>>
        PROVE  Talk'
    <3>1. i = p
      BY <1>2, <1>7, <2>8 DEF Asks
    <3> QED BY <1>2, <1>7, <2>4, <2>5, <2>8, <3>1 DEF Talk
  <2>9. ~(\A f \in Endpoint : \E m : Asks(f, m) /\ chan[Peer[f]] = <<m>>)
    BY <1>2 DEF Asks
  <2>10. ~(\E i \in Endpoint : \E m : Replies(Peer[i], m, i) /\ chan[i] = <<m>> /\ chan[Peer[i]] = <<>>)
    BY <1>2, <1>7 DEF Replies
  <2>11. ~(\E i \in Endpoint : \E m : Closes(i, m, Peer[i]) /\ chan[i] = <<>> /\ chan[Peer[i]] = <<m>>)
    BY <1>2, <1>7 DEF Closes
  <2> QED BY <1>2, <2>6, <2>7, <2>8, <2>9, <2>10, <2>11 DEF Talk
<1> QED BY <1>6, <1>8 DEF TalkInv

\* export_transport_keys: only a complete session is split, and stays complete.
LEMMA TalkExport ==
    ASSUME NonceInv, TwoEnds, TalkInv, NEW e \in Endpoint, export_transport_keys(e)
    PROVE  TalkInv'
<1> DEFINE p == Peer[e]
           h == hs[e]
           c == handshake_split(h).hs
<1>1. PICK g : g = c
  OBVIOUS
<1>2. /\ state[e] = "open" /\ is_complete(h) /\ hs' = [hs EXCEPT ![e] = g]
      /\ UNCHANGED <<state, chan, sessions, faults, events, poisoned>>
  BY <1>1 DEF export_transport_keys
<1>3. g.pattern = h.pattern /\ g.step = h.step /\ g.initiator = h.initiator
  <2>1. IsHandshake(h)
    BY <1>2, OpenSession DEF NonceInv
  <2>2. c = [h EXCEPT !.symmetric = [h.symmetric EXCEPT !.ck = Zero], !.s_sk = Zero,
                      !.e_sk = Zero, !.e_pk = Zero, !.re = Zero]
    BY DEF handshake_split, split
  <2> QED BY <1>1, <2>1, <2>2 DEF IsHandshake
<1> HIDE DEF c
<1>4. SessionInv /\ h.step \in Nat /\ h.step <= h.step /\ h.pattern \in {"XX", "IK"}
  BY OwnDrawn, Steps DEF NonceInv, SessionInv, Typed
<1>5. Counted'
  BY <1>2 DEF TalkInv, Counted
<1>6. p \in Endpoint /\ p # e /\ Peer[p] = e /\ \A f \in Endpoint : f = e \/ f = p
  BY OtherEnd
<1>7. hs'[e] = g /\ hs'[p] = hs[p] /\ is_complete(g)
  BY <1>2, <1>3, <1>4, <1>6 DEF SessionInv, Objects, is_complete
<1>8. h.step \notin {0, 1} /\ (h.step = 2 => h.pattern = "IK")
  BY <1>2, <1>4, Steps DEF is_complete
<1>9. ASSUME Smooth' PROVE Talk'
  <2>1. Talk
    <3>1. faults = 0
      BY <1>2, <1>9 DEF Smooth
    <3>2. PICK N : events' = events \cup N /\ N = {}
      BY <1>2
    <3>3. \A v \in N : v.endpoint = e /\ (v.kind = "write" => v.step > hs[e].step)
      BY <3>2
    <3>4. state' = state /\ sessions' = sessions /\ (\A f \in Endpoint : poisoned'[f] = poisoned[f])
      BY <1>2
    <3>5. Smooth
      BY <1>2, <1>3, <1>4, <1>9, <3>1, <3>2, <3>3, <3>4, SmoothBefore
    <3> QED BY <3>5 DEF TalkInv
  <2>2. ~(\A f \in Endpoint : Waiting(f) /\ chan[f] = <<>>)
    BY <1>2, <1>8 DEF Waiting, Newborn
  <2>3. ~(\E i \in Endpoint : \E m : /\ Asks(i, m) /\ chan[i] = <<>>
                                     /\ Waiting(Peer[i]) /\ chan[Peer[i]] = <<m>>)
    BY <1>2, <1>6, <1>8 DEF Asks, Waiting, Newborn
  <2>4. ~(\A f \in Endpoint : \E m : Asks(f, m) /\ chan[Peer[f]] = <<m>>)
    BY <1>8 DEF Asks
  <2>5. ASSUME NEW i \in Endpoint, NEW m, Replies(Peer[i], m, i), chan[i] = <<m>>, chan[Peer[i]] = <<>>
        PROVE  Talk'
    <3>1. i = p /\ Replies(e, m, p)
      BY <1>6, <1>8, <2>5 DEF Replies
    <3>2. h.pattern = "IK" /\ g.pattern = "IK" /\ g.step = 2 /\ g.initiator = FALSE
      BY <1>3, <1>8, <3>1 DEF Replies
    <3>3. Replies(e, m, p)'
      BY <1>2, <1>7, <3>1, <3>2 DEF Replies
    <3> QED BY <1>2, <1>6, <2>5, <3>1, <3>3 DEF Talk
  <2>6. ASSUME NEW i \in Endpoint, NEW m, Closes(i, m, Peer[i]), chan[i] = <<>>, chan[Peer[i]] = <<m>>
        PROVE  Talk'
    <3>1. i = e /\ Closes(e, m, p)
      BY <1>2, <1>6, <2>6 DEF Closes
    <3>2. Closes(e, m, p)'
      BY <1>2, <1>7, <3>1 DEF Closes, is_complete
    <3> QED BY <1>2, <2>6, <3>1, <3>2 DEF Talk
  <2>7. CASE \A f \in Endpoint : state[f] = "open" /\ is_complete(hs[f]) /\ chan[f] = <<>>
    <3>1. \A f \in Endpoint : state'[f] = "open" /\ is_complete(hs'[f]) /\ chan'[f] = <<>>
      BY <1>2, <1>6, <1>7, <2>7
    <3> QED BY <3>1 DEF Talk, is_complete
  <2> QED BY <2>1, <2>2, <2>3, <2>4, <2>5, <2>6, <2>7 DEF Talk
<1> QED BY <1>5, <1>9 DEF TalkInv

\* handshake_close: the session does not come back as the first one.
LEMMA TalkClose ==
    ASSUME NonceInv, TalkInv, NEW e \in Endpoint, handshake_close(e)
    PROVE  TalkInv'
<1>1. /\ state[e] = "open" /\ state' = [state EXCEPT ![e] = "none"]
      /\ UNCHANGED <<sessions, events, poisoned>>
  BY DEF handshake_close
<1>2. DOMAIN state = Endpoint
  BY DEF NonceInv, SessionInv, Flags
<1>3. state'[e] = "none" /\ \A f \in Endpoint : f # e => state'[f] = state[f]
  BY <1>1, <1>2
<1>4. Counted'
  BY <1>1, <1>3 DEF TalkInv, Counted
<1>5. ~Smooth'
  BY <1>1, <1>3 DEF TalkInv, Counted, Smooth
<1> QED BY <1>4, <1>5 DEF TalkInv

\* The link: what it does to a message is a fault.
LEMMA TalkLink ==
    ASSUME NonceInv, TalkInv, NEW e \in Endpoint, link(e)
    PROVE  TalkInv'
<1>1. link_only /\ faults' = faults + 1
  BY DEF link, lose, duplicate, reorder, damage, truncate, extend, fault
<1>2. faults \in Nat
  BY SessionAssumption DEF NonceInv, SessionInv, Flags
<1>3. ~Smooth'
  BY <1>1, <1>2 DEF Smooth
<1> QED BY <1>1, <1>3 DEF TalkInv, Counted, link_only

\* Every step.
LEMMA TalkNext ==
    ASSUME TwoEnds
    PROVE  NonceInv /\ AuthInv /\ TalkInv /\ [Next]_vars => TalkInv'
<1> SUFFICES ASSUME NonceInv, AuthInv, TalkInv, [Next]_vars PROVE TalkInv'
  OBVIOUS
<1>1. CASE UNCHANGED vars
  <2>1. Counted' /\ (Smooth' => Smooth)
    BY <1>1 DEF vars, TalkInv, Counted, Smooth, wrote_first
  <2>2. Talk => Talk'
    BY <1>1, TalkQuiet DEF vars
  <2> QED BY <2>1, <2>2 DEF TalkInv
<1>2. ASSUME NEW e \in Endpoint, handshake_step(e)
      PROVE  TalkInv'
  BY <1>2, TalkWithoutInput, TalkReadAndWrite, TalkReadOnly DEF handshake_step
<1> QED BY <1>1, <1>2, TalkOpen, TalkExport, TalkClose, TalkLink DEF Next

\* Initially both ends wait.
LEMMA TalkInit == Init => TalkInv
<1> SUFFICES ASSUME Init PROVE TalkInv
  OBVIOUS
<1>1. Counted
  BY DEF Init, Counted
<1>2. \A e \in Endpoint : Waiting(e) /\ chan[e] = <<>>
  BY DEF Init, Waiting
<1> QED BY <1>1, <1>2 DEF TalkInv, Talk

\* When nobody pins its own key, on a link with two ends: as long as there has
\* been no fault, no failed handshake_step that changed its session and no
\* close, and initiators wrote first, the two sessions and the queues are at
\* one of the stages of Talk.
THEOREM TalkInvariant ==
    ASSUME NobodyPinsItself, TwoEnds
    PROVE  Spec => []TalkInv
<1>1. NonceInv /\ AuthInv /\ TalkInv /\ [Next]_vars => TalkInv'
  BY TalkNext
<1> QED BY <1>1, TalkInit, NonceInvariant, AuthInvariant, PTL DEF Spec

\* When nobody pins its own key, on a link with two ends: when both first
\* sessions wait for each other without a fault of the link, handshake_step has
\* completed both or has returned an error to one of the kernels.
THEOREM StallsReported ==
    ASSUME NobodyPinsItself, TwoEnds
    PROVE  Spec => []StallIsReported
<1>1. SessionInv /\ TalkInv => StallIsReported
  BY TalkReports
<1> QED BY <1>1, SessionInvariant, TalkInvariant, PTL
==============================================================================
