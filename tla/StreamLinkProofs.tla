--------------------------- MODULE StreamLinkProofs ---------------------------
(***************************************************************************)
(* Theorems about StreamLink, for every REKEY_INTERVAL, every nonce width, *)
(* any number of frames in flight and any number of coordinated rekeys.    *)
(***************************************************************************)
EXTENDS StreamLink, TransportLinkProofs

USE NonceMaxAssumption, RekeyIntervalAssumption, TransportAssumption

(***************************************************************************)
(* One direction as positions of its key schedule: the frames in flight c, *)
(* the sender's next position s and the receiver's next position r.        *)
(***************************************************************************)
pos(f)       == [gen |-> f[2].gen, n |-> f[3]]
succ(a)      == IF a.n + 1 < REKEY_INTERVAL THEN [gen |-> a.gen, n |-> a.n + 1]
                                            ELSE [gen |-> a.gen + 1, n |-> 0]
start_of(g)  == [gen |-> g, n |-> 0]
SealedFrame  == {"aead"} \X Key \X Nonce \X {Empty} \X Nat

\* What the receiver gets next opens, or is of a generation it has left
\* without having read anything of the next.
meets(a, r) == a = r \/ (a.gen < r.gen /\ r.n = 0)

\* The positions of a direction follow each other; a generation is only cut
\* short when the receiver has left it too.
follows(a, b, r) ==
    \/ b = succ(a)
    \/ a.gen < b.gen /\ b.n = 0 /\ b.gen <= r.gen

Line(c, s, r) ==
    /\ c = <<>> => meets(s, r)
    /\ c # <<>> => meets(pos(c[1]), r) /\ follows(pos(c[Len(c)]), s, r)
    /\ \A i \in 1..(Len(c) - 1) : follows(pos(c[i]), pos(c[i + 1]), r)
    /\ \A i \in 1..Len(c) : pos(c[i]).gen <= s.gen

sender(p)   == position(tr[p].send)
receiver(p) == position(tr[other(p)].recv)

StreamTypes ==
    /\ TypeOK
    /\ chan \in [Side -> Seq(SealedFrame)]
    /\ \A p \in Side : \A i \in DOMAIN chan[p] : chan[p][i][2].base = base(other(p))
    /\ pending \in SUBSET Side /\ crossed \in BOOLEAN

\* A TransportState rekeys both of its ciphers at once.
SameGeneration == \A p \in Side : tr[p].send.k.gen = tr[p].recv.k.gen

LinesUp == pending = {} => \A p \in Side : Line(chan[other(p)], sender(p), receiver(p))

\* Between the two calls of a coordinated rekey the side that has made its
\* call is at the start of the next generation.
RekeyHalfDone ==
    pending # {} =>
        /\ \A p \in Side : chan[p] = <<>>
        /\ \E p \in Side : /\ pending = {other(p)}
                           /\ tr[p].send.k.gen = tr[other(p)].send.k.gen + 1
                           /\ tr[p].send.n = 0 /\ tr[p].recv.n = 0

\* Without crossing, frames are in flight one way only and the next one opens.
OneWay ==
    ~crossed => \A p \in Side : chan[p] # <<>> =>
                   chan[other(p)] = <<>> /\ pos(chan[p][1]) = position(tr[p].recv)

StreamInv == StreamTypes /\ SameGeneration /\ LinesUp /\ RekeyHalfDone /\ OneWay

(***************************************************************************)
(* Positions.                                                              *)
(***************************************************************************)
\* The fields of a position, and that they determine it.
LEMMA PositionFields ==
    /\ \A a \in Position : a.gen \in Nat /\ a.n \in Nat /\ a.n < REKEY_INTERVAL
    /\ \A a, b \in Position : a.gen = b.gen /\ a.n = b.n => a = b
<1>1. \A a \in Position : a.gen \in Nat /\ a.n \in Nonce /\ a = [gen |-> a.gen, n |-> a.n]
  BY DEF Position
<1>2. \A k \in Nonce : k \in Nat /\ k < REKEY_INTERVAL
  BY DEF Nonce
<1> QED BY <1>1, <1>2

\* The next position of a direction.
LEMMA SuccFields ==
    ASSUME NEW a \in Position
    PROVE  /\ succ(a) \in Position
           /\ succ(a).gen = a.gen \/ (succ(a).gen = a.gen + 1 /\ succ(a).n = 0)
<1>1. a.gen \in Nat /\ a.n \in Nat /\ a.n < REKEY_INTERVAL
  BY PositionFields
<1>2. 0 \in Nonce /\ (a.n + 1 < REKEY_INTERVAL => a.n + 1 \in Nonce)
  BY <1>1 DEF Nonce
<1>3. CASE a.n + 1 < REKEY_INTERVAL
  BY <1>1, <1>2, <1>3 DEF succ, Position
<1>4. CASE ~(a.n + 1 < REKEY_INTERVAL)
  BY <1>1, <1>2, <1>4 DEF succ, Position
<1> QED BY <1>3, <1>4

\* The start of a generation is a position.
LEMMA StartFields ==
    ASSUME NEW g \in Nat
    PROVE  start_of(g) \in Position /\ start_of(g).gen = g /\ start_of(g).n = 0
<1>1. 0 \in Nonce
  BY DEF Nonce
<1> QED BY <1>1 DEF start_of, Position

\* A sealed frame has a position.
LEMMA PosType == \A f \in SealedFrame : pos(f) \in Position
<1>1. \A f \in SealedFrame : f[2] \in Key /\ f[3] \in Nonce
  BY DEF SealedFrame
<1>2. \A k \in Key : k.gen \in Nat
  BY DEF Key
<1> QED BY <1>1, <1>2 DEF pos, Position

(***************************************************************************)
(* What the calls of either side make of one direction.                    *)
(***************************************************************************)
\* The positions of the frames in flight.
LEMMA InFlight ==
    ASSUME NEW c \in Seq(SealedFrame)
    PROVE  /\ Len(c) \in Nat /\ DOMAIN c = 1..Len(c)
           /\ c # <<>> => Len(c) > 0
           /\ \A i \in 1..Len(c) : c[i] \in SealedFrame /\ pos(c[i]) \in Position
<1>1. Len(c) \in Nat /\ DOMAIN c = 1..Len(c) /\ \A i \in 1..Len(c) : c[i] \in SealedFrame
  OBVIOUS
<1>2. c # <<>> => Len(c) > 0
  BY EmptySeq
<1> QED BY <1>1, <1>2, PosType

\* The sender sends.
LEMMA LineSend ==
    ASSUME NEW c \in Seq(SealedFrame), NEW s \in Position, NEW r \in Position, Line(c, s, r),
           NEW f \in SealedFrame, pos(f) = s
    PROVE  Line(Append(c, f), succ(s), r)
<1> DEFINE d == Append(c, f)
           k == Len(c)
<1>1. d \in Seq(SealedFrame) /\ Len(d) = k + 1 /\ d # <<>> /\ d[k + 1] = f
      /\ k \in Nat /\ \A i \in 1..k : d[i] = c[i]
  OBVIOUS
<1>2. \A i \in 1..k : pos(d[i]) = pos(c[i]) /\ pos(c[i]) \in Position
  BY <1>1, InFlight
<1>3. pos(d[k + 1]) = s
  BY <1>1
<1> HIDE DEF d
<1>4. meets(pos(d[1]), r)
  <2>1. CASE c = <<>>
    <3>1. k = 0
      BY <2>1
    <3> QED BY <1>3, <2>1, <3>1 DEF Line
  <2>2. CASE c # <<>>
    BY <1>2, <2>2, InFlight DEF Line
  <2> QED BY <2>1, <2>2
<1>5. follows(pos(d[Len(d)]), succ(s), r)
  BY <1>1, <1>3 DEF follows
<1>6. ASSUME NEW i \in 1..(Len(d) - 1)
      PROVE  follows(pos(d[i]), pos(d[i + 1]), r)
  <2>1. CASE i = k
    <3>1. c # <<>>
      BY <1>1, <2>1
    <3> QED BY <1>1, <1>2, <1>3, <2>1, <3>1 DEF Line
  <2>2. CASE i < k
    <3>1. i \in 1..(k - 1) /\ i \in 1..k /\ i + 1 \in 1..k
      BY <1>1, <2>2
    <3> QED BY <1>2, <3>1 DEF Line
  <2> QED BY <1>1, <2>1, <2>2
<1>7. ASSUME NEW i \in 1..Len(d)
      PROVE  pos(d[i]).gen <= succ(s).gen
  <2>1. succ(s).gen \in Nat /\ s.gen \in Nat /\ s.gen <= succ(s).gen
    BY SuccFields, PositionFields
  <2>2. pos(d[i]).gen \in Nat /\ pos(d[i]).gen <= s.gen
    <3>1. CASE i = k + 1
      BY <1>3, <2>1, <3>1
    <3>2. CASE i \in 1..k
      BY <1>2, <3>2, PositionFields DEF Line
    <3> QED BY <1>1, <3>1, <3>2
  <2> QED BY <2>1, <2>2
<1> QED BY <1>1, <1>4, <1>5, <1>6, <1>7 DEF Line

\* The receiver goes to the next generation by itself: what is in flight
\* stays behind.
LEMMA LineReceiverAhead ==
    ASSUME NEW c \in Seq(SealedFrame), NEW s \in Position, NEW r \in Position, Line(c, s, r)
    PROVE  Line(c, s, start_of(r.gen + 1))
<1> DEFINE r2 == start_of(r.gen + 1)
<1>1. r.gen \in Nat /\ r2.gen = r.gen + 1 /\ r2.n = 0
  BY PositionFields, StartFields
<1> HIDE DEF r2
<1>2. \A a \in Position : meets(a, r) => meets(a, r2)
  BY <1>1, PositionFields DEF meets
<1>3. \A a, b \in Position : follows(a, b, r) => follows(a, b, r2)
  BY <1>1, PositionFields DEF follows
<1>4. \A i \in 1..(Len(c) - 1) : i \in 1..Len(c) /\ i + 1 \in 1..Len(c)
  BY InFlight
<1>5. c # <<>> => 1 \in 1..Len(c) /\ Len(c) \in 1..Len(c)
  BY InFlight
<1> QED BY <1>2, <1>3, <1>4, <1>5, InFlight DEF Line, r2

\* The frames behind the head, and that they still follow each other.
LEMMA LineTail ==
    ASSUME NEW c \in Seq(SealedFrame), NEW s \in Position, NEW r \in Position, Line(c, s, r),
           c # <<>>
    PROVE  \E a \in Position :
              /\ Tail(c) = <<>> => a = s
              /\ Tail(c) # <<>> => a = pos(Tail(c)[1])
              /\ a.gen <= s.gen /\ follows(pos(c[1]), a, r)
              /\ \A r2 \in Position : r.gen <= r2.gen /\ meets(a, r2) => Line(Tail(c), s, r2)
<1> DEFINE d == Tail(c)
           k == Len(c)
<1>1. k \in Nat /\ k > 0 /\ 1 \in 1..k /\ k \in 1..k
  BY InFlight
<1>2. d \in Seq(SealedFrame) /\ Len(d) = k - 1 /\ \A i \in 1..(k - 1) : d[i] = c[i + 1]
  BY <1>1
<1> HIDE DEF d
<1>3. d = <<>> <=> k = 1
  <2>1. d # <<>> => Len(d) > 0
    BY <1>2, InFlight
  <2>2. d = <<>> => Len(d) = 0
    OBVIOUS
  <2> QED BY <1>1, <1>2, <2>1, <2>2
<1> PICK a : (d = <<>> => a = s) /\ (d # <<>> => a = pos(d[1]))
  OBVIOUS
<1>4. a \in Position /\ a.gen <= s.gen /\ follows(pos(c[1]), a, r)
  <2>1. CASE k = 1
    BY <1>1, <1>3, <2>1, PositionFields DEF Line
  <2>2. CASE k > 1
    <3>1. a = pos(d[1]) /\ 1 \in 1..(k - 1)
      BY <1>1, <1>3, <2>2
    <3>2. ASSUME NEW i \in 1..(k - 1)
          PROVE  pos(d[i]) \in Position /\ pos(d[i]).gen <= s.gen /\ follows(pos(c[i]), pos(d[i]), r)
      <4>1. d[i] = c[i + 1] /\ i + 1 \in 1..k
        BY <1>1, <1>2
      <4> QED BY <4>1, InFlight DEF Line
    <3> QED BY <3>1, <3>2
  <2>3. k = 1 \/ k > 1
    <3>1. \A m \in Nat : m > 0 => m = 1 \/ m > 1
      OBVIOUS
    <3> QED BY <1>1, <3>1
  <2> QED BY <2>1, <2>2, <2>3
<1>5. ASSUME NEW r2 \in Position, r.gen <= r2.gen, meets(a, r2)
      PROVE  Line(d, s, r2)
  <2>1. \A x, y \in Position : follows(x, y, r) => follows(x, y, r2)
    BY <1>5, PositionFields DEF follows
  <2>2. d # <<>> => follows(pos(d[Len(d)]), s, r2)
    <3>1. d # <<>> => d[Len(d)] = c[k]
      BY <1>1, <1>2, <1>3
    <3> QED BY <1>1, <2>1, <3>1, InFlight DEF Line
  <2>3. ASSUME NEW i \in 1..(Len(d) - 1)
        PROVE  follows(pos(d[i]), pos(d[i + 1]), r2)
    <3>1. i + 1 \in 1..(k - 1) /\ i + 1 \in 1..k /\ (i + 1) + 1 \in 1..k
          /\ d[i] = c[i + 1] /\ d[i + 1] = c[(i + 1) + 1]
      BY <1>1, <1>2
    <3> QED BY <2>1, <3>1, InFlight DEF Line
  <2>4. ASSUME NEW i \in 1..Len(d)
        PROVE  pos(d[i]).gen <= s.gen
    <3>1. i + 1 \in 1..k /\ d[i] = c[i + 1]
      BY <1>1, <1>2
    <3> QED BY <3>1 DEF Line
  <2> QED BY <1>5, <2>2, <2>3, <2>4 DEF Line
<1> QED BY <1>2, <1>4, <1>5 DEF d

\* The receiver opens the head: it is then at the position of what follows.
LEMMA LineOpen ==
    ASSUME NEW c \in Seq(SealedFrame), NEW s \in Position, NEW r \in Position, Line(c, s, r),
           c # <<>>, pos(c[1]) = r
    PROVE  /\ Line(Tail(c), s, succ(r)) /\ succ(r).gen <= s.gen
           /\ Tail(c) # <<>> => pos(Tail(c)[1]) = succ(r)
<1>1. PICK a \in Position :
         /\ Tail(c) # <<>> => a = pos(Tail(c)[1])
         /\ a.gen <= s.gen /\ follows(r, a, r)
         /\ \A r2 \in Position : r.gen <= r2.gen /\ meets(a, r2) => Line(Tail(c), s, r2)
  BY LineTail
<1>2. a = succ(r)
  BY <1>1, PositionFields DEF follows
<1>3. succ(r) \in Position /\ r.gen <= succ(r).gen
  BY SuccFields, PositionFields
<1>4. meets(a, succ(r))
  BY <1>2 DEF meets
<1> QED BY <1>1, <1>2, <1>3, <1>4

\* The receiver refuses the head: it is of a generation it has left.
LEMMA LineStale ==
    ASSUME NEW c \in Seq(SealedFrame), NEW s \in Position, NEW r \in Position, Line(c, s, r),
           c # <<>>, pos(c[1]) # r
    PROVE  Line(Tail(c), s, r)
<1> DEFINE h == pos(c[1])
<1>1. PICK a \in Position :
         /\ a.gen <= s.gen /\ follows(h, a, r)
         /\ \A r2 \in Position : r.gen <= r2.gen /\ meets(a, r2) => Line(Tail(c), s, r2)
  BY LineTail
<1>2. h \in Position /\ h.gen < r.gen /\ r.n = 0
  BY InFlight DEF Line, meets
<1> HIDE DEF h
<1>3. meets(a, r)
  <2>1. a.gen \in Nat /\ h.gen \in Nat /\ r.gen \in Nat
    BY <1>1, <1>2, PositionFields
  <2>2. CASE a = succ(h)
    <3>1. a.gen = h.gen \/ (a.gen = h.gen + 1 /\ a.n = 0)
      BY <1>2, <2>2, SuccFields
    <3>2. CASE a.gen < r.gen
      BY <1>2, <3>2 DEF meets
    <3>3. CASE ~(a.gen < r.gen)
      <4>1. a.gen = r.gen /\ a.n = r.n
        BY <1>2, <2>1, <3>1, <3>3
      <4> QED BY <1>1, <4>1, PositionFields DEF meets
    <3> QED BY <3>2, <3>3
  <2>3. CASE h.gen < a.gen /\ a.n = 0 /\ a.gen <= r.gen
    <3>1. CASE a.gen = r.gen
      BY <1>1, <1>2, <2>3, <3>1, PositionFields DEF meets
    <3>2. CASE a.gen < r.gen
      BY <1>2, <3>2 DEF meets
    <3> QED BY <2>1, <2>3, <3>1, <3>2
  <2> QED BY <1>1, <2>2, <2>3 DEF follows
<1> QED BY <1>1, <1>3, PositionFields

\* The sender goes to the next generation on receipt, when the receiver is
\* already there or further.
LEMMA LineSenderAhead ==
    ASSUME NEW c \in Seq(SealedFrame), NEW s \in Position, NEW r \in Position, Line(c, s, r),
           s.gen + 1 <= r.gen
    PROVE  Line(c, start_of(s.gen + 1), r)
<1> DEFINE s2 == start_of(s.gen + 1)
<1>1. /\ s.gen \in Nat /\ r.gen \in Nat
      /\ s2 \in Position /\ s2.gen = s.gen + 1 /\ s2.n = 0
  BY PositionFields, StartFields
<1> HIDE DEF s2
<1>2. c = <<>> => meets(s2, r)
  <2>1. c = <<>> => r.n = 0
    BY <1>1 DEF Line, meets
  <2>2. CASE s2.gen = r.gen
    BY <1>1, <2>1, <2>2, PositionFields DEF meets
  <2>3. CASE s2.gen < r.gen
    BY <2>1, <2>3 DEF meets
  <2> QED BY <1>1, <2>2, <2>3
<1>3. \A i \in 1..Len(c) : pos(c[i]).gen \in Nat /\ pos(c[i]).gen <= s.gen
  BY InFlight, PositionFields DEF Line
<1>4. c # <<>> => follows(pos(c[Len(c)]), s2, r)
  <2>1. c # <<>> => Len(c) \in 1..Len(c)
    BY InFlight
  <2> QED BY <1>1, <1>3, <2>1 DEF follows
<1>5. \A i \in 1..Len(c) : pos(c[i]).gen <= s2.gen
  BY <1>1, <1>3
<1> QED BY <1>2, <1>4, <1>5 DEF Line, s2

(***************************************************************************)
(* Each call as an update of the positions.                                *)
(***************************************************************************)
\* Where encrypt, decrypt and rekey take the two ciphers of a side that are
\* in the same generation.
LEMMA AfterPositions ==
    ASSUME NEW t \in Transport, t.send.k.gen = t.recv.k.gen
    PROVE  LET e == after_encrypt(t)
               d == after_decrypt(t)
               n == next_generation(t)
               g == start_of(t.send.k.gen + 1)
           IN  /\ position(t.send) \in Position /\ position(t.recv) \in Position
               /\ position(t.send).gen = t.send.k.gen /\ position(t.recv).gen = t.send.k.gen
               /\ position(e.send) = succ(position(t.send))
               /\ position(e.recv) = position(t.recv) \/ position(e.recv) = g
               /\ position(d.recv) = succ(position(t.recv))
               /\ \/ position(d.send) = position(t.send)
                  \/ position(d.send) = g /\ succ(position(t.recv)).gen = t.send.k.gen + 1
               /\ position(n.send) = g /\ position(n.recv) = g
               /\ e.send.k.gen = e.recv.k.gen /\ d.send.k.gen = d.recv.k.gen
               /\ n.send.k.gen = n.recv.k.gen
<1>1. t.send \in Cipher /\ t.recv \in Cipher
  BY DEF Transport
<1>2. /\ position(t.send) \in Position /\ position(t.recv) \in Position
      /\ position(t.send) = [gen |-> t.send.k.gen, n |-> t.send.n]
      /\ position(t.recv) = [gen |-> t.recv.k.gen, n |-> t.recv.n]
  BY <1>1, PositionsAdvance
<1>3. /\ position(advanced(t.send)) = [gen |-> t.send.k.gen, n |-> t.send.n + 1]
      /\ position(advanced(t.recv)) = [gen |-> t.recv.k.gen, n |-> t.recv.n + 1]
      /\ position(next_key(t.send)) = start_of(t.send.k.gen + 1)
      /\ position(next_key(t.recv)) = start_of(t.send.k.gen + 1)
  BY DEF position, advanced, next_key, start_of
<1>4. /\ advanced(t.send).k.gen = t.send.k.gen /\ advanced(t.recv).k.gen = t.recv.k.gen
      /\ next_key(t.send).k.gen = t.send.k.gen + 1 /\ next_key(t.recv).k.gen = t.recv.k.gen + 1
  BY DEF advanced, next_key
<1>5. next_generation(t).send = next_key(t.send) /\ next_generation(t).recv = next_key(t.recv)
  BY DEF next_generation
<1>6. /\ position(after_encrypt(t).send) = succ(position(t.send))
      /\ \/ position(after_encrypt(t).recv) = position(t.recv)
         \/ position(after_encrypt(t).recv) = start_of(t.send.k.gen + 1)
      /\ after_encrypt(t).send.k.gen = after_encrypt(t).recv.k.gen
  <2>1. CASE t.send.n + 1 < REKEY_INTERVAL
    <3>1. after_encrypt(t) = [send |-> advanced(t.send), recv |-> t.recv]
      BY <2>1 DEF after_encrypt
    <3>2. succ(position(t.send)) = [gen |-> t.send.k.gen, n |-> t.send.n + 1]
      BY <1>2, <2>1 DEF succ
    <3> QED BY <1>3, <1>4, <3>1, <3>2
  <2>2. CASE ~(t.send.n + 1 < REKEY_INTERVAL)
    <3>1. after_encrypt(t) = next_generation(t)
      BY <2>2 DEF after_encrypt
    <3>2. succ(position(t.send)) = start_of(t.send.k.gen + 1)
      BY <1>2, <2>2 DEF succ, start_of
    <3> QED BY <1>3, <1>4, <1>5, <3>1, <3>2
  <2> QED BY <2>1, <2>2
<1>7. /\ position(after_decrypt(t).recv) = succ(position(t.recv))
      /\ \/ position(after_decrypt(t).send) = position(t.send)
         \/ /\ position(after_decrypt(t).send) = start_of(t.send.k.gen + 1)
            /\ succ(position(t.recv)).gen = t.send.k.gen + 1
      /\ after_decrypt(t).send.k.gen = after_decrypt(t).recv.k.gen
  <2>1. CASE t.recv.n + 1 < REKEY_INTERVAL
    <3>1. after_decrypt(t) = [send |-> t.send, recv |-> advanced(t.recv)]
      BY <2>1 DEF after_decrypt
    <3>2. succ(position(t.recv)) = [gen |-> t.recv.k.gen, n |-> t.recv.n + 1]
      BY <1>2, <2>1 DEF succ
    <3> QED BY <1>3, <1>4, <3>1, <3>2
  <2>2. CASE ~(t.recv.n + 1 < REKEY_INTERVAL)
    <3>1. after_decrypt(t) = next_generation(t)
      BY <2>2 DEF after_decrypt
    <3>2. succ(position(t.recv)) = start_of(t.send.k.gen + 1)
      BY <1>2, <2>2 DEF succ, start_of
    <3>3. start_of(t.send.k.gen + 1).gen = t.send.k.gen + 1
      BY DEF start_of
    <3> QED BY <1>3, <1>4, <1>5, <3>1, <3>2, <3>3
  <2> QED BY <2>1, <2>2
<1> QED BY <1>2, <1>3, <1>4, <1>5, <1>6, <1>7

\* A call on a stream is a call on a link.
LEMMA StreamIsLink == [StreamNext]_stream_vars => [Next]_vars
  BY DEF StreamNext, send, receive, begin_rekey, finish_rekey, stream_vars, Next

\* The types that hold of one side.
LEMMA SideTypes ==
    ASSUME StreamTypes, NEW p \in Side
    PROVE  /\ tr \in [Side -> Transport] /\ tr[p] \in Transport
           /\ chan[p] \in Seq(SealedFrame)
           /\ sender(p) \in Position /\ receiver(p) \in Position
           /\ other(p) \in Side /\ other(p) # p /\ other(other(p)) = p
           /\ \A q \in Side : q = p \/ q = other(p)
<1>1. tr \in [Side -> Transport] /\ other(p) \in Side
  BY Sides DEF StreamTypes, TypeOK, Transport
<1>2. \A q \in Side : tr[q].send \in Cipher /\ tr[q].recv \in Cipher
  BY <1>1 DEF Transport
<1>3. sender(p) \in Position /\ receiver(p) \in Position
  BY <1>1, <1>2, PositionsAdvance DEF sender, receiver
<1>4. \A q \in Side : q = p \/ q = other(p)
  BY DEF Side, other
<1> QED BY <1>1, <1>3, <1>4, Sides DEF StreamTypes

\* send: a frame at the sender's position joins the stream.
LEMMA SendStep ==
    ASSUME StreamTypes, NEW p \in Side, send(p)
    PROVE  /\ pending = {} /\ pending' = {} /\ crossed' = (crossed \/ chan[p] # <<>>)
           /\ tr' = [tr EXCEPT ![p] = after_encrypt(tr[p])]
           /\ \E f \in SealedFrame : /\ pos(f) = sender(p) /\ f[2].base = base(p)
                                     /\ chan' = [chan EXCEPT ![other(p)] = Append(@, f)]
<1> DEFINE f == seal(tr[p].send.k, tr[p].send.n, Empty, Len(log[p]) + 1)
<1>1. noise_encrypt(p, FALSE) /\ TypeOK
  BY DEF send, StreamTypes
<1>2. tr' = [tr EXCEPT ![p] = after_encrypt(tr[p])]
  BY <1>1, EncryptStep
<1>3. tr[p] \in Transport /\ tr[p].send.k \in Key /\ tr[p].send.n \in Nonce /\ tr[p].send.k.base = base(p)
  BY <1>1 DEF TypeOK, Transport, Cipher
<1>4. transport_encrypt(tr[p], Len(log[p]) + 1).out = f
  BY <1>3, EncryptResult
<1>5. chan' = [chan EXCEPT ![other(p)] = Append(@, f)]
  BY <1>1, <1>4 DEF noise_encrypt
<1>6. Len(log[p]) + 1 \in Nat
  BY <1>1 DEF TypeOK
<1>7. f \in SealedFrame
  BY <1>3, <1>6 DEF seal, SealedFrame
<1>8. f[2] = tr[p].send.k /\ f[3] = tr[p].send.n
  BY DEF seal
<1>9. pos(f) = sender(p)
  BY <1>8 DEF pos, sender, position
<1> QED BY <1>2, <1>3, <1>5, <1>7, <1>8, <1>9 DEF send

\* The head of the stream opens exactly when it is at the position the
\* receiver has come to.
LEMMA OpensAtPosition ==
    ASSUME StreamTypes, NEW p \in Side, chan[p] # <<>>
    PROVE  /\ Head(chan[p]) = chan[p][1] /\ chan[p][1] \in SealedFrame
           /\ opens_here(p, Head(chan[p])) <=> pos(chan[p][1]) = position(tr[p].recv)
<1> DEFINE f == chan[p][1]
           c == tr[p].recv
<1>1. chan[p] \in Seq(SealedFrame) /\ 1 \in DOMAIN chan[p]
  <2>1. chan[p] \in Seq(SealedFrame)
    BY SideTypes
  <2>2. DOMAIN chan[p] = 1..Len(chan[p]) /\ Len(chan[p]) > 0 /\ Len(chan[p]) \in Nat
    BY <2>1, InFlight
  <2> QED BY <2>1, <2>2
<1>2. Head(chan[p]) = f /\ f \in SealedFrame
  BY <1>1
<1>3. f[2].base = base(other(p)) /\ c.k.base = base(other(p)) /\ c \in Cipher
  BY <1>1 DEF StreamTypes, TypeOK
<1> HIDE DEF f, c
<1>4. f[1] = "aead" /\ f[2] \in Key /\ f[4] = Empty
  BY <1>2 DEF SealedFrame
<1>5. c.k \in Key
  BY <1>3 DEF Cipher
<1>6. \A k, l \in Key : k.base = l.base /\ k.gen = l.gen => k = l
  BY DEF Key
<1>7. f[2] = c.k <=> f[2].gen = c.k.gen
  BY <1>3, <1>4, <1>5, <1>6
<1>8. opens(f, c.k, c.n, Empty) <=> f[2] = c.k /\ f[3] = c.n
  BY <1>4 DEF opens, is_seal
<1>9. pos(f) = position(c) <=> f[2].gen = c.k.gen /\ f[3] = c.n
  BY DEF pos, position
<1> QED BY <1>2, <1>7, <1>8, <1>9 DEF opens_here, f, c

\* receive: the head leaves the stream, and counts when it opens.
LEMMA ReceiveStep ==
    ASSUME StreamTypes, NEW p \in Side, receive(p)
    PROVE  /\ pending' = pending /\ crossed' = crossed
           /\ chan[p] # <<>> /\ chan' = [chan EXCEPT ![p] = Tail(@)]
           /\ pos(chan[p][1]) = position(tr[p].recv) => tr' = [tr EXCEPT ![p] = after_decrypt(tr[p])]
           /\ pos(chan[p][1]) # position(tr[p].recv) => tr' = tr
<1>1. noise_decrypt(p, FALSE) /\ TypeOK /\ UNCHANGED <<pending, crossed>>
  BY DEF receive, StreamTypes
<1>2. /\ chan[p] # <<>> /\ chan' = [chan EXCEPT ![p] = Tail(@)]
      /\ \/ opens_here(p, Head(chan[p])) /\ tr' = [tr EXCEPT ![p] = after_decrypt(tr[p])]
         \/ tr' = tr /\ ~opens_here(p, Head(chan[p]))
  BY <1>1, DecryptStep
<1> QED BY <1>1, <1>2, OpensAtPosition

\* The two calls of a coordinated rekey.
LEMMA CoordinatedStep ==
    ASSUME StreamTypes, NEW p \in Side, begin_rekey(p) \/ finish_rekey(p)
    PROVE  tr' = [tr EXCEPT ![p] = next_generation(tr[p])] /\ chan' = chan /\ crossed' = crossed
<1>1. noise_rekey(p) /\ crossed' = crossed /\ TypeOK
  BY DEF begin_rekey, finish_rekey, StreamTypes
<1> QED BY <1>1, RekeyStep

(***************************************************************************)
(* The inductive invariant.                                                *)
(***************************************************************************)
\* When nothing is in flight and no rekey is half done, the two sides are at
\* the same positions: neither can be ahead, because each direction says
\* that its receiver is not behind its sender.
LEMMA QuietConverges ==
    ASSUME StreamTypes, SameGeneration, LinesUp, pending = {}, \A p \in Side : chan[p] = <<>>
    PROVE  \A p \in Side : sender(p) = receiver(p) /\ tr[p].send.k.gen = tr[other(p)].send.k.gen
<1> SUFFICES ASSUME NEW p \in Side
             PROVE  sender(p) = receiver(p) /\ tr[p].send.k.gen = tr[other(p)].send.k.gen
  OBVIOUS
<1> DEFINE q == other(p)
<1>1. q \in Side /\ other(q) = p /\ chan[q] = <<>> /\ chan[p] = <<>>
  BY SideTypes
<1>2. meets(sender(p), receiver(p)) /\ meets(sender(q), receiver(q))
  BY <1>1 DEF LinesUp, Line
<1>3. /\ sender(p).gen = tr[p].send.k.gen /\ receiver(p).gen = tr[q].recv.k.gen
      /\ sender(q).gen = tr[q].send.k.gen /\ receiver(q).gen = tr[p].recv.k.gen
  BY <1>1 DEF sender, receiver, position
<1>4. tr[p].send.k.gen = tr[p].recv.k.gen /\ tr[q].send.k.gen = tr[q].recv.k.gen
  BY <1>1 DEF SameGeneration
<1>5. sender(p).gen \in Nat /\ sender(q).gen \in Nat
  BY <1>1, SideTypes, PositionFields
<1> HIDE DEF q
<1>6. sender(p) = receiver(p)
  BY <1>2, <1>3, <1>4, <1>5 DEF meets
<1> QED BY <1>3, <1>4, <1>6 DEF q

\* Two sides at the same positions with nothing in flight line up.
LEMMA EmptyLine == \A r : Line(<<>>, r, r)
  BY DEF Line, meets

\* The types of the frames in flight survive a call.
LEMMA StreamTypesNext ==
    ASSUME StreamTypes, [StreamNext]_stream_vars
    PROVE  StreamTypes'
<1>1. TypeOK'
  BY StreamIsLink, TypeNext DEF StreamTypes
<1>2. pending' \in SUBSET Side /\ crossed' \in BOOLEAN
  BY SideTypes DEF StreamTypes, StreamNext, send, receive, begin_rekey, finish_rekey, stream_vars
<1> DEFINE Flight(c) == /\ c \in [Side -> Seq(SealedFrame)]
                        /\ \A p \in Side : \A i \in DOMAIN c[p] : c[p][i][2].base = base(other(p))
<1>3. Flight(chan)
  BY DEF StreamTypes
<1>4. ASSUME NEW p \in Side, send(p)
      PROVE  Flight(chan')
  <2>1. PICK f \in SealedFrame : /\ f[2].base = base(p)
                                 /\ chan' = [chan EXCEPT ![other(p)] = Append(@, f)]
    BY <1>4, SendStep
  <2>2. /\ other(p) \in Side /\ other(other(p)) = p /\ chan[other(p)] \in Seq(SealedFrame)
    BY SideTypes
  <2> DEFINE c == chan[other(p)]
  <2>3. Append(c, f) \in Seq(SealedFrame) /\ DOMAIN c = 1..Len(c)
        /\ DOMAIN Append(c, f) = 1..(Len(c) + 1) /\ Len(c) \in Nat
        /\ Append(c, f)[Len(c) + 1] = f /\ \A i \in 1..Len(c) : Append(c, f)[i] = c[i]
    BY <2>2
  <2>4. \A i \in DOMAIN Append(c, f) : Append(c, f)[i][2].base = base(other(other(p)))
    <3>1. \A i \in DOMAIN c : c[i][2].base = base(other(other(p)))
      BY <1>3, <2>2
    <3>2. \A i \in DOMAIN Append(c, f) : i = Len(c) + 1 \/ i \in 1..Len(c)
      BY <2>3
    <3> QED BY <2>1, <2>2, <2>3, <3>1, <3>2
  <2>5. chan'[other(p)] = Append(c, f) /\ \A q \in Side : q # other(p) => chan'[q] = chan[q]
    BY <1>3, <2>1, <2>2
  <2>6. chan' \in [Side -> Seq(SealedFrame)]
    BY <1>3, <2>1, <2>2, <2>3
  <2> QED BY <1>3, <2>4, <2>5, <2>6
<1>5. ASSUME NEW p \in Side, receive(p)
      PROVE  Flight(chan')
  <2>1. chan' = [chan EXCEPT ![p] = Tail(@)] /\ chan[p] # <<>>
    BY <1>5, ReceiveStep
  <2> DEFINE c == chan[p]
  <2>2. c \in Seq(SealedFrame)
    BY <1>3
  <2>3. Tail(c) \in Seq(SealedFrame) /\ \A i \in DOMAIN Tail(c) : i + 1 \in DOMAIN c /\ Tail(c)[i] = c[i + 1]
    BY <2>1, <2>2
  <2>4. chan'[p] = Tail(c) /\ \A q \in Side : q # p => chan'[q] = chan[q]
    BY <1>3, <2>1
  <2>5. chan' \in [Side -> Seq(SealedFrame)]
    BY <1>3, <2>1, <2>3
  <2> HIDE DEF c
  <2>6. \A i \in DOMAIN Tail(c) : Tail(c)[i][2].base = base(other(p))
    BY <1>3, <2>3 DEF c
  <2> QED BY <1>3, <2>4, <2>5, <2>6
<1>6. ASSUME NEW p \in Side, begin_rekey(p) \/ finish_rekey(p)
      PROVE  Flight(chan')
  BY <1>3, <1>6, CoordinatedStep
<1>7. CASE UNCHANGED stream_vars
  <2>1. chan' = chan
    BY <1>7 DEF stream_vars, vars
  <2>2. Flight(chan')
    BY <1>3, <2>1
  <2> QED BY <1>1, <1>2, <2>2 DEF StreamTypes
<1> QED BY <1>1, <1>2, <1>4, <1>5, <1>6, <1>7 DEF StreamNext, StreamTypes

\* Every call keeps the two ciphers of a side in one generation.
LEMMA SameGenerationNext ==
    ASSUME StreamTypes, SameGeneration, [StreamNext]_stream_vars
    PROVE  SameGeneration'
<1>1. ASSUME NEW p \in Side,
             NEW u \in {after_encrypt(tr[p]), after_decrypt(tr[p]), next_generation(tr[p])},
             tr' = [tr EXCEPT ![p] = u]
      PROVE  SameGeneration'
  <2>1. u.send.k.gen = u.recv.k.gen
    BY SideTypes, AfterPositions DEF SameGeneration
  <2>2. tr'[p] = u /\ \A q \in Side : q # p => tr'[q] = tr[q]
    BY <1>1, SideTypes
  <2> QED BY <2>1, <2>2 DEF SameGeneration
<1>2. CASE tr' = tr
  BY <1>2 DEF SameGeneration
<1>3. ASSUME NEW p \in Side, send(p) PROVE SameGeneration'
  BY <1>1, <1>3, SendStep
<1>4. ASSUME NEW p \in Side, receive(p) PROVE SameGeneration'
  BY <1>1, <1>2, <1>4, ReceiveStep
<1>5. ASSUME NEW p \in Side, begin_rekey(p) \/ finish_rekey(p) PROVE SameGeneration'
  BY <1>1, <1>5, CoordinatedStep
<1> QED BY <1>2, <1>3, <1>4, <1>5 DEF StreamNext, stream_vars, vars

\* What a call of side p leaves of the other side and of its own positions.
LEMMA PositionsNext ==
    ASSUME StreamTypes, NEW p \in Side, NEW u, tr' = [tr EXCEPT ![p] = u]
    PROVE  /\ sender(p)' = position(u.send) /\ receiver(other(p))' = position(u.recv)
           /\ sender(other(p))' = sender(other(p)) /\ receiver(p)' = receiver(p)
<1>1. other(p) \in Side /\ other(p) # p /\ other(other(p)) = p /\ tr \in [Side -> Transport]
  BY SideTypes
<1>2. tr'[p] = u /\ tr'[other(p)] = tr[other(p)]
  BY <1>1
<1> QED BY <1>1, <1>2 DEF sender, receiver

\* send.
LEMMA SendPreserves ==
    ASSUME StreamInv, NEW p \in Side, send(p)
    PROVE  LinesUp' /\ RekeyHalfDone' /\ OneWay'
<1> DEFINE q == other(p)
           g == start_of(tr[p].send.k.gen + 1)
<1>1. StreamTypes /\ SameGeneration /\ LinesUp /\ OneWay
  BY DEF StreamInv
<1>2. /\ q \in Side /\ other(q) = p /\ q # p /\ \A x \in Side : x = p \/ x = q
      /\ chan[p] \in Seq(SealedFrame) /\ chan[q] \in Seq(SealedFrame)
      /\ sender(p) \in Position /\ receiver(p) \in Position
      /\ sender(q) \in Position /\ receiver(q) \in Position
  BY <1>1, SideTypes
<1>3. /\ pending = {} /\ pending' = {} /\ crossed' = (crossed \/ chan[p] # <<>>)
      /\ tr' = [tr EXCEPT ![p] = after_encrypt(tr[p])]
  BY <1>1, SendStep
<1>4. PICK f \in SealedFrame : pos(f) = sender(p) /\ chan' = [chan EXCEPT ![q] = Append(@, f)]
  BY <1>1, SendStep
<1>5. chan'[q] = Append(chan[q], f) /\ chan'[p] = chan[p]
  BY <1>1, <1>2, <1>4 DEF StreamTypes
<1>6. /\ sender(p)' = succ(sender(p)) /\ receiver(p)' = receiver(p) /\ sender(q)' = sender(q)
      /\ receiver(q)' = receiver(q) \/ receiver(q)' = start_of(receiver(q).gen + 1)
  <2>1. /\ sender(p)' = position(after_encrypt(tr[p]).send)
        /\ receiver(q)' = position(after_encrypt(tr[p]).recv)
        /\ sender(q)' = sender(q) /\ receiver(p)' = receiver(p)
    BY <1>1, <1>3, PositionsNext
  <2>2. tr[p] \in Transport /\ tr[p].send.k.gen = tr[p].recv.k.gen
    BY <1>1, SideTypes DEF SameGeneration
  <2>3. sender(p) = position(tr[p].send) /\ receiver(q) = position(tr[p].recv)
    BY <1>2 DEF sender, receiver
  <2>4. receiver(q).gen = tr[p].send.k.gen
    BY <2>2, <2>3, AfterPositions
  <2> QED BY <2>1, <2>2, <2>3, <2>4, AfterPositions
<1>7. Line(chan[q], sender(p), receiver(p)) /\ Line(chan[p], sender(q), receiver(q))
  BY <1>1, <1>2, <1>3 DEF LinesUp
<1> HIDE DEF q
<1>8. Line(chan'[q], sender(p)', receiver(p)')
  BY <1>2, <1>4, <1>5, <1>6, <1>7, LineSend
<1>9. Line(chan'[p], sender(q)', receiver(q)')
  BY <1>2, <1>5, <1>6, <1>7, LineReceiverAhead
<1>10. LinesUp'
  BY <1>2, <1>8, <1>9 DEF LinesUp, q
<1>11. RekeyHalfDone'
  BY <1>3 DEF RekeyHalfDone
<1>12. OneWay'
  <2> SUFFICES ASSUME ~crossed'
               PROVE  chan'[p] = <<>> /\ pos(chan'[q][1]) = position(tr'[q].recv)
    BY <1>2 DEF OneWay, q
  <2>1. ~crossed /\ chan[p] = <<>>
    BY <1>3
  <2>2. position(tr'[q].recv) = position(tr[q].recv)
    BY <1>6 DEF receiver, q
  <2>3. CASE chan[q] = <<>>
    <3>1. sender(p) = receiver(p)
      BY <1>1, <1>2, <1>3, <2>1, <2>3, QuietConverges
    <3>2. chan'[q][1] = f
      BY <1>5, <2>3
    <3> QED BY <1>4, <1>5, <2>1, <2>2, <3>1, <3>2 DEF receiver, q
  <2>4. CASE chan[q] # <<>>
    <3>1. 1 \in 1..Len(chan[q])
      BY <1>2, <2>4, InFlight
    <3>2. chan'[q][1] = chan[q][1]
      BY <1>2, <1>5, <3>1
    <3>3. pos(chan[q][1]) = position(tr[q].recv)
      BY <1>1, <1>2, <2>1, <2>4 DEF OneWay
    <3> QED BY <1>5, <2>1, <2>2, <3>2, <3>3
  <2> QED BY <2>3, <2>4
<1> QED BY <1>10, <1>11, <1>12

\* receive.
LEMMA ReceivePreserves ==
    ASSUME StreamInv, NEW p \in Side, receive(p)
    PROVE  LinesUp' /\ RekeyHalfDone' /\ OneWay'
<1> DEFINE q == other(p)
<1>1. StreamTypes /\ SameGeneration /\ LinesUp /\ OneWay /\ RekeyHalfDone
  BY DEF StreamInv
<1>2. /\ q \in Side /\ other(q) = p /\ q # p /\ \A x \in Side : x = p \/ x = q
      /\ chan[p] \in Seq(SealedFrame) /\ chan[q] \in Seq(SealedFrame)
      /\ sender(p) \in Position /\ receiver(p) \in Position
      /\ sender(q) \in Position /\ receiver(q) \in Position
  BY <1>1, SideTypes
<1>3. /\ pending' = pending /\ crossed' = crossed
      /\ chan[p] # <<>> /\ chan' = [chan EXCEPT ![p] = Tail(@)]
      /\ pos(chan[p][1]) = position(tr[p].recv) => tr' = [tr EXCEPT ![p] = after_decrypt(tr[p])]
      /\ pos(chan[p][1]) # position(tr[p].recv) => tr' = tr
  BY <1>1, ReceiveStep
<1>4. pending = {} /\ pending' = {}
  BY <1>1, <1>3 DEF RekeyHalfDone
<1>5. chan'[p] = Tail(chan[p]) /\ chan'[q] = chan[q]
  BY <1>1, <1>2, <1>3 DEF StreamTypes
<1>6. Line(chan[q], sender(p), receiver(p)) /\ Line(chan[p], sender(q), receiver(q))
  BY <1>1, <1>2, <1>4 DEF LinesUp
<1>7. receiver(q) = position(tr[p].recv) /\ receiver(p) = position(tr[q].recv)
      /\ receiver(q)' = position(tr'[p].recv)
  BY <1>2 DEF receiver
<1>8. ~crossed => chan[q] = <<>> /\ pos(chan[p][1]) = receiver(q)
  BY <1>1, <1>3, <1>7 DEF OneWay
<1> HIDE DEF q
<1>9. CASE pos(chan[p][1]) # receiver(q)
  <2>1. tr' = tr
    BY <1>3, <1>7, <1>9
  <2>2. /\ sender(p)' = sender(p) /\ receiver(p)' = receiver(p)
        /\ sender(q)' = sender(q) /\ receiver(q)' = receiver(q)
    BY <2>1 DEF sender, receiver
  <2>3. Line(chan'[p], sender(q)', receiver(q)')
    BY <1>2, <1>3, <1>5, <1>6, <1>9, <2>2, LineStale
  <2>4. Line(chan'[q], sender(p)', receiver(p)')
    BY <1>5, <1>6, <2>2
  <2>5. crossed'
    BY <1>3, <1>8, <1>9
  <2>6. LinesUp'
    BY <1>2, <2>3, <2>4 DEF LinesUp, q
  <2> QED BY <1>4, <2>5, <2>6 DEF RekeyHalfDone, OneWay
<1>10. CASE pos(chan[p][1]) = receiver(q)
  <2>1. tr' = [tr EXCEPT ![p] = after_decrypt(tr[p])]
    BY <1>3, <1>7, <1>10
  <2>2. tr[p] \in Transport /\ tr[p].send.k.gen = tr[p].recv.k.gen /\ tr[q].send.k.gen = tr[q].recv.k.gen
    BY <1>1, <1>2, SideTypes DEF SameGeneration
  <2>3. /\ sender(p)' = position(after_decrypt(tr[p]).send)
        /\ receiver(q)' = position(after_decrypt(tr[p]).recv)
        /\ sender(q)' = sender(q) /\ receiver(p)' = receiver(p)
    BY <1>1, <2>1, PositionsNext DEF q
  <2>4. /\ receiver(q)' = succ(receiver(q))
        /\ \/ sender(p)' = sender(p)
           \/ sender(p)' = start_of(sender(p).gen + 1) /\ succ(receiver(q)).gen = sender(p).gen + 1
    <3>1. sender(p) = position(tr[p].send) /\ sender(p).gen = tr[p].send.k.gen
      BY <2>2, AfterPositions DEF sender
    <3> QED BY <1>7, <2>2, <2>3, <3>1, AfterPositions
  <2>5. /\ Line(Tail(chan[p]), sender(q), succ(receiver(q))) /\ succ(receiver(q)).gen <= sender(q).gen
        /\ Tail(chan[p]) # <<>> => pos(Tail(chan[p])[1]) = succ(receiver(q))
    BY <1>2, <1>3, <1>6, <1>10, LineOpen
  <2>6. sender(q).gen = receiver(p).gen
    BY <1>7, <2>2 DEF sender, position
  <2>7. Line(chan'[p], sender(q)', receiver(q)')
    BY <1>5, <2>3, <2>4, <2>5
  <2>8. Line(chan'[q], sender(p)', receiver(p)')
    <3>1. CASE sender(p)' = sender(p)
      BY <1>5, <1>6, <2>3, <3>1
    <3>2. CASE sender(p)' = start_of(sender(p).gen + 1) /\ succ(receiver(q)).gen = sender(p).gen + 1
      <4>1. sender(p).gen + 1 <= receiver(p).gen
        BY <2>5, <2>6, <3>2
      <4> QED BY <1>2, <1>5, <1>6, <2>3, <3>2, <4>1, LineSenderAhead
    <3> QED BY <2>4, <3>1, <3>2
  <2>9. LinesUp'
    BY <1>2, <2>7, <2>8 DEF LinesUp, q
  <2>10. OneWay'
    <3> SUFFICES ASSUME ~crossed'
                 PROVE  /\ chan'[q] = <<>>
                        /\ chan'[p] # <<>> => pos(chan'[p][1]) = position(tr'[p].recv)
      BY <1>2 DEF OneWay, q
    <3> QED BY <1>3, <1>5, <1>7, <1>8, <2>4, <2>5
  <2> QED BY <1>4, <2>9, <2>10 DEF RekeyHalfDone
<1> QED BY <1>9, <1>10

\* begin_rekey: the two sides have converged; p goes one generation ahead.
LEMMA BeginPreserves ==
    ASSUME StreamInv, NEW p \in Side, begin_rekey(p)
    PROVE  LinesUp' /\ RekeyHalfDone' /\ OneWay'
<1> DEFINE q == other(p)
<1>1. StreamTypes /\ SameGeneration /\ LinesUp
  BY DEF StreamInv
<1>2. /\ pending = {} /\ pending' = {q} /\ \A x \in Side : chan[x] = <<>>
      /\ tr' = [tr EXCEPT ![p] = next_generation(tr[p])] /\ chan' = chan
  BY <1>1, CoordinatedStep DEF begin_rekey
<1>3. q \in Side /\ q # p /\ tr \in [Side -> Transport] /\ tr[p] \in Transport
  BY <1>1, SideTypes
<1>4. tr[p].send.k.gen = tr[q].send.k.gen
  BY <1>1, <1>2, QuietConverges
<1>5. tr'[p] = next_generation(tr[p]) /\ tr'[q] = tr[q]
  BY <1>2, <1>3
<1>6. tr'[p].send.k.gen = tr[p].send.k.gen + 1 /\ tr'[p].send.n = 0 /\ tr'[p].recv.n = 0
  BY <1>5 DEF next_generation, next_key
<1>7. RekeyHalfDone'
  <2>1. tr'[p].send.k.gen = tr'[q].send.k.gen + 1
    BY <1>4, <1>5, <1>6
  <2> QED BY <1>2, <1>6, <2>1 DEF RekeyHalfDone
<1> QED BY <1>2, <1>7 DEF LinesUp, OneWay

\* finish_rekey: the other side follows, and both start the generation.
LEMMA FinishPreserves ==
    ASSUME StreamInv, NEW p \in Side, finish_rekey(p)
    PROVE  LinesUp' /\ RekeyHalfDone' /\ OneWay'
<1> DEFINE q == other(p)
<1>1. StreamTypes /\ SameGeneration /\ RekeyHalfDone
  BY DEF StreamInv
<1>2. /\ p \in pending /\ pending' = {}
      /\ tr' = [tr EXCEPT ![p] = next_generation(tr[p])] /\ chan' = chan
  BY <1>1, CoordinatedStep DEF finish_rekey
<1>3. /\ q \in Side /\ other(q) = p /\ q # p /\ \A x \in Side : x = p \/ x = q
      /\ tr \in [Side -> Transport] /\ tr[p] \in Transport /\ tr[q] \in Transport
  BY <1>1, SideTypes
<1>4. /\ \A x \in Side : chan[x] = <<>>
      /\ tr[q].send.k.gen = tr[p].send.k.gen + 1 /\ tr[q].send.n = 0 /\ tr[q].recv.n = 0
  <2>1. PICK x \in Side : /\ pending = {other(x)}
                          /\ tr[x].send.k.gen = tr[other(x)].send.k.gen + 1
                          /\ tr[x].send.n = 0 /\ tr[x].recv.n = 0
    BY <1>1, <1>2 DEF RekeyHalfDone
  <2>2. x = q
    BY <1>2, <1>3, <2>1
  <2> QED BY <1>1, <1>2, <1>3, <2>1, <2>2 DEF RekeyHalfDone
<1>5. tr[p].send.k.gen = tr[p].recv.k.gen /\ tr[q].send.k.gen = tr[q].recv.k.gen
  BY <1>1, <1>3 DEF SameGeneration
<1> DEFINE g == start_of(tr[p].send.k.gen + 1)
<1>6. sender(q) = g /\ receiver(p) = g
  BY <1>4, <1>5 DEF sender, receiver, position, start_of
<1>7. sender(p)' = g /\ receiver(q)' = g /\ sender(q)' = g /\ receiver(p)' = g
  <2> DEFINE n == next_generation(tr[p])
  <2>1. position(n.send) = g /\ position(n.recv) = g
    BY <1>3, <1>5, AfterPositions
  <2> HIDE DEF g, n
  <2>2. /\ sender(p)' = position(n.send) /\ receiver(q)' = position(n.recv)
        /\ sender(q)' = sender(q) /\ receiver(p)' = receiver(p)
    BY <1>1, <1>2, PositionsNext DEF n
  <2> QED BY <1>6, <2>1, <2>2
<1> HIDE DEF g
<1>8. chan'[p] = <<>> /\ chan'[q] = <<>>
  BY <1>2, <1>3, <1>4
<1>9. LinesUp'
  <2>1. Line(chan'[q], sender(p)', receiver(p)') /\ Line(chan'[p], sender(q)', receiver(q)')
    BY <1>7, <1>8, EmptyLine
  <2> QED BY <1>3, <2>1 DEF LinesUp
<1> QED BY <1>2, <1>3, <1>8, <1>9 DEF RekeyHalfDone, OneWay

\* The invariant holds of the two TransportStates a Split builds.
LEMMA StreamInvInit == StreamInit => StreamInv
<1> SUFFICES ASSUME StreamInit PROVE StreamInv
  OBVIOUS
<1>1. Init /\ pending = {} /\ crossed = FALSE
  BY DEF StreamInit
<1>2. TypeOK
  BY <1>1, TypeInit
<1>3. \A p \in Side : chan[p] = <<>>
  BY <1>1 DEF Init
<1>4. StreamTypes
  <2>1. chan \in [Side -> Seq(SealedFrame)]
    BY <1>1 DEF Init
  <2>2. \A p \in Side : DOMAIN chan[p] = {}
    BY <1>3
  <2>3. pending \in SUBSET Side /\ crossed \in BOOLEAN
    BY <1>1
  <2> QED BY <1>2, <2>1, <2>2, <2>3 DEF StreamTypes
<1>5. \A p \in Side : /\ tr[p].send = initialize_key(CipherKey(base(p)))
                       /\ tr[p].recv = initialize_key(CipherKey(base(other(p))))
  BY <1>1 DEF Init
<1>6. \A k : position(initialize_key(CipherKey(k))) = start_of(0)
             /\ initialize_key(CipherKey(k)).k.gen = 0
  BY DEF position, initialize_key, CipherKey, start_of
<1>7. SameGeneration
  BY <1>5, <1>6 DEF SameGeneration
<1>8. LinesUp
  <2>1. \A p \in Side : sender(p) = start_of(0) /\ receiver(p) = start_of(0)
    BY <1>5, <1>6, Sides DEF sender, receiver
  <2> QED BY <1>3, <2>1, Sides, EmptyLine DEF LinesUp
<1> QED BY <1>1, <1>3, <1>4, <1>7, <1>8 DEF StreamInv, RekeyHalfDone, OneWay

\* Every step preserves it.
LEMMA StreamInvNext ==
    ASSUME StreamInv, [StreamNext]_stream_vars
    PROVE  StreamInv'
<1>1. StreamTypes' /\ SameGeneration'
  BY StreamTypesNext, SameGenerationNext DEF StreamInv
<1>2. CASE UNCHANGED stream_vars
  <2>1. LinesUp' /\ RekeyHalfDone' /\ OneWay'
    BY <1>2 DEF StreamInv, stream_vars, vars, LinesUp, RekeyHalfDone, OneWay, sender, receiver
  <2> QED BY <1>1, <2>1 DEF StreamInv
<1>3. CASE StreamNext
  BY <1>1, <1>3, SendPreserves, ReceivePreserves, BeginPreserves, FinishPreserves DEF StreamNext, StreamInv
<1> QED BY <1>2, <1>3

\* The inductive invariant of the stream.
THEOREM StreamInvariant == StreamSpec => []StreamInv
  BY StreamInvInit, StreamInvNext, PTL DEF StreamSpec

(***************************************************************************)
(* The properties of the run.                                              *)
(***************************************************************************)
\* A stream is a link: the types, the uniqueness of nonces and the delivery
\* in order hold on it as well.
THEOREM StreamImplementsLink == StreamSpec => Spec
<1>1. StreamInit => Init
  BY DEF StreamInit
<1> QED BY <1>1, StreamIsLink, PTL DEF StreamSpec, Spec

\* Once the stream is quiet the two sides are on the same keys and counters,
\* however encrypt, decrypt and rekey calls interleaved.
THEOREM StreamConverges == StreamSpec => []Converged
<1>1. StreamInv => Converged
  <2> SUFFICES ASSUME StreamInv, quiet, NEW p \in Side
               PROVE  position(tr[p].send) = position(tr[other(p)].recv)
    BY DEF Converged
  <2>1. sender(p) = receiver(p)
    BY QuietConverges DEF StreamInv, quiet
  <2> QED BY <2>1 DEF sender, receiver
<1> QED BY <1>1, StreamInvariant, PTL

\* noise_decrypt refuses only frames sealed before a rekey that the receiver
\* has already made.
THEOREM OnlyStaleRefused == StreamSpec => []HeadOpensOrIsStale
<1>1. StreamInv => HeadOpensOrIsStale
  <2> SUFFICES ASSUME StreamInv, NEW p \in Side, chan[p] # <<>>
               PROVE  \/ opens_here(p, Head(chan[p]))
                      \/ frame_generation(Head(chan[p])) < tr[p].recv.k.gen
    BY DEF HeadOpensOrIsStale
  <2>1. StreamTypes /\ pending = {}
    BY DEF StreamInv, RekeyHalfDone
  <2>2. other(p) \in Side /\ other(other(p)) = p
    BY <2>1, SideTypes
  <2>3. Line(chan[p], sender(other(p)), receiver(other(p)))
    BY <2>1, <2>2 DEF StreamInv, LinesUp
  <2>4. meets(pos(chan[p][1]), position(tr[p].recv))
    BY <2>2, <2>3 DEF Line, receiver
  <2>5. pos(chan[p][1]).gen = frame_generation(chan[p][1]) /\ position(tr[p].recv).gen = tr[p].recv.k.gen
    BY DEF pos, position, frame_generation
  <2> QED BY <2>1, <2>4, <2>5, OpensAtPosition DEF meets
<1> QED BY <1>1, StreamInvariant, PTL

\* In exchanges of requests and responses noise_decrypt refuses nothing,
\* through automatic and coordinated rekeys.
THEOREM UncrossedOpen == StreamSpec => []UncrossedFramesOpen
<1>1. StreamInv => UncrossedFramesOpen
  <2> SUFFICES ASSUME StreamInv, ~crossed, NEW p \in Side, chan[p] # <<>>
               PROVE  opens_here(p, Head(chan[p]))
    BY DEF UncrossedFramesOpen, HeadOpens
  <2>1. pos(chan[p][1]) = position(tr[p].recv)
    BY DEF StreamInv, OneWay
  <2> QED BY <2>1, OpensAtPosition DEF StreamInv
<1> QED BY <1>1, StreamInvariant, PTL
==============================================================================
