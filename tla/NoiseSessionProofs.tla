-------------------------- MODULE NoiseSessionProofs --------------------------
(***************************************************************************)
(* Theorems about NoiseSession: for any number of endpoints, sessions,     *)
(* ephemerals and link faults, any peers and any arguments of              *)
(* handshake_open.                                                         *)
(***************************************************************************)
EXTENDS NoiseSession, HandshakeProofs

drawn == {generate_keypair(i) : i \in 1..ephemerals}
sent  == {v.eph : v \in {w \in events : w.kind = "write"}}

Typed(h) ==
    /\ IsHandshake(h)
    /\ h.pattern \in {"XX", "IK"} /\ h.initiator \in BOOLEAN
    /\ h.step \in 0..pattern_total_steps[h.pattern]

\* After Split, and after handshake_close.
Spent(h) ==
    /\ Typed(h) /\ h.step = pattern_total_steps[h.pattern]
    /\ h.s_sk = Zero /\ h.e_sk = Zero /\ h.e_pk = Zero /\ h.re = Zero /\ h.symmetric.ck = Zero
    /\ h.symmetric.cipher.n \in 0..1

Closed(h) ==
    /\ Typed(h)
    /\ h.s_sk = Zero /\ h.e_sk = Zero /\ h.e_pk = Zero /\ h.symmetric = symmetric_destroyed

Flags ==
    /\ state \in [Endpoint -> {"none", "open"}]
    /\ split_done \in [Endpoint -> BOOLEAN] /\ keys_exported \in [Endpoint -> BOOLEAN]
    /\ poisoned \in [Endpoint -> BOOLEAN]
    /\ ephemerals \in 0..MaxEphemerals /\ faults \in 0..MaxFaults
    /\ sessions \in [Endpoint -> 0..MaxOpens]

Objects ==
    /\ DOMAIN hs = Endpoint
    /\ \A e \in Endpoint :
          /\ state[e] = "none" => Closed(hs[e])
          /\ state[e] = "open" /\ split_done[e] => Spent(hs[e])
          /\ state[e] = "open" /\ ~split_done[e] => Session(hs[e], drawn, sent) /\ Rests(hs[e])

Queue(q, P) == IsSeq(q) /\ \A i \in DOMAIN q : Message(q[i], P)

Wire == DOMAIN chan = Endpoint /\ \A e \in Endpoint : Queue(chan[e], sent)

\* What is recorded of a session, with the ephemerals D drawn.
EventOK(v, D, opened) ==
    /\ v.endpoint \in Endpoint /\ v.session \in 0..opened[v.endpoint]
    /\ v.eph \in D \cup {Zero} /\ v.re \in D \cup {Zero, Garbage}
    /\ v.kind = "write" => v.eph # Zero
    /\ v.pattern \in {"XX", "IK"} /\ v.initiator \in BOOLEAN /\ v.step \in Nat
    /\ v.step = pattern_total_steps[v.pattern] =>
         /\ Agreed(v.pattern, v.initiator, v.ck, v.self, v.peer, v.eph, v.re)
         /\ Binds(v.h, v.ck)
         /\ Static(v.self) /\ Static(v.peer) /\ v.eph # Zero /\ v.re # Zero

Recorded == \A v \in events : EventOK(v, drawn, sessions)

\* An ephemeral belongs to one session, and is drawn after everything that
\* the endpoint read in earlier sessions.
same_session(v, w) == v.endpoint = w.endpoint /\ v.session = w.session

EphemeralsUnique ==
    /\ \A v, w \in events : v.eph = w.eph /\ v.eph # Zero => same_session(v, w)
    /\ \A v \in events, e \in Endpoint : hs[e].e_pk = v.eph /\ v.eph # Zero =>
          v.endpoint = e /\ v.session = sessions[e]
    /\ \A e, f \in Endpoint : hs[e].e_pk = hs[f].e_pk /\ hs[e].e_pk # Zero => e = f

EphemeralsFresh ==
    /\ \A v, w \in events : v.endpoint = w.endpoint /\ v.session < w.session /\ w.eph # Zero =>
          w.eph # v.re
    /\ \A v \in events, e \in Endpoint :
          v.endpoint = e /\ v.session < sessions[e] /\ hs[e].e_pk # Zero => hs[e].e_pk # v.re

\* A session has one pattern and takes each step once.
StepsOnce ==
    /\ \A v, w \in events : same_session(v, w) =>
          v.pattern = w.pattern /\ (v.step = w.step => v = w)
    /\ \A v \in events :
          LET e == v.endpoint
          IN  state[e] = "open" /\ v.session = sessions[e] =>
                 v.pattern = hs[e].pattern /\ v.step <= hs[e].step

\* What a complete session will export is on record.
matches(c, e, session, h) ==
    /\ c.endpoint = e /\ c.session = session /\ c.initiator = h.initiator
    /\ c.h = h.symmetric.h /\ c.ck = h.symmetric.ck /\ c.peer = h.rs /\ c.self = h.s_pk

CompleteOnRecord ==
    \A e \in Endpoint : state[e] = "open" /\ ~split_done[e] /\ is_complete(hs[e]) =>
        \E c \in completions : matches(c, e, sessions[e], hs[e])

\* Exports: the keys of a completion, once in a session.
exported_by(x, c) ==
    LET k == hkdf2(c.ck, Empty)
        first == CipherKey(k.output1)
        second == CipherKey(k.output2)
    IN  /\ c.endpoint = x.endpoint /\ c.session = x.session /\ c.initiator = x.initiator
        /\ c.h = x.handshake_hash /\ c.peer = x.peer_static_pk /\ c.self = x.self
        /\ x.send_cipher_key = IF c.initiator THEN first ELSE second
        /\ x.recv_cipher_key = IF c.initiator THEN second ELSE first

ExportsOnRecord ==
    /\ \A x \in exports : \E c \in completions : exported_by(x, c)
    /\ \A x \in exports : LET e == x.endpoint
                          IN  /\ e \in Endpoint /\ x.session \in 0..sessions[e]
                              /\ state[e] = "open" /\ x.session = sessions[e] => split_done[e]
    /\ \A x, y \in exports : same_session(x, y) => x = y

SessionInv ==
    /\ Flags /\ Objects /\ Wire /\ Recorded /\ EphemeralsUnique /\ EphemeralsFresh
    /\ StepsOnce /\ CompleteOnRecord /\ ExportsOnRecord
-----------------------------------------------------------------------------
(***************************************************************************)
(* The ephemerals.                                                         *)
(***************************************************************************)
LEMMA Drawn ==
    ASSUME ephemerals \in Nat
    PROVE  LET e == generate_keypair(ephemerals + 1)
           IN  /\ e \notin drawn /\ e # Zero /\ e[1] = "ephemeral"
               /\ \A t \in drawn : t[1] = "ephemeral"
               /\ ephemerals' = ephemerals + 1 => drawn' = drawn \cup {e}
               /\ ephemerals' = ephemerals => drawn' = drawn
<1>1. \A i, j : generate_keypair(i) = generate_keypair(j) => i = j
  BY DEF generate_keypair
<1>2. \A i : generate_keypair(i)[1] = "ephemeral" /\ generate_keypair(i) # Zero
  BY DEF generate_keypair, Zero
<1>3. generate_keypair(ephemerals + 1) \notin drawn
  BY <1>1 DEF drawn
<1>4. \A t \in drawn : t[1] = "ephemeral"
  BY <1>2 DEF drawn
<1>5. ASSUME ephemerals' = ephemerals + 1
      PROVE  drawn' = drawn \cup {generate_keypair(ephemerals + 1)}
  <2>1. 1..ephemerals' = (1..ephemerals) \cup {ephemerals + 1}
    BY <1>5
  <2> QED BY <2>1 DEF drawn
<1>6. ASSUME ephemerals' = ephemerals
      PROVE  drawn' = drawn
  BY <1>6 DEF drawn
<1> QED BY <1>2, <1>3, <1>4, <1>5, <1>6

\* What was sent was drawn before.
LEMMA SentDrawn ==
    ASSUME Flags, Recorded
    PROVE  Points(drawn, sent)
<1>1. \A t \in drawn : t[1] = "ephemeral"
  BY Drawn DEF Flags
<1>2. \A v \in events : v.kind = "write" => v.eph \in drawn
  BY DEF Recorded, EventOK
<1> QED BY <1>1, <1>2 DEF Points, sent

\* Events are never taken back, so what was sent stays sent.
LEMMA SentGrows == \A N : events' = events \cup N => sent \subseteq sent'
  BY DEF sent

\* A record stays good while more ephemerals are drawn and more sessions
\* opened.
LEMMA EventGrows ==
    ASSUME NEW v, NEW D, NEW s, EventOK(v, D, s), NEW E, NEW t, D \subseteq E,
           s[v.endpoint] \in Nat, t[v.endpoint] \in Nat, s[v.endpoint] <= t[v.endpoint]
    PROVE  EventOK(v, E, t)
  BY DEF EventOK

\* Every write of a session that has not completed and is to write.
LEMMA WriteSession ==
    ASSUME NEW h, NEW D, NEW P, Points(D, P), NEW e, e[1] = "ephemeral", e \notin P,
           Session(h, D, P), writer_turn(h), ~is_complete(h)
    PROVE  LET w == write_message(h, e)
           IN  (w.ok /\ Wrote(w, h, e, D, P)) \/ (~w.ok /\ WriteFailed(w, h, e, D, P))
<1>1. /\ h.pattern \in {"XX", "IK"} /\ h.step \in 0..pattern_total_steps[h.pattern]
      /\ h.initiator \in BOOLEAN
  BY DEF Session, Object
<1>2. \/ h.pattern = "XX" /\ ((h.step = 0 /\ h.initiator) \/ (h.step = 1 /\ ~h.initiator)
                                \/ (h.step = 2 /\ h.initiator))
      \/ h.pattern = "IK" /\ ((h.step = 0 /\ h.initiator) \/ (h.step = 1 /\ ~h.initiator))
  <2>1. CASE h.pattern = "XX"
    <3>1. h.step = 0 \/ h.step = 1 \/ h.step = 2
      BY <1>1, <2>1, Steps DEF is_complete
    <3> QED BY <1>1, <2>1, <3>1 DEF writer_turn
  <2>2. CASE h.pattern = "IK"
    <3>1. h.step = 0 \/ h.step = 1
      BY <1>1, <2>2, Steps DEF is_complete
    <3> QED BY <1>1, <2>2, <3>1 DEF writer_turn
  <2> QED BY <1>1, <2>1, <2>2
<1> QED BY <1>2, WriteXX1, WriteXX2, WriteXX3, WriteIK1, WriteIK2

\* A session that need not write after a read waits for its peer.
LEMMA WaitsForPeer ==
    ASSUME NEW h, NEW D, NEW P, Session(h, D, P), is_complete(h) \/ ~writer_turn(h)
    PROVE  Rests(h)
<1>1. h.initiator \in BOOLEAN
  BY DEF Session, Object
<1> QED BY <1>1, Steps DEF Rests, is_complete, writer_turn
-----------------------------------------------------------------------------
(***************************************************************************)
(* One handshake_step that moves a session, whatever it read and wrote:    *)
(* e's object becomes g, and N is added to the record.                     *)
(***************************************************************************)
Progress(e, g, N) ==
    /\ e \in Endpoint /\ state[e] = "open" /\ ~split_done[e] /\ ~is_complete(hs[e])
    /\ hs' = [hs EXCEPT ![e] = g] /\ events' = events \cup N
    /\ UNCHANGED <<state, split_done, sessions, exports>>
    /\ drawn \subseteq drawn' /\ sent' \subseteq sent \cup ({g.e_pk} \ {Zero})
    /\ Session(g, drawn', sent') /\ Rests(g)
    /\ g.pattern = hs[e].pattern /\ hs[e].step <= g.step
    /\ g.e_pk = hs[e].e_pk \/ g.e_pk \notin drawn \cup {Zero}
    /\ \A v \in N : /\ EventOK(v, drawn', sessions) /\ v.endpoint = e /\ v.session = sessions[e]
                    /\ v.pattern = g.pattern /\ v.step \in (hs[e].step + 1)..g.step
                    /\ v.eph \in {hs[e].e_pk, g.e_pk}
    /\ \A v, w \in N : v.step = w.step => v = w
    /\ is_complete(g) => \E c \in N : c.step = g.step /\ matches(c, e, sessions[e], g)

\* The ephemerals in the objects.
LEMMA OwnDrawn ==
    ASSUME Flags, Objects
    PROVE  \A e \in Endpoint : /\ hs[e].e_pk \in drawn \cup {Zero} /\ Typed(hs[e])
                               /\ (state[e] = "open" /\ ~split_done[e]) \/ hs[e].e_pk = Zero
<1> SUFFICES ASSUME NEW e \in Endpoint
             PROVE  /\ hs[e].e_pk \in drawn \cup {Zero} /\ Typed(hs[e])
                    /\ (state[e] = "open" /\ ~split_done[e]) \/ hs[e].e_pk = Zero
  OBVIOUS
<1>1. CASE state[e] = "none"
  BY <1>1 DEF Objects, Closed
<1>2. CASE state[e] = "open" /\ split_done[e]
  BY <1>2 DEF Objects, Spent
<1>3. CASE state[e] = "open" /\ ~split_done[e]
  BY <1>3 DEF Objects, Session, Object, Typed
<1> QED BY <1>1, <1>2, <1>3 DEF Flags

\* Progress of one session preserves each part of the invariant: the objects
\* ...
LEMMA ProgressObjects ==
    ASSUME SessionInv, NEW e, NEW g, NEW N, Progress(e, g, N)
    PROVE  Objects'
<1> SUFFICES ASSUME NEW f \in Endpoint
             PROVE  /\ state[f] = "none" => Closed(hs'[f])
                    /\ state[f] = "open" /\ split_done[f] => Spent(hs'[f])
                    /\ state[f] = "open" /\ ~split_done[f] =>
                          Session(hs'[f], drawn', sent') /\ Rests(hs'[f])
  BY DEF Objects, SessionInv, Progress
<1>1. CASE f = e
  BY <1>1 DEF Progress, SessionInv, Objects
<1>2. CASE f # e
  <2>1. hs'[f] = hs[f]
    BY <1>2 DEF Progress, SessionInv, Objects
  <2>2. hs[f].e_pk \in drawn \cup {Zero} /\ Points(drawn, sent)
    BY OwnDrawn, SentDrawn DEF SessionInv
  <2>3. hs[f].e_pk \in sent' => hs[f].e_pk \in sent
    <3>1. g.e_pk = hs[f].e_pk => g.e_pk = Zero
      BY <1>2, <2>2 DEF Progress, SessionInv, EphemeralsUnique
    <3> QED BY <3>1 DEF Progress
  <2>4. sent \subseteq sent'
    BY SentGrows DEF Progress
  <2>5. Session(hs[f], drawn, sent) => Session(hs[f], drawn', sent')
    BY <2>3, <2>4, SessionGrows DEF Progress
  <2> QED BY <2>1, <2>5 DEF SessionInv, Objects
<1> QED BY <1>1, <1>2

\* ... the record ...
LEMMA ProgressRecorded ==
    ASSUME SessionInv, NEW e, NEW g, NEW N, Progress(e, g, N)
    PROVE  Recorded'
<1> SUFFICES ASSUME NEW v \in events \cup N
             PROVE  EventOK(v, drawn', sessions)
  BY DEF Recorded, Progress
<1>1. ASSUME v \in events
      PROVE  EventOK(v, drawn', sessions)
  <2>1. EventOK(v, drawn, sessions) /\ sessions[v.endpoint] \in Nat
    BY <1>1 DEF SessionInv, Recorded, Flags, EventOK, SessionAssumption
  <2> QED BY <2>1, EventGrows DEF Progress
<1> QED BY <1>1 DEF Progress

\* ... that an ephemeral belongs to one session ...
LEMMA ProgressUnique ==
    ASSUME SessionInv, NEW e, NEW g, NEW N, Progress(e, g, N)
    PROVE  EphemeralsUnique'
<1> DEFINE In(t) == t = g.e_pk \/ t = hs[e].e_pk
<1>1. \A v \in events : v.eph \in drawn \cup {Zero}
  BY DEF SessionInv, Recorded, EventOK
<1>2. \A f \in Endpoint : hs[f].e_pk \in drawn \cup {Zero}
  BY OwnDrawn DEF SessionInv
<1>3. e \in Endpoint /\ (g.e_pk = hs[e].e_pk \/ g.e_pk \notin drawn \cup {Zero})
  BY DEF Progress
<1>4. \A v \in N : v.endpoint = e /\ v.session = sessions[e] /\ In(v.eph)
  BY DEF Progress
<1>5. \A f \in Endpoint : hs'[f] = IF f = e THEN g ELSE hs[f]
  BY DEF Progress, SessionInv, Objects
<1>6. \A v \in events : In(v.eph) /\ v.eph # Zero => v.endpoint = e /\ v.session = sessions[e]
  BY <1>1, <1>3 DEF SessionInv, EphemeralsUnique
<1>7. \A f \in Endpoint : In(hs[f].e_pk) /\ hs[f].e_pk # Zero => f = e
  BY <1>2, <1>3 DEF SessionInv, EphemeralsUnique
<1>8. In(hs'[e].e_pk)
  BY <1>3, <1>5
<1> HIDE DEF In
<1>9. events' = events \cup N /\ sessions' = sessions
  BY DEF Progress
<1>10. \A v, w \in events' : v.eph = w.eph /\ v.eph # Zero => same_session(v, w)
  BY <1>4, <1>6, <1>9 DEF SessionInv, EphemeralsUnique, same_session
<1>11. \A v \in events', f \in Endpoint : hs'[f].e_pk = v.eph /\ v.eph # Zero =>
          v.endpoint = f /\ v.session = sessions'[f]
  <2> SUFFICES ASSUME NEW v \in events', NEW f \in Endpoint, hs'[f].e_pk = v.eph, v.eph # Zero
               PROVE  v.endpoint = f /\ v.session = sessions[f]
    BY <1>9
  <2>1. CASE f = e
    BY <1>4, <1>6, <1>8, <1>9, <2>1
  <2>2. CASE f # e
    <3>1. hs'[f] = hs[f]
      BY <1>5, <2>2
    <3>2. v \in events
      BY <1>4, <1>7, <1>9, <2>2, <3>1
    <3> QED BY <3>1, <3>2 DEF SessionInv, EphemeralsUnique
  <2> QED BY <2>1, <2>2
<1>12. \A f, k \in Endpoint : hs'[f].e_pk = hs'[k].e_pk /\ hs'[f].e_pk # Zero => f = k
  <2> SUFFICES ASSUME NEW f \in Endpoint, NEW k \in Endpoint, hs'[f].e_pk = hs'[k].e_pk,
                      hs'[f].e_pk # Zero, f # k
               PROVE  FALSE
    OBVIOUS
  <2>1. CASE f = e
    BY <1>5, <1>7, <1>8, <2>1
  <2>2. CASE k = e
    BY <1>5, <1>7, <1>8, <2>2
  <2>3. CASE f # e /\ k # e
    BY <1>5, <2>3 DEF SessionInv, EphemeralsUnique
  <2> QED BY <2>1, <2>2, <2>3
<1> QED BY <1>10, <1>11, <1>12 DEF EphemeralsUnique, same_session

\* ... that an ephemeral is newer than what earlier sessions read ...
LEMMA ProgressFresh ==
    ASSUME SessionInv, NEW e, NEW g, NEW N, Progress(e, g, N)
    PROVE  EphemeralsFresh'
<1>1. \A v \in events : /\ v.re \in drawn \cup {Zero, Garbage} /\ v.endpoint \in Endpoint
                        /\ v.session \in 0..sessions[v.endpoint]
  BY DEF SessionInv, Recorded, EventOK
<1>2. e \in Endpoint /\ (g.e_pk = hs[e].e_pk \/ g.e_pk \notin drawn \cup {Zero})
  BY DEF Progress
<1>3. \A v \in N : v.endpoint = e /\ v.session = sessions[e] /\ v.eph \in {g.e_pk, hs[e].e_pk}
  BY DEF Progress
<1>4. \A f \in Endpoint : hs'[f] = IF f = e THEN g ELSE hs[f]
  BY DEF Progress, SessionInv, Objects
<1>5. events' = events \cup N /\ sessions' = sessions /\ sessions[e] \in Nat
  BY <1>2, SessionAssumption DEF Progress, SessionInv, Flags
<1>6. g.e_pk # Garbage
  <2>1. Session(g, drawn', sent') /\ g.e_pk \in drawn' \cup {Zero}
    BY DEF Progress, Session, Object
  <2>2. \A t \in drawn' : t # Garbage
    BY DEF drawn, generate_keypair, Garbage
  <2> QED BY <2>1, <2>2 DEF Zero, Garbage
<1>7. \A v \in events : v.endpoint = e /\ v.session < sessions[e] =>
         /\ g.e_pk # Zero => g.e_pk # v.re
         /\ hs[e].e_pk # Zero => hs[e].e_pk # v.re
  BY <1>1, <1>2, <1>6 DEF SessionInv, EphemeralsFresh
<1>8. \A v \in events' : v.endpoint = e /\ v.session < sessions[e] => v \in events
  BY <1>3, <1>5
<1>9. ASSUME NEW v \in events', NEW w \in events', v.endpoint = w.endpoint,
             v.session < w.session, w.eph # Zero
      PROVE  w.eph # v.re
  <2>1. CASE w \in N
    BY <1>3, <1>7, <1>8, <1>9, <2>1
  <2>2. CASE w \in events
    <3>1. v \in events
      <4>1. v \in N => sessions[e] < w.session /\ w.endpoint = e
        BY <1>3, <1>9
      <4>2. w.endpoint = e => w.session \in 0..sessions[e]
        BY <1>1, <2>2
      <4> QED BY <1>5, <4>1, <4>2
    <3> QED BY <1>9, <2>2, <3>1 DEF SessionInv, EphemeralsFresh
  <2> QED BY <1>5, <2>1, <2>2
<1>10. ASSUME NEW v \in events', NEW f \in Endpoint, v.endpoint = f, v.session < sessions[f],
              hs'[f].e_pk # Zero
       PROVE  hs'[f].e_pk # v.re
  <2>1. CASE f = e
    BY <1>4, <1>7, <1>8, <1>10, <2>1
  <2>2. CASE f # e
    BY <1>3, <1>4, <1>5, <1>10, <2>2 DEF SessionInv, EphemeralsFresh
  <2> QED BY <2>1, <2>2
<1> QED BY <1>5, <1>9, <1>10 DEF EphemeralsFresh

\* ... that a step is taken once ...
LEMMA ProgressSteps ==
    ASSUME SessionInv, NEW e, NEW g, NEW N, Progress(e, g, N)
    PROVE  StepsOnce'
<1>1. \A v \in N : /\ v.endpoint = e /\ v.session = sessions[e] /\ v.pattern = g.pattern
                   /\ v.step \in (hs[e].step + 1)..g.step
  BY DEF Progress
<1>2. /\ e \in Endpoint /\ state[e] = "open" /\ g.pattern = hs[e].pattern
      /\ hs[e].step \in Nat /\ g.step \in Nat /\ hs[e].step <= g.step
  <2>1. \A h : Typed(h) => h.step \in Nat
    BY Steps DEF Typed
  <2>2. Typed(hs[e]) /\ Typed(g)
    BY OwnDrawn DEF Progress, SessionInv, Session, Object, Typed
  <2> QED BY <2>1, <2>2 DEF Progress
<1>3. \A f \in Endpoint : hs'[f] = IF f = e THEN g ELSE hs[f]
  BY DEF Progress, SessionInv, Objects
<1>4. events' = events \cup N /\ sessions' = sessions /\ state' = state
  BY DEF Progress
<1>5. \A v \in events : v.endpoint = e /\ v.session = sessions[e] =>
          v.pattern = g.pattern /\ v.step <= hs[e].step
  BY <1>2 DEF SessionInv, StepsOnce
<1>6. \A v \in events : v.endpoint = e /\ v.session = sessions[e] => \A w \in N : v.step # w.step
  BY <1>1, <1>2, <1>5
<1>7. ASSUME NEW v \in events', NEW w \in events', same_session(v, w)
      PROVE  v.pattern = w.pattern /\ (v.step = w.step => v = w)
  <2>1. CASE v \in events /\ w \in events
    BY <1>7, <2>1 DEF SessionInv, StepsOnce
  <2>2. CASE v \in events /\ w \in N
    BY <1>1, <1>5, <1>6, <1>7, <2>2 DEF same_session
  <2>3. CASE v \in N /\ w \in events
    BY <1>1, <1>5, <1>6, <1>7, <2>3 DEF same_session
  <2>4. CASE v \in N /\ w \in N
    BY <1>1, <1>7, <2>4 DEF Progress
  <2> QED BY <1>4, <2>1, <2>2, <2>3, <2>4
<1>8. ASSUME NEW v \in events', state[v.endpoint] = "open", v.session = sessions[v.endpoint]
      PROVE  v.pattern = hs'[v.endpoint].pattern /\ v.step <= hs'[v.endpoint].step
  <2>1. v.endpoint \in Endpoint
    BY <1>1, <1>2, <1>4 DEF SessionInv, Recorded, EventOK
  <2>2. CASE v \in N
    BY <1>1, <1>2, <1>3, <2>2
  <2>3. CASE v \in events /\ v.endpoint = e
    <3>1. v.pattern = g.pattern /\ v.step <= hs[e].step /\ v.step \in Int
      <4>1. v.pattern = g.pattern /\ v.step <= hs[e].step
        BY <1>5, <1>8, <2>3
      <4> QED BY <4>1, <2>3 DEF SessionInv, Recorded, EventOK
    <3> QED BY <1>2, <1>3, <2>3, <3>1
  <2>4. CASE v \in events /\ v.endpoint # e
    BY <1>3, <1>8, <2>1, <2>4 DEF SessionInv, StepsOnce
  <2> QED BY <1>4, <2>2, <2>3, <2>4
<1> QED BY <1>4, <1>7, <1>8 DEF StepsOnce, same_session

\* ... that a complete session is on record ...
LEMMA ProgressComplete ==
    ASSUME SessionInv, NEW e, NEW g, NEW N, Progress(e, g, N)
    PROVE  CompleteOnRecord'
<1>1. completions \subseteq completions'
  BY DEF Progress, completions
<1>2. /\ \A f \in Endpoint : hs'[f] = IF f = e THEN g ELSE hs[f]
      /\ sessions' = sessions /\ state' = state /\ split_done' = split_done
  BY DEF Progress, SessionInv, Objects
<1> SUFFICES ASSUME NEW f \in Endpoint, state[f] = "open", ~split_done[f], is_complete(hs'[f])
             PROVE  \E c \in completions' : matches(c, f, sessions[f], hs'[f])
  BY <1>2 DEF CompleteOnRecord
<1>4. CASE f = e
  <2>1. hs'[e] = g
    BY <1>2, <1>4
  <2>2. PICK c \in N : c.step = g.step /\ matches(c, e, sessions[e], g)
    BY <1>4, <2>1 DEF Progress
  <2>3. c \in completions'
    <3>1. c.pattern = g.pattern /\ c \in events'
      BY DEF Progress
    <3>2. g.step = pattern_total_steps[g.pattern]
      <4>1. g.pattern \in {"XX", "IK"} /\ g.step \in 0..pattern_total_steps[g.pattern]
        BY DEF Progress, Session, Object
      <4> QED BY <1>4, <2>1, <4>1, Steps DEF is_complete
    <3> QED BY <2>2, <3>1, <3>2 DEF completions
  <2> QED BY <1>2, <1>4, <2>1, <2>2, <2>3
<1>5. CASE f # e
  <2>1. PICK c \in completions : matches(c, f, sessions[f], hs[f])
    BY <1>2, <1>5 DEF SessionInv, CompleteOnRecord
  <2> QED BY <1>1, <1>2, <1>5, <2>1
<1> QED BY <1>4, <1>5

\* ... and that exports are completions.
LEMMA ProgressExports ==
    ASSUME SessionInv, NEW e, NEW g, NEW N, Progress(e, g, N)
    PROVE  ExportsOnRecord'
<1>1. completions \subseteq completions'
  BY DEF Progress, completions
<1> QED BY <1>1 DEF Progress, SessionInv, ExportsOnRecord, exported_by, same_session

\* All of the invariant but the flags and the wire.
Sessions ==
    /\ Objects /\ Recorded /\ EphemeralsUnique /\ EphemeralsFresh
    /\ StepsOnce /\ CompleteOnRecord /\ ExportsOnRecord

\* All of them.
LEMMA Progresses ==
    ASSUME SessionInv, NEW e, NEW g, NEW N, Progress(e, g, N)
    PROVE  Sessions'
  BY ProgressObjects, ProgressRecorded, ProgressUnique, ProgressFresh, ProgressSteps,
     ProgressComplete, ProgressExports DEF Sessions

\* A step that touches no session.
LEMMA Quiet ==
    ASSUME SessionInv, DOMAIN hs' = Endpoint, \A e \in Endpoint : hs'[e] = hs[e],
           UNCHANGED <<state, split_done, ephemerals, sessions, events, exports>>
    PROVE  Sessions' /\ sent' = sent
<1>1. drawn' = drawn /\ sent' = sent /\ completions' = completions
  BY DEF drawn, sent, completions
<1>2. \A v \in events : v.endpoint \in Endpoint
  BY DEF SessionInv, Recorded, EventOK
<1>3. Objects'
  BY <1>1 DEF SessionInv, Objects
<1>4. Recorded' /\ EphemeralsUnique' /\ EphemeralsFresh'
  BY <1>1 DEF SessionInv, Recorded, EphemeralsUnique, EphemeralsFresh, same_session
<1>5. StepsOnce'
  BY <1>1, <1>2 DEF SessionInv, StepsOnce, same_session
<1>6. CompleteOnRecord' /\ ExportsOnRecord'
  BY <1>1 DEF SessionInv, CompleteOnRecord, ExportsOnRecord, same_session
<1> QED BY <1>1, <1>3, <1>4, <1>5, <1>6 DEF Sessions
-----------------------------------------------------------------------------
(***************************************************************************)
(* The queues of the link.                                                 *)
(***************************************************************************)
LEMMA QueueGrows ==
    ASSUME NEW q, NEW P, NEW Q, P \subseteq Q, Queue(q, P)
    PROVE  Queue(q, Q)
  BY MessageGrows DEF Queue

\* Taking the first message of a queue.
LEMMA QueueHead ==
    ASSUME NEW q, NEW P, Queue(q, P), q # <<>>
    PROVE  Message(Head(q), P) /\ Queue(Tail(q), P)
<1> DEFINE S == {q[i] : i \in DOMAIN q}
<1>1. q \in Seq(S) /\ \A i \in DOMAIN q : Message(q[i], P)
  BY DEF Queue, IsSeq
<1> HIDE DEF S
<1>2. /\ 1 \in DOMAIN q /\ Head(q) = q[1] /\ Tail(q) \in Seq(S)
      /\ \A i \in DOMAIN Tail(q) : i + 1 \in DOMAIN q /\ Tail(q)[i] = q[i + 1]
  BY <1>1
<1> QED BY <1>1, <1>2, Sequence DEF Queue

\* Sending or repeating a message.
LEMMA QueuePut ==
    ASSUME NEW q, NEW P, Queue(q, P), NEW m, Message(m, P)
    PROVE  Queue(Append(q, m), P) /\ Queue(<<m>> \o q, P)
<1> DEFINE S == {q[i] : i \in DOMAIN q}
           T == S \cup {m}
<1>1. q \in Seq(S) /\ \A i \in DOMAIN q : Message(q[i], P)
  BY DEF Queue, IsSeq
<1>2. q \in Seq(T) /\ m \in T
  BY <1>1
<1> HIDE DEF S, T
<1>3. /\ Append(q, m) \in Seq(T)
      /\ \A i \in DOMAIN Append(q, m) :
            Append(q, m)[i] = m \/ (i \in DOMAIN q /\ Append(q, m)[i] = q[i])
  BY <1>2
<1>4. /\ <<m>> \o q \in Seq(T)
      /\ \A i \in DOMAIN (<<m>> \o q) :
            (<<m>> \o q)[i] = m \/ (i - 1 \in DOMAIN q /\ (<<m>> \o q)[i] = q[i - 1])
  BY <1>2
<1>5. Queue(Append(q, m), P)
  BY <1>1, <1>3, Sequence DEF Queue
<1>6. Queue(<<m>> \o q, P)
  BY <1>1, <1>4, Sequence DEF Queue
<1> QED BY <1>5, <1>6

\* A damaged, a shortened and a longer message are messages as well.
LEMMA Damaged ==
    ASSUME NEW m, NEW P, Message(m, P), NEW i \in DOMAIN m.fields, NEW val \in {Garbage, Zero}
    PROVE  Message(with_field(m, i, val), P)
<1> DEFINE S == {m.fields[j] : j \in DOMAIN m.fields}
           f == [m.fields[i] EXCEPT !.val = val]
           s == [m.fields EXCEPT ![i] = f]
<1>1. /\ m.fields \in Seq(S) /\ m = [size |-> m.size, fields |-> m.fields]
      /\ \A j \in DOMAIN m.fields : FieldOK(m.fields[j], P)
  BY DEF Message, IsSeq
<1>2. FieldOK(f, P)
  <2>1. m.fields[i] = [len |-> m.fields[i].len, val |-> m.fields[i].val]
    BY <1>1 DEF FieldOK
  <2>2. f = [len |-> m.fields[i].len, val |-> val]
    BY <2>1
  <2> QED BY <2>2 DEF FieldOK
<1>3. with_field(m, i, val) = [m EXCEPT !.fields = s]
  BY DEF with_field
<1>4. [m EXCEPT !.fields = s] = [size |-> m.size, fields |-> s]
  BY <1>1
<1> HIDE DEF f, S
<1>5. m.fields \in Seq(S \cup {f})
  BY <1>1
<1>6. s \in Seq(S \cup {f}) /\ DOMAIN s = DOMAIN m.fields
      /\ \A j \in DOMAIN s : s[j] = f \/ s[j] = m.fields[j]
  BY <1>5
<1> HIDE DEF s
<1>7. IsSeq(s)
  BY <1>6, Sequence
<1> QED BY <1>1, <1>2, <1>3, <1>4, <1>6, <1>7 DEF Message

\* A message with garbage behind it is a message.
LEMMA Lengthened ==
    ASSUME NEW m, NEW P, Message(m, P), NEW len
    PROVE  Message(put(m, len, Garbage), P)
<1>1. FieldOK([len |-> len, val |-> Garbage], P)
  BY DEF FieldOK
<1> QED BY <1>1, Put

\* A message cut short is a message.
LEMMA Shortened ==
    ASSUME NEW m, NEW P, Message(m, P)
    PROVE  Message(truncated(m), P)
<1> DEFINE S == {m.fields[j] : j \in DOMAIN m.fields}
           k == Len(m.fields)
           s == SubSeq(m.fields, 1, k - 1)
           b == [size |-> m.size - m.fields[k].len, fields |-> s]
<1>1. m.fields \in Seq(S) /\ \A j \in DOMAIN m.fields : FieldOK(m.fields[j], P)
  BY DEF Message, IsSeq
<1> HIDE DEF S
<1>2. k \in Nat
  BY <1>1
<1>3. s \in Seq(S) /\ \A j \in DOMAIN s : j \in DOMAIN m.fields /\ s[j] = m.fields[j]
  BY <1>1, <1>2
<1>4. IsSeq(s)
  BY <1>3, Sequence
<1>5. Message(b, P)
  <2> HIDE DEF s, k
  <2> QED BY <1>1, <1>3, <1>4 DEF Message
<1>6. truncated(m) = put(b, m.fields[k].len - 1, Garbage)
  BY DEF truncated
<1> HIDE DEF b, k
<1> QED BY <1>5, <1>6, Lengthened

\* A fault of the link.
LEMMA LinkStep ==
    ASSUME SessionInv, NEW e \in Endpoint, link(e)
    PROVE  SessionInv'
<1>1. /\ link_only /\ faults' = faults + 1 /\ faults < MaxFaults
      /\ \E q : chan' = [chan EXCEPT ![e] = q] /\ (Queue(chan[e], sent) => Queue(q, sent))
  <2>1. CASE lose(e)
    BY <2>1, QueueHead DEF lose, fault
  <2>2. CASE duplicate(e)
    BY <2>2, QueueHead, QueuePut DEF duplicate, fault
  <2>3. CASE reorder(e)
    <3>1. Queue(chan[e], sent) => chan[e] # <<>>
      BY <2>3 DEF reorder, Queue, IsSeq
    <3> QED BY <2>3, <3>1, QueueHead, QueuePut DEF reorder, fault
  <2>4. ASSUME NEW kind, NEW val \in {Garbage, Zero}, damage(e, kind, val)
        PROVE  /\ link_only /\ faults' = faults + 1 /\ faults < MaxFaults
               /\ \E q : chan' = [chan EXCEPT ![e] = q] /\ (Queue(chan[e], sent) => Queue(q, sent))
    BY <2>4, QueueHead, QueuePut, Damaged DEF damage, fault, rewrite_head
  <2>5. CASE truncate(e)
    BY <2>5, QueueHead, QueuePut, Shortened DEF truncate, fault, rewrite_head
  <2>6. CASE extend(e)
    BY <2>6, QueueHead, QueuePut, Lengthened DEF extend, fault, rewrite_head
  <2> QED BY <2>1, <2>2, <2>3, <2>4, <2>5, <2>6 DEF link
<1>2. PICK q : chan' = [chan EXCEPT ![e] = q] /\ (Queue(chan[e], sent) => Queue(q, sent))
  BY <1>1
<1>3. Sessions' /\ sent' = sent
  BY <1>1, Quiet DEF link_only, SessionInv, Objects
<1>4. Flags'
  BY <1>1, SessionAssumption DEF SessionInv, Flags, link_only
<1>5. Wire'
  BY <1>2, <1>3 DEF SessionInv, Wire
<1> QED BY <1>3, <1>4, <1>5 DEF SessionInv, Sessions
-----------------------------------------------------------------------------
(***************************************************************************)
(* handshake_step.                                                         *)
(***************************************************************************)
\* The record v of a message that left the object g.
Notes(v, e, kind, g) ==
    /\ v.endpoint = e /\ v.session = sessions[e] /\ v.kind = kind
    /\ v.pattern = g.pattern /\ v.initiator = g.initiator /\ v.step = g.step
    /\ v.h = g.symmetric.h /\ v.ck = g.symmetric.ck /\ v.self = g.s_pk /\ v.peer = g.rs
    /\ v.eph = g.e_pk /\ v.re = g.re

\* event records the session as the call leaves it.
LEMMA EventNotes == \A e, kind, c : Notes(event(e, kind, c), e, kind, c.hs)
  BY DEF event, Notes

\* A record of a proper session is a proper record.
LEMMA NotesOK ==
    ASSUME Flags, NEW e \in Endpoint, NEW kind, NEW g, NEW D, NEW P, Points(D, P),
           Session(g, D, P), NEW v, Notes(v, e, kind, g), kind = "write" => g.e_pk # Zero
    PROVE  /\ EventOK(v, D, sessions)
           /\ matches(v, e, sessions[e], g)
<1>1. sessions[e] \in 0..sessions[e]
  BY SessionAssumption DEF Flags
<1>2. g.step \in Nat
  BY Steps DEF Session, Object
<1>3. /\ g.pattern \in {"XX", "IK"} /\ g.initiator \in BOOLEAN /\ Static(g.s_pk)
      /\ g.e_pk \in D \cup {Zero} /\ g.re \in D \cup {Zero, Garbage}
  BY DEF Session, Object, Points
<1>4. g.step = pattern_total_steps[g.pattern] =>
         /\ Agreed(g.pattern, g.initiator, g.symmetric.ck, g.s_pk, g.rs, g.e_pk, g.re)
         /\ Binds(g.symmetric.h, g.symmetric.ck)
         /\ Static(g.rs) /\ g.e_pk # Zero /\ g.re # Zero
  BY DEF Session, Completed
<1> QED BY <1>1, <1>2, <1>3, <1>4 DEF EventOK, Notes, matches

\* The record M of what a call read before it writes from h.
Before(e, h, M) ==
    /\ Session(h, drawn, sent) /\ SameParty(h, hs[e]) /\ h.e_pk = hs[e].e_pk
    /\ hs[e].step <= h.step
    /\ \A v \in M : /\ EventOK(v, drawn, sessions) /\ v.endpoint = e /\ v.session = sessions[e]
                    /\ v.pattern = h.pattern /\ v.step \in (hs[e].step + 1)..h.step
                    /\ v.eph = hs[e].e_pk /\ v.kind = "read"
    /\ \A v, w \in M : v.step = w.step => v = w

\* The part of write_branch that the counters and the flags see.
LEMMA WriteFlags ==
    ASSUME Flags, NEW e \in Endpoint, NEW h, NEW inbound, NEW M, NEW oom \in BOOLEAN,
           write_branch(e, h, inbound, M, oom)
    PROVE  Flags'
<1>1. ephemerals' \in 0..MaxEphemerals
  BY SessionAssumption DEF write_branch, Flags
<1>2. faults' \in 0..MaxFaults
  BY SessionAssumption DEF write_branch, Flags
<1>3. poisoned' \in [Endpoint -> BOOLEAN]
  BY DEF write_branch, Flags
<1> QED BY <1>1, <1>2, <1>3 DEF write_branch, Flags

\* write_message inside handshake_step is progress of its session, also when
\* it fails or its bytes cannot be allocated.
LEMMA WriteProgress ==
    ASSUME SessionInv, NEW e \in Endpoint, state[e] = "open", ~split_done[e],
           ~is_complete(hs[e]), NEW h, NEW M, Before(e, h, M), writer_turn(h), ~is_complete(h),
           NEW inbound, NEW oom \in BOOLEAN, write_branch(e, h, inbound, M, oom)
    PROVE  LET w == write_message(h, generate_keypair(ephemerals + 1))
           IN  /\ w.ok => Message(w.bytes, sent')
               /\ \E N : Progress(e, w.hs, N)
<1> DEFINE k == generate_keypair(ephemerals + 1)
           w == write_message(h, k)
           g == w.hs
           x == event(e, "write", w)
<1>1. Points(drawn, sent) /\ ephemerals \in Nat
  BY SentDrawn, SessionAssumption DEF SessionInv, Flags
<1>2. /\ k \notin drawn /\ k # Zero /\ k[1] = "ephemeral"
      /\ ephemerals' = ephemerals + 1 => drawn' = drawn \cup {k}
      /\ ephemerals' = ephemerals => drawn' = drawn
      /\ \A t \in drawn : t[1] = "ephemeral"
  BY <1>1, Drawn
<1>3. /\ hs' = [hs EXCEPT ![e] = g]
      /\ ephemerals' = ephemerals + (IF writes_ephemeral(h) THEN 1 ELSE 0)
      /\ events' = (events \cup M) \cup (IF w.ok THEN {x} ELSE {})
      /\ UNCHANGED <<state, split_done, sessions, exports>>
  BY DEF write_branch
<1> HIDE DEF k
<1>4. /\ Session(h, drawn, sent) /\ SameParty(h, hs[e]) /\ h.e_pk = hs[e].e_pk
      /\ h.e_pk \in drawn \cup {Zero}
      /\ h.step \in Nat /\ hs[e].step \in Nat /\ hs[e].step <= h.step
  <2>1. h.step \in Nat /\ hs[e].step \in Nat
    BY OwnDrawn, Steps DEF Before, Session, Object, SessionInv, Typed
  <2> QED BY <2>1 DEF Before, Session, Object
<1>5. (w.ok /\ Wrote(w, h, k, drawn, sent)) \/ (~w.ok /\ WriteFailed(w, h, k, drawn, sent))
  <2>1. k \notin sent
    BY <1>1, <1>2 DEF Points
  <2> QED BY <1>1, <1>2, <1>4, <2>1, WriteSession
<1> HIDE DEF w
<1>6. Notes(x, e, "write", g)
  BY EventNotes
<1> HIDE DEF x
<1>7. \A v \in M : EventOK(v, drawn, sessions) /\ sessions[v.endpoint] \in Nat
  BY SessionAssumption DEF Before, SessionInv, Flags, EventOK
<1>8. drawn \subseteq drawn'
  <2>1. ephemerals' = ephemerals + 1 \/ ephemerals' = ephemerals
    BY <1>1, <1>3
  <2> QED BY <1>2, <2>1
<1>9. \A v \in M : EventOK(v, drawn', sessions)
  BY <1>7, <1>8, EventGrows
<1>10. \A v \in M : /\ v.endpoint = e /\ v.session = sessions[e] /\ v.pattern = h.pattern
                    /\ v.step \in (hs[e].step + 1)..h.step /\ v.eph = hs[e].e_pk /\ v.kind = "read"
  BY DEF Before
<1>11. \A v, u \in M : v.step = u.step => v = u
  BY DEF Before
<1>12. CASE w.ok /\ Wrote(w, h, k, drawn, sent)
  <2> DEFINE own == g.e_pk
  <2>1. /\ g.step = h.step + 1 /\ SameParty(g, h) /\ Rests(g) /\ own # Zero
        /\ own = IF h.step < 2 THEN k ELSE h.e_pk
        /\ Session(g, drawn \cup {own}, sent \cup {own}) /\ Message(w.bytes, sent \cup {own})
    BY <1>12 DEF Wrote
  <2>2. events' = events \cup (M \cup {x})
    BY <1>3, <1>12
  <2>3. sent' = sent \cup {own}
    BY <1>6, <1>10, <2>2 DEF sent, Notes
  <2>4. drawn' = drawn \cup {own}
    <3>1. CASE h.step < 2
      <4>1. writes_ephemeral(h)
        BY <3>1 DEF writes_ephemeral
      <4> QED BY <1>2, <1>3, <2>1, <3>1, <4>1
    <3>2. CASE ~(h.step < 2)
      <4>1. ~writes_ephemeral(h)
        BY <3>2 DEF writes_ephemeral
      <4> QED BY <1>1, <1>2, <1>3, <1>4, <2>1, <3>2, <4>1
    <3> QED BY <3>1, <3>2
  <2>5. own = hs[e].e_pk \/ own \notin drawn \cup {Zero}
    BY <1>2, <1>4, <2>1
  <2>6. Points(drawn', sent')
    <3>1. \A t \in drawn' : t[1] = "ephemeral"
      BY <1>2, <1>4, <2>1, <2>4
    <3> QED BY <1>1, <2>3, <2>4, <3>1 DEF Points
  <2>7. Session(g, drawn', sent') /\ Message(w.bytes, sent')
    BY <2>1, <2>3, <2>4
  <2> HIDE DEF g
  <2>8. EventOK(x, drawn', sessions) /\ matches(x, e, sessions[e], g)
    BY <1>6, <2>1, <2>6, <2>7, NotesOK DEF SessionInv
  <2>9. g.pattern = hs[e].pattern /\ g.pattern = h.pattern /\ hs[e].step <= g.step
    BY <1>4, <2>1 DEF SameParty
  <2>10. \A v \in M \cup {x} :
           /\ EventOK(v, drawn', sessions) /\ v.endpoint = e /\ v.session = sessions[e]
           /\ v.pattern = g.pattern /\ v.step \in (hs[e].step + 1)..g.step
           /\ v.eph \in {hs[e].e_pk, own}
    <3>1. x.step \in (hs[e].step + 1)..g.step
      BY <1>4, <1>6, <2>1 DEF Notes
    <3>2. \A v \in M : v.step \in (hs[e].step + 1)..g.step
      BY <1>4, <1>10, <2>1
    <3> QED BY <1>6, <1>9, <1>10, <2>8, <2>9, <3>1, <3>2 DEF Notes
  <2>11. \A v, u \in M \cup {x} : v.step = u.step => v = u
    <3>1. \A v \in M : v.step # x.step
      BY <1>4, <1>6, <1>10, <2>1 DEF Notes
    <3> QED BY <1>11, <3>1
  <2>12. x.step = g.step
    BY <1>6 DEF Notes
  <2>13. Progress(e, g, M \cup {x})
    BY <1>3, <1>8, <2>1, <2>2, <2>3, <2>5, <2>7, <2>8, <2>9, <2>10, <2>11, <2>12 DEF Progress
  <2> QED BY <2>7, <2>13 DEF g, w, k
<1>13. CASE ~w.ok /\ WriteFailed(w, h, k, drawn, sent)
  <2>1. /\ h.step = 1 /\ g.step = 1 /\ SameParty(g, h) /\ g.e_pk = k
        /\ Session(g, drawn \cup {k}, sent) /\ Rests(g)
    BY <1>13 DEF WriteFailed
  <2>2. events' = events \cup M
    BY <1>3, <1>13
  <2>3. sent' = sent
    BY <1>10, <2>2 DEF sent
  <2>4. drawn' = drawn \cup {k}
    <3>1. writes_ephemeral(h)
      BY <2>1 DEF writes_ephemeral
    <3> QED BY <1>2, <1>3, <3>1
  <2> HIDE DEF g
  <2>5. g.pattern = hs[e].pattern /\ g.pattern = h.pattern /\ hs[e].step <= g.step
    BY <1>4, <2>1 DEF SameParty
  <2>6. ~is_complete(g)
    <3>1. g.pattern \in {"XX", "IK"}
      BY <2>1 DEF Session, Object
    <3> QED BY <2>1, <3>1, Steps DEF is_complete
  <2>7. \A v \in M : /\ EventOK(v, drawn', sessions) /\ v.endpoint = e /\ v.session = sessions[e]
                     /\ v.pattern = g.pattern /\ v.step \in (hs[e].step + 1)..g.step
                     /\ v.eph \in {hs[e].e_pk, g.e_pk}
    BY <1>9, <1>10, <2>1, <2>5
  <2>8. Progress(e, g, M)
    BY <1>2, <1>3, <1>8, <1>11, <2>1, <2>2, <2>3, <2>4, <2>5, <2>6, <2>7 DEF Progress
  <2> QED BY <1>13, <2>8 DEF g, w, k
<1> QED BY <1>5, <1>12, <1>13

\* A step of handshake_step that writes preserves the invariant.
LEMMA WriteStep ==
    ASSUME SessionInv, NEW e \in Endpoint, state[e] = "open", ~split_done[e],
           ~is_complete(hs[e]), NEW h, NEW M, Before(e, h, M), writer_turn(h), ~is_complete(h),
           NEW inbound, DOMAIN inbound = Endpoint, \A f \in Endpoint : Queue(inbound[f], sent),
           NEW oom \in BOOLEAN, write_branch(e, h, inbound, M, oom)
    PROVE  SessionInv'
<1> DEFINE w == write_message(h, generate_keypair(ephemerals + 1))
<1>1. (w.ok => Message(w.bytes, sent')) /\ \E N : Progress(e, w.hs, N)
  BY WriteProgress
<1>2. chan' = IF emits(w, oom) THEN [inbound EXCEPT ![Peer[e]] = Append(@, w.bytes)] ELSE inbound
  BY DEF write_branch
<1> HIDE DEF w
<1>3. Sessions'
  BY <1>1, Progresses
<1>4. Flags'
  BY WriteFlags DEF SessionInv
<1>5. Wire'
  <2>1. sent \subseteq sent'
    BY <1>1, SentGrows DEF Progress
  <2>2. \A f \in Endpoint : Queue(inbound[f], sent')
    BY <2>1, QueueGrows
  <2>3. CASE emits(w, oom)
    <3>1. Message(w.bytes, sent') /\ Peer[e] \in Endpoint
      BY <1>1, <2>3, SessionAssumption DEF emits
    <3>2. Queue(Append(inbound[Peer[e]], w.bytes), sent')
      BY <2>2, <3>1, QueuePut
    <3> QED BY <1>2, <2>2, <2>3, <3>1, <3>2 DEF Wire
  <2>4. CASE ~emits(w, oom)
    BY <1>2, <2>2, <2>4 DEF Wire
  <2> QED BY <2>3, <2>4
<1> QED BY <1>3, <1>4, <1>5 DEF SessionInv, Sessions

\* A complete session, exported or not: is_complete is what it has left.
LEMMA OpenSession ==
    ASSUME SessionInv, NEW e \in Endpoint, state[e] = "open"
    PROVE  /\ IsHandshake(hs[e])
           /\ ~is_complete(hs[e]) => /\ ~split_done[e]
                                     /\ Session(hs[e], drawn, sent) /\ Rests(hs[e])
<1>1. CASE split_done[e]
  <2>1. Spent(hs[e])
    BY <1>1 DEF SessionInv, Objects
  <2>2. hs[e].step = pattern_total_steps[hs[e].pattern] /\ hs[e].pattern \in {"XX", "IK"}
    BY <2>1 DEF Spent, Typed
  <2>3. is_complete(hs[e])
    BY <2>2, Steps DEF is_complete
  <2> QED BY <2>1, <2>3 DEF Spent, Typed
<1>2. CASE ~split_done[e]
  BY <1>2 DEF SessionInv, Objects, Session, Object
<1> QED BY <1>1, <1>2

\* handshake_step with no input.
LEMMA StepWithoutInput ==
    ASSUME SessionInv, NEW e \in Endpoint, NEW oom \in BOOLEAN, step_without_input(e, oom)
    PROVE  SessionInv'
<1>1. /\ state[e] = "open" /\ writer_turn(hs[e])
      /\ write_branch(e, hs[e], chan, {}, oom)
  BY DEF step_without_input
<1>2. CASE is_complete(hs[e])
  <2> DEFINE w == write_message(hs[e], generate_keypair(ephemerals + 1))
  <2>1. ~w.ok /\ w.hs = hs[e]
    BY <1>1, <1>2, OpenSession, CompleteRefuses
  <2>2. /\ hs' = [hs EXCEPT ![e] = w.hs] /\ UNCHANGED <<state, split_done, sessions, exports>>
        /\ ~emits(w, oom) => chan' = chan
        /\ ~w.ok => events' = (events \cup {}) \cup {}
        /\ ~writes_ephemeral(hs[e]) => ephemerals' = ephemerals + 0
    BY <1>1 DEF write_branch
  <2> HIDE DEF w
  <2>3. /\ DOMAIN hs' = Endpoint /\ \A f \in Endpoint : hs'[f] = hs[f]
        /\ chan' = chan /\ events' = events /\ ephemerals' = ephemerals
    <3>1. ephemerals \in Nat /\ ~writes_ephemeral(hs[e])
      BY <1>2, SessionAssumption DEF SessionInv, Flags, writes_ephemeral
    <3>2. DOMAIN hs' = Endpoint /\ \A f \in Endpoint : hs'[f] = hs[f]
      BY <2>1, <2>2 DEF SessionInv, Objects
    <3>3. chan' = chan /\ events' = events
      BY <2>1, <2>2 DEF emits
    <3> QED BY <2>2, <3>1, <3>2, <3>3
  <2>4. Sessions' /\ sent' = sent
    BY <2>2, <2>3, Quiet
  <2>5. Flags'
    BY <1>1, WriteFlags DEF SessionInv
  <2>6. Wire'
    BY <2>3, <2>4 DEF SessionInv, Wire
  <2> QED BY <2>4, <2>5, <2>6 DEF SessionInv, Sessions
<1>3. CASE ~is_complete(hs[e])
  <2>1. ~split_done[e] /\ Session(hs[e], drawn, sent)
    BY <1>1, <1>3, OpenSession
  <2>2. hs[e].step <= hs[e].step
    BY <2>1, Steps DEF Session, Object
  <2>3. Before(e, hs[e], {})
    BY <2>1, <2>2 DEF Before, SameParty
  <2>4. DOMAIN chan = Endpoint /\ \A f \in Endpoint : Queue(chan[f], sent)
    BY DEF SessionInv, Wire
  <2> QED BY <1>1, <1>3, <2>1, <2>3, <2>4, WriteStep
<1> QED BY <1>2, <1>3

\* The queue of the reader without the message that was read.
LEMMA Popped ==
    ASSUME SessionInv, NEW e \in Endpoint, chan[e] # <<>>
    PROVE  LET q == [chan EXCEPT ![e] = Tail(@)]
           IN  /\ Message(Head(chan[e]), sent)
               /\ DOMAIN q = Endpoint /\ \A f \in Endpoint : Queue(q[f], sent)
<1>1. DOMAIN chan = Endpoint /\ \A f \in Endpoint : Queue(chan[f], sent)
  BY DEF SessionInv, Wire
<1>2. Message(Head(chan[e]), sent) /\ Queue(Tail(chan[e]), sent)
  BY <1>1, QueueHead
<1> QED BY <1>1, <1>2

\* read_message inside handshake_step, on anything the link can deliver.
LEMMA ReadProgress ==
    ASSUME SessionInv, NEW e \in Endpoint, state[e] = "open", ~is_complete(hs[e]),
           NEW m, Message(m, sent)
    PROVE  LET r == read_message(hs[e], m)
           IN  /\ Read(r, hs[e], drawn, sent)
               /\ r.ok => Before(e, r.hs, {event(e, "read", r)})
<1> DEFINE r == read_message(hs[e], m)
           x == event(e, "read", r)
<1>1. Points(drawn, sent)
  BY SentDrawn DEF SessionInv
<1>2. Session(hs[e], drawn, sent) /\ Rests(hs[e])
  BY OpenSession
<1>3. Read(r, hs[e], drawn, sent)
  BY <1>1, <1>2, ReadSession
<1> HIDE DEF r
<1>4. Notes(x, e, "read", r.hs)
  BY EventNotes
<1> HIDE DEF x
<1>5. ASSUME r.ok
      PROVE  Before(e, r.hs, {x})
  <2>1. /\ Session(r.hs, drawn, sent) /\ SameParty(r.hs, hs[e]) /\ r.hs.e_pk = hs[e].e_pk
        /\ r.hs.step = hs[e].step + 1
    BY <1>3, <1>5 DEF Read
  <2>2. EventOK(x, drawn, sessions)
    BY <1>1, <1>4, <2>1, NotesOK DEF SessionInv
  <2>3. hs[e].step \in Nat
    BY <1>2, Steps DEF Session, Object
  <2>4. /\ x.endpoint = e /\ x.session = sessions[e] /\ x.pattern = r.hs.pattern
        /\ x.step = hs[e].step + 1 /\ x.eph = hs[e].e_pk /\ x.kind = "read"
    BY <1>4, <2>1 DEF Notes
  <2> QED BY <2>1, <2>2, <2>3, <2>4 DEF Before
<1> QED BY <1>3, <1>5 DEF r, x

\* handshake_step that reads and answers.
LEMMA StepReadAndWrite ==
    ASSUME SessionInv, NEW e \in Endpoint, NEW oom \in BOOLEAN, step_read_and_write(e, oom)
    PROVE  SessionInv'
<1> DEFINE m == Head(chan[e])
           r == read_message(hs[e], m)
           q == [chan EXCEPT ![e] = Tail(@)]
<1>1. /\ state[e] = "open" /\ chan[e] # <<>> /\ ~no_write_after(r)
      /\ write_branch(e, r.hs, q, {event(e, "read", r)}, oom)
  BY DEF step_read_and_write
<1>2. Message(m, sent) /\ DOMAIN q = Endpoint /\ \A f \in Endpoint : Queue(q[f], sent)
  BY <1>1, Popped
<1> HIDE DEF m, q
<1>3. r.ok /\ writer_turn(r.hs) /\ ~is_complete(r.hs)
  BY <1>1 DEF no_write_after
<1>4. ~is_complete(hs[e])
  BY <1>1, <1>3, OpenSession, CompleteRefuses
<1>5. Before(e, r.hs, {event(e, "read", r)}) /\ ~split_done[e]
  BY <1>1, <1>2, <1>3, <1>4, ReadProgress, OpenSession
<1> HIDE DEF r
<1> QED BY <1>1, <1>2, <1>3, <1>4, <1>5, WriteStep

\* handshake_step that reads and has nothing to write.
LEMMA StepReadOnly ==
    ASSUME SessionInv, NEW e \in Endpoint, step_read_only(e)
    PROVE  SessionInv'
<1> DEFINE m == Head(chan[e])
           r == read_message(hs[e], m)
           q == [chan EXCEPT ![e] = Tail(@)]
           x == event(e, "read", r)
           N == IF r.ok THEN {x} ELSE {}
<1>1. /\ state[e] = "open" /\ chan[e] # <<>> /\ no_write_after(r)
      /\ hs' = [hs EXCEPT ![e] = r.hs] /\ chan' = q /\ events' = events \cup N
      /\ poisoned' = [poisoned EXCEPT ![e] = @ \/ (~r.ok /\ r.hs # hs[e])]
      /\ UNCHANGED <<state, split_done, keys_exported, ephemerals, sessions, faults, exports>>
  BY DEF step_read_only
<1>2. Message(m, sent) /\ DOMAIN q = Endpoint /\ \A f \in Endpoint : Queue(q[f], sent)
  BY <1>1, Popped
<1> HIDE DEF m, q
<1>3. Flags'
  BY <1>1 DEF SessionInv, Flags
<1>4. Sessions' /\ sent' = sent
  <2>1. CASE is_complete(hs[e])
    <3>1. ~r.ok /\ r.hs = hs[e]
      BY <1>1, <2>1, OpenSession, CompleteRefuses
    <3>2. DOMAIN hs' = Endpoint /\ (\A f \in Endpoint : hs'[f] = hs[f]) /\ events' = events
      BY <1>1, <3>1 DEF SessionInv, Objects
    <3> QED BY <1>1, <3>2, Quiet
  <2>2. CASE ~is_complete(hs[e])
    <3>1. Read(r, hs[e], drawn, sent) /\ (r.ok => Before(e, r.hs, {x}))
      BY <1>1, <1>2, <2>2, ReadProgress
    <3>2. Notes(x, e, "read", r.hs)
      BY EventNotes
    <3>3. Rests(hs[e]) /\ ~split_done[e] /\ hs[e].step \in Nat
      BY <1>1, <2>2, OpenSession, Steps DEF Session, Object
    <3> HIDE DEF r, x
    <3>4. sent' = sent
      BY <1>1, <3>2 DEF sent, Notes
    <3>5. drawn' = drawn
      BY <1>1 DEF drawn
    <3>6. /\ Session(r.hs, drawn', sent') /\ r.hs.e_pk = hs[e].e_pk
          /\ r.hs.pattern = hs[e].pattern /\ r.hs.initiator = hs[e].initiator
          /\ r.hs.step = IF r.ok THEN hs[e].step + 1 ELSE hs[e].step
      BY <3>1, <3>4, <3>5 DEF Read, SameParty
    <3>7. CASE r.ok
      <4>1. Rests(r.hs)
        BY <1>1, <3>6, <3>7, WaitsForPeer DEF no_write_after
      <4>2. \A v \in {x} : /\ EventOK(v, drawn', sessions) /\ v.endpoint = e
                           /\ v.session = sessions[e] /\ v.pattern = r.hs.pattern
                           /\ v.step \in (hs[e].step + 1)..r.hs.step
                           /\ v.eph \in {hs[e].e_pk, r.hs.e_pk}
        BY <3>1, <3>5, <3>7 DEF Before
      <4>3. x.step = r.hs.step /\ matches(x, e, sessions[e], r.hs)
        BY <3>2 DEF Notes, matches
      <4>4. hs[e].step <= r.hs.step
        BY <3>3, <3>6, <3>7
      <4>5. Progress(e, r.hs, {x})
        BY <1>1, <2>2, <3>3, <3>4, <3>5, <3>6, <3>7, <4>1, <4>2, <4>3, <4>4 DEF Progress
      <4> QED BY <3>4, <4>5, Progresses
    <3>8. CASE ~r.ok
      <4>1. Rests(r.hs)
        BY <3>3, <3>6, <3>8 DEF Rests
      <4>2. ~is_complete(r.hs)
        BY <2>2, <3>6, <3>8 DEF is_complete
      <4>3. hs[e].step <= r.hs.step
        BY <3>3, <3>6, <3>8
      <4>4. Progress(e, r.hs, {})
        BY <1>1, <2>2, <3>3, <3>4, <3>5, <3>6, <3>8, <4>1, <4>2, <4>3 DEF Progress
      <4> QED BY <3>4, <4>4, Progresses
    <3> QED BY <3>7, <3>8
  <2> QED BY <2>1, <2>2
<1>5. Wire'
  BY <1>1, <1>2, <1>4 DEF Wire
<1> QED BY <1>3, <1>4, <1>5 DEF SessionInv, Sessions
-----------------------------------------------------------------------------
(***************************************************************************)
(* handshake_open, export_transport_keys and handshake_close.              *)
(***************************************************************************)
LEMMA Constructed ==
    ASSUME NEW p \in {"XX", "IK"}, NEW i \in BOOLEAN, NEW s, Static(s), NEW rs,
           p = "IK" /\ i => Static(rs), NEW D, NEW P, Points(D, P)
    PROVE  LET h == construct(p, i, s, rs)
           IN  Session(h, D, P) /\ Rests(h) /\ h.e_pk = Zero /\ h.step = 0 /\ h.pattern = p
<1> DEFINE named == mix_hash(initialize(protocol_name(p)), Prologue)
           pins  == p = "IK" /\ i /\ rs # Empty
           pre   == CASE pins            -> mix_hash(named, rs)
                      [] p = "IK" /\ ~i  -> mix_hash(named, s)
                      [] OTHER           -> named
           h     == construct(p, i, s, rs)
<1>1. IsSymmetric(named) /\ named.cipher = zeroized
  BY DEF IsSymmetric, mix_hash, initialize, zeroized
<1> HIDE DEF named
<1>2. \A d : IsSymmetric(mix_hash(named, d)) /\ mix_hash(named, d).cipher = zeroized
  BY <1>1 DEF mix_hash, IsSymmetric
<1>3. pre = named \/ \E d : pre = mix_hash(named, d)
  OBVIOUS
<1>4. IsSymmetric(pre) /\ pre.cipher = zeroized
  BY <1>1, <1>2, <1>3
<1>5. zeroized.n = 0 /\ ~zeroized.has_key
  BY DEF zeroized
<1>6. h = [pattern |-> p, initiator |-> i, step |-> 0, symmetric |-> pre,
           s_sk |-> s, s_pk |-> s, e_sk |-> Zero, e_pk |-> Zero,
           rs |-> IF pins THEN rs ELSE Zero, re |-> Zero, rs_known |-> pins]
  BY DEF construct, named
<1> HIDE DEF h, pre
<1>7. /\ IsHandshake(h) /\ h.pattern = p /\ h.initiator = i /\ h.step = 0 /\ h.symmetric = pre
      /\ h.s_sk = s /\ h.s_pk = s /\ h.e_sk = Zero /\ h.e_pk = Zero /\ h.re = Zero
      /\ h.rs = IF pins THEN rs ELSE Zero
  BY <1>4, <1>6 DEF IsHandshake
<1>8. p = "IK" /\ i => rs # Empty
  BY DEF Static, Empty
<1>9. h.rs = Zero \/ Static(h.rs)
  BY <1>7
<1>10. Object(h, D, P)
  BY <1>4, <1>5, <1>7, <1>9, Steps DEF Object
<1>11. Sent(h, P)
  BY <1>7, Kinds DEF Sent
<1>12. Session(h, D, P) /\ Rests(h)
  BY <1>4, <1>5, <1>7, <1>8, <1>10, <1>11, Steps DEF Session, Rests
<1> QED BY <1>7, <1>12 DEF h

\* The destructor leaves a closed object.
LEMMA Destroyed ==
    ASSUME NEW h, Typed(h)
    PROVE  Closed(destroyed(h))
<1> DEFINE d == destroyed(h)
<1>1. /\ DOMAIN d = DOMAIN h /\ d.symmetric = symmetric_destroyed
      /\ d.pattern = h.pattern /\ d.initiator = h.initiator /\ d.step = h.step
      /\ d.s_sk = Zero /\ d.e_sk = Zero /\ d.e_pk = Zero
  BY DEF destroyed, wipe_dh_arrays, Typed, IsHandshake
<1>2. IsSymmetric(symmetric_destroyed)
  BY DEF IsSymmetric, symmetric_destroyed, zeroized
<1> HIDE DEF d
<1> QED BY <1>1, <1>2 DEF Closed, Typed, IsHandshake, d

\* Initially nothing is open, sent or recorded.
LEMMA SessionInit == Init => SessionInv
<1> SUFFICES ASSUME Init PROVE SessionInv
  OBVIOUS
<1>1. Flags
  BY SessionAssumption DEF Init, Flags
<1>2. Closed(NoSession)
  <2> DEFINE h == construct("XX", TRUE, Zero, Empty)
  <2>1. Typed(h)
    <3>1. h = [pattern |-> "XX", initiator |-> TRUE, step |-> 0,
               symmetric |-> mix_hash(initialize(protocol_name("XX")), Prologue),
               s_sk |-> Zero, s_pk |-> Zero, e_sk |-> Zero, e_pk |-> Zero, rs |-> Zero,
               re |-> Zero, rs_known |-> FALSE]
      BY DEF construct
    <3>2. IsSymmetric(mix_hash(initialize(protocol_name("XX")), Prologue))
      BY DEF IsSymmetric, mix_hash, initialize, zeroized
    <3> HIDE DEF h
    <3>3. IsHandshake(h)
      BY <3>1, <3>2 DEF IsHandshake
    <3> QED BY <3>1, <3>3, Steps DEF Typed
  <2> HIDE DEF h
  <2> QED BY <2>1, Destroyed DEF NoSession, h
<1>3. Objects
  BY <1>2 DEF Init, Objects
<1>4. Wire
  <2>1. IsSeq(<<>>)
    BY DEF IsSeq
  <2> QED BY <2>1 DEF Init, Wire, Queue
<1>5. NoSession.e_pk = Zero
  BY <1>2 DEF Closed
<1>6. EphemeralsUnique /\ EphemeralsFresh
  BY <1>5 DEF Init, EphemeralsUnique, EphemeralsFresh
<1>7. Recorded /\ StepsOnce /\ CompleteOnRecord /\ ExportsOnRecord
  BY DEF Init, Recorded, StepsOnce, CompleteOnRecord, ExportsOnRecord
<1> QED BY <1>1, <1>3, <1>4, <1>6, <1>7 DEF SessionInv

\* handshake_open, whatever its arguments.
LEMMA HandshakeOpen ==
    ASSUME SessionInv, NEW e \in Endpoint, NEW args \in OpenArgs[e], handshake_open(e, args)
    PROVE  SessionInv'
<1> DEFINE s  == ed25519_to_x25519(args.local)
           rs == IF pins_remote(args) THEN ed25519_to_x25519(args.remote) ELSE Empty
           g  == construct(args.pattern, args.initiator, s, rs)
<1>1. /\ state[e] = "none" /\ sessions[e] < MaxOpens
      /\ state' = [state EXCEPT ![e] = "open"] /\ hs' = [hs EXCEPT ![e] = g]
      /\ split_done' = [split_done EXCEPT ![e] = FALSE]
      /\ keys_exported' = [keys_exported EXCEPT ![e] = FALSE]
      /\ sessions' = [sessions EXCEPT ![e] = @ + 1]
      /\ poisoned' = [poisoned EXCEPT ![e] = FALSE]
      /\ UNCHANGED <<chan, ephemerals, faults, events, exports>>
  BY DEF handshake_open
<1>2. drawn' = drawn /\ sent' = sent /\ completions' = completions
  BY <1>1 DEF drawn, sent, completions
<1>3. Session(g, drawn, sent) /\ Rests(g) /\ g.e_pk = Zero /\ g.step = 0 /\ g.pattern \in {"XX", "IK"}
  <2>1. Static(s) /\ (args.pattern = "IK" /\ args.initiator => Static(rs))
    BY DEF Static, ed25519_to_x25519, X25519, pins_remote
  <2>2. args.pattern \in {"XX", "IK"} /\ args.initiator \in BOOLEAN
    BY SessionAssumption
  <2>3. Points(drawn, sent)
    BY SentDrawn DEF SessionInv
  <2> HIDE DEF s, rs
  <2> QED BY <2>1, <2>2, <2>3, Constructed
<1> HIDE DEF g
<1>4. Flags'
  BY <1>1, SessionAssumption DEF SessionInv, Flags
<1>5. /\ \A f \in Endpoint : /\ hs'[f] = IF f = e THEN g ELSE hs[f]
                             /\ state'[f] = IF f = e THEN "open" ELSE state[f]
                             /\ split_done'[f] = IF f = e THEN FALSE ELSE split_done[f]
                             /\ sessions'[f] = IF f = e THEN sessions[e] + 1 ELSE sessions[f]
                             /\ sessions[f] \in Nat
      /\ DOMAIN hs' = Endpoint
  BY <1>1, SessionAssumption DEF SessionInv, Objects, Flags
<1>6. /\ \A f \in Endpoint : sessions[f] \in Nat /\ sessions'[f] \in Nat /\ sessions[f] <= sessions'[f]
      /\ sessions'[e] = sessions[e] + 1
  <2>1. \A f \in Endpoint : /\ sessions[f] \in Nat
                            /\ sessions'[f] = IF f = e THEN sessions[e] + 1 ELSE sessions[f]
    BY <1>5
  <2> QED BY <2>1
<1>7. \A n \in Nat : \A f \in Endpoint : n \in 0..sessions[f] =>
          n \in 0..sessions'[f] /\ (f = e => n < sessions'[e])
  BY <1>6
<1>8. Objects'
  BY <1>2, <1>3, <1>5 DEF SessionInv, Objects
<1>9. Wire'
  BY <1>1, <1>2 DEF SessionInv, Wire
<1>10. Recorded'
  <2> SUFFICES ASSUME NEW v \in events PROVE EventOK(v, drawn, sessions')
    BY <1>1, <1>2 DEF Recorded
  <2>1. EventOK(v, drawn, sessions) /\ v.endpoint \in Endpoint
    BY DEF SessionInv, Recorded, EventOK
  <2>2. sessions[v.endpoint] \in Nat /\ sessions'[v.endpoint] \in Nat
        /\ sessions[v.endpoint] <= sessions'[v.endpoint]
    BY <1>6, <2>1
  <2> QED BY <2>1, <2>2, EventGrows
<1>11. \A v \in events : /\ v.endpoint \in Endpoint /\ v.session \in 0..sessions[v.endpoint]
                         /\ v.endpoint = e => v.session < sessions'[e]
  <2>1. \A v \in events : v.endpoint \in Endpoint /\ v.session \in 0..sessions[v.endpoint]
    BY DEF SessionInv, Recorded, EventOK
  <2> QED BY <1>7, <2>1
<1>12. EphemeralsUnique'
  BY <1>1, <1>3, <1>5 DEF SessionInv, EphemeralsUnique, same_session
<1>13. EphemeralsFresh'
  <2>1. ASSUME NEW v \in events, NEW f \in Endpoint, v.endpoint = f, v.session < sessions'[f],
               hs'[f].e_pk # Zero
        PROVE  hs'[f].e_pk # v.re
    <3>1. f # e
      BY <1>3, <1>5, <2>1
    <3>2. hs'[f] = hs[f] /\ sessions'[f] = sessions[f]
      BY <1>5, <3>1
    <3> QED BY <2>1, <3>2 DEF SessionInv, EphemeralsFresh
  <2> QED BY <1>1, <2>1 DEF SessionInv, EphemeralsFresh
<1>14. StepsOnce'
  <2>1. \A v, w \in events : same_session(v, w) =>
           v.pattern = w.pattern /\ (v.step = w.step => v = w)
    BY DEF SessionInv, StepsOnce
  <2>2. ASSUME NEW v \in events, state'[v.endpoint] = "open", v.session = sessions'[v.endpoint]
        PROVE  v.pattern = hs'[v.endpoint].pattern /\ v.step <= hs'[v.endpoint].step
    <3>1. v.endpoint \in Endpoint /\ v.endpoint # e
      <4>1. v.endpoint \in Endpoint /\ (v.endpoint = e => v.session < sessions'[e])
        BY <1>11
      <4>2. sessions'[e] \in Nat
        BY <1>6
      <4> QED BY <2>2, <4>1, <4>2
    <3>2. /\ hs'[v.endpoint] = hs[v.endpoint] /\ state'[v.endpoint] = state[v.endpoint]
          /\ sessions'[v.endpoint] = sessions[v.endpoint]
      BY <1>5, <3>1
    <3> QED BY <2>2, <3>2 DEF SessionInv, StepsOnce
  <2> QED BY <1>1, <2>1, <2>2 DEF StepsOnce, same_session
<1>15. CompleteOnRecord'
  <2>1. ~is_complete(g)
    BY <1>3, Steps DEF is_complete
  <2> QED BY <1>2, <1>5, <2>1 DEF SessionInv, CompleteOnRecord
<1>16. ExportsOnRecord'
  <2>1. \A x \in exports : x.endpoint \in Endpoint /\ x.session \in 0..sessions[x.endpoint]
    BY DEF SessionInv, ExportsOnRecord
  <2>2. \A x \in exports : /\ x.session \in 0..sessions'[x.endpoint]
                           /\ x.endpoint = e => x.session # sessions'[e]
    BY <1>6, <1>7, <2>1
  <2> QED BY <1>1, <1>2, <1>5, <2>1, <2>2 DEF SessionInv, ExportsOnRecord, same_session
<1> QED BY <1>4, <1>8, <1>9, <1>10, <1>12, <1>13, <1>14, <1>15, <1>16 DEF SessionInv

\* handshake_close, and the part of an export that is not about the keys: an
\* object loses its ephemeral.
LEMMA Wiping ==
    ASSUME SessionInv, NEW e \in Endpoint, NEW g, g.e_pk = Zero, g.pattern = hs[e].pattern,
           g.step = hs[e].step, state[e] = "open",
           hs' = [hs EXCEPT ![e] = g], UNCHANGED <<chan, ephemerals, sessions, events>>,
           \A f \in Endpoint \ {e} : state'[f] = state[f] /\ split_done'[f] = split_done[f],
           \/ state'[e] = "none" /\ Closed(g)
           \/ state'[e] = "open" /\ split_done'[e] /\ Spent(g)
    PROVE  /\ Objects' /\ Wire' /\ Recorded' /\ EphemeralsUnique' /\ EphemeralsFresh'
           /\ StepsOnce' /\ CompleteOnRecord' /\ completions' = completions
<1>1. drawn' = drawn /\ sent' = sent /\ completions' = completions
  BY DEF drawn, sent, completions
<1>2. DOMAIN hs' = Endpoint /\ \A f \in Endpoint : hs'[f] = IF f = e THEN g ELSE hs[f]
  BY DEF SessionInv, Objects
<1>3. Objects'
  BY <1>1, <1>2 DEF SessionInv, Objects
<1>4. Wire' /\ Recorded'
  BY <1>1 DEF SessionInv, Wire, Recorded
<1>5. EphemeralsUnique' /\ EphemeralsFresh'
  BY <1>2 DEF SessionInv, EphemeralsUnique, EphemeralsFresh, same_session
<1>6. StepsOnce'
  <2>1. \A v \in events : v.endpoint \in Endpoint
    BY DEF SessionInv, Recorded, EventOK
  <2> QED BY <1>2, <2>1 DEF SessionInv, StepsOnce, same_session
<1>7. CompleteOnRecord'
  BY <1>1, <1>2 DEF SessionInv, CompleteOnRecord
<1> QED BY <1>1, <1>3, <1>4, <1>5, <1>6, <1>7

\* handshake_close, at any point.
LEMMA HandshakeClose ==
    ASSUME SessionInv, NEW e \in Endpoint, handshake_close(e)
    PROVE  SessionInv'
<1> DEFINE g == destroyed(hs[e])
<1>1. /\ state[e] = "open" /\ state' = [state EXCEPT ![e] = "none"] /\ hs' = [hs EXCEPT ![e] = g]
      /\ UNCHANGED <<split_done, keys_exported, chan, ephemerals, sessions, faults, events,
                     poisoned, exports>>
  BY DEF handshake_close
<1>2. Typed(hs[e])
  BY OwnDrawn DEF SessionInv
<1>3. Closed(g)
  BY <1>2, Destroyed
<1>4. g.e_pk = Zero /\ g.pattern = hs[e].pattern /\ g.step = hs[e].step
  BY <1>2 DEF destroyed, wipe_dh_arrays, Typed, IsHandshake
<1> HIDE DEF g
<1>5. Flags'
  BY <1>1 DEF SessionInv, Flags
<1>6. \A f \in Endpoint : state'[f] = IF f = e THEN "none" ELSE state[f]
  BY <1>1 DEF SessionInv, Flags
<1>7. /\ Objects' /\ Wire' /\ Recorded' /\ EphemeralsUnique' /\ EphemeralsFresh'
      /\ StepsOnce' /\ CompleteOnRecord' /\ completions' = completions
  BY <1>1, <1>3, <1>4, <1>6, Wiping
<1>8. ExportsOnRecord'
  BY <1>1, <1>6, <1>7 DEF SessionInv, ExportsOnRecord, same_session
<1> QED BY <1>5, <1>7, <1>8 DEF SessionInv

\* export_transport_keys: Split, the copies and the two flags.
LEMMA ExportTransportKeys ==
    ASSUME SessionInv, NEW e \in Endpoint, export_transport_keys(e)
    PROVE  SessionInv'
<1> DEFINE s == handshake_split(hs[e])
           g == s.hs
           x == [endpoint |-> e, session |-> sessions[e], initiator |-> hs[e].initiator,
                 self |-> hs[e].s_pk, send_cipher_key |-> s.send.k, recv_cipher_key |-> s.recv.k,
                 peer_static_pk |-> s.hs.rs, handshake_hash |-> s.hs.symmetric.h]
<1>1. /\ state[e] = "open" /\ is_complete(hs[e]) /\ ~split_done[e]
      /\ hs' = [hs EXCEPT ![e] = g] /\ exports' = exports \cup {x}
      /\ split_done' = [split_done EXCEPT ![e] = TRUE]
      /\ keys_exported' = [keys_exported EXCEPT ![e] = TRUE]
      /\ UNCHANGED <<state, chan, ephemerals, sessions, faults, events, poisoned>>
  BY DEF export_transport_keys
<1>2. Object(hs[e], drawn, sent) /\ IsHandshake(hs[e])
  BY <1>1 DEF SessionInv, Objects, Session, Object
<1> DEFINE k == hkdf2(hs[e].symmetric.ck, Empty)
           first == CipherKey(k.output1)
           second == CipherKey(k.output2)
<1>3. /\ s.send.k = IF hs[e].initiator THEN first ELSE second
      /\ s.recv.k = IF hs[e].initiator THEN second ELSE first
  BY DEF handshake_split, split, initialize_key
<1>4. g = [hs[e] EXCEPT !.symmetric = [hs[e].symmetric EXCEPT !.ck = Zero], !.s_sk = Zero,
                        !.e_sk = Zero, !.e_pk = Zero, !.re = Zero]
  BY DEF handshake_split, split
<1>5. /\ DOMAIN g = DOMAIN hs[e] /\ g.symmetric = [hs[e].symmetric EXCEPT !.ck = Zero]
      /\ g.s_sk = Zero /\ g.e_sk = Zero /\ g.e_pk = Zero /\ g.re = Zero /\ g.rs = hs[e].rs
      /\ g.pattern = hs[e].pattern /\ g.initiator = hs[e].initiator /\ g.step = hs[e].step
  BY <1>2, <1>4 DEF IsHandshake
<1>6. /\ IsSymmetric(g.symmetric) /\ g.symmetric.ck = Zero
      /\ g.symmetric.h = hs[e].symmetric.h /\ g.symmetric.cipher = hs[e].symmetric.cipher
  BY <1>2, <1>5 DEF IsHandshake, IsSymmetric
<1>7. /\ x.endpoint = e /\ x.session = sessions[e] /\ x.initiator = hs[e].initiator
      /\ x.self = hs[e].s_pk /\ x.send_cipher_key = s.send.k /\ x.recv_cipher_key = s.recv.k
      /\ x.peer_static_pk = g.rs /\ x.handshake_hash = g.symmetric.h
  OBVIOUS
<1> HIDE DEF s, g, x
<1>8. Spent(g)
  <2>1. hs[e].step = pattern_total_steps[hs[e].pattern]
    BY <1>1, <1>2, Steps DEF Object, is_complete
  <2> QED BY <1>2, <1>5, <1>6, <2>1 DEF Spent, Typed, Object, IsHandshake
<1>9. Flags'
  BY <1>1 DEF SessionInv, Flags
<1>10. \A f \in Endpoint : split_done'[f] = IF f = e THEN TRUE ELSE split_done[f]
  BY <1>1 DEF SessionInv, Flags
<1>11. /\ Objects' /\ Wire' /\ Recorded' /\ EphemeralsUnique' /\ EphemeralsFresh'
       /\ StepsOnce' /\ CompleteOnRecord' /\ completions' = completions
  BY <1>1, <1>5, <1>8, <1>10, Wiping
<1>12. ExportsOnRecord'
  <2>1. PICK c \in completions : matches(c, e, sessions[e], hs[e])
    BY <1>1 DEF SessionInv, CompleteOnRecord
  <2>2. exported_by(x, c)
    BY <1>3, <1>5, <1>6, <1>7, <2>1 DEF exported_by, matches
  <2>3. \A y \in exports : ~same_session(x, y)
    BY <1>1, <1>7 DEF SessionInv, ExportsOnRecord, same_session
  <2>4. sessions[e] \in 0..sessions[e]
    BY SessionAssumption DEF SessionInv, Flags
  <2>5. \A y \in exports' : \E d \in completions' : exported_by(y, d)
    BY <1>1, <1>11, <2>1, <2>2 DEF SessionInv, ExportsOnRecord
  <2>6. \A y \in exports' : /\ y.endpoint \in Endpoint /\ y.session \in 0..sessions[y.endpoint]
                            /\ state[y.endpoint] = "open" /\ y.session = sessions[y.endpoint]
                                 => split_done'[y.endpoint]
    BY <1>1, <1>7, <1>10, <2>4 DEF SessionInv, ExportsOnRecord
  <2>7. \A y, z \in exports' : same_session(y, z) => y = z
    BY <1>1, <2>3 DEF SessionInv, ExportsOnRecord, same_session
  <2> QED BY <1>1, <2>5, <2>6, <2>7 DEF ExportsOnRecord, same_session
<1> QED BY <1>9, <1>11, <1>12 DEF SessionInv
-----------------------------------------------------------------------------
\* Every step preserves the invariant.
LEMMA SessionNext == SessionInv /\ [Next]_vars => SessionInv'
<1> SUFFICES ASSUME SessionInv, [Next]_vars PROVE SessionInv'
  OBVIOUS
<1>1. ASSUME NEW e \in Endpoint, NEW args \in OpenArgs[e], handshake_open(e, args)
      PROVE  SessionInv'
  BY <1>1, HandshakeOpen
<1>2. ASSUME NEW e \in Endpoint, handshake_step(e)
      PROVE  SessionInv'
  BY <1>2, StepWithoutInput, StepReadAndWrite, StepReadOnly DEF handshake_step
<1>3. ASSUME NEW e \in Endpoint, export_transport_keys(e)
      PROVE  SessionInv'
  BY <1>3, ExportTransportKeys
<1>4. ASSUME NEW e \in Endpoint, handshake_close(e)
      PROVE  SessionInv'
  BY <1>4, HandshakeClose
<1>5. ASSUME NEW e \in Endpoint, link(e)
      PROVE  SessionInv'
  BY <1>5, LinkStep
<1>6. CASE UNCHANGED vars
  <2>1. Sessions' /\ sent' = sent
    BY <1>6, Quiet DEF vars, SessionInv, Objects
  <2>2. Flags' /\ Wire'
    BY <1>6, <2>1 DEF vars, SessionInv, Flags, Wire
  <2> QED BY <2>1, <2>2 DEF SessionInv, Sessions
<1> QED BY <1>1, <1>2, <1>3, <1>4, <1>5, <1>6 DEF Next

\* The inductive invariant: it holds after every sequence of provider calls
\* by any number of endpoints and of faults of the link.
THEOREM SessionInvariant == Spec => []SessionInv
  BY SessionInit, SessionNext, PTL DEF Spec

\* Types and ranges; in particular no handshake cipher encrypts more than
\* twice under one key, so the abort at the end of the nonce range
\* (cipher.cpp) is out of reach during a handshake.
THEOREM SessionTypes == Spec => []TypeOK
<1>1. SessionInv => TypeOK
  <2> SUFFICES ASSUME SessionInv PROVE TypeOK
    OBVIOUS
  <2>1. ASSUME NEW e \in Endpoint
        PROVE  /\ hs[e].pattern \in {"XX", "IK"} /\ hs[e].initiator \in BOOLEAN
               /\ hs[e].step \in 0..pattern_total_steps[hs[e].pattern]
               /\ hs[e].symmetric.cipher.n \in 0..2
    <3>1. Typed(hs[e])
      BY OwnDrawn DEF SessionInv
    <3>2. CASE state[e] = "none"
      <4>1. hs[e].symmetric = symmetric_destroyed
        BY <3>2 DEF SessionInv, Objects, Closed
      <4>2. symmetric_destroyed.cipher.n = 0
        BY DEF symmetric_destroyed, zeroized
      <4> QED BY <3>1, <4>1, <4>2 DEF Typed
    <3>3. CASE state[e] = "open"
      <4>1. hs[e].symmetric.cipher.n \in 0..1
        BY <3>3 DEF SessionInv, Objects, Spent, Session, Object
      <4> QED BY <3>1, <4>1 DEF Typed
    <3> QED BY <3>2, <3>3 DEF SessionInv, Flags
  <2> QED BY <2>1 DEF TypeOK, SessionInv, Flags
<1> QED BY <1>1, SessionInvariant, PTL

\* What HandshakeState::split cleared stays clear whatever the kernel calls
\* afterwards, and a closed session holds no key material.
THEOREM Wiped == Spec => []WipedStaysWiped
<1>1. SessionInv => WipedStaysWiped
  <2> SUFFICES ASSUME SessionInv, NEW e \in Endpoint
               PROVE  /\ state[e] = "open" /\ split_done[e] =>
                            {hs[e].s_sk, hs[e].e_sk, hs[e].e_pk, hs[e].re,
                             hs[e].symmetric.ck} = {Zero}
                      /\ state[e] = "none" =>
                            {hs[e].s_sk, hs[e].e_sk, hs[e].symmetric.ck, hs[e].symmetric.h,
                             hs[e].symmetric.cipher.k.base} = {Zero}
    BY DEF WipedStaysWiped
  <2>1. state[e] = "open" /\ split_done[e] =>
           {hs[e].s_sk, hs[e].e_sk, hs[e].e_pk, hs[e].re, hs[e].symmetric.ck} = {Zero}
    BY DEF SessionInv, Objects, Spent
  <2>2. state[e] = "none" =>
           {hs[e].s_sk, hs[e].e_sk, hs[e].symmetric.ck, hs[e].symmetric.h,
            hs[e].symmetric.cipher.k.base} = {Zero}
    <3>1. /\ symmetric_destroyed.ck = Zero /\ symmetric_destroyed.h = Zero
          /\ symmetric_destroyed.cipher.k.base = Zero
      BY DEF symmetric_destroyed, zeroized, NoKey, CipherKey
    <3> QED BY <3>1 DEF SessionInv, Objects, Closed
  <2> QED BY <2>1, <2>2
<1> QED BY <1>1, SessionInvariant, PTL

\* The keys of an export are those of a completed transcript of that very
\* session, in the order of its role.
THEOREM ExportsAreCompletions == Spec => []ExportMatchesCompletion
<1>1. SessionInv => ExportMatchesCompletion
  <2> SUFFICES ASSUME SessionInv, NEW x \in exports
               PROVE  \E c \in completions :
                         LET k == hkdf2(c.ck, Empty)
                         IN  /\ c.endpoint = x.endpoint /\ c.session = x.session
                             /\ c.h = x.handshake_hash /\ c.peer = x.peer_static_pk
                             /\ {x.send_cipher_key, x.recv_cipher_key} =
                                   {CipherKey(k.output1), CipherKey(k.output2)}
    BY DEF ExportMatchesCompletion
  <2>1. PICK c \in completions : exported_by(x, c)
    BY DEF SessionInv, ExportsOnRecord
  <2> WITNESS c \in completions
  <2>2. c.initiator \in BOOLEAN
    BY DEF completions, SessionInv, Recorded, EventOK
  <2> QED BY <2>1, <2>2 DEF exported_by
<1> QED BY <1>1, SessionInvariant, PTL
-----------------------------------------------------------------------------
(***************************************************************************)
(* Two ends.  The chaining key of a completion holds the secrets of both   *)
(* ends, and an ephemeral belongs to one session.                          *)
(***************************************************************************)
LEMMA CompletionEnds ==
    ASSUME SessionInv, NEW c \in completions
    PROVE  /\ c \in events /\ c.endpoint \in Endpoint /\ c.session \in Nat
           /\ c.pattern \in {"XX", "IK"} /\ c.initiator \in BOOLEAN
           /\ c.step = pattern_total_steps[c.pattern]
           /\ Agreed(c.pattern, c.initiator, c.ck, c.self, c.peer, c.eph, c.re)
           /\ Binds(c.h, c.ck) /\ Static(c.self) /\ Static(c.peer)
           /\ ~Static(c.eph) /\ ~Static(c.re) /\ c.eph # Zero /\ c.re # Zero
<1>1. c \in events /\ c.step = pattern_total_steps[c.pattern]
  BY DEF completions
<1>2. EventOK(c, drawn, sessions)
  BY <1>1 DEF SessionInv, Recorded
<1>3. c.session \in Nat
  <2>1. sessions[c.endpoint] \in Nat
    BY <1>2, SessionAssumption DEF EventOK, SessionInv, Flags
  <2> QED BY <1>2, <2>1 DEF EventOK
<1>4. \A t \in drawn : t[1] = "ephemeral"
  BY Drawn DEF SessionInv, Flags
<1>5. ~Static(c.eph) /\ ~Static(c.re)
  BY <1>2, <1>4 DEF EventOK, Static, Zero, Garbage
<1> QED BY <1>1, <1>2, <1>3, <1>5 DEF EventOK

\* A chaining key belongs to one session, or to the two ends of a handshake.
LEMMA OneHandshake ==
    ASSUME SessionInv, NEW c \in completions, NEW d \in completions, c.ck = d.ck
    PROVE  \/ c = d
           \/ /\ c.initiator # d.initiator /\ c.self = d.peer /\ c.peer = d.self
              /\ c.eph = d.re /\ d.eph = c.re
<1>1. \/ c.eph = d.eph
      \/ /\ c.initiator # d.initiator /\ c.self = d.peer /\ c.peer = d.self
         /\ c.eph = d.re /\ d.eph = c.re
  BY CompletionEnds, Partners
<1>2. ASSUME c.eph = d.eph
      PROVE  c = d
  <2>1. same_session(c, d)
    BY <1>2, CompletionEnds DEF SessionInv, EphemeralsUnique
  <2> QED BY <2>1, CompletionEnds DEF SessionInv, StepsOnce
<1> QED BY <1>1, <1>2

\* The two ends are different sessions of different endpoints: no session
\* of an endpoint completes with one that the same endpoint opened.
LEMMA EndsApart ==
    ASSUME SessionInv, NEW c \in completions, NEW d \in completions, c.ck = d.ck, c # d
    PROVE  c.endpoint # d.endpoint
<1>1. c.eph = d.re /\ d.eph = c.re
  BY OneHandshake
<1> SUFFICES ASSUME c.endpoint = d.endpoint PROVE FALSE
  OBVIOUS
<1>2. c.session \in Nat /\ d.session \in Nat
  BY CompletionEnds
<1>3. CASE c.session = d.session
  BY <1>3, CompletionEnds DEF SessionInv, StepsOnce, same_session
<1>4. CASE c.session < d.session
  BY <1>1, <1>4, CompletionEnds DEF SessionInv, EphemeralsFresh
<1>5. CASE d.session < c.session
  BY <1>1, <1>5, CompletionEnds DEF SessionInv, EphemeralsFresh
<1> QED BY <1>2, <1>3, <1>4, <1>5

\* Two sessions that complete with the same handshake hash are the two ends
\* of one handshake: opposite roles, one chaining key, and each holds the
\* other's static key (read_message, write_message), whatever was lost,
\* damaged or replayed into a later session.
THEOREM Pairing == Spec => []CompletionsPairUp
<1>1. SessionInv => CompletionsPairUp
  <2> SUFFICES ASSUME SessionInv, NEW c \in completions, NEW d \in completions,
                      c.h = d.h, c # d
               PROVE  /\ c.initiator # d.initiator
                      /\ c.ck = d.ck /\ c.self = d.peer /\ c.peer = d.self
    BY DEF CompletionsPairUp
  <2>1. c.ck = d.ck
    BY CompletionEnds DEF Binds
  <2> QED BY <2>1, OneHandshake
<1> QED BY <1>1, SessionInvariant, PTL

\* The keys of a split determine the chaining key, and each tells its rank.
LEMMA SplitKeys ==
    ASSUME NEW a, NEW b
    PROVE  LET k == hkdf2(a, Empty)
               l == hkdf2(b, Empty)
           IN  /\ CipherKey(k.output1) # CipherKey(l.output2)
               /\ CipherKey(k.output1) = CipherKey(l.output1) => a = b
               /\ CipherKey(k.output2) = CipherKey(l.output2) => a = b
<1> DEFINE one(ck) == CipherKey(hkdf2(ck, Empty).output1)
           two(ck) == CipherKey(hkdf2(ck, Empty).output2)
<1>1. \A ck : one(ck).base[3][1] = "byte" /\ one(ck).base[2][2] = ck
  BY DEF hkdf2, hmac_blake2b, CipherKey
<1>2. \A ck : two(ck).base[3][1] = "cat" /\ two(ck).base[2][2] = ck
  BY DEF hkdf2, hmac_blake2b, CipherKey
<1> HIDE DEF one, two
<1>3. one(a) # two(b)
  BY <1>1, <1>2
<1>4. (one(a) = one(b) => a = b) /\ (two(a) = two(b) => a = b)
  BY <1>1, <1>2
<1> QED BY <1>3, <1>4 DEF one, two

\* An export and the completion it comes from.
LEMMA ExportOf ==
    ASSUME SessionInv, NEW x \in exports
    PROVE  \E c \in completions :
              /\ exported_by(x, c)
              /\ c.initiator \in BOOLEAN
<1>1. PICK c \in completions : exported_by(x, c)
  BY DEF SessionInv, ExportsOnRecord
<1> QED BY <1>1, CompletionEnds

\* A completion is exported once.
LEMMA OneExport ==
    ASSUME SessionInv, NEW x \in exports, NEW y \in exports,
           NEW c, exported_by(x, c), exported_by(y, c)
    PROVE  x = y
<1>1. same_session(x, y)
  BY DEF same_session, exported_by
<1> QED BY <1>1 DEF SessionInv, ExportsOnRecord

\* What one end sends with, the other receives with, and each names the
\* other as its peer (noise_export_transport_keys).
THEOREM MirrorKeys == Spec => []ExportedKeysMirror
<1>1. SessionInv => ExportedKeysMirror
  <2> SUFFICES ASSUME SessionInv, NEW x \in exports, NEW y \in exports,
                      x.handshake_hash = y.handshake_hash, x # y
               PROVE  /\ x.send_cipher_key = y.recv_cipher_key
                      /\ x.recv_cipher_key = y.send_cipher_key
                      /\ x.peer_static_pk = y.self /\ y.peer_static_pk = x.self
    BY DEF ExportedKeysMirror
  <2>1. PICK c \in completions : exported_by(x, c) /\ c.initiator \in BOOLEAN
    BY ExportOf
  <2>2. PICK d \in completions : exported_by(y, d) /\ d.initiator \in BOOLEAN
    BY ExportOf
  <2>3. c # d
    BY <2>1, <2>2, OneExport
  <2>4. c.ck = d.ck
    <3>1. c.h = d.h
      BY <2>1, <2>2 DEF exported_by
    <3> QED BY <3>1, CompletionEnds DEF Binds
  <2>5. c.initiator # d.initiator /\ c.self = d.peer /\ c.peer = d.self
    BY <2>3, <2>4, OneHandshake
  <2>6. x.peer_static_pk = y.self /\ y.peer_static_pk = x.self
    BY <2>1, <2>2, <2>5 DEF exported_by
  <2>7. x.send_cipher_key = y.recv_cipher_key /\ x.recv_cipher_key = y.send_cipher_key
    BY <2>1, <2>2, <2>4, <2>5 DEF exported_by
  <2> QED BY <2>6, <2>7
<1> QED BY <1>1, SessionInvariant, PTL

\* The keys of an export are new: the two differ, and of all the exports
\* only the peer's end of the same handshake has one of them, so that the
\* nonces, which start at zero in TransportState, never meet again.
THEOREM FreshKeys == Spec => []ExportedKeysFresh
<1>1. SessionInv => ExportedKeysFresh
  <2> SUFFICES ASSUME SessionInv PROVE ExportedKeysFresh
    OBVIOUS
  <2>1. ASSUME NEW x \in exports
        PROVE  x.send_cipher_key # x.recv_cipher_key
    <3>1. PICK c \in completions : exported_by(x, c) /\ c.initiator \in BOOLEAN
      BY ExportOf
    <3>2. CipherKey(hkdf2(c.ck, Empty).output1) # CipherKey(hkdf2(c.ck, Empty).output2)
      BY SplitKeys
    <3> QED BY <3>1, <3>2 DEF exported_by
  <2>2. ASSUME NEW x \in exports, NEW y \in exports,
               {x.send_cipher_key, x.recv_cipher_key} \cap
               {y.send_cipher_key, y.recv_cipher_key} # {}
        PROVE  x = y \/ (x.endpoint # y.endpoint /\ x.initiator # y.initiator)
    <3>1. PICK c \in completions : exported_by(x, c) /\ c.initiator \in BOOLEAN
      BY ExportOf
    <3>2. PICK d \in completions : exported_by(y, d) /\ d.initiator \in BOOLEAN
      BY ExportOf
    <3>3. c.ck = d.ck
      <4> DEFINE c1 == CipherKey(hkdf2(c.ck, Empty).output1)
                 c2 == CipherKey(hkdf2(c.ck, Empty).output2)
                 d1 == CipherKey(hkdf2(d.ck, Empty).output1)
                 d2 == CipherKey(hkdf2(d.ck, Empty).output2)
      <4>1. {x.send_cipher_key, x.recv_cipher_key} = {c1, c2}
        BY <3>1 DEF exported_by
      <4>2. {y.send_cipher_key, y.recv_cipher_key} = {d1, d2}
        BY <3>2 DEF exported_by
      <4>3. c1 # d2 /\ d1 # c2 /\ (c1 = d1 => c.ck = d.ck) /\ (c2 = d2 => c.ck = d.ck)
        BY SplitKeys
      <4> HIDE DEF c1, c2, d1, d2
      <4> QED BY <2>2, <4>1, <4>2, <4>3
    <3>4. CASE c = d
      BY <3>1, <3>2, <3>4, OneExport
    <3>5. CASE c # d
      <4>1. c.endpoint # d.endpoint /\ c.initiator # d.initiator
        BY <3>3, <3>5, OneHandshake, EndsApart
      <4> QED BY <3>1, <3>2, <4>1 DEF exported_by
    <3> QED BY <3>4, <3>5
  <2> QED BY <2>1, <2>2 DEF ExportedKeysFresh
<1> QED BY <1>1, SessionInvariant, PTL

\* Once a handshake is complete no call on the session moves the peer key,
\* the channel binding or the step count: write_message and read_message
\* refuse, and Split leaves the three alone.
THEOREM Pinned == Spec => IdentityPinned
<1> DEFINE Same(e) == /\ hs'[e].rs = hs[e].rs /\ hs'[e].step = hs[e].step
                      /\ hs'[e].symmetric.h = hs[e].symmetric.h
           Keeps == \A e \in Endpoint :
                      state[e] = "open" /\ state'[e] = "open" /\ is_complete(hs[e]) => Same(e)
<1>1. ASSUME SessionInv, [Next]_vars
      PROVE  Keeps
  <2> SUFFICES ASSUME NEW e \in Endpoint, state[e] = "open", state'[e] = "open",
                      is_complete(hs[e])
               PROVE  Same(e)
    OBVIOUS
  <2>1. IsHandshake(hs[e]) /\ DOMAIN hs = Endpoint /\ DOMAIN state = Endpoint
    BY <1>1, OpenSession DEF SessionInv, Objects, Flags
  <2>2. ASSUME NEW f \in Endpoint, NEW g, hs' = [hs EXCEPT ![f] = g],
               f = e => g = hs[e]
        PROVE  Same(e)
    BY <2>1, <2>2
  <2>3. ASSUME NEW f \in Endpoint, NEW args \in OpenArgs[f], handshake_open(f, args)
        PROVE  Same(e)
    <3>1. f # e
      BY <2>3 DEF handshake_open
    <3> QED BY <2>1, <2>3, <3>1 DEF handshake_open
  <2>4. ASSUME NEW f \in Endpoint, NEW oom \in BOOLEAN, step_without_input(f, oom)
        PROVE  Same(e)
    <3> DEFINE w == write_message(hs[f], generate_keypair(ephemerals + 1))
    <3>1. hs' = [hs EXCEPT ![f] = w.hs]
      BY <2>4 DEF step_without_input, write_branch
    <3>2. f = e => w.hs = hs[e]
      BY <2>1, CompleteRefuses
    <3> HIDE DEF w
    <3> QED BY <2>2, <3>1, <3>2
  <2>5. ASSUME NEW f \in Endpoint, NEW oom \in BOOLEAN, step_read_and_write(f, oom)
        PROVE  Same(e)
    <3> DEFINE r == read_message(hs[f], Head(chan[f]))
               w == write_message(r.hs, generate_keypair(ephemerals + 1))
    <3>1. hs' = [hs EXCEPT ![f] = w.hs] /\ r.ok
      BY <2>5 DEF step_read_and_write, write_branch, no_write_after
    <3>2. f # e
      BY <2>1, <3>1, CompleteRefuses
    <3> HIDE DEF w
    <3> QED BY <2>2, <3>1, <3>2
  <2>6. ASSUME NEW f \in Endpoint, step_read_only(f)
        PROVE  Same(e)
    <3> DEFINE r == read_message(hs[f], Head(chan[f]))
    <3>1. hs' = [hs EXCEPT ![f] = r.hs]
      BY <2>6 DEF step_read_only
    <3>2. f = e => r.hs = hs[e]
      BY <2>1, CompleteRefuses
    <3> HIDE DEF r
    <3> QED BY <2>2, <3>1, <3>2
  <2>7. ASSUME NEW f \in Endpoint, export_transport_keys(f)
        PROVE  Same(e)
    <3> DEFINE g == handshake_split(hs[f]).hs
    <3>1. hs' = [hs EXCEPT ![f] = g]
      BY <2>7 DEF export_transport_keys
    <3>2. CASE f = e
      <4>1. g = [hs[e] EXCEPT !.symmetric = [hs[e].symmetric EXCEPT !.ck = Zero], !.s_sk = Zero,
                              !.e_sk = Zero, !.e_pk = Zero, !.re = Zero]
        BY <3>2 DEF handshake_split, split
      <4>2. /\ g.rs = hs[e].rs /\ g.step = hs[e].step
            /\ g.symmetric = [hs[e].symmetric EXCEPT !.ck = Zero]
        BY <2>1, <4>1 DEF IsHandshake
      <4> HIDE DEF g
      <4>3. g.symmetric.h = hs[e].symmetric.h
        BY <2>1, <4>2 DEF IsHandshake, IsSymmetric
      <4> QED BY <2>1, <3>1, <3>2, <4>2, <4>3
    <3>3. CASE f # e
      <4> HIDE DEF g
      <4> QED BY <2>2, <3>1, <3>3
    <3> QED BY <3>2, <3>3
  <2>8. ASSUME NEW f \in Endpoint, handshake_close(f)
        PROVE  Same(e)
    <3>1. f # e
      BY <2>1, <2>8 DEF handshake_close
    <3> QED BY <2>1, <2>8, <3>1 DEF handshake_close
  <2>9. ASSUME NEW f \in Endpoint, link(f)
        PROVE  Same(e)
    <3>1. hs' = hs
      BY <2>9 DEF link, lose, duplicate, reorder, damage, truncate, extend, link_only
    <3> QED BY <3>1
  <2>10. CASE UNCHANGED vars
    BY <2>10 DEF vars
  <2> QED BY <1>1, <2>3, <2>4, <2>5, <2>6, <2>7, <2>8, <2>9, <2>10 DEF Next, handshake_step
<1>2. SessionInv /\ [Next]_vars => [Keeps]_vars
  BY <1>1
<1> QED BY <1>2, SessionInvariant, PTL DEF Spec, IdentityPinned
===============================================================================
