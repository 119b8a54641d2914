----------------------------- MODULE NoiseSession -----------------------------
(***************************************************************************)
(* The handshake phase of the security provider (noise.cpp): endpoints     *)
(* that open a NoiseSession, drive it with handshake_step, export the      *)
(* transport keys and close it, over a link that may lose, duplicate,      *)
(* reorder, damage or truncate handshake messages.  A call that fails      *)
(* without changing anything is not a step.                                *)
(***************************************************************************)
EXTENDS HandshakeState, FiniteSets

CONSTANTS
    Endpoint,        \* the processes that hold sessions
    Peer,            \* Peer[e] is the endpoint at the other end of e's link
    OpenArgs,        \* OpenArgs[e]: the argument records e may pass to handshake_open
    MaxOpens,        \* bound: sessions an endpoint opens, one after the other
    MaxEphemerals,   \* bound: ephemeral key pairs generated in all
    MaxFaults,       \* bound: link faults and failed allocations
    Faults           \* the kinds of fault that may happen

AllFaults == {"lose", "duplicate", "reorder", "damage", "zero", "truncate", "extend",
              "out_of_memory"}

ASSUME SessionAssumption ==
    /\ Peer \in [Endpoint -> Endpoint]
    /\ \A e \in Endpoint : \A args \in OpenArgs[e] :
          args.pattern \in {"XX", "IK"} /\ args.initiator \in BOOLEAN
    /\ MaxOpens \in Nat /\ MaxEphemerals \in Nat /\ MaxFaults \in Nat
    /\ Faults \subseteq AllFaults

VARIABLES
    state,           \* state[e]: "none" before open and after close, else "open"
    hs,              \* hs[e]: the session's HandshakeState; after close, its memory
    split_done, keys_exported,
    chan,            \* chan[e]: handshake messages on their way to e, oldest first
    ephemerals,      \* key pairs drawn from the random generator so far
    sessions,        \* sessions[e]: sessions e has opened
    faults,          \* faults that have happened
    events,          \* history: every handshake message written or read with success
    poisoned,        \* history: poisoned[e], a failed call changed the open session
    exports          \* history: the key structures handed to the kernel

vars == <<state, hs, split_done, keys_exported, chan, ephemerals, sessions, faults,
          events, poisoned, exports>>

NoSession == destroyed(construct("XX", TRUE, Zero, Empty))

Init ==
    /\ state         = [e \in Endpoint |-> "none"]
    /\ hs            = [e \in Endpoint |-> NoSession]
    /\ split_done    = [e \in Endpoint |-> FALSE]
    /\ keys_exported = [e \in Endpoint |-> FALSE]
    /\ chan          = [e \in Endpoint |-> <<>>]
    /\ ephemerals    = 0
    /\ sessions      = [e \in Endpoint |-> 0]
    /\ faults        = 0
    /\ events        = {}
    /\ poisoned      = [e \in Endpoint |-> FALSE]
    /\ exports       = {}

(***************************************************************************)
(* noise_handshake_open_impl.  args: pattern, initiator, the local Ed25519 *)
(* key and the remote one (Empty for the null pointer).                    *)
(***************************************************************************)
pins_remote(args) == args.pattern = "IK" /\ args.initiator

\* A use of the provider: no IK initiator pins the key that it holds itself.
NobodyPinsItself ==
    \A e \in Endpoint : \A args \in OpenArgs[e] :
        /\ pins_remote(args) /\ args.remote # Empty
        /\ convertible(args.local) /\ convertible(args.remote)
        => ed25519_to_x25519(args.remote) # ed25519_to_x25519(args.local)

handshake_open(e, args) ==
    /\ state[e] = "none" /\ sessions[e] < MaxOpens
    /\ convertible(args.local)
    /\ pins_remote(args) => args.remote # Empty /\ convertible(args.remote)
    /\ state' = [state EXCEPT ![e] = "open"]
    /\ hs' = [hs EXCEPT ![e] =
                construct(args.pattern, args.initiator, ed25519_to_x25519(args.local),
                          IF pins_remote(args) THEN ed25519_to_x25519(args.remote) ELSE Empty)]
    /\ split_done'    = [split_done EXCEPT ![e] = FALSE]
    /\ keys_exported' = [keys_exported EXCEPT ![e] = FALSE]
    /\ sessions' = [sessions EXCEPT ![e] = @ + 1]
    /\ poisoned' = [poisoned EXCEPT ![e] = FALSE]
    /\ UNCHANGED <<chan, ephemerals, faults, events, exports>>

(***************************************************************************)
(* noise_handshake_step.                                                   *)
(***************************************************************************)
\* Mutant: the responder never gets the turn.
InitiatorOnly_writer_turn(h) == h.step % 2 = 0 /\ h.initiator

writer_turn(h) == (h.step % 2 = 0) = h.initiator

\* What a completed pattern message leaves in the object.
event(e, kind, c) ==
    [endpoint |-> e, session |-> sessions[e], kind |-> kind, pattern |-> c.hs.pattern,
     initiator |-> c.hs.initiator, step |-> c.hs.step, keyed |-> c.hs.symmetric.cipher.has_key,
     h |-> c.hs.symmetric.h, ck |-> c.hs.symmetric.ck, self |-> c.hs.s_pk, peer |-> c.hs.rs,
     eph |-> c.hs.e_pk, re |-> c.hs.re,
     seals |-> {c.bytes.fields[i].val : i \in {j \in DOMAIN c.bytes.fields :
                                               is_seal(c.bytes.fields[j].val)}}]

emits(w, oom) == w.ok /\ ~oom

\* The write branch, entered with the object h.  oom is a failed malloc in
\* emit_buffer: the message is gone although the step has advanced.
write_branch(e, h, inbound, read_events, oom) ==
    LET w == write_message(h, generate_keypair(ephemerals + 1))
    IN  /\ ephemerals < MaxEphemerals
        /\ hs' = [hs EXCEPT ![e] = w.hs]
        /\ ephemerals' = ephemerals + (IF writes_ephemeral(h) THEN 1 ELSE 0)
        /\ events' = events \cup read_events
                            \cup (IF w.ok THEN {event(e, "write", w)} ELSE {})
        /\ poisoned' = [poisoned EXCEPT ![e] = @ \/ (~w.ok /\ w.hs # h)]
        /\ chan' = IF emits(w, oom)
                   THEN [inbound EXCEPT ![Peer[e]] = Append(@, w.bytes)]
                   ELSE inbound
        /\ oom => w.ok /\ "out_of_memory" \in Faults /\ faults < MaxFaults
        /\ faults' = faults + (IF oom THEN 1 ELSE 0)
        /\ UNCHANGED <<state, split_done, keys_exported, sessions, exports>>

\* No incoming bytes: the kernel kicks a session that has to write.
step_without_input(e, oom) ==
    /\ state[e] = "open"
    /\ writer_turn(hs[e])
    /\ write_branch(e, hs[e], chan, {}, oom)

\* Incoming bytes that do not read, that complete the handshake, or that
\* leave the peer on duty again.
no_write_after(r) == ~r.ok \/ is_complete(r.hs) \/ ~writer_turn(r.hs)

step_read_only(e) ==
    LET r == read_message(hs[e], Head(chan[e]))
    IN  /\ state[e] = "open" /\ chan[e] # <<>> /\ Head(chan[e]).size > 0
        /\ no_write_after(r)
        /\ hs' = [hs EXCEPT ![e] = r.hs]
        /\ chan' = [chan EXCEPT ![e] = Tail(@)]
        /\ events' = events \cup (IF r.ok THEN {event(e, "read", r)} ELSE {})
        /\ poisoned' = [poisoned EXCEPT ![e] = @ \/ (~r.ok /\ r.hs # hs[e])]
        /\ UNCHANGED <<state, split_done, keys_exported, ephemerals, sessions, faults, exports>>

\* Incoming bytes that read, followed by this side's next message.
step_read_and_write(e, oom) ==
    LET r == read_message(hs[e], Head(chan[e]))
    IN  /\ state[e] = "open" /\ chan[e] # <<>> /\ Head(chan[e]).size > 0
        /\ ~no_write_after(r)
        /\ write_branch(e, r.hs, [chan EXCEPT ![e] = Tail(@)], {event(e, "read", r)}, oom)

(***************************************************************************)
(* noise_export_transport_keys and noise_handshake_close.                  *)
(***************************************************************************)
\* Mutant: a second export is not refused.
Repeatable_export_transport_keys(e) ==
    LET s == handshake_split(hs[e])
    IN  /\ state[e] = "open"
        /\ is_complete(hs[e])
        /\ hs' = [hs EXCEPT ![e] = s.hs]
        /\ exports' = exports \cup
             {[endpoint |-> e, session |-> sessions[e], initiator |-> hs[e].initiator,
               self |-> hs[e].s_pk, send_cipher_key |-> s.send.k, recv_cipher_key |-> s.recv.k,
               peer_static_pk |-> s.hs.rs, handshake_hash |-> s.hs.symmetric.h]}
        /\ split_done'    = [split_done EXCEPT ![e] = TRUE]
        /\ keys_exported' = [keys_exported EXCEPT ![e] = TRUE]
        /\ UNCHANGED <<state, chan, ephemerals, sessions, faults, events, poisoned>>

export_transport_keys(e) ==
    LET s == handshake_split(hs[e])
    IN  /\ state[e] = "open"
        /\ is_complete(hs[e]) /\ ~split_done[e]
        /\ hs' = [hs EXCEPT ![e] = s.hs]
        /\ exports' = exports \cup
             {[endpoint |-> e, session |-> sessions[e], initiator |-> hs[e].initiator,
               self |-> hs[e].s_pk, send_cipher_key |-> s.send.k, recv_cipher_key |-> s.recv.k,
               peer_static_pk |-> s.hs.rs, handshake_hash |-> s.hs.symmetric.h]}
        /\ split_done'    = [split_done EXCEPT ![e] = TRUE]
        /\ keys_exported' = [keys_exported EXCEPT ![e] = TRUE]
        /\ UNCHANGED <<state, chan, ephemerals, sessions, faults, events, poisoned>>

handshake_close(e) ==
    /\ state[e] = "open"
    /\ state' = [state EXCEPT ![e] = "none"]
    /\ hs'    = [hs EXCEPT ![e] = destroyed(@)]
    /\ UNCHANGED <<split_done, keys_exported, chan, ephemerals, sessions, faults,
                   events, poisoned, exports>>

(***************************************************************************)
(* The link (external).                                                    *)
(***************************************************************************)
fault(kind) == kind \in Faults /\ faults < MaxFaults /\ faults' = faults + 1
link_only   == UNCHANGED <<state, hs, split_done, keys_exported, ephemerals, sessions,
                           events, poisoned, exports>>

\* The bytes of field i replaced by val; the last field cut short; bytes added.
with_field(m, i, val) == [m EXCEPT !.fields[i].val = val]
truncated(m) ==
    LET k == Len(m.fields)
    IN  put([size   |-> m.size - m.fields[k].len,
             fields |-> SubSeq(m.fields, 1, k - 1)], m.fields[k].len - 1, Garbage)

lose(e) ==
    /\ fault("lose") /\ link_only
    /\ chan[e] # <<>>
    /\ chan' = [chan EXCEPT ![e] = Tail(@)]

duplicate(e) ==
    /\ fault("duplicate") /\ link_only
    /\ chan[e] # <<>>
    /\ chan' = [chan EXCEPT ![e] = <<Head(@)>> \o @]

reorder(e) ==
    /\ fault("reorder") /\ link_only
    /\ Len(chan[e]) > 1
    /\ chan' = [chan EXCEPT ![e] = Append(Tail(@), Head(@))]

rewrite_head(e, m) == chan' = [chan EXCEPT ![e] = <<m>> \o Tail(@)]

damage(e, kind, val) ==
    /\ fault(kind) /\ link_only
    /\ chan[e] # <<>>
    /\ \E i \in DOMAIN Head(chan[e]).fields :
          rewrite_head(e, with_field(Head(chan[e]), i, val))

truncate(e) ==
    /\ fault("truncate") /\ link_only
    /\ chan[e] # <<>>
    /\ rewrite_head(e, truncated(Head(chan[e])))

extend(e) ==
    /\ fault("extend") /\ link_only
    /\ chan[e] # <<>>
    /\ rewrite_head(e, put(Head(chan[e]), 1, Garbage))

handshake_step(e) ==
    \/ \E oom \in BOOLEAN : step_without_input(e, oom) \/ step_read_and_write(e, oom)
    \/ step_read_only(e)

link(e) ==
    \/ lose(e) \/ duplicate(e) \/ reorder(e)
    \/ damage(e, "damage", Garbage) \/ damage(e, "zero", Zero)
    \/ truncate(e) \/ extend(e)

Next ==
    \E e \in Endpoint :
        \/ \E args \in OpenArgs[e] : handshake_open(e, args)
        \/ handshake_step(e)
        \/ export_transport_keys(e)
        \/ handshake_close(e)
        \/ link(e)

Spec == Init /\ [][Next]_vars

(***************************************************************************)
(* Fairness: the kernel opens the session, hands over what the link        *)
(* delivers, kicks a session that is to write and exports on completion.   *)
(* It is weak fairness of each of the three calls, with the condition that *)
(* enables the call written out.                                           *)
(***************************************************************************)
can_open(e)   == state[e] = "none" /\ sessions[e] < MaxOpens
can_step(e)   == state[e] = "open" /\ (chan[e] # <<>> \/ (writer_turn(hs[e]) /\ ~is_complete(hs[e])))
can_export(e) == state[e] = "open" /\ is_complete(hs[e]) /\ ~split_done[e]

Fairness ==
    \A e \in Endpoint :
        /\ []<>~can_open(e)   \/ []<><<state'[e] = "open" /\ sessions'[e] # sessions[e]>>_vars
        /\ []<>~can_step(e)   \/ []<><<handshake_step(e)>>_vars
        /\ []<>~can_export(e) \/ []<><<split_done'[e] /\ ~split_done[e]>>_vars

FairSpec == Spec /\ Fairness
-----------------------------------------------------------------------------
\* Types.  No handshake cipher encrypts more than twice under one key, so
\* the abort at the end of the nonce range is out of reach.
TypeOK ==
    /\ state \in [Endpoint -> {"none", "open"}]
    /\ split_done \in [Endpoint -> BOOLEAN] /\ keys_exported \in [Endpoint -> BOOLEAN]
    /\ poisoned \in [Endpoint -> BOOLEAN]
    /\ ephemerals \in 0..MaxEphemerals /\ faults \in 0..MaxFaults
    /\ sessions \in [Endpoint -> 0..MaxOpens]
    /\ \A e \in Endpoint :
          /\ hs[e].pattern \in {"XX", "IK"} /\ hs[e].initiator \in BOOLEAN
          /\ hs[e].step \in 0..pattern_total_steps[hs[e].pattern]
          /\ hs[e].symmetric.cipher.n \in 0..2

\* A message whose payload was authenticated was written, at the same step,
\* by a session of the other role that had the same handshake hash and
\* chaining key and whose static key is the one the reader now holds: no
\* link fault and no stale message of an earlier session gets past read_message.
AuthenticatedReadsWereWritten ==
    \A r \in events : r.kind = "read" /\ r.keyed =>
        \E w \in events :
            /\ w.kind = "write" /\ w.step = r.step /\ w.pattern = r.pattern
            /\ w.h = r.h /\ w.ck = r.ck
            /\ w.self = r.peer /\ w.initiator # r.initiator

completions == {v \in events : v.step = pattern_total_steps[v.pattern]}

\* Two sessions that complete with the same handshake hash (the channel
\* binding) are the two ends of one handshake, also when messages were
\* replayed into a session opened later.
CompletionsPairUp ==
    \A c, d \in completions : c.h = d.h /\ c # d =>
        /\ c.initiator # d.initiator
        /\ c.ck = d.ck /\ c.self = d.peer /\ c.peer = d.self

\* Exports with the same channel binding: what one end sends with, the
\* other receives with, and each names the other as its peer.
ExportedKeysMirror ==
    \A x, y \in exports : x.handshake_hash = y.handshake_hash /\ x # y =>
        /\ x.send_cipher_key = y.recv_cipher_key
        /\ x.recv_cipher_key = y.send_cipher_key
        /\ x.peer_static_pk = y.self /\ y.peer_static_pk = x.self

\* Exported keys start at nonce zero, so they must be new: the two of one
\* export differ, and no key is exported again by a later session between
\* the same identities, by another endpoint than the peer, or by a repeated
\* export.  (TransportAssumption of TransportLink rests on it.)
ExportedKeysFresh ==
    /\ \A x \in exports : x.send_cipher_key # x.recv_cipher_key
    /\ \A x, y \in exports :
          {x.send_cipher_key, x.recv_cipher_key} \cap {y.send_cipher_key, y.recv_cipher_key} # {}
              => x = y \/ (x.endpoint # y.endpoint /\ x.initiator # y.initiator)

\* Whatever was called between completion and export, and however often
\* export is called, the keys handed out are those of the completed
\* transcript, never of a wiped chaining key.
ExportMatchesCompletion ==
    \A x \in exports :
        \E c \in completions :
            LET k == hkdf2(c.ck, Empty)
            IN  /\ c.endpoint = x.endpoint /\ c.session = x.session
                /\ c.h = x.handshake_hash /\ c.peer = x.peer_static_pk
                /\ {x.send_cipher_key, x.recv_cipher_key} =
                      {CipherKey(k.output1), CipherKey(k.output2)}

\* Before its first IK message the session absorbed a low-order ephemeral.
low_order_start(h) == h.pattern = "IK" /\ h.symmetric.h[2][2][2][2][2][3] = Zero

\* A call that failed after it had changed the object (there is no
\* rollback) leaves a session that never completes, whatever arrives later,
\* with one exception: read_message absorbs a low-order ephemeral into the
\* hash before the DH refuses it, so two IK sessions that were both handed
\* one before message 1 still agree.
PoisonedNeverCompletes ==
    \A e \in Endpoint :
        state[e] = "open" /\ poisoned[e] /\ is_complete(hs[e]) => low_order_start(hs[e])

wrote_first(e) ==
    \E v \in events : v.endpoint = e /\ v.session = sessions[e] /\ v.kind = "write" /\ v.step = 1

\* Two open sessions that wait for each other over a link without faults,
\* whatever patterns and roles the kernels chose, have both completed, or
\* one of them has returned an error to its kernel, which can close it: the
\* provider has no timeout.  It presupposes an initiator, that the kernel
\* lets an initiator write before it hands it any bytes, and that both are
\* the first sessions of their endpoints: one whose peer was closed and
\* opened again may wait with no error.
StallIsReported ==
    /\ \A e \in Endpoint : /\ state[e] = "open" /\ sessions[e] = 1 /\ ~can_step(e)
                           /\ hs[e].initiator => wrote_first(e)
    /\ faults = 0 /\ \E e \in Endpoint : hs[e].initiator
    => (\A e \in Endpoint : is_complete(hs[e])) \/ (\E e \in Endpoint : poisoned[e])

\* No two different handshake ciphertexts share a key and a nonce.
HandshakeNoncesUnique ==
    LET seals == UNION {v.seals : v \in events}
    IN  \A a, b \in seals : a[2] = b[2] /\ a[3] = b[3] => a = b

\* The buffers Split clears stay clear, whatever is called afterwards; a
\* closed session holds no key material at all.
WipedStaysWiped ==
    \A e \in Endpoint :
        /\ state[e] = "open" /\ split_done[e] =>
              {hs[e].s_sk, hs[e].e_sk, hs[e].e_pk, hs[e].re, hs[e].symmetric.ck} = {Zero}
        /\ state[e] = "none" =>
              {hs[e].s_sk, hs[e].e_sk, hs[e].symmetric.ck, hs[e].symmetric.h,
               hs[e].symmetric.cipher.k.base} = {Zero}

\* Once a handshake is complete no call on the session moves the peer key,
\* the channel binding or the step count.
IdentityPinned ==
    [][\A e \in Endpoint :
          state[e] = "open" /\ state'[e] = "open" /\ is_complete(hs[e]) =>
              /\ hs'[e].rs = hs[e].rs /\ hs'[e].step = hs[e].step
              /\ hs'[e].symmetric.h = hs[e].symmetric.h]_vars

exported(e) == \E x \in exports : x.endpoint = e

\* Two endpoints in opposite roles that agree on the pattern and keep their
\* sessions open both end up with exported keys, also when the link repeats
\* messages.
HandshakeCompletes ==
    [](\A e, f \in Endpoint : sessions[e] > 0 =>
          state[e] = "open" /\ (sessions[f] > 0 => hs[e].pattern = hs[f].pattern))
        => <>(\A e \in Endpoint : exported(e))

\* docs/handshake.md section 5, clause 1, on the cipher key the source
\* session still holds.
ExportLeavesNoCipherKey ==
    \A e \in Endpoint :
        state[e] = "open" /\ keys_exported[e] => hs[e].symmetric.cipher.k.base = Zero

\* docs/handshake.md section 5a: peer_static_pk is the Ed25519 key.
ExportedPeerKeyIsEd25519 == \A x \in exports : x.peer_static_pk[1] = "ed25519"
==============================================================================
