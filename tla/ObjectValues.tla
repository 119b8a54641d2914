----------------------------- MODULE ObjectValues -----------------------------
(***************************************************************************)
(* What the state objects promise their owner: an initiator and a          *)
(* responder each hold one HandshakeState and, after Split, one            *)
(* TransportState, as plain values that no move and no memory can change.  *)
(***************************************************************************)
EXTENDS HandshakeState, TransportState

VARIABLES
    pattern,         \* "XX" or "IK"
    handshake,       \* handshake[r]: r's HandshakeState, or Nothing
    transport,       \* transport[r]: r's TransportState, or Nothing
    wire             \* wire[r]: the handshake message on its way to r, or Nothing

vars == <<pattern, handshake, transport, wire>>

Role    == {"initiator", "responder"}
peer(r) == IF r = "initiator" THEN "responder" ELSE "initiator"
Nothing == [nothing |-> TRUE]

static_of(r)    == X25519(r)
ephemeral_of(r) == generate_keypair(r)

new_handshake(r) ==
    construct(pattern, r = "initiator", static_of(r),
              IF r = "initiator" THEN static_of(peer(r)) ELSE Empty)

on_duty(r, hs) == ~is_complete(hs) /\ (hs.step % 2 = 0) = (r = "initiator")

Init ==
    /\ pattern \in {"XX", "IK"}
    /\ handshake = [r \in Role |-> Nothing] /\ transport = [r \in Role |-> Nothing]
    /\ wire = [r \in Role |-> Nothing]

start(r) ==
    /\ handshake[r] = Nothing
    /\ handshake' = [handshake EXCEPT ![r] = new_handshake(r)]
    /\ UNCHANGED <<pattern, transport, wire>>

write(r) ==
    LET w == write_message(handshake[r], ephemeral_of(r))
    IN  /\ handshake[r] # Nothing /\ on_duty(r, handshake[r])
        /\ handshake' = [handshake EXCEPT ![r] = w.hs]
        /\ wire' = [wire EXCEPT ![peer(r)] = w.bytes]
        /\ UNCHANGED <<pattern, transport>>

read(r) ==
    LET m == read_message(handshake[r], wire[r])
    IN  /\ handshake[r] # Nothing /\ wire[r] # Nothing /\ m.ok
        /\ handshake' = [handshake EXCEPT ![r] = m.hs]
        /\ wire' = [wire EXCEPT ![r] = Nothing]
        /\ UNCHANGED <<pattern, transport>>

\* Split is asked for once: it wipes the chaining key.
may_split(hs) == is_complete(hs) /\ hs.symmetric.ck # Zero

split_into(r) ==
    LET s == handshake_split(handshake[r])
    IN  /\ handshake[r] # Nothing /\ may_split(handshake[r])
        /\ handshake' = [handshake EXCEPT ![r] = s.hs]
        /\ transport' = [transport EXCEPT ![r] = [send |-> s.send, recv |-> s.recv]]
        /\ UNCHANGED <<pattern, wire>>

encrypt_or_rekey(r) ==
    /\ transport[r] # Nothing
    /\ \E t \in {transport_encrypt(transport[r], Empty).t, transport_rekey(transport[r])} :
          transport' = [transport EXCEPT ![r] = t]
    /\ UNCHANGED <<pattern, handshake, wire>>

drop(r) ==
    \/ handshake' = [handshake EXCEPT ![r] = Nothing] /\ UNCHANGED <<pattern, transport, wire>>
    \/ transport' = [transport EXCEPT ![r] = Nothing] /\ UNCHANGED <<pattern, handshake, wire>>

Next == \E r \in Role : start(r) \/ write(r) \/ read(r) \/ split_into(r) \/ encrypt_or_rekey(r) \/ drop(r)

Spec == Init /\ [][Next]_vars
==============================================================================
