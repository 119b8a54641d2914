---------------------------- MODULE TransportState ----------------------------
(***************************************************************************)
(* TransportState (transport.hpp): the send and the receive cipher of one  *)
(* side after Split.                                                       *)
(***************************************************************************)
EXTENDS CipherState

CONSTANT REKEY_INTERVAL    \* 2^60 in the code

ASSUME RekeyIntervalAssumption ==
    REKEY_INTERVAL \in Nat /\ 0 < REKEY_INTERVAL /\ REKEY_INTERVAL <= NONCE_MAX

\* Mutants: the keys stay; only the send nonce is reset.
SameKey_transport_rekey(t) ==
    [send |-> reset_nonce_to_zero(t.send), recv |-> reset_nonce_to_zero(t.recv)]

SendOnly_transport_rekey(t) ==
    [send |-> reset_nonce_to_zero(rekey(t.send)), recv |-> rekey(t.recv)]

transport_rekey(t) ==
    [send |-> reset_nonce_to_zero(rekey(t.send)),
     recv |-> reset_nonce_to_zero(rekey(t.recv))]

\* Mutants: one frame late; the receive counter is not looked at.
Late_needs_rekey(t) == t.send.n > REKEY_INTERVAL \/ t.recv.n > REKEY_INTERVAL
OneSided_needs_rekey(t) == t.send.n >= REKEY_INTERVAL

needs_rekey(t) == t.send.n >= REKEY_INTERVAL \/ t.recv.n >= REKEY_INTERVAL

rekey_if_needed(t) == IF needs_rekey(t) THEN transport_rekey(t) ELSE t

\* transport_encrypt and transport_decrypt: associated data is empty.
transport_encrypt(t, pt) ==
    LET e == encrypt_with_ad(t.send, Empty, pt)
    IN  [t |-> [t EXCEPT !.send = e.cipher], out |-> e.out]

transport_decrypt(t, ct) ==
    LET d == decrypt_with_ad(t.recv, Empty, ct)
    IN  [ok |-> d.ok, t |-> [t EXCEPT !.recv = d.cipher], out |-> d.out]

\* The defaulted move operations and destructor act on both ciphers.
transport_move(t) ==
    LET send == cipher_move(t.send)
        recv == cipher_move(t.recv)
    IN  [to |-> [send |-> send.to, recv |-> recv.to], from |-> [send |-> send.from, recv |-> recv.from]]

transport_destroyed == [send |-> zeroized, recv |-> zeroized]
==============================================================================
