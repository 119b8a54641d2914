---------------------------- MODULE TransportLink ----------------------------
(***************************************************************************)
(* The transport phase: two TransportState objects (transport.hpp) built   *)
(* from one Split, driven by the bodies of noise_encrypt, noise_decrypt    *)
(* and noise_rekey (noise.cpp), and the link between them.  Plaintexts are *)
(* numbered in the order a side sends them.                                *)
(***************************************************************************)
EXTENDS TransportState, Sequences

CONSTANTS
    K1, K2,            \* the two keys of the Split: initiator's send, responder's send
    MaxFrames,         \* bound: plaintexts a side sends
    MaxInFlight,       \* bound: frames on their way to one side
    MaxRekeys,         \* bound: calls of noise_rekey
    MaxFaults          \* bound: link faults and failed allocations

ASSUME TransportAssumption ==
    /\ K1 # K2
    /\ MaxFrames \in Nat /\ MaxInFlight \in Nat /\ MaxRekeys \in Nat /\ MaxFaults \in Nat

Side     == {"initiator", "responder"}
other(p) == IF p = "initiator" THEN "responder" ELSE "initiator"

\* The key of the direction that starts at p.
base(p)  == IF p = "initiator" THEN K1 ELSE K2

VARIABLES
    tr,        \* tr[p]: p's TransportState, the ciphers send and recv
    chan,      \* chan[p]: frames on their way to p, oldest first
    got,       \* got[p]: the plaintexts p's decrypt calls have returned
    log,       \* history: log[p][i], generation and nonce that sealed p's i-th plaintext
    rekeys, faults

vars == <<tr, chan, got, log, rekeys, faults>>

Init ==
    /\ tr = [p \in Side |-> [send |-> initialize_key(CipherKey(base(p))),
                             recv |-> initialize_key(CipherKey(base(other(p))))]]
    /\ chan = [p \in Side |-> <<>>]
    /\ got  = [p \in Side |-> <<>>]
    /\ log  = [p \in Side |-> <<>>]
    /\ rekeys = 0 /\ faults = 0

position(c) == [gen |-> c.k.gen, n |-> c.n]

\* The frame f is the one p's receive cipher opens next.
opens_here(p, f) == opens(f, tr[p].recv.k, tr[p].recv.n, Empty)

(***************************************************************************)
(* The vtable calls.  oom is a failed malloc in emit_buffer (or a null     *)
(* out), after the cipher has advanced: the frame, or the plaintext, is    *)
(* lost.                                                                   *)
(***************************************************************************)
fails(oom) == /\ oom => faults < MaxFaults
              /\ faults' = IF oom THEN faults + 1 ELSE faults

noise_encrypt(p, oom) ==
    LET e == transport_encrypt(tr[p], Len(log[p]) + 1)
    IN  /\ Len(log[p]) < MaxFrames /\ Len(chan[other(p)]) < MaxInFlight
        /\ ~would_abort(tr[p].send)
        /\ fails(oom)
        /\ tr'   = [tr EXCEPT ![p] = rekey_if_needed(e.t)]
        /\ chan' = IF oom THEN chan ELSE [chan EXCEPT ![other(p)] = Append(@, e.out)]
        /\ log'  = [log EXCEPT ![p] = Append(@, position(tr[p].send))]
        /\ UNCHANGED <<got, rekeys>>

noise_decrypt(p, oom) ==
    LET d == transport_decrypt(tr[p], Head(chan[p]))
    IN  /\ chan[p] # <<>>
        /\ ~would_abort(tr[p].recv)
        /\ fails(oom)
        /\ oom => d.ok
        /\ chan' = [chan EXCEPT ![p] = Tail(@)]
        /\ tr'   = IF d.ok THEN [tr EXCEPT ![p] = rekey_if_needed(d.t)] ELSE tr
        /\ got'  = IF d.ok /\ ~oom THEN [got EXCEPT ![p] = Append(@, d.out)] ELSE got
        /\ UNCHANGED <<log, rekeys>>

noise_rekey(p) ==
    /\ rekeys < MaxRekeys
    /\ rekeys' = rekeys + 1
    /\ tr' = [tr EXCEPT ![p] = transport_rekey(@)]
    /\ UNCHANGED <<chan, got, log, faults>>

(***************************************************************************)
(* The link (external): a datagram link may lose, duplicate, reorder or    *)
(* damage frames.                                                          *)
(***************************************************************************)
link_fault == faults < MaxFaults /\ faults' = faults + 1 /\ UNCHANGED <<tr, got, log, rekeys>>

lose(p) ==
    /\ link_fault
    /\ chan[p] # <<>>
    /\ chan' = [chan EXCEPT ![p] = Tail(@)]

duplicate(p) ==
    /\ link_fault
    /\ chan[p] # <<>> /\ Len(chan[p]) < MaxInFlight
    /\ chan' = [chan EXCEPT ![p] = Append(@, Head(@))]

reorder(p) ==
    /\ link_fault
    /\ chan[p] # <<>>
    /\ chan' = [chan EXCEPT ![p] = Append(Tail(@), Head(@))]

damage(p) ==
    /\ link_fault
    /\ chan[p] # <<>>
    /\ chan' = [chan EXCEPT ![p][1] = Garbage]

(***************************************************************************)
(* On a datagram link anything may happen, and either side may call        *)
(* noise_rekey when it likes.  StreamLink has the reliable link.           *)
(***************************************************************************)
Next ==
    \E p \in Side :
        \/ \E oom \in BOOLEAN : noise_encrypt(p, oom) \/ noise_decrypt(p, oom)
        \/ noise_rekey(p)
        \/ lose(p) \/ duplicate(p) \/ reorder(p) \/ damage(p)

Spec == Init /\ [][Next]_vars

-----------------------------------------------------------------------------
\* Positions in the key schedule of one direction, in the order of use.
before(a, b) == a.gen < b.gen \/ (a.gen = b.gen /\ a.n < b.n)

Key      == [base : {K1, K2}, gen : Nat]
Nonce    == 0..(REKEY_INTERVAL - 1)
Cipher   == [k : Key, n : Nonce, has_key : {TRUE}]
Position == [gen : Nat, n : Nonce]
Frame    == {Garbage} \cup ({"aead"} \X Key \X Nonce \X {Empty} \X Nat)

\* Types.  Between calls every nonce is below REKEY_INTERVAL, hence below the
\* last nonce: the abort of encrypt_with_ad and decrypt_with_ad is out of
\* reach.  A side's two ciphers keep the keys of their directions.
TypeOK ==
    /\ tr \in [Side -> [send : Cipher, recv : Cipher]]
    /\ \A p \in Side : tr[p].send.k.base = base(p) /\ tr[p].recv.k.base = base(other(p))
    /\ chan \in [Side -> Seq(Frame)]
    /\ got \in [Side -> Seq(Nat)]
    /\ log \in [Side -> Seq(Position)]
    /\ rekeys \in Nat /\ faults \in Nat

\* A key and nonce seal one plaintext only, through automatic and manual
\* rekeys in any interleaving.
NonceUnique ==
    \A p, q \in Side : \A i \in DOMAIN log[p], j \in DOMAIN log[q] :
        base(p) = base(q) /\ log[p][i] = log[q][j] => p = q /\ i = j

(***************************************************************************)
(* The invariant behind NonceUnique and the refinement below: a side's     *)
(* positions are used in order; a frame in flight is what its sender       *)
(* sealed, or damaged; and the plaintexts a side was given lie before the  *)
(* position it reads next.                                                 *)
(***************************************************************************)
LogOrdered ==
    \A p \in Side :
        /\ \A i, j \in DOMAIN log[p] : i < j => before(log[p][i], log[p][j])
        /\ \A i \in DOMAIN log[p] : before(log[p][i], position(tr[p].send))

sealed_frame(p, i) ==
    seal([base |-> base(p), gen |-> log[p][i].gen], log[p][i].n, Empty, i)

FramesGenuine ==
    \A p \in Side : \A i \in DOMAIN chan[p] :
        \/ chan[p][i] = Garbage
        \/ \E m \in DOMAIN log[other(p)] : chan[p][i] = sealed_frame(other(p), m)

ReadBehind ==
    \A p \in Side : \A j \in DOMAIN got[p] :
        /\ got[p][j] \in DOMAIN log[other(p)]
        /\ before(log[other(p)][got[p][j]], position(tr[p].recv))

LinkInv == TypeOK /\ LogOrdered /\ FramesGenuine /\ ReadBehind

\* Whatever the link does, a side is given the other's plaintexts at most
\* once and in the order they were sent: refinement of SecureChannel.
SC == INSTANCE SecureChannel WITH sent      <- [p \in Side |-> Len(log[p])],
                                  delivered <- [p \in Side |-> got[other(p)]]
ImplementsSecureChannel == SC!Spec
==============================================================================
