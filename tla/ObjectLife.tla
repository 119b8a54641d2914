------------------------------ MODULE ObjectLife ------------------------------
(***************************************************************************)
(* The state objects as memory: HandshakeState and TransportState objects  *)
(* that are constructed, moved (by construction or by assignment, also     *)
(* onto an object in use or one already moved from) and destroyed at any   *)
(* point of a handshake and of the transport phase after it.  The ciphers  *)
(* are used directly, without the rekey threshold of the provider, so that *)
(* the counter can reach its end, where the process aborts.                *)
(***************************************************************************)
EXTENDS HandshakeState, TransportState

CONSTANTS
    Slot,          \* places in memory
    NoSlot,
    MaxFrames,     \* bound: plaintexts encrypted in all
    MaxRekeys      \* bound: calls of TransportState::rekey in all

ASSUME LifeAssumption == NoSlot \notin Slot /\ MaxFrames \in Nat /\ MaxRekeys \in Nat

VARIABLES
    pattern,
    mem,           \* mem[s]: whether s holds an object, of which kind, and its bytes
    holder,        \* holder[k][r]: where the owner of role r keeps its object of kind k
    wire,
    started, frames, rekeys,
    aborted,       \* the process has aborted
    sealed         \* history: what was encrypted under which key and nonce

vars == <<pattern, mem, holder, wire, started, frames, rekeys, aborted, sealed>>

Value(kind, r) == IF holder[kind][r] = NoSlot THEN [nothing |-> TRUE] ELSE mem[holder[kind][r]].bytes

OV == INSTANCE ObjectValues WITH
        handshake <- [r \in {"initiator", "responder"} |-> Value("handshake", r)],
        transport <- [r \in {"initiator", "responder"} |-> Value("transport", r)]

Blank == [alive |-> FALSE, kind |-> "handshake",
          bytes |-> destroyed(construct("XX", TRUE, Zero, Empty))]

Init ==
    /\ pattern \in {"XX", "IK"}
    /\ mem = [s \in Slot |-> Blank]
    /\ holder = [k \in {"handshake", "transport"} |-> [r \in OV!Role |-> NoSlot]]
    /\ wire = [r \in OV!Role |-> OV!Nothing]
    /\ started = {} /\ frames = 0 /\ rekeys = 0 /\ aborted = FALSE /\ sealed = {}

object(kind, bytes) == [alive |-> TRUE, kind |-> kind, bytes |-> bytes]
holds(kind, s)      == ~aborted /\ mem[s].alive /\ mem[s].kind = kind

(***************************************************************************)
(* The owners' calls.                                                      *)
(***************************************************************************)
start(r, s) ==
    /\ ~aborted /\ r \notin started /\ ~mem[s].alive
    /\ started' = started \cup {r}
    /\ mem' = [mem EXCEPT ![s] = object("handshake", OV!new_handshake(r))]
    /\ holder' = [holder EXCEPT !["handshake"][r] = s]
    /\ UNCHANGED <<pattern, wire, frames, rekeys, aborted, sealed>>

exchange(r) ==
    LET s == holder["handshake"][r]
        w == write_message(mem[s].bytes, OV!ephemeral_of(r))
        m == read_message(mem[s].bytes, wire[r])
    IN  /\ ~aborted /\ s # NoSlot
        /\ \/ /\ OV!on_duty(r, mem[s].bytes)
              /\ mem'  = [mem EXCEPT ![s].bytes = w.hs]
              /\ wire' = [wire EXCEPT ![OV!peer(r)] = w.bytes]
           \/ /\ wire[r] # OV!Nothing
              /\ mem'  = [mem EXCEPT ![s].bytes = m.hs]
              /\ wire' = [wire EXCEPT ![r] = OV!Nothing]
        /\ UNCHANGED <<pattern, holder, started, frames, rekeys, aborted, sealed>>

\* Split, and the TransportState built from the pair in the place s.  The
\* ciphers are moved through temporaries, which are destroyed.
split_into(r, s) ==
    LET h    == holder["handshake"][r]
        pair == handshake_split(mem[h].bytes)
    IN  /\ ~aborted /\ h # NoSlot /\ OV!may_split(mem[h].bytes) /\ ~mem[s].alive
        /\ mem' = [mem EXCEPT ![h].bytes = pair.hs,
                              ![s] = object("transport", [send |-> cipher_move(pair.send).to,
                                                          recv |-> cipher_move(pair.recv).to])]
        /\ holder' = [holder EXCEPT !["transport"][r] = s]
        /\ UNCHANGED <<pattern, wire, started, frames, rekeys, aborted, sealed>>

(***************************************************************************)
(* Calls on any TransportState in memory, one that was moved from too.     *)
(***************************************************************************)
encrypt(s) ==
    LET e == transport_encrypt(mem[s].bytes, <<"text", frames>>)
    IN  /\ holds("transport", s) /\ frames < MaxFrames
        /\ frames' = frames + 1
        /\ IF would_abort(mem[s].bytes.send)
           THEN aborted' = TRUE /\ UNCHANGED <<mem, sealed>>
           ELSE /\ mem' = [mem EXCEPT ![s].bytes = e.t]
                /\ sealed' = sealed \cup (IF mem[s].bytes.send.has_key THEN {e.out} ELSE {})
                /\ UNCHANGED aborted
        /\ UNCHANGED <<pattern, holder, wire, started, rekeys>>

\* REKEY encrypts a block of zeros under the last nonce, directly.
rekey_block(c) == seal(c.k, NONCE_MAX, Empty, Zero)

rekey_both(s) ==
    LET t == mem[s].bytes
    IN  /\ holds("transport", s) /\ rekeys < MaxRekeys
        /\ rekeys' = rekeys + 1
        /\ mem' = [mem EXCEPT ![s].bytes = transport_rekey(t)]
        /\ sealed' = sealed \cup {rekey_block(c) : c \in {d \in {t.send, t.recv} : d.has_key}}
        /\ UNCHANGED <<pattern, holder, wire, started, frames, aborted>>

(***************************************************************************)
(* Moves and destruction.                                                  *)
(***************************************************************************)
move_of(o) == IF o.kind = "handshake" THEN handshake_move(o.bytes) ELSE transport_move(o.bytes)

\* The owner of from's object now finds it in to; what to held is gone.
rehouse(to, from) ==
    holder' = [k \in {"handshake", "transport"} |-> [r \in OV!Role |->
                 CASE holder[k][r] = from -> to
                   [] holder[k][r] = to   -> NoSlot
                   [] OTHER               -> holder[k][r]]]

\* Assigning an object to itself changes nothing, so it is not a step.
move(to, from) ==
    LET m == move_of(mem[from])
    IN  /\ ~aborted /\ to # from /\ mem[from].alive
        /\ mem[to].alive => mem[to].kind = mem[from].kind
        /\ mem' = [mem EXCEPT ![to] = object(mem[from].kind, m.to), ![from].bytes = m.from]
        /\ rehouse(to, from)
        /\ UNCHANGED <<pattern, wire, started, frames, rekeys, aborted, sealed>>

destroy(s) ==
    /\ ~aborted /\ mem[s].alive
    /\ mem' = [mem EXCEPT ![s].alive = FALSE,
                          ![s].bytes = IF mem[s].kind = "handshake" THEN destroyed(@)
                                                                    ELSE transport_destroyed]
    /\ holder' = [k \in {"handshake", "transport"} |-> [r \in OV!Role |->
                    IF holder[k][r] = s THEN NoSlot ELSE holder[k][r]]]
    /\ UNCHANGED <<pattern, wire, started, frames, rekeys, aborted, sealed>>

Next ==
    \/ \E r \in OV!Role : exchange(r) \/ \E s \in Slot : start(r, s) \/ split_into(r, s)
    \/ \E s \in Slot : encrypt(s) \/ rekey_both(s) \/ destroy(s) \/ \E t \in Slot : move(s, t)

Spec == Init /\ [][Next]_vars
-----------------------------------------------------------------------------
\* Whatever is moved, overwritten or destroyed at whatever point, each owner
\* has the object it would have without moves: the handshake goes on from
\* the same step with the same keys, and reads what the peer wrote.
ImplementsObjectValues == OV!Spec

Secrets(o) ==
    IF o.kind = "handshake"
    THEN {o.bytes.s_sk, o.bytes.s_pk, o.bytes.e_sk, o.bytes.e_pk, o.bytes.rs, o.bytes.re,
          o.bytes.symmetric.ck, o.bytes.symmetric.h, o.bytes.symmetric.cipher.k.base}
    ELSE {o.bytes.send.k.base, o.bytes.recv.k.base}

Held(s) == \E k \in {"handshake", "transport"}, r \in OV!Role : holder[k][r] = s

\* Memory that no owner keeps an object in (destroyed, moved from, or
\* overwritten and moved on) has no key material, key or hash left in it.
NoResidue == \A s \in Slot : ~Held(s) => Secrets(mem[s]) = {Zero}

\* No key and nonce encrypt two texts: not through an object that was moved
\* from, and not the block that REKEY encrypts under the last nonce, which
\* the counter itself never uses because the process aborts there.
SealsUnique == \A a, b \in sealed : a[2] = b[2] /\ a[3] = b[3] => a = b
==============================================================================
