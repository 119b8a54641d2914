----------------------------- MODULE ExportGate -----------------------------
(***************************************************************************)
(* The export gate of one completed session at the grain of its reads and  *)
(* writes (noise.cpp): threads that call export_transport_keys, encrypt,   *)
(* decrypt and rekey.  split_done is a plain bool, keys_exported an        *)
(* atomic.  The TransportState of a provider session is never given keys.  *)
(***************************************************************************)
EXTENDS SymmetricState, Sequences, FiniteSets

CONSTANTS
    Thread,
    MaxCalls      \* bound: calls made in all

ASSUME GateAssumption == MaxCalls \in Nat

VARIABLES
    serialised,                  \* the host runs the calls of a session on a strand
    pc, op,                      \* pc[t], op[t]: where thread t is in which call
    strand,                      \* the threads inside a call on the strand
    ck,                          \* the chaining key of the handshake state
    split_done, keys_exported,
    keys,                        \* keys[t]: the pair thread t derived in its export
    late,                        \* history: late[t], t's call began after an export had succeeded
    results                      \* history: what the calls returned

vars == <<serialised, pc, op, strand, ck, split_done, keys_exported, keys, late, results>>

LiveKey   == <<"chaining key">>
transport == zeroized   \* s->transport, default constructed
Text      == <<"text">> \* the bytes a caller passes to encrypt or decrypt

TransportOp == {"encrypt", "decrypt", "rekey"}
Op          == TransportOp \cup {"export"}

Init ==
    /\ serialised \in BOOLEAN
    /\ pc = [t \in Thread |-> "idle"] /\ op = [t \in Thread |-> "export"]
    /\ strand = {} /\ ck = LiveKey
    /\ split_done = FALSE /\ keys_exported = FALSE
    /\ keys = [t \in Thread |-> hkdf2(Zero, Empty)]
    /\ late = [t \in Thread |-> FALSE] /\ results = <<>>

exports == {i \in DOMAIN results : results[i].op = "export" /\ results[i].rc = "OK"}
InCall  == {t \in Thread : pc[t] # "idle"}
goto(t, l) == pc' = [pc EXCEPT ![t] = l]

\* The strand (external): the kernel's per-connection executor.  Another
\* host may have none, and never changes its mind.
begin(t, o) ==
    /\ pc[t] = "idle" /\ Len(results) + Cardinality(InCall) < MaxCalls
    /\ serialised => strand = {}
    /\ strand' = strand \cup {t}
    /\ op' = [op EXCEPT ![t] = o]
    /\ late' = [late EXCEPT ![t] = exports # {}]
    /\ goto(t, "check")
    /\ UNCHANGED <<serialised, ck, split_done, keys_exported, keys, results>>

return(t, rc, out) ==
    /\ goto(t, "idle")
    /\ strand' = strand \ {t}
    /\ results' = Append(results, [op |-> op[t], rc |-> rc, out |-> out, late |-> late[t]])

(***************************************************************************)
(* noise_export_transport_keys.                                            *)
(***************************************************************************)
\* Mutant: split_done is not checked.
Unchecked_export_check(t) ==
    /\ pc[t] = "check" /\ op[t] = "export"
    /\ goto(t, "derive")
    /\ UNCHANGED <<serialised, op, late, strand, ck, split_done, keys_exported, keys, results>>

export_check(t) ==
    /\ pc[t] = "check" /\ op[t] = "export"
    /\ IF split_done THEN return(t, "INVALID_STATE", Empty)
                     ELSE goto(t, "derive") /\ UNCHANGED <<strand, results>>
    /\ UNCHANGED <<serialised, op, late, ck, split_done, keys_exported, keys>>

export_derive(t) ==
    /\ pc[t] = "derive"
    /\ keys' = [keys EXCEPT ![t] = hkdf2(ck, Empty)]
    /\ goto(t, "wipe")
    /\ UNCHANGED <<serialised, op, late, strand, ck, split_done, keys_exported, results>>

export_wipe(t) ==
    /\ pc[t] = "wipe"
    /\ ck' = Zero
    /\ goto(t, "mark")
    /\ UNCHANGED <<serialised, op, late, strand, split_done, keys_exported, keys, results>>

export_mark(t) ==
    /\ pc[t] = "mark"
    /\ split_done' = TRUE
    /\ goto(t, "publish")
    /\ UNCHANGED <<serialised, op, late, strand, ck, keys_exported, keys, results>>

\* Mutant: the gate flag is forgotten.
Silent_export_publish(t) ==
    /\ pc[t] = "publish"
    /\ return(t, "OK", <<"keys", keys[t].output1, keys[t].output2>>)
    /\ UNCHANGED <<serialised, op, late, ck, split_done, keys_exported, keys>>

export_publish(t) ==
    /\ pc[t] = "publish"
    /\ keys_exported' = TRUE
    /\ return(t, "OK", <<"keys", keys[t].output1, keys[t].output2>>)
    /\ UNCHANGED <<serialised, op, late, ck, split_done, keys>>

(***************************************************************************)
(* noise_encrypt, noise_decrypt, noise_rekey.                              *)
(***************************************************************************)
transport_check(t) ==
    /\ pc[t] = "check" /\ op[t] \in TransportOp
    /\ IF split_done THEN goto(t, "gate") /\ UNCHANGED <<strand, results>>
                     ELSE return(t, "INVALID_STATE", Empty)
    /\ UNCHANGED <<serialised, op, late, ck, split_done, keys_exported, keys>>

\* Mutant: keys_exported is not checked.
Open_transport_gate(t) ==
    /\ pc[t] = "gate"
    /\ goto(t, "work")
    /\ UNCHANGED <<serialised, op, late, strand, ck, split_done, keys_exported, keys, results>>

transport_gate(t) ==
    /\ pc[t] = "gate"
    /\ IF keys_exported THEN return(t, "INVALID_STATE", Empty)
                        ELSE goto(t, "work") /\ UNCHANGED <<strand, results>>
    /\ UNCHANGED <<serialised, op, late, ck, split_done, keys_exported, keys>>

transport_work(t) ==
    /\ pc[t] = "work"
    /\ return(t, "OK", CASE op[t] = "encrypt" -> encrypt_with_ad(transport, Empty, Text).out
                         [] op[t] = "decrypt" -> decrypt_with_ad(transport, Empty, Text).out
                         [] op[t] = "rekey"   -> Empty)
    /\ UNCHANGED <<serialised, op, late, ck, split_done, keys_exported, keys>>

Next ==
    \E t \in Thread :
        \/ \E o \in Op : begin(t, o)
        \/ export_check(t) \/ export_derive(t) \/ export_wipe(t)
        \/ export_mark(t) \/ export_publish(t)
        \/ transport_check(t) \/ transport_gate(t) \/ transport_work(t)

Spec == Init /\ [][Next]_vars
-----------------------------------------------------------------------------
\* A transport-phase call that begins after an export has returned GN_OK is
\* refused, on the strand or off it: docs/handshake.md section 5, clause 2.
LateCallsRefused ==
    \A i \in DOMAIN results :
        results[i].op \in TransportOp /\ results[i].late => results[i].rc = "INVALID_STATE"

\* No transport-phase call ever works on the TransportState without keys,
\* which would return the caller's bytes as they are with GN_OK.
GateRefusesTransport ==
    \A i \in DOMAIN results : results[i].op \in TransportOp => results[i].rc = "INVALID_STATE"

\* On the strand it never happens, in whatever order the calls arrive.
StrandRefusesTransport == serialised => GateRefusesTransport

\* On the strand the keys leave the session once, and they are those of the
\* handshake, never those of a chaining key another export has wiped.
StrandExportsOnce ==
    serialised =>
        /\ Cardinality(exports) <= 1
        /\ \A i \in exports :
              results[i].out = <<"keys", hkdf2(LiveKey, Empty).output1, hkdf2(LiveKey, Empty).output2>>
=============================================================================
