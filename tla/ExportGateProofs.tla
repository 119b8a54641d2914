--------------------------- MODULE ExportGateProofs ---------------------------
(***************************************************************************)
(* Theorems about ExportGate, for every set of threads and every number of *)
(* calls: what the two flags guarantee without a strand, and what they     *)
(* guarantee on one.                                                       *)
(***************************************************************************)
EXTENDS ExportGate, SequenceTheorems, FiniteSetTheorems, TLAPS

USE GateAssumption, NonceMaxAssumption

Exporting    == {"derive", "wipe", "mark", "publish"}
Transporting == {"gate", "work"}
Pair(c)      == hkdf2(c, Empty)
Exported(c)  == <<"keys", Pair(c).output1, Pair(c).output2>>
Output       == {Empty, Text, Exported(LiveKey), Exported(Zero)}
Result       == [op : Op, rc : {"OK", "INVALID_STATE"}, out : Output, late : BOOLEAN]

GateTypes ==
    /\ serialised \in BOOLEAN
    /\ pc \in [Thread -> {"idle", "check"} \cup Exporting \cup Transporting]
    /\ op \in [Thread -> Op]
    /\ strand \in SUBSET Thread
    /\ ck \in {LiveKey, Zero}
    /\ split_done \in BOOLEAN /\ keys_exported \in BOOLEAN
    /\ keys \in [Thread -> {Pair(LiveKey), Pair(Zero)}]
    /\ late \in [Thread -> BOOLEAN]
    /\ results \in Seq(Result)

\* Where a thread is says which call it makes, and the flags are set in
\* order: split_done, keys_exported, the result.
FlagOrder ==
    /\ \A t \in Thread : /\ pc[t] \in Exporting => op[t] = "export"
                         /\ pc[t] \in Transporting => op[t] \in TransportOp
                         /\ pc[t] \in {"publish", "gate"} => split_done
    /\ keys_exported => split_done
    /\ exports # {} => keys_exported

\* A late call was begun with both flags set, so it does not get to work.
LateCalls ==
    \A t \in Thread : /\ late[t] => keys_exported
                      /\ pc[t] = "work" => ~late[t]

\* The strand lets one call in at a time.
OneInCall ==
    /\ strand = InCall
    /\ serialised => \A t, u \in Thread : pc[t] # "idle" /\ pc[u] # "idle" => t = u

\* On the strand a call sees both flags or neither, and the chaining key is
\* live until the export that has derived from it.
StrandOrder ==
    serialised =>
        /\ split_done => keys_exported \/ \E t \in Thread : pc[t] = "publish"
        /\ ~split_done => ck = LiveKey \/ \E t \in Thread : pc[t] = "mark"
        /\ \A t \in Thread :
              /\ pc[t] # "work"
              /\ pc[t] \in {"derive", "wipe", "mark"} => ~split_done
              /\ pc[t] = "publish" => ~keys_exported
              /\ pc[t] \in {"wipe", "mark", "publish"} => keys[t] = Pair(LiveKey)

\* On the strand there is one export, of the keys of the handshake.
OneExport ==
    serialised =>
        /\ \A i, j \in exports : i = j
        /\ \A i \in exports : results[i].out = Exported(LiveKey)

Control == FlagOrder /\ LateCalls /\ OneInCall /\ StrandOrder

GateInv ==
    GateTypes /\ Control /\ OneExport /\ LateCallsRefused /\ StrandRefusesTransport

(***************************************************************************)
(* The result that a call leaves.                                          *)
(***************************************************************************)
\* The TransportState has no key: its calls give the caller's bytes back.
LEMMA UnkeyedTransport ==
    /\ encrypt_with_ad(transport, Empty, Text).out = Text
    /\ decrypt_with_ad(transport, Empty, Text).out = Text
<1>1. transport.has_key = FALSE
  BY DEF transport, zeroized
<1> QED BY <1>1 DEF encrypt_with_ad, decrypt_with_ad

\* A result is appended: the earlier ones stay, and exports grows exactly by
\* a successful export.
LEMMA ResultAppended ==
    ASSUME results \in Seq(Result), NEW r \in Result, results' = Append(results, r)
    PROVE  /\ results' \in Seq(Result)
           /\ \A i \in DOMAIN results : i \in DOMAIN results' /\ results'[i] = results[i]
           /\ \A i \in DOMAIN results' : i \in DOMAIN results \/ results'[i] = r
           /\ r.op = "export" /\ r.rc = "OK" =>
                \E n : n \notin exports /\ exports' = exports \cup {n} /\ results'[n] = r
           /\ ~(r.op = "export" /\ r.rc = "OK") => exports' = exports
<1> DEFINE n == Len(results) + 1
<1>1. /\ results' \in Seq(Result) /\ DOMAIN results = 1..Len(results) /\ Len(results) \in Nat
      /\ DOMAIN results' = 1..n
      /\ \A i \in DOMAIN results : results'[i] = results[i]
      /\ results'[n] = r
  OBVIOUS
<1>2. DOMAIN results' = DOMAIN results \cup {n} /\ n \notin DOMAIN results
  BY <1>1
<1>3. exports' = {i \in DOMAIN results' : results'[i].op = "export" /\ results'[i].rc = "OK"}
      /\ exports = {i \in DOMAIN results : results[i].op = "export" /\ results[i].rc = "OK"}
  BY DEF exports
<1> QED BY <1>1, <1>2, <1>3

\* What return leaves, for every way it is called.
LEMMA ReturnStep ==
    ASSUME GateTypes, NEW t \in Thread, NEW rc \in {"OK", "INVALID_STATE"}, NEW out \in Output,
           return(t, rc, out)
    PROVE  /\ pc' = [pc EXCEPT ![t] = "idle"] /\ strand' = strand \ {t}
           /\ \E r \in Result : /\ results' = Append(results, r)
                                /\ r.op = op[t] /\ r.rc = rc /\ r.out = out /\ r.late = late[t]
<1>1. [op |-> op[t], rc |-> rc, out |-> out, late |-> late[t]] \in Result
  BY DEF GateTypes, Result
<1> QED BY <1>1 DEF return, goto

\* Entering and leaving a call keeps strand equal to the calls in progress.
LEMMA StrandStep ==
    ASSUME GateTypes, NEW t \in Thread, NEW l \in {"idle", "check"} \cup Exporting \cup Transporting,
           pc' = [pc EXCEPT ![t] = l], strand = InCall,
           strand' = IF l = "idle" THEN strand \ {t} ELSE strand \cup {t}
    PROVE  strand' = InCall'
  BY DEF GateTypes, InCall

(***************************************************************************)
(* Preservation.                                                           *)
(***************************************************************************)
\* A completed session that nobody has called yet.
LEMMA InitGate == Init => GateInv
<1> SUFFICES ASSUME Init PROVE GateInv
  OBVIOUS
<1>1. GateTypes
  <2>1. keys \in [Thread -> {Pair(LiveKey), Pair(Zero)}]
    BY DEF Init, Pair
  <2>2. pc \in [Thread -> {"idle", "check"} \cup Exporting \cup Transporting]
        /\ op \in [Thread -> Op] /\ late \in [Thread -> BOOLEAN]
    BY DEF Init, Op
  <2>3. results \in Seq(Result) /\ strand \in SUBSET Thread
    BY DEF Init
  <2> QED BY <2>1, <2>2, <2>3 DEF Init, GateTypes
<1>2. exports = {}
  BY DEF Init, exports
<1>3. Control
  BY <1>2 DEF Init, Control, FlagOrder, LateCalls, OneInCall, InCall, StrandOrder, Exporting, Transporting
<1>4. OneExport /\ LateCallsRefused /\ StrandRefusesTransport
  BY <1>2 DEF Init, OneExport, LateCallsRefused, StrandRefusesTransport, GateRefusesTransport
<1> QED BY <1>1, <1>3, <1>4 DEF GateInv

\* A step that leaves the results alone leaves what they say alone.
LEMMA ResultsUnchanged ==
    ASSUME GateInv, UNCHANGED <<serialised, results>>
    PROVE  exports' = exports /\ OneExport' /\ LateCallsRefused' /\ StrandRefusesTransport'
  BY DEF GateInv, exports, OneExport, LateCallsRefused, StrandRefusesTransport, GateRefusesTransport

\* A refusal adds nothing to the exports.
LEMMA RefusalStep ==
    ASSUME GateInv, NEW t \in Thread, pc[t] \in {"check", "gate"},
           return(t, "INVALID_STATE", Empty),
           UNCHANGED <<serialised, op, late, ck, split_done, keys_exported, keys>>
    PROVE  GateInv'
<1>1. GateTypes /\ Control /\ OneExport /\ LateCallsRefused /\ StrandRefusesTransport
  BY DEF GateInv
<1>2. PICK r \in Result : /\ results' = Append(results, r)
                          /\ r.op = op[t] /\ r.rc = "INVALID_STATE" /\ r.late = late[t]
  BY <1>1, ReturnStep DEF Output
<1>3. pc' = [pc EXCEPT ![t] = "idle"] /\ strand' = strand \ {t}
  BY DEF return, goto
<1>4. GateTypes'
  BY <1>1, <1>2, <1>3, ResultAppended DEF GateTypes
<1>5. /\ exports' = exports
      /\ \A i \in DOMAIN results : i \in DOMAIN results' /\ results'[i] = results[i]
      /\ \A i \in DOMAIN results' : i \in DOMAIN results \/ results'[i] = r
  BY <1>1, <1>2, ResultAppended DEF GateTypes
<1>6. OneExport'
  BY <1>1, <1>5 DEF OneExport, exports
<1>7. LateCallsRefused' /\ StrandRefusesTransport'
  BY <1>1, <1>2, <1>5 DEF LateCallsRefused, StrandRefusesTransport, GateRefusesTransport
<1>8. FlagOrder' /\ LateCalls'
  BY <1>1, <1>3, <1>5 DEF Control, FlagOrder, LateCalls, GateTypes, Exporting, Transporting
<1>9. OneInCall'
  BY <1>1, <1>3, StrandStep DEF Control, OneInCall, GateTypes
<1>10. StrandOrder'
  BY <1>1, <1>3, <1>5 DEF Control, StrandOrder, GateTypes
<1> QED BY <1>4, <1>6, <1>7, <1>8, <1>9, <1>10 DEF GateInv, Control

\* A call begins: on the strand nobody else is inside.
LEMMA BeginStep ==
    ASSUME GateInv, NEW t \in Thread, NEW o \in Op, begin(t, o)
    PROVE  GateInv'
<1>1. GateTypes /\ Control
  BY DEF GateInv
<1>2. /\ pc[t] = "idle" /\ pc' = [pc EXCEPT ![t] = "check"] /\ strand' = strand \cup {t}
      /\ op' = [op EXCEPT ![t] = o] /\ late' = [late EXCEPT ![t] = exports # {}]
      /\ serialised => strand = {}
      /\ UNCHANGED <<serialised, ck, split_done, keys_exported, keys, results>>
  BY DEF begin, goto
<1>3. exports' = exports /\ OneExport' /\ LateCallsRefused' /\ StrandRefusesTransport'
  BY <1>2, ResultsUnchanged
<1>4. GateTypes'
  BY <1>1, <1>2 DEF GateTypes
<1>5. FlagOrder' /\ LateCalls'
  BY <1>1, <1>2, <1>3 DEF Control, FlagOrder, LateCalls, GateTypes, Exporting, Transporting
<1>6. OneInCall'
  <2>1. strand' = InCall'
    BY <1>1, <1>2, StrandStep DEF Control, OneInCall
  <2>2. serialised => \A u \in Thread : pc[u] = "idle"
    BY <1>1, <1>2 DEF Control, OneInCall, InCall
  <2> QED BY <1>1, <1>2, <2>1, <2>2 DEF OneInCall, GateTypes
<1>7. StrandOrder'
  BY <1>1, <1>2 DEF Control, StrandOrder, GateTypes
<1> QED BY <1>3, <1>4, <1>5, <1>6, <1>7 DEF GateInv, Control

\* A step inside a call: the thread moves on, nothing is returned.
inner(t, l) ==
    /\ pc[t] # "idle" /\ pc' = [pc EXCEPT ![t] = l]
    /\ UNCHANGED <<serialised, strand, op, late, results>>

\* An inner step keeps the calls in progress and the results.
LEMMA InnerStep ==
    ASSUME GateInv, NEW t \in Thread, NEW l \in {"check"} \cup Exporting \cup Transporting, inner(t, l)
    PROVE  /\ exports' = exports /\ OneExport' /\ LateCallsRefused' /\ StrandRefusesTransport'
           /\ OneInCall'
           /\ pc' \in [Thread -> {"idle", "check"} \cup Exporting \cup Transporting]
<1>1. GateTypes /\ OneInCall
  BY DEF GateInv, Control
<1>2. l # "idle"
  BY DEF Exporting, Transporting
<1>3. strand' = InCall'
  <2>1. t \in strand
    BY <1>1 DEF inner, OneInCall, InCall
  <2>2. strand' = strand \cup {t}
    BY <2>1 DEF inner
  <2> QED BY <1>1, <1>2, <2>2, StrandStep DEF inner, OneInCall
<1>4. OneInCall'
  BY <1>1, <1>2, <1>3 DEF inner, OneInCall, GateTypes
<1>5. pc' \in [Thread -> {"idle", "check"} \cup Exporting \cup Transporting]
  BY <1>1 DEF inner, GateTypes
<1> QED BY <1>4, <1>5, ResultsUnchanged DEF inner

\* The check of split_done in export_transport_keys.
LEMMA ExportCheckStep ==
    ASSUME GateInv, NEW t \in Thread, export_check(t)
    PROVE  GateInv'
<1>1. CASE split_done
  BY <1>1, RefusalStep DEF export_check
<1>2. CASE ~split_done
  <2>1. /\ inner(t, "derive") /\ pc[t] = "check" /\ op[t] = "export" /\ "derive" \in Exporting
        /\ UNCHANGED <<ck, split_done, keys_exported, keys>>
    BY <1>2 DEF export_check, goto, inner, Exporting
  <2>2. GateTypes /\ Control
    BY DEF GateInv
  <2>3. GateTypes'
    BY <2>1, <2>2, InnerStep DEF inner, GateTypes
  <2>4. FlagOrder' /\ LateCalls'
    BY <2>1, <2>2, InnerStep DEF inner, GateTypes, Control, FlagOrder, LateCalls, Exporting, Transporting
  <2>5. StrandOrder'
    BY <1>2, <2>1, <2>2 DEF inner, GateTypes, Control, StrandOrder
  <2> QED BY <2>1, <2>3, <2>4, <2>5, InnerStep DEF GateInv, Control
<1> QED BY <1>1, <1>2

\* The derivation of the pair: on the strand the chaining key is live.
LEMMA ExportDeriveStep ==
    ASSUME GateInv, NEW t \in Thread, export_derive(t)
    PROVE  GateInv'
<1>1. /\ inner(t, "wipe") /\ pc[t] = "derive" /\ "wipe" \in Exporting
      /\ keys' = [keys EXCEPT ![t] = Pair(ck)]
      /\ UNCHANGED <<ck, split_done, keys_exported>>
  BY DEF export_derive, goto, inner, Exporting, Pair
<1>2. GateTypes /\ Control
  BY DEF GateInv
<1>3. GateTypes'
  BY <1>1, <1>2, InnerStep DEF inner, GateTypes
<1>4. FlagOrder' /\ LateCalls'
  BY <1>1, <1>2, InnerStep DEF inner, GateTypes, Control, FlagOrder, LateCalls, Exporting, Transporting
<1>5. serialised => ck = LiveKey
  BY <1>1, <1>2 DEF Control, StrandOrder, OneInCall
<1>6. StrandOrder'
  BY <1>1, <1>2, <1>5 DEF inner, GateTypes, Control, StrandOrder
<1> QED BY <1>1, <1>3, <1>4, <1>6, InnerStep DEF GateInv, Control

\* The wipe of the chaining key, and the write of split_done.
LEMMA ExportWipeMarkStep ==
    ASSUME GateInv, NEW t \in Thread, export_wipe(t) \/ export_mark(t)
    PROVE  GateInv'
<1>1. GateTypes /\ Control
  BY DEF GateInv
<1>2. CASE export_wipe(t)
  <2>1. /\ inner(t, "mark") /\ pc[t] = "wipe" /\ "mark" \in Exporting
        /\ ck' = Zero /\ UNCHANGED <<split_done, keys_exported, keys>>
    BY <1>2 DEF export_wipe, goto, inner, Exporting
  <2>2. GateTypes'
    BY <1>1, <2>1, InnerStep DEF inner, GateTypes
  <2>3. FlagOrder' /\ LateCalls'
    BY <1>1, <2>1, InnerStep DEF inner, GateTypes, Control, FlagOrder, LateCalls, Exporting, Transporting
  <2>4. StrandOrder'
    BY <1>1, <2>1 DEF inner, GateTypes, Control, StrandOrder
  <2> QED BY <2>1, <2>2, <2>3, <2>4, InnerStep DEF GateInv, Control
<1>3. CASE export_mark(t)
  <2>1. /\ inner(t, "publish") /\ pc[t] = "mark" /\ "publish" \in Exporting
        /\ split_done' = TRUE /\ UNCHANGED <<ck, keys_exported, keys>>
    BY <1>3 DEF export_mark, goto, inner, Exporting
  <2>2. GateTypes'
    BY <1>1, <2>1, InnerStep DEF inner, GateTypes
  <2>3. FlagOrder' /\ LateCalls'
    BY <1>1, <2>1, InnerStep DEF inner, GateTypes, Control, FlagOrder, LateCalls, Exporting, Transporting
  <2>4. StrandOrder'
    <3>1. serialised => ~keys_exported /\ \A u \in Thread : u # t => pc[u] = "idle"
      BY <1>1, <2>1 DEF Control, StrandOrder, FlagOrder, OneInCall
    <3> QED BY <1>1, <2>1, <3>1 DEF inner, GateTypes, Control, StrandOrder
  <2> QED BY <2>1, <2>2, <2>3, <2>4, InnerStep DEF GateInv, Control
<1> QED BY <1>2, <1>3

\* The write of keys_exported and the return with the pair.
LEMMA ExportPublishStep ==
    ASSUME GateInv, NEW t \in Thread, export_publish(t)
    PROVE  GateInv'
<1>1. GateTypes /\ Control /\ OneExport /\ LateCallsRefused /\ StrandRefusesTransport
  BY DEF GateInv
<1> DEFINE out == <<"keys", keys[t].output1, keys[t].output2>>
<1>2. /\ pc[t] = "publish" /\ keys_exported' = TRUE /\ return(t, "OK", out)
      /\ UNCHANGED <<serialised, op, late, ck, split_done, keys>>
  BY DEF export_publish
<1>3. out \in Output /\ (keys[t] = Pair(LiveKey) => out = Exported(LiveKey))
  <2>1. keys[t] = Pair(LiveKey) \/ keys[t] = Pair(Zero)
    BY <1>1 DEF GateTypes
  <2> QED BY <2>1 DEF Output, Exported
<1> HIDE DEF out
<1>4. PICK r \in Result : /\ results' = Append(results, r) /\ r.op = op[t] /\ r.rc = "OK"
                          /\ r.out = out /\ r.late = late[t]
  BY <1>1, <1>2, <1>3, ReturnStep
<1>5. pc' = [pc EXCEPT ![t] = "idle"] /\ strand' = strand \ {t}
  BY <1>2 DEF return, goto
<1>6. op[t] = "export"
  BY <1>1, <1>2 DEF Control, FlagOrder, Exporting
<1>7. PICK n : n \notin exports /\ exports' = exports \cup {n} /\ results'[n] = r
  BY <1>1, <1>4, <1>6, ResultAppended DEF GateTypes
<1>8. /\ \A i \in DOMAIN results : i \in DOMAIN results' /\ results'[i] = results[i]
      /\ \A i \in DOMAIN results' : i \in DOMAIN results \/ results'[i] = r
      /\ results' \in Seq(Result)
  BY <1>1, <1>4, ResultAppended DEF GateTypes
<1>9. GateTypes'
  BY <1>1, <1>2, <1>5, <1>8 DEF GateTypes
<1>10. FlagOrder' /\ LateCalls'
  BY <1>1, <1>2, <1>5 DEF GateTypes, Control, FlagOrder, LateCalls, Exporting, Transporting
<1>11. OneInCall'
  BY <1>1, <1>2, <1>5, StrandStep DEF Control, OneInCall, GateTypes
<1>12. serialised => exports = {} /\ out = Exported(LiveKey) /\ \A u \in Thread : u # t => pc[u] = "idle"
  BY <1>1, <1>2, <1>3 DEF Control, StrandOrder, FlagOrder, OneInCall
<1>13. StrandOrder'
  BY <1>1, <1>2, <1>5, <1>12 DEF GateTypes, Control, StrandOrder, FlagOrder
<1>14. OneExport'
  BY <1>2, <1>4, <1>7, <1>12 DEF OneExport
<1>15. LateCallsRefused' /\ StrandRefusesTransport'
  <2>1. r.op \notin TransportOp
    BY <1>4, <1>6 DEF TransportOp
  <2> QED BY <1>1, <1>2, <1>8, <2>1 DEF LateCallsRefused, StrandRefusesTransport, GateRefusesTransport
<1> QED BY <1>9, <1>10, <1>11, <1>13, <1>14, <1>15 DEF GateInv, Control

\* The two checks of encrypt, decrypt and rekey.
LEMMA TransportCheckStep ==
    ASSUME GateInv, NEW t \in Thread, transport_check(t) \/ transport_gate(t)
    PROVE  GateInv'
<1>1. GateTypes /\ Control
  BY DEF GateInv
<1>2. CASE transport_check(t) /\ ~split_done
  BY <1>2, RefusalStep DEF transport_check
<1>3. CASE transport_gate(t) /\ keys_exported
  BY <1>3, RefusalStep DEF transport_gate
<1>4. CASE transport_check(t) /\ split_done
  <2>1. /\ inner(t, "gate") /\ pc[t] = "check" /\ op[t] \in TransportOp /\ "gate" \in Transporting
        /\ UNCHANGED <<ck, split_done, keys_exported, keys>>
    BY <1>4 DEF transport_check, goto, inner, Transporting
  <2>2. GateTypes'
    BY <1>1, <2>1, InnerStep DEF inner, GateTypes
  <2>3. FlagOrder' /\ LateCalls'
    BY <1>1, <1>4, <2>1, InnerStep DEF inner, GateTypes, Control, FlagOrder, LateCalls, Exporting, Transporting
  <2>4. StrandOrder'
    BY <1>1, <1>4, <2>1 DEF inner, GateTypes, Control, StrandOrder
  <2> QED BY <2>1, <2>2, <2>3, <2>4, InnerStep DEF GateInv, Control
<1>5. CASE transport_gate(t) /\ ~keys_exported
  <2>1. /\ inner(t, "work") /\ pc[t] = "gate" /\ "work" \in Transporting
        /\ UNCHANGED <<ck, split_done, keys_exported, keys>>
    BY <1>5 DEF transport_gate, goto, inner, Transporting
  <2>2. GateTypes'
    BY <1>1, <2>1, InnerStep DEF inner, GateTypes
  <2>3. FlagOrder' /\ LateCalls'
    BY <1>1, <1>5, <2>1, InnerStep DEF inner, GateTypes, Control, FlagOrder, LateCalls, Exporting, Transporting
  <2>4. ~serialised
    BY <1>1, <1>5, <2>1 DEF Control, FlagOrder, StrandOrder, OneInCall
  <2>5. StrandOrder'
    BY <2>1, <2>4 DEF inner, StrandOrder
  <2> QED BY <2>1, <2>2, <2>3, <2>5, InnerStep DEF GateInv, Control
<1> QED BY <1>2, <1>3, <1>4, <1>5

\* The call that got past both checks: off the strand, and not late.
LEMMA TransportWorkStep ==
    ASSUME GateInv, NEW t \in Thread, transport_work(t)
    PROVE  GateInv'
<1>1. GateTypes /\ Control /\ OneExport /\ LateCallsRefused /\ StrandRefusesTransport
  BY DEF GateInv
<1>2. ~serialised /\ ~late[t] /\ op[t] \in TransportOp
  BY <1>1 DEF transport_work, Control, StrandOrder, LateCalls, FlagOrder, Transporting
<1>3. PICK out \in Output : return(t, "OK", out)
  BY <1>2, UnkeyedTransport DEF transport_work, TransportOp, Output
<1>4. /\ pc[t] = "work"
      /\ UNCHANGED <<serialised, op, late, ck, split_done, keys_exported, keys>>
  BY DEF transport_work
<1>5. PICK r \in Result : results' = Append(results, r) /\ r.op = op[t] /\ r.late = late[t]
  BY <1>1, <1>3, ReturnStep
<1>6. pc' = [pc EXCEPT ![t] = "idle"] /\ strand' = strand \ {t}
  BY <1>3 DEF return, goto
<1>7. /\ exports' = exports
      /\ \A i \in DOMAIN results : i \in DOMAIN results' /\ results'[i] = results[i]
      /\ \A i \in DOMAIN results' : i \in DOMAIN results \/ results'[i] = r
      /\ results' \in Seq(Result)
  <2>1. r.op # "export"
    BY <1>2, <1>5 DEF TransportOp
  <2> QED BY <1>1, <1>5, <2>1, ResultAppended DEF GateTypes
<1>8. GateTypes'
  BY <1>1, <1>4, <1>6, <1>7 DEF GateTypes
<1>9. FlagOrder' /\ LateCalls'
  BY <1>1, <1>4, <1>6, <1>7 DEF GateTypes, Control, FlagOrder, LateCalls, Exporting, Transporting
<1>10. OneInCall'
  BY <1>1, <1>4, <1>6, StrandStep DEF Control, OneInCall, GateTypes
<1>11. StrandOrder' /\ OneExport' /\ StrandRefusesTransport'
  BY <1>2, <1>4 DEF StrandOrder, OneExport, StrandRefusesTransport
<1>12. LateCallsRefused'
  BY <1>1, <1>2, <1>5, <1>7 DEF LateCallsRefused
<1> QED BY <1>8, <1>9, <1>10, <1>11, <1>12 DEF GateInv, Control

\* GateInv is inductive.
LEMMA NextGate == GateInv /\ [Next]_vars => GateInv'
<1>1. ASSUME GateInv, UNCHANGED vars PROVE GateInv'
  <2>1. GateTypes'
    BY <1>1 DEF vars, GateInv, GateTypes
  <2>2. exports' = exports /\ OneExport' /\ LateCallsRefused' /\ StrandRefusesTransport'
    BY <1>1, ResultsUnchanged DEF vars
  <2>3. Control'
    BY <1>1, <2>2 DEF vars, GateInv, Control, FlagOrder, LateCalls, OneInCall, InCall, StrandOrder
  <2> QED BY <2>1, <2>2, <2>3 DEF GateInv
<1> QED BY <1>1, BeginStep, ExportCheckStep, ExportDeriveStep, ExportWipeMarkStep, ExportPublishStep,
           TransportCheckStep, TransportWorkStep DEF Next

\* The inductive invariant of the gate.
THEOREM GateInvariant == Spec => []GateInv
  BY InitGate, NextGate, PTL DEF Spec

(***************************************************************************)
(* The properties of the run.                                              *)
(***************************************************************************)
\* A transport-phase call begun after a successful export is refused, on a
\* strand or without one.
THEOREM LateCallsAreRefused == Spec => []LateCallsRefused
<1>1. GateInv => LateCallsRefused
  BY DEF GateInv
<1> QED BY <1>1, GateInvariant, PTL

\* On the strand no transport-phase call reaches the unkeyed TransportState.
THEOREM StrandRefuses == Spec => []StrandRefusesTransport
<1>1. GateInv => StrandRefusesTransport
  BY DEF GateInv
<1> QED BY <1>1, GateInvariant, PTL

\* On the strand export_transport_keys succeeds once, with the keys of the
\* handshake's chaining key.
THEOREM StrandExports == Spec => []StrandExportsOnce
<1>1. GateInv => StrandExportsOnce
  <2> SUFFICES ASSUME GateInv, serialised
               PROVE  Cardinality(exports) <= 1 /\ \A i \in exports : results[i].out = Exported(LiveKey)
    BY DEF StrandExportsOnce, Exported, Pair
  <2>1. /\ \A i, j \in exports : i = j
        /\ \A i \in exports : results[i].out = Exported(LiveKey)
    BY DEF GateInv, OneExport
  <2>2. CASE exports = {}
    BY <2>1, <2>2, FS_EmptySet
  <2>3. CASE exports # {}
    <3>1. PICK i : exports = {i}
      BY <2>1, <2>3
    <3>2. Cardinality(exports) = 1
      BY <3>1, FS_Singleton
    <3> QED BY <2>1, <3>2
  <2> QED BY <2>2, <2>3
<1> QED BY <1>1, GateInvariant, PTL
==============================================================================
