---------------------------- MODULE SecureChannel ----------------------------
(***************************************************************************)
(* What the transport phase promises whatever the link does to the frames: *)
(* of the plaintexts a side sends, the other side is given some, in the    *)
(* order they were sent and at most once each, and nothing else.           *)
(***************************************************************************)
EXTENDS Naturals, Sequences

CONSTANT Side

VARIABLES sent,       \* sent[p]: how many plaintexts p has sent; they are numbered from 1
          delivered   \* delivered[p]: the numbers of p's plaintexts the other side was given

Init == sent = [p \in Side |-> 0] /\ delivered = [p \in Side |-> <<>>]

send(p) == sent' = [sent EXCEPT ![p] = @ + 1] /\ UNCHANGED delivered

deliver(p, i) ==
    /\ i \in 1..sent[p]
    /\ \A j \in DOMAIN delivered[p] : delivered[p][j] < i
    /\ delivered' = [delivered EXCEPT ![p] = Append(@, i)]
    /\ UNCHANGED sent

Next == \E p \in Side : send(p) \/ \E i \in 1..sent[p] : deliver(p, i)

Spec == Init /\ [][Next]_<<sent, delivered>>
==============================================================================
