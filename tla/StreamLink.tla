------------------------------ MODULE StreamLink ------------------------------
(***************************************************************************)
(* The transport phase over a reliable link: every frame is delivered once *)
(* and in order.  noise_rekey is called by both sides at the same point of *)
(* their counters (transport.hpp): one side calls it when nothing is in    *)
(* flight, and nobody sends before the other has called it too.            *)
(***************************************************************************)
EXTENDS TransportLink

VARIABLES
    pending,   \* sides that still have to make their call of a coordinated rekey
    crossed    \* history: a side has sent while frames for it were in flight

stream_vars == <<vars, pending, crossed>>

StreamInit == Init /\ pending = {} /\ crossed = FALSE

send(p) ==
    /\ pending = {}
    /\ noise_encrypt(p, FALSE)
    /\ crossed' = (crossed \/ chan[p] # <<>>)
    /\ UNCHANGED pending

receive(p) == noise_decrypt(p, FALSE) /\ UNCHANGED <<pending, crossed>>

begin_rekey(p) ==
    /\ pending = {} /\ \A q \in Side : chan[q] = <<>>
    /\ pending' = {other(p)}
    /\ noise_rekey(p)
    /\ UNCHANGED crossed

finish_rekey(p) ==
    /\ p \in pending /\ pending' = {}
    /\ noise_rekey(p)
    /\ UNCHANGED crossed

StreamNext == \E p \in Side : send(p) \/ receive(p) \/ begin_rekey(p) \/ finish_rekey(p)

StreamSpec == StreamInit /\ [][StreamNext]_stream_vars

\* The kernel hands over every frame the link delivers.
FairStreamSpec == StreamSpec /\ \A p \in Side : WF_stream_vars(receive(p))
-----------------------------------------------------------------------------
quiet == pending = {} /\ \A p \in Side : chan[p] = <<>>

\* Once nothing is in flight the two sides are on the same keys and their
\* counters mirror each other, however the automatic rekeys interleaved:
\* docs/handshake.md section 4.1, "the two sides converge".
Converged ==
    quiet => \A p \in Side : position(tr[p].send) = position(tr[other(p)].recv)

frame_generation(f) == f[2].gen

\* The next frame opens, or it was sealed before a rekey the receiver has
\* already made.
HeadOpensOrIsStale ==
    \A p \in Side : chan[p] # <<>> =>
        \/ opens_here(p, Head(chan[p]))
        \/ frame_generation(Head(chan[p])) < tr[p].recv.k.gen

\* Every frame the stream delivers decrypts.
HeadOpens == \A p \in Side : chan[p] # <<>> => opens_here(p, Head(chan[p]))

\* As long as no side sends while frames for it are in flight (requests and
\* responses), every frame decrypts, through automatic and manual rekeys.
UncrossedFramesOpen == ~crossed => HeadOpens

\* In such an exchange every plaintext that was sent is returned by the
\* peer's decrypt in the end.
AllDelivered ==
    [](~crossed) => \A p \in Side : \A i \in 1..MaxFrames :
                        (Len(log[p]) >= i) ~> (Len(got[other(p)]) >= i)
==============================================================================
