--------------------------- MODULE MCNoiseSession ---------------------------
(* Instances of NoiseSession for TLC: endpoints A and B, and a third       *)
(* identity C that an IK initiator may pin by mistake.                     *)
EXTENDS NoiseSession, TLC

CONSTANTS A, B, C

MCPeer == (A :> B) @@ (B :> A)

Args(pattern, initiator, local, remote) ==
    [pattern |-> pattern, initiator |-> initiator, local |-> local, remote |-> remote]

XXInitiator == {Args("XX", TRUE, Ed25519(A), Empty)}
XXResponder == {Args("XX", FALSE, Ed25519(B), Empty)}
IKInitiator == {Args("IK", TRUE, Ed25519(A), Ed25519(B))}
IKResponder == {Args("IK", FALSE, Ed25519(B), Empty)}
\* The wrong remote, no remote, a remote or a local key that does not convert.
IKWrongPeer == {Args("IK", TRUE, Ed25519(A), Ed25519(C))}
Refused     == {Args("IK", TRUE, Ed25519(A), Empty), Args("IK", TRUE, Ed25519(A), MalformedKey),
                Args("XX", TRUE, MalformedKey, Empty)}

\* One initiator and one responder, each free to choose the pattern.
MatchedRoles == (A :> (XXInitiator \cup IKInitiator)) @@ (B :> (XXResponder \cup IKResponder))
XXArgs == (A :> XXInitiator) @@ (B :> XXResponder)
\* Every combination of patterns and roles the two kernels could choose.
MixedArgs ==
    (A :> (XXInitiator \cup IKInitiator \cup IKWrongPeer \cup Refused))
 @@ (B :> (XXResponder \cup IKResponder \cup {Args("XX", TRUE, Ed25519(B), Empty),
                                               Args("IK", TRUE, Ed25519(B), Ed25519(A))}))
\* Two initiators of IK, or an initiator and a responder.
IKArgs == (A :> IKInitiator) @@ (B :> (IKResponder \cup {Args("IK", TRUE, Ed25519(B), Ed25519(A))}))

\* The hypothesis of the theorems on authenticity.
ASSUME PinsAssumption == NobodyPinsItself
=============================================================================
