# A TLA+ model of the GoodNet Noise security provider

This directory models the `security-noise` plugin: a security provider that runs
the Noise XX and IK handshakes for the GoodNet kernel, exports the transport keys
and offers a transport phase with automatic rekeying. The modules are checked by
TLC on small instances; nearly all of their safety properties are also proved with
TLAPS, for every value of the constants.

## 1. Inventory

The code is about 1900 lines of C++ in one directory. The kernel, the link plugins
and libsodium are outside the repository.

| Component | State it keeps | Operations | Interacts with |
|---|---|---|---|
| Primitives (`hash`, `hmac`, `hkdf`, `handshake.cpp:31-50`, `noise.cpp:86-98`) | none | `blake2b`, `hmac_blake2b`, `hkdf2`, `dh`, `generate_keypair`, `ed25519_to_x25519` | libsodium |
| `CipherState` (`cipher`) | key `k_`, 64-bit nonce `n_`, `has_key_` | `initialize_key`, `encrypt_with_ad`, `decrypt_with_ad`, `rekey`, `reset_nonce_to_zero`, `zeroize`, moves | owned by `SymmetricState`, `TransportState` |
| `SymmetricState` (`symmetric`) | chaining key, handshake hash, a `CipherState` | `initialize`, `mix_key`, `mix_hash`, `encrypt_and_hash`, `decrypt_and_hash`, `split`, moves | owned by `HandshakeState` |
| `HandshakeState` (`handshake`) | pattern, role, step count, static and ephemeral pairs, peer static and ephemeral, `rs_known_`, a `SymmetricState` | constructor, `write_message`, `read_message`, `split`, destructor, moves | owned by `NoiseSession` |
| `TransportState` (`transport.hpp`) | send and receive `CipherState` | `encrypt`, `decrypt`, `rekey`, `needs_rekey` | driven by `noise_encrypt`, `noise_decrypt`, `noise_rekey` |
| Provider session (`noise.cpp:52-367`) | a `HandshakeState`, a `TransportState`, `split_done`, atomic `keys_exported` | `handshake_open`, `handshake_step`, `handshake_complete`, `export_transport_keys`, `encrypt`, `decrypt`, `rekey`, `handshake_close` | called by the kernel through a C vtable; the kernel carries its messages to the peer's session |
| Plugin lifecycle (`noise.cpp:387-513`) | the plugin object, two vtables that share it | init, register XX (mandatory) and IK (best effort), unregister (IK, then XX), shutdown, `destroy` (a no-op) | the kernel's `register_security` and `unregister_security`; connections that hold a provider or a session meanwhile |

What is hard here:

* **Failure half-way.** `read_message` and `write_message` change the hash, the
  cipher and the peer keys token by token and return on the first failure, with no
  rollback; `emit_buffer` may fail after the step or the nonce has advanced.
* **What the link delivers.** `read_message` does not check whose turn it is; a
  message may be repeated, late (from before a reconnect), damaged or cut.
* **Rekeying both directions at once.** `TransportState::rekey` moves both keys when
  either counter reaches the threshold, on each side by itself.
* **The export gate.** Two flags, one of them atomic, guard the keys against a second
  export and against use after export; the vtable may be called from any thread.
* **Key hygiene.** Which buffers are clear at which point of a session's life.
* **Nonces.** A key and nonce must never be used twice; at the last nonce the
  process aborts.
* **Moves.** The state objects are moved member by member, in the middle of a
  handshake too; the source must be left wiped and the target must carry on.
* **Two registrations.** The plugin registers and removes two providers in two host
  calls, either of which may be refused or, on a host that replaces, displace another
  provider, while connections look them up.

There are no timeouts, retries or persistent state in the provider: what a timeout
would do is the kernel's `handshake_close`.

## 2. Modules

| Module | Models | Correspondence |
|---|---|---|
| `NoisePrimitives` | hashing, HMAC, HKDF, X25519, key conversion | A buffer is a symbolic term saying how it was computed; equal terms for equal computations, no collisions. Ed25519 and X25519 keys are different terms, so the conversion is visible. `dh` of two key names is the same from either end; a low-order public key (`Zero`) is refused. |
| `CipherState` | `cipher.cpp` | One operator per method, from the object to the object after the call and its result. A key is its 32 source bytes and the number of REKEYs since. A ciphertext is a term that opens under exactly its key, nonce and associated data. |
| `SymmetricState` | `symmetric.cpp` | The same; `split` leaves the hash and the cipher, as the code does. |
| `HandshakeState` | `handshake.cpp` | A wire message is a sequence of fields with lengths, so `offset` arithmetic, short messages and misaligned reads behave as in the code. Tokens are chained over a call in progress; the first that fails stops the chain and what was changed stays changed. |
| `NoiseSession` | `noise.cpp`, handshake phase | Endpoints with one session each, one after the other. `handshake_step` is split by its returns: `step_without_input`, `step_read_only`, `step_read_and_write`. The link (external) loses, repeats, reorders, damages, zeroes, truncates or extends messages. A call that fails without changing anything is not a step. |
| `SecureChannel` | the promise of the transport phase | Abstract: of the plaintexts sent, some are delivered, each at most once and in order. |
| `TransportState` | `transport.hpp` | The send and receive ciphers: `encrypt`, `decrypt`, `rekey`, `needs_rekey`, moves, destructor. |
| `TransportLink` | the bodies of `noise_encrypt`, `noise_decrypt`, `noise_rekey` | Two `TransportState`s built from one Split, over a datagram link (external) that loses, repeats, reorders and damages frames. |
| `StreamLink` | the same calls over a reliable, ordered stream | `send`, `receive`; `begin_rekey` and `finish_rekey` are a `noise_rekey` that both sides agreed on. `crossed` records that a side has sent while frames for it were in flight. |
| `ExportGate` | `noise.cpp:249-363` at the grain of single reads and writes | Threads inside `export_transport_keys`, `encrypt`, `decrypt`, `rekey`; with or without the kernel's strand (`serialised`, chosen at the start). |
| `ObjectValues` | what the owners of the state objects rely on | Abstract: two sides each have a handshake and then a transport value; there is no memory and nothing moves. |
| `ObjectLife` | constructors, move constructors, move assignments and destructors of `HandshakeState`, `SymmetricState`, `CipherState`, `TransportState`; the abort | Objects in slots of memory, moved onto free slots, onto objects in use and from objects already moved from, at every point of a handshake and of the transport phase. |
| `PluginLifecycle` | `noise.cpp:387-513` | One action per host call inside `gn_plugin_register` and `gn_plugin_unregister`; hosts with 0 to `MaxSlots` slots that refuse a provider or replace one when they are full, with and without `unregister_security`; connections that look up, open and close at any time. |
| `MCNoiseSession`, `MCExportGate`, `MCObjectLife` | instances for TLC | endpoints, arguments of `handshake_open`, symmetry of threads and of slots |
| `TransportLinkProofs`, `StreamLinkProofs`, `ExportGateProofs`, `ObjectLifeProofs`, `PluginLifecycleProofs`, `NoiseSessionProofs` | theorems about the module each is named after | section 5 |
| `AuthenticityProofs` | the theorems about `NoiseSession` that rest on where a seal comes from, and on what two sessions without faults say to each other | extends `NoiseSessionProofs`; section 5 |
| `HandshakeProofs` | lemmas about the operators of `HandshakeState`, `SymmetricState` and `CipherState`, about the agreement of two ends, and about a handshake without faults | used by `NoiseSessionProofs`, `AuthenticityProofs` and `ObjectLifeProofs` |

`NoiseSession` builds on `HandshakeState`, that on `SymmetricState`, that on
`CipherState`, that on `NoisePrimitives`. `TransportState` uses `CipherState`;
`TransportLink` and, above it, `StreamLink` use `TransportState`; `ExportGate` uses
`SymmetricState`; `ObjectValues` and `ObjectLife` use `HandshakeState` and
`TransportState`. `PluginLifecycle` stands alone.

Two notes on fidelity:

* In the shipped provider the session's `TransportState` is never given keys: export
  hands them to the kernel and closes the vtable's transport entries. `ExportGate`
  models exactly that. `TransportLink` models the `TransportState` as the code builds
  and drives it when it does have keys (the constructor of `transport.hpp`, the
  bodies behind the gate, and `tests/test_noise_transport.cpp`), which is the design
  that docs/handshake.md section 4 describes.
* In `ExportGate` the copies and wipes of memory that no other call reads are one step
  with the shared access next to them. The plain `bool split_done` is read and written
  without synchronisation; the model gives it the interleaving semantics that the
  build's byte loads and stores have.

Definitions named `<Something>_<definition>` (such as `Late_needs_rekey`) are
deliberate faults, used to confirm that a property can fail; no specification uses
them.

## 3. Runs

| Run | Bounds | What it shows |
|---|---|---|
| `session_reconnect` | 2 endpoints, XX or IK each, 2 sessions each, 1 fault of any kind, 5 ephemerals; 64 171 states | `AuthenticatedReadsWereWritten`, `CompletionsPairUp`, `ExportedKeysMirror`, `ExportedKeysFresh`, `ExportMatchesCompletion`, `WipedStaysWiped`, `IdentityPinned` |
| `session_faults` | 1 session each, every combination of patterns and roles, wrong and refused keys, 3 faults; 234 563 states | `TypeOK`, `AuthenticatedReadsWereWritten`, `PoisonedNeverCompletes`, `HandshakeNoncesUnique`, `StallIsReported` |
| `session_live` | matched roles, 3 duplicated messages; 1 455 states | `HandshakeCompletes` |
| `link_datagram` | threshold 2, 3 plaintexts a side, 2 in flight, 1 manual rekey, 2 faults; 80 362 states | `TypeOK`, `NonceUnique`, `LinkInv`, `ImplementsSecureChannel` |
| `link_stream` | threshold 3, 5 plaintexts a side, 3 in flight, 1 agreed manual rekey (one call a side); 23 415 states | `Converged`, `HeadOpensOrIsStale`, `UncrossedFramesOpen`, `AllDelivered` (liveness) |
| `object_life` | 3 slots, XX and IK, 4 frames, 1 rekey, `NONCE_MAX` 3; 322 824 states up to symmetry | `NoResidue`, `SealsUnique`, `ImplementsObjectValues` |
| `plugin_load` | hosts with 0 to 3 slots that refuse or replace, 2 connections, 2 loads; 171 081 states | `NoMemoryError`, `NoDanglingProvider`, `XXIsPrimary` |
| `gate_threads` | 3 threads, 4 calls, serialised or not; 57 244 states up to symmetry | `LateCallsRefused`, `StrandRefusesTransport`, `StrandExportsOnce` |

Why the bounds are enough to meet the interesting cases: two sessions per endpoint
let a message of the first arrive in the second; three faults can damage, repeat and
reorder within one handshake of at most three messages; a threshold of 2 or 3 with 3
to 6 plaintexts a side crosses it in both directions while frames are in flight
(threshold 3 is the least at which one side crosses with two of the other's frames in
flight). Three slots are two objects and a place to move to, or one side's handshake,
transport and moved-from object; with `NONCE_MAX` 3 and 4 frames a cipher reaches the
last nonce, where it aborts, and a rekey before it seals its block under that nonce.
Three provider slots are room for none, one or both providers beside another plugin;
two loads let the second meet what the first left behind. `NONCE_MAX` stands for
2^64 - 1 and `REKEY_INTERVAL` for 2^60; the proofs cover the real values.

`PoisonedNeverCompletes` says that a session which a failed call has left half-changed
does not complete. It has one exception, found when the proof of the plain statement
failed: `read_message` mixes the ephemeral into the hash before the DH refuses a low-order
one, and IK's own keys do not depend on the hash. When both ends have been handed a
low-order ephemeral before message 1 (the initiator before its first call), their hashes
agree again and the handshake completes, with the right keys and peer on both sides. The
property therefore allows completion to a session whose hash shows a low-order ephemeral
in that place (`low_order_start`) and to no other. It takes two sessions each and two
low-order ephemerals to get there; `SessionLowOrder.cfg` is that instance of
`MCNoiseSession`, kept beside the runs (109 544 states; the property as stated holds, and
without the exception it is violated).

`StallIsReported` says that two sessions, at least one of them an initiator, that wait
for each other for ever over a faultless link have completed, or a call has failed on
one side. It presupposes that the kernel lets an initiator write before
handing it bytes. The provider does not enforce this: an initiator that is handed the
message of another initiator before its own first call reads it as message 1
(`noise.cpp:219` looks at neither role nor turn), and then both sides wait although
every call has returned `GN_OK`. It also presupposes that both sessions are the first of
their endpoints. Without that it is false, as the attempt to prove it showed: a side whose
call failed is closed and opened again, and nothing tells the other side, whose message
the closed session has consumed; the new session waits for a message 1 that is not sent
again. (TLC finds this with two sessions a side; one session each is what
`session_faults` explores.)

Four runs show that the code does something else than a comment or the contract says:

| Run | Statement | What the code does |
|---|---|---|
| `session_export_residue` | docs/handshake.md:162-163: export "zeroises every cipher key, nonce, and hash buffer in the source session" | The handshake cipher inside the symmetric state (and the hash) stay until `handshake_close`. Section 5 clause 4 of the same document lists a smaller set, which the code does wipe (`WipedStaysWiped`). |
| `session_peer_key_form` | docs/handshake.md:253: `peer_static_pk` is the "peer's Ed25519 public key" | It is the X25519 form (`noise.cpp:288-291`). |
| `link_full_duplex` | noise.cpp:325-327: rekeying on every encrypt/decrypt "keeps the two CipherStates in sync" | With frames in flight both ways, frames sealed before the peer's rekey no longer open. `link_stream` shows what does hold: only such frames are refused, and quiet sides agree. |
| `gate_race` | noise.cpp:66-68: the atomic "closes the TOCTOU window" for a concurrent caller | Between the writes of lines 300 and 301 a call passes both checks. On the kernel's strand it cannot (`StrandRefusesTransport`), and a call that begins after export has returned is always refused (`LateCallsRefused`), both in `gate_threads`. |

The comments of `noise.cpp` disagree about the single-slot host. Lines 472-475 and 482-485
say that it keeps the first provider and refuses the next with `GN_ERR_LIMIT_REACHED`, lines
497-499 that it "keeps only the most recently registered id alive". The stub of
`tests/test_noise_plugin.cpp:128-139` never refuses: it keeps both ids in a map, and its
single-slot fields are overwritten by the last registration. The kernel's registry is not in
the repository, so `PluginLifecycle` has both kinds of host. `NoMemoryError` and
`NoDanglingProvider` hold on both; `XXIsPrimary` is claimed, and proved, for the refusing
one only. On a replacing host noise.cpp:474-475, "Either way the XX surface ends up live",
is false: IK is registered second and the host's answer is ignored (486), so on a single
slot it displaces XX and register returns `GN_OK` with only IK registered.
`PluginSingleSlot.cfg`, kept beside the runs, is that instance: TLC finds `XXEndsUpLive`
violated in four states (init, XX registered, IK in its place).

Deadlock checking is off in every run: a session may be closed, refused or stuck for
good, a process may abort, and the bounds end every behaviour.

## 4. Fairness

`HandshakeCompletes` is checked under `FairSpec`: the kernel opens the sessions it
may open, hands over what the link delivers, kicks a session that is to write
(`handshake_step` with no input) and exports when `handshake_complete` says so. This
is the contract of the vtable's only caller; nothing is assumed about the link, which
may repeat messages in that run, and the property presupposes that the kernel keeps
both sessions open and uses one pattern. Each conjunct is weak fairness of one call,
with the enabling condition written out as a state predicate (`can_open`, `can_step`,
`can_export`): `handshake_step` evaluates a whole handshake message, and computing
`ENABLED` of it in every state is far slower. The conditions are those of the actions,
except that `can_step` leaves out the call on a complete session with no input, which
changes nothing.

`AllDelivered` is checked under `FairStreamSpec`: weak fairness of `receive` on each
side, which is the stream link's own contract (it is reliable and ordered) and the
kernel's, who hands every frame on. Nothing is assumed about `send` or the rekeys. The property
is about exchanges in which no side sends while frames for it are in flight; for others
`link_full_duplex` shows that frames are refused.

Loss is not among the faults of `session_live`: the provider has no retransmission, so a
lost handshake message ends the attempt (docs/handshake.md section 7a requires a
reliable link).

## 5. What is proved

The theorems hold for every value of the constants under the named assumptions, which
TLC evaluates in the runs. Each property of the runs is one theorem; it follows from an
inductive invariant, which TLC checked on an instance first. The proofs have one lemma
per action and, under it, a step per part of the invariant that the action can disturb.

| Module | Theorems | Assumptions |
|---|---|---|
| `TransportLinkProofs` | `TypeCorrect`, `LinkInvariant`, `NoncesAreUnique`, `Refinement` | `NonceMaxAssumption`, `RekeyIntervalAssumption` (`0 < REKEY_INTERVAL <= NONCE_MAX`), `TransportAssumption` (the two Split keys differ; the bounds are naturals) |
| `StreamLinkProofs` | `StreamInvariant`, `StreamImplementsLink`, `StreamConverges`, `OnlyStaleRefused`, `UncrossedOpen` | the same |
| `NoiseSessionProofs`, on lemmas of `HandshakeProofs` | `SessionInvariant`, `SessionTypes`, `Pairing`, `MirrorKeys`, `FreshKeys`, `ExportsAreCompletions`, `Wiped`, `Pinned` | `NonceMaxAssumption`, `SessionAssumption` (`Peer` is a function on endpoints, patterns are XX or IK, roles Boolean, bounds naturals) |
| `AuthenticityProofs` | `NonceInvariant`, `NoncesUnique`; `AuthInvariant`, `Authenticity`, `Poisoning`; `TalkInvariant`, `StallsReported` | the same; from `AuthInvariant` on also `NobodyPinsItself`; the last two also `TwoEnds` (the endpoints are the two ends of one link) |
| `ExportGateProofs` | `GateInvariant`, `LateCallsAreRefused`, `StrandRefuses`, `StrandExports` | `GateAssumption` (the bound is a natural); any set of threads |
| `HandshakeProofs` | `FaultlessHandshake`, `FaultlessSplit` | `NonceMaxAssumption` |
| `ObjectLifeProofs`, on `HandshakeProofs` | `LifeInvariant`, `NothingLeft`, `SealedOnce`, `ObjectsImplementValues` | `NonceMaxAssumption`, `LifeAssumption` (`NoSlot` is no slot; bounds naturals); any set of slots |
| `PluginLifecycleProofs` | `LifecycleInvariant`, `MemorySafe`, `NoneDangles`, `PrimaryProvider` | `LifecycleAssumption` (bounds naturals); any set of connections |

**Transport over datagrams.** `TypeCorrect`: every nonce is below the threshold between
calls, so neither abort of `cipher.cpp` is reachable, and each cipher keeps the key of
its direction. `NonceUnique` by itself is not inductive: that the next position is
unused follows only if positions (generation, nonce) are used in increasing order and
all lie before the send cipher's position (`LogOrdered`). The refinement of
`SecureChannel` needs two more parts of `LinkInv`: a frame in flight is one its sender
sealed, or is damaged (`FramesGenuine`), and everything delivered lies before the
receiver's position (`ReadBehind`), so that what opens next is new and later.
`noise_encrypt` maps to `send`, a `noise_decrypt` that returns a plaintext to `deliver`,
every other step to a stutter.

**Transport over a stream.** `StreamInv` looks at a direction as a line of positions
from the receiver's next one, through the frames in flight, to the sender's next one
(`LinesUp`). Neighbours on the line follow each other, except where a generation was cut
short; it is only cut short when the receiver has left it too. For that a side's two
ciphers must have the same generation (`SameGeneration`: `TransportState::rekey` moves
both). The two calls of an agreed rekey are the one time the lines do not meet
(`RekeyHalfDone`), and `OneWay` carries `UncrossedFramesOpen`. `StreamImplementsLink`
gives nonce uniqueness and the secure channel on the stream as well.

**Handshake sessions.** The chaining key is a symbolic term, so it still shows which
secrets went into it. `HandshakeProofs` says what each of the five message forms does to
a `HandshakeState` that meets its invariant (`Session`), as a writer and as a reader of
anything the link can deliver, failures half-way included. Its conclusion is `Agreed`:
which static and ephemeral keys the last secrets of a complete handshake are made of;
and `Binds`: the handshake hash of the last message names the key its payload was sealed
with, hence the chaining key. `Partners` compares two ends with one chaining key: they
have the same ephemeral, or they are the two ends of one handshake. `SessionInv` adds
what makes "the same ephemeral" mean "the same session":

* `Objects`: each session is in a state that `Session` describes, is spent (after Split)
  or closed; `Wire`: every seal in flight, in whatever damaged, cut or repeated message,
  is under a secret of keys that were sent;
* `Recorded`: what was recorded of complete sessions satisfies `Agreed` and `Binds`;
* `EphemeralsUnique`, `EphemeralsFresh`: an ephemeral belongs to one session, and is
  newer than everything its endpoint read in earlier ones, so that no endpoint is both
  ends of a handshake;
* `StepsOnce`: a session takes each step once, hence has one completion;
* `CompleteOnRecord`, `ExportsOnRecord`: what is exported is what was completed, once.

Two states that a proof has to allow and a reader may not expect: a responder of XX whose
third message fails in its payload, and an initiator of IK whose second message fails
there, have mixed the secrets of that message in already (`AfterXX2`, `AfterIK1`). That
such a session never completes is `Poisoning`, below; the theorems of
`NoiseSessionProofs` hold without it.

`FreshKeys` is what `TransportAssumption` rests on: the two keys of a Split differ, and no
other pair of sessions has either of them. `SessionTypes` bounds the handshake nonces by
two, so the abort at the last nonce is out of reach in a handshake.

**Authenticity.** `AuthenticityProofs` shows where each sealed field comes from, in two
stages, and a third one uses it.

* *Nonces.* Every message on record has a shape (`Shape`): which secrets are the last in
  its chaining key, and at which places of its hash its ephemeral and its seals are. From
  the key and the nonce of a seal one can then tell its slot (`slot`: one of six fields of
  the two patterns) and the ephemeral of the session that made it (`slot_eph`, lemma
  `SealPlace`). An ephemeral belongs to one session and a session takes each step once, so
  two seals with one key and nonce are one seal: `NoncesUnique`, without any hypothesis.
  The shape needs `FirstKeys`: an IK session that has read nothing may have mixed in the
  secrets of messages that failed, but none that looks like another pattern's key.
* *Transcripts.* A seal that opens has the reader's hash as associated data, so reader and
  writer have one hash, and it remains to show that equal hashes mean equal histories. A
  hash is a `Transcript`: the pattern's name, the prologue, a first value and `n` more;
  two transcripts of one hash have the same length (by a least
  counterexample, through `WFMin` of the library, which needs no operator parameter).
  `Trails` says how long the transcript of a session is at each step, and that a failed
  call has made it longer (XX), or has left a value where the peer has another (IK).
  `Carried` says that every seal in flight, damaged and cut messages included, was
  written, and `WrittenTrails` says the same as `Trails` of every writer.
  `Authenticity` and `Poisoning` follow: nobody seals under the hash of a session that has
  gone astray, except after `low_order_start`.
* *Conversations.* `StallsReported` needs to know what two sessions are saying while
  nothing goes wrong. `TalkInv` says it: as long as `Smooth` holds (no fault, no close, no
  failed call that changed a session, initiators wrote first), the two objects and the two
  queues are at one of six stages (`Talk`), from nobody having spoken to both complete. The
  kernels may have chosen any patterns and roles, so two initiators may have asked each
  other and an IK message may have reached an XX responder. Three facts make the stages
  inductive. Messages 1 and 2 open with an ephemeral, which `read_message` stores before
  anything can fail, so a failed read of them shows in the object (`ReadShows`). A message
  2 that is read is authentic, so there is a record of it from a session at step 2 with the
  reader's pattern, which only the responder that answered can be (`Hearing`, from
  `Authenticity`'s invariant). And message 3 of XX is read, because by then both
  objects are those of a faultless handshake (the lemmas under `FaultlessHandshake`). At
  every stage but the last somebody can step, or both are responders.

`NobodyPinsItself` says that no IK initiator is opened with its own key as the remote one.
It is a hypothesis on the caller, true of every instance in `MCNoiseSession` (where TLC
evaluates it), and `Authenticity` is false without it: an initiator that pins its own key
and is handed another initiator's message 1 before its first call has that message's
transcript and accepts it, although both have the same role.

**Export gate.** The flags are set in the order `split_done`, `keys_exported`, result
(`FlagOrder`), and `keys_exported` is never cleared, so a call that begins after an export
has returned (`late`) does not get to work (`LateCalls`), with any threads. On the strand
one call runs at a time (`OneInCall`), which sees both flags or neither, and the chaining
key is live until the export that derives from it (`StrandOrder`); `OneExport` follows.

**Objects.** An owner has one live object of its kind (`Holders`); whatever no owner has is
clean and has no cipher with a key (`Idle`), which is more than `NoResidue` says, because a
moved-from `TransportState` may still be called. `SealsUnique` needs that a role splits
once (`Owners`: who has a `TransportState` is past Split, and its send key is the one of its
role) and that everything sealed under a role's key lies behind its send cipher, while
REKEY's own block sits alone at `NONCE_MAX` (`Sealings`).

`ObjectsImplementValues` is the refinement: with the value of each owner's slot for its
object, every step of `ObjectLife` is a step of `ObjectValues` or changes nothing there. A
move is invisible to the owner of the source, a move onto an object in use and a
destruction are `drop`, and so on. Two facts carry it. A move copies field by field, so
the copy is the object only if the object is a record with these fields and nothing else
(`SolidMemory`, kept by every token of both message functions). And `ObjectValues` reads
only messages that the reader accepts, so every read of a handshake without faults has to
succeed. That is `FaultlessHandshake`: at each of the three messages of XX and the two of
IK, two ends with one symmetric state, of which the reader has the keys that the writer's
secrets are made of, have one symmetric state afterwards and the read has not failed;
`FaultlessSplit`: after the last one their ciphers match crosswise. `RunInv` brings it to
the objects: `Exchanged` counts the messages each side has handled, the object of a side
that is not complete is exactly the one of that point of the conversation, at most one
message is on its way, and it is the one that the side behind is to read.

**Plugin.** From init to shutdown the object of the load is live (`SelfIsLive`); on a host
with `unregister_security` only the current load has entries, and none before register,
after a refused one or after unregister (`OwnEntries`); IK is gone before XX is removed
(`IKGoesFirst`). What `register_security` may do to the registry is lemma `Registered`; it
separates the two kinds of host, and `XXIsPrimary` needs that a refusing one lets no provider
go by itself.

All handshake theorems are about the symbolic terms of `NoisePrimitives`: primitives that
do not collide and seals that open under their key, nonce and associated data only.

Only model-checked: liveness, `HandshakeCompletes` and `AllDelivered`, which under
fairness is out of the prover's reach. Every invariant and every action property of the
passing runs is a theorem.

## 6. Not modelled

* The descriptor, version and capability masks of the plugin: constants without
  behaviour.
* The inside of HMAC, `hkdf3` (only the tests call it), byte encodings (nonce layout,
  truncation of hash outputs): `hmac_blake2b` is a primitive.
* Null-argument checks: they return before anything changes. The exception is a null
  `out` of `encrypt` and `decrypt`, which behaves like a failed allocation, and that is
  modelled.
* The exception path of `split`: no primitive it calls throws.
* Non-empty handshake payloads: the provider always passes the empty one.
* The abort of `decrypt_with_ad`, other than as a guard: `object_life` takes the abort
  in `encrypt_with_ad`.
* Copies of key pairs on the stack (`handshake.cpp:189`, `noise.cpp:147`): `NoResidue`
  is about the objects.
* The test hooks that set nonces.
* The kernel and the links, other than as the environment. In particular the host is
  taken to remove only the caller's own provider when it is asked to unregister an id
  (the call carries `host_ctx`).

## 7. Plan

1. Done: the handshake stack and `NoiseSession`; `TransportLink`, `SecureChannel`;
   `StreamLink` with its liveness; `ExportGate`; `ObjectLife` and its refinement of
   `ObjectValues`; `PluginLifecycle`; the theorems of section 5.
2. Further modelling: when `peer_static_known` becomes true relative to the
   authentication of the key; the HMAC construction against a reference.
