--------------------------- MODULE PluginLifecycle ---------------------------
(***************************************************************************)
(* The plugin's entry points (noise.cpp): init, register, unregister and   *)
(* shutdown, called by the host in its order (register, unregister,        *)
(* shutdown; a failed register may skip unregister) and loaded again       *)
(* afterwards, while connections look providers up in the registry, open   *)
(* sessions through what they found and close them at any later time.      *)
(* register and unregister make two host calls each, so other threads see  *)
(* the registry in between.                                                *)
(***************************************************************************)
EXTENDS Naturals, FiniteSets

CONSTANTS
    Conn,         \* connections of the host that may hold a session
    MaxSlots,     \* bound: provider slots of the largest host
    MaxLoads      \* bound: times the plugin is loaded

ASSUME LifecycleAssumption == MaxSlots \in Nat /\ MaxLoads \in Nat

VARIABLES
    api,           \* the host: its slots, what it does when they are full, and
                   \* whether it has unregister_security
    foreign,       \* slots that providers of other plugins occupy
    registry,      \* the providers registered by this plugin
    stage,         \* how far the host has come with the loaded plugin
    self,          \* the NoisePlugin of the last load
    memory,        \* memory[p]: the NoisePlugin object p is "free", "live" or "deleted"
    destroys,      \* entries whose destroy the host still has to call
    conn,          \* conn[c]: what connection c looked up, and its session
    memory_error   \* history: a NoisePlugin was used, or deleted again, after shutdown

vars == <<api, foreign, registry, stage, self, memory, destroys, conn, memory_error>>

Plugin   == 1..MaxLoads
NoPlugin == 0

make_vtable(p) ==
    [provider_id    |-> IF p = "IK" THEN "noise-ik" ELSE "noise",
     handshake_open |-> IF p = "IK" THEN "IK" ELSE "XX"]

entry(p, owner) == [id |-> make_vtable(p).provider_id, vtable |-> make_vtable(p), self |-> owner]

Idle == [phase |-> "idle"]

Init ==
    /\ api \in [slots : 0..MaxSlots, when_full : {"refuse", "replace"},
               unregister_security : BOOLEAN]
    /\ foreign = 0 /\ registry = {} /\ stage = "unloaded" /\ self = NoPlugin
    /\ memory = [p \in Plugin |-> "free"]
    /\ destroys = {}
    /\ conn = [c \in Conn |-> Idle]
    /\ memory_error = FALSE

\* A read of the plugin object through self.
dereference(p) == memory_error' = (memory_error \/ memory[p] # "live")

(***************************************************************************)
(* The host's registry (external).  A host without register_security has   *)
(* no slots.  Comments and tests of the plugin know two kinds of host: one *)
(* refuses an id it has and a provider it has no slot for (noise.cpp:473,  *)
(* 484); the other accepts always, and the new provider displaces the one  *)
(* with its id or, when the slots are full, some other (noise.cpp:497).    *)
(* Providers of other plugins come and go.  When the host lets a provider  *)
(* go it calls destroy on it, then or later.                               *)
(***************************************************************************)
room == Cardinality(registry) + foreign < api.slots

accepts(id) ==
    /\ api.slots > 0
    /\ api.when_full = "replace" \/ (room /\ \A e \in registry : e.id # id)

\* The host takes e in; gone are our providers and others the number of other
\* plugins' providers it displaces.
register_security(e) ==
    LET same == {x \in registry : x.id = e.id}
        put(gone, others) ==
            /\ registry' = (registry \ gone) \cup {e}
            /\ destroys' = destroys \cup gone
            /\ foreign' = foreign - others
    IN  \/ (same # {} \/ room) /\ put(same, 0)
        \/ /\ same = {} /\ ~room
           /\ \/ \E x \in registry : put({x}, 0)
              \/ foreign > 0 /\ put({}, 1)

unregister_security(id) ==
    LET gone == {e \in registry : e.id = id}
    IN  /\ registry' = registry \ gone
        /\ destroys' = destroys \cup gone

foreign_provider ==
    /\ foreign' \in 0..(api.slots - Cardinality(registry)) \ {foreign}
    /\ UNCHANGED <<api, registry, stage, self, memory, destroys, conn, memory_error>>

\* Another plugin's provider displaces one of ours.
displace(e) ==
    /\ api.when_full = "replace" /\ ~room /\ e \in registry
    /\ registry' = registry \ {e} /\ foreign' = foreign + 1
    /\ destroys' = destroys \cup {e}
    /\ UNCHANGED <<api, stage, self, memory, conn, memory_error>>

(***************************************************************************)
(* gn_plugin_init, gn_plugin_register.  An init that fails (sodium_init or *)
(* the allocation) changes nothing.                                        *)
(***************************************************************************)
gn_plugin_init ==
    /\ stage = "unloaded" /\ self < MaxLoads
    /\ self' = self + 1 /\ memory' = [memory EXCEPT ![self + 1] = "live"]
    /\ stage' = "initialised"
    /\ UNCHANGED <<api, foreign, registry, destroys, conn, memory_error>>

\* Mutant: XX is best effort too.
BestEffort_register_xx ==
    /\ stage = "initialised"
    /\ dereference(self)
    /\ IF accepts("noise") THEN register_security(entry("XX", self))
                           ELSE UNCHANGED <<registry, foreign, destroys>>
    /\ stage' = "half_registered"
    /\ UNCHANGED <<api, self, memory, conn>>

register_xx ==
    /\ stage = "initialised"
    /\ dereference(self)
    /\ \/ /\ accepts("noise")
          /\ register_security(entry("XX", self))
          /\ stage' = "half_registered"
       \/ ~accepts("noise") /\ stage' = "refused" /\ UNCHANGED <<registry, foreign, destroys>>
    /\ UNCHANGED <<api, self, memory, conn>>

\* Best effort: what the host answers is ignored.
register_ik ==
    /\ stage = "half_registered"
    /\ dereference(self)
    /\ IF accepts("noise-ik") THEN register_security(entry("IK", self))
                              ELSE UNCHANGED <<registry, foreign, destroys>>
    /\ stage' = "registered"
    /\ UNCHANGED <<api, self, memory, conn>>

(***************************************************************************)
(* gn_plugin_unregister, gn_plugin_shutdown, destroy.                      *)
(***************************************************************************)
\* Mutant: gives up when the host does not know IK.
Strict_unregister_ik ==
    /\ stage \in {"registered", "refused"}
    /\ dereference(self)
    /\ IF api.unregister_security /\ \E e \in registry : e.id = "noise-ik"
       THEN unregister_security("noise-ik") /\ stage' = "half_unregistered"
       ELSE stage' = "unregistered" /\ UNCHANGED <<registry, destroys>>
    /\ UNCHANGED <<api, foreign, self, memory, conn>>

unregister_ik ==
    /\ stage \in {"registered", "refused"}
    /\ dereference(self)
    /\ IF api.unregister_security
       THEN unregister_security("noise-ik") /\ stage' = "half_unregistered"
       ELSE stage' = "unregistered" /\ UNCHANGED <<registry, destroys>>
    /\ UNCHANGED <<api, foreign, self, memory, conn>>

unregister_xx ==
    /\ stage = "half_unregistered"
    /\ dereference(self)
    /\ unregister_security("noise")
    /\ stage' = "unregistered"
    /\ UNCHANGED <<api, foreign, self, memory, conn>>

gn_plugin_shutdown ==
    /\ stage \in {"initialised", "refused", "unregistered"}
    /\ dereference(self)
    /\ memory' = [memory EXCEPT ![self] = "deleted"]
    /\ stage' = "unloaded"
    /\ UNCHANGED <<api, foreign, registry, self, destroys, conn>>

\* Mutant: destroy deletes the plugin.
Deleting_noise_destroy(e) ==
    /\ e \in destroys
    /\ destroys' = destroys \ {e}
    /\ dereference(e.self)
    /\ memory' = [memory EXCEPT ![e.self] = "deleted"]
    /\ UNCHANGED <<api, foreign, registry, stage, self, conn>>

\* destroy is a no-op: shutdown deletes the object both tables share.
noise_destroy(e) ==
    /\ e \in destroys
    /\ destroys' = destroys \ {e}
    /\ UNCHANGED <<api, foreign, registry, stage, self, memory, conn, memory_error>>

(***************************************************************************)
(* Connections.  The host keeps what a lookup returned and may use it when *)
(* the provider is gone; a session outlives its provider.                  *)
(***************************************************************************)
lookup(c, e) ==
    /\ conn[c].phase = "idle" /\ e \in registry
    /\ conn' = [conn EXCEPT ![c] = [phase |-> "found", entry |-> e]]
    /\ UNCHANGED <<api, foreign, registry, stage, self, memory, destroys, memory_error>>

\* No vtable entry reads self.
handshake_open(c) ==
    /\ conn[c].phase = "found"
    /\ conn' = [conn EXCEPT ![c] = [phase   |-> "open", entry |-> conn[c].entry,
                                    pattern |-> conn[c].entry.vtable.handshake_open]]
    /\ UNCHANGED <<api, foreign, registry, stage, self, memory, destroys, memory_error>>

handshake_close(c) ==
    /\ conn[c].phase = "open"
    /\ conn' = [conn EXCEPT ![c] = Idle]
    /\ UNCHANGED <<api, foreign, registry, stage, self, memory, destroys, memory_error>>

Next ==
    \/ foreign_provider \/ \E e \in registry : displace(e)
    \/ gn_plugin_init \/ register_xx \/ register_ik
    \/ unregister_ik \/ unregister_xx \/ gn_plugin_shutdown
    \/ \E e \in destroys : noise_destroy(e)
    \/ \E c \in Conn : \/ \E e \in registry : lookup(c, e)
                       \/ handshake_open(c) \/ handshake_close(c)

Spec == Init /\ [][Next]_vars
-----------------------------------------------------------------------------
\* The plugin object is deleted once and never used afterwards, although two
\* tables share it, destroy may come before or after shutdown, and sessions
\* are opened and closed through providers that are gone.
NoMemoryError == ~memory_error

\* On a host with unregister_security nobody finds a provider whose plugin
\* has been shut down: not when register was refused half-way and unregister
\* was skipped, not when the host had room for one provider only.
NoDanglingProvider ==
    api.unregister_security => \A e \in registry : memory[e.self] = "live"

\* XX is the primary.  On a host that refuses when it is full ("single-slot
\* hosts keep XX", noise.cpp:483), XX is there from its registration until
\* unregister removes it, whatever slots other plugins take and give back
\* meanwhile, and no lookup ever finds IK of a plugin whose XX is not there,
\* also between the two host calls of either entry point.
XXIsPrimary ==
    api.when_full = "refuse" =>
        /\ stage \in {"half_registered", "registered"} => entry("XX", self) \in registry
        /\ \A e \in registry : e.id = "noise-ik" => entry("XX", e.self) \in registry

\* "Either way the XX surface ends up live" (noise.cpp:474-475) when register
\* returns GN_OK and no other plugin holds a slot.  VIOLATED: on
\* the single slot of noise.cpp:497-499, which "keeps only the most recently
\* registered id alive", the best-effort IK displaces XX.
XXEndsUpLive == stage = "registered" /\ foreign = 0 => entry("XX", self) \in registry
==============================================================================
