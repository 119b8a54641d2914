------------------------ MODULE PluginLifecycleProofs ------------------------
(***************************************************************************)
(* Theorems about PluginLifecycle, for every number of loads, every set of *)
(* connections and hosts of every size.                                    *)
(***************************************************************************)
EXTENDS PluginLifecycle, TLAPS

USE LifecycleAssumption

Pattern == {"XX", "IK"}
Entry   == {entry(p, o) : p \in Pattern, o \in Plugin}
Stage   == {"unloaded", "initialised", "refused", "half_registered", "registered",
            "half_unregistered", "unregistered"}
ConnState ==
    {Idle} \cup {[phase |-> "found", entry |-> e] : e \in Entry}
           \cup {[phase |-> "open", entry |-> e, pattern |-> e.vtable.handshake_open] : e \in Entry}

Types ==
    /\ stage \in Stage /\ self \in 0..MaxLoads
    /\ memory \in [Plugin -> {"free", "live", "deleted"}]
    /\ registry \subseteq Entry
    /\ conn \in [Conn -> ConnState]

\* From init to shutdown the object of the current load is live.
SelfIsLive == stage # "unloaded" => self \in Plugin /\ memory[self] = "live"

\* On a host with unregister_security only the current load has entries, and
\* none before register, after a refused one, and after unregister.
OwnEntries ==
    api.unregister_security =>
        /\ \A e \in registry : e.self = self
        /\ stage \in {"unloaded", "initialised", "refused", "unregistered"} => registry = {}

\* IK is gone before XX is asked for.
IKGoesFirst == stage = "half_unregistered" => \A e \in registry : e.id # "noise-ik"

LifecycleInv ==
    /\ Types /\ SelfIsLive /\ OwnEntries /\ IKGoesFirst /\ XXIsPrimary /\ NoMemoryError

(***************************************************************************)
(* The entries of the registry.                                            *)
(***************************************************************************)
\* The fields of the two entries of a plugin object.
LEMMA EntryFields ==
    \A o : /\ entry("XX", o).id = "noise" /\ entry("IK", o).id = "noise-ik"
           /\ entry("XX", o).self = o /\ entry("IK", o).self = o
  BY DEF entry, make_vtable

\* Every entry is one of the two of its plugin object.
LEMMA EntryCases ==
    \A e \in Entry : /\ e.self \in Plugin
                     /\ \/ e = entry("XX", e.self) /\ e.id = "noise"
                        \/ e = entry("IK", e.self) /\ e.id = "noise-ik"
<1>1. SUFFICES ASSUME NEW e \in Entry
               PROVE  /\ e.self \in Plugin
                      /\ \/ e = entry("XX", e.self) /\ e.id = "noise"
                         \/ e = entry("IK", e.self) /\ e.id = "noise-ik"
  OBVIOUS
<1>2. PICK p \in Pattern, o \in Plugin : e = entry(p, o)
  BY DEF Entry
<1>3. p = "XX" \/ p = "IK"
  BY DEF Pattern
<1> QED BY <1>2, <1>3, EntryFields

\* The entries a load makes are entries.
LEMMA OwnEntry == \A o \in Plugin : entry("XX", o) \in Entry /\ entry("IK", o) \in Entry
  BY DEF Entry, Pattern

\* What register_security does to the registry: one entry comes, others may
\* go, and on a host that refuses when it is full none goes.
LEMMA Registered ==
    ASSUME NEW e, accepts(e.id), register_security(e)
    PROVE  /\ e \in registry' /\ registry' \subseteq registry \cup {e}
           /\ api.when_full = "refuse" => registry' = registry \cup {e}
<1>1. PICK gone \in SUBSET registry : registry' = (registry \ gone) \cup {e}
  BY DEF register_security
<1>2. ASSUME api.when_full = "refuse" PROVE registry' = registry \cup {e}
  <2>1. room /\ {x \in registry : x.id = e.id} = {}
    BY <1>2 DEF accepts
  <2> QED BY <2>1 DEF register_security
<1> QED BY <1>1, <1>2

(***************************************************************************)
(* Preservation, action by action.                                         *)
(***************************************************************************)
\* Before anything is loaded.
LEMMA InitLifecycle == Init => LifecycleInv
<1> SUFFICES ASSUME Init PROVE LifecycleInv
  OBVIOUS
<1>1. Types
  <2>1. conn \in [Conn -> ConnState]
    BY DEF Init, ConnState
  <2>2. memory \in [Plugin -> {"free", "live", "deleted"}] /\ registry \subseteq Entry
    BY DEF Init
  <2>3. stage \in Stage /\ self \in 0..MaxLoads
    BY DEF Init, Stage, NoPlugin
  <2> QED BY <2>1, <2>2, <2>3 DEF Types
<1> QED BY <1>1 DEF Init, LifecycleInv, SelfIsLive, OwnEntries, IKGoesFirst, XXIsPrimary, NoMemoryError

\* gn_plugin_init.
LEMMA InitStep ==
    ASSUME LifecycleInv, gn_plugin_init PROVE LifecycleInv'
<1> USE DEF LifecycleInv, gn_plugin_init
<1>1. self + 1 \in Plugin /\ self + 1 \in 0..MaxLoads
  BY DEF Types, Plugin
<1>2. Types'
  BY <1>1 DEF Types, Stage
<1>3. SelfIsLive'
  BY <1>1 DEF Types, SelfIsLive
<1>4. OwnEntries'
  BY DEF OwnEntries
<1>5. XXIsPrimary'
  BY DEF XXIsPrimary
<1>6. IKGoesFirst'
  BY DEF IKGoesFirst
<1> QED BY <1>2, <1>3, <1>4, <1>5, <1>6 DEF NoMemoryError

\* gn_plugin_register, the two host calls.
LEMMA RegisterStep ==
    ASSUME LifecycleInv, register_xx \/ register_ik PROVE LifecycleInv'
<1>1. /\ Types /\ SelfIsLive /\ OwnEntries /\ IKGoesFirst /\ XXIsPrimary /\ NoMemoryError
  BY DEF LifecycleInv
<1>2. /\ UNCHANGED <<api, self, memory, conn>> /\ stage # "unloaded"
      /\ memory_error' = (memory_error \/ memory[self] # "live")
  BY DEF register_xx, register_ik, dereference
<1>3. self \in Plugin /\ NoMemoryError'
  BY <1>1, <1>2 DEF SelfIsLive, NoMemoryError
<1>4. /\ registry' \subseteq registry \cup {entry("XX", self), entry("IK", self)}
      /\ stage' \in {"refused", "half_registered", "registered"}
      /\ stage' = "refused" => registry' = registry
      /\ stage' = "half_registered" => registry' \subseteq registry \cup {entry("XX", self)}
      /\ api.when_full = "refuse" => registry \subseteq registry'
      /\ api.when_full = "refuse" /\ stage' # "refused" => entry("XX", self) \in registry'
  <2>1. CASE register_xx
    BY <2>1, EntryFields, Registered DEF register_xx
  <2>2. CASE register_ik
    <3>1. \/ UNCHANGED registry
          \/ /\ registry' \subseteq registry \cup {entry("IK", self)}
             /\ api.when_full = "refuse" => registry' = registry \cup {entry("IK", self)}
      BY <2>2, EntryFields, Registered DEF register_ik
    <3> QED BY <1>1, <2>2, <3>1 DEF register_ik, XXIsPrimary
  <2> QED BY <2>1, <2>2
<1>5. Types'
  BY <1>1, <1>2, <1>3, <1>4, OwnEntry DEF Types, Stage
<1>6. SelfIsLive'
  BY <1>1, <1>2, <1>3 DEF SelfIsLive
<1>7. OwnEntries'
  <2>1. api.unregister_security => \A e \in registry' : e.self = self
    BY <1>1, <1>4, EntryFields DEF OwnEntries
  <2>2. api.unregister_security /\ stage' = "refused" => registry' = {}
    BY <1>1, <1>4 DEF register_xx, register_ik, OwnEntries
  <2> QED BY <1>2, <1>4, <2>1, <2>2 DEF OwnEntries
<1>8. XXIsPrimary'
  <2>1. SUFFICES ASSUME api.when_full = "refuse", NEW e \in registry', e.id = "noise-ik"
                 PROVE  entry("XX", e.self) \in registry'
    BY <1>2, <1>4 DEF XXIsPrimary
  <2>2. CASE e \in registry
    BY <1>1, <1>4, <2>1, <2>2 DEF XXIsPrimary
  <2>3. CASE e = entry("XX", self)
    BY <2>1, <2>3, EntryFields
  <2>4. CASE e = entry("IK", self) /\ e \notin registry
    <3>1. stage' # "refused"
      BY <1>4, <2>1, <2>4
    <3> QED BY <1>4, <2>1, <2>4, <3>1, EntryFields
  <2> QED BY <1>4, <2>1, <2>2, <2>3, <2>4
<1>9. IKGoesFirst'
  BY <1>4 DEF IKGoesFirst
<1> QED BY <1>3, <1>5, <1>6, <1>7, <1>8, <1>9 DEF LifecycleInv

\* gn_plugin_unregister, the two host calls.
LEMMA UnregisterStep ==
    ASSUME LifecycleInv, unregister_ik \/ unregister_xx PROVE LifecycleInv'
<1>1. /\ Types /\ SelfIsLive /\ OwnEntries /\ IKGoesFirst /\ XXIsPrimary /\ NoMemoryError
  BY DEF LifecycleInv
<1>2. /\ UNCHANGED <<api, self, memory, conn>> /\ stage # "unloaded"
      /\ memory_error' = (memory_error \/ memory[self] # "live")
  BY DEF unregister_ik, unregister_xx, dereference
<1>3. self \in Plugin /\ NoMemoryError'
  BY <1>1, <1>2 DEF SelfIsLive, NoMemoryError
<1>4. /\ stage' \in {"half_unregistered", "unregistered"} /\ registry' \subseteq registry
      /\ stage' = "half_unregistered" => registry' = {e \in registry : e.id # "noise-ik"}
      /\ stage' = "unregistered" =>
            \/ ~api.unregister_security /\ registry' = registry
            \/ stage = "half_unregistered" /\ registry' = {e \in registry : e.id # "noise"}
  BY DEF unregister_ik, unregister_xx, unregister_security
<1>5. Types'
  BY <1>1, <1>2, <1>4 DEF Types, Stage
<1>6. SelfIsLive'
  BY <1>1, <1>2, <1>3 DEF SelfIsLive
<1>7. OwnEntries'
  <2>1. ASSUME stage' = "unregistered", api.unregister_security
        PROVE  registry' = {}
    BY <1>1, <1>4, <2>1, EntryCases DEF Types, IKGoesFirst
  <2> QED BY <1>1, <1>2, <1>4, <2>1 DEF OwnEntries
<1>8. XXIsPrimary'
  <2>1. ASSUME api.when_full = "refuse", NEW e \in registry', e.id = "noise-ik"
        PROVE  entry("XX", e.self) \in registry'
    <3>1. e \in registry /\ entry("XX", e.self) \in registry
      BY <1>1, <1>4, <2>1 DEF XXIsPrimary
    <3> QED BY <1>1, <1>4, <2>1, <3>1 DEF IKGoesFirst
  <2> QED BY <1>2, <1>4, <2>1 DEF XXIsPrimary
<1>9. IKGoesFirst'
  BY <1>4 DEF IKGoesFirst
<1> QED BY <1>3, <1>5, <1>6, <1>7, <1>8, <1>9 DEF LifecycleInv

\* gn_plugin_shutdown: nobody may find the provider any more.
LEMMA ShutdownStep ==
    ASSUME LifecycleInv, gn_plugin_shutdown PROVE LifecycleInv'
<1> USE DEF LifecycleInv, gn_plugin_shutdown
<1>1. Types'
  BY DEF Types, Stage
<1>2. NoMemoryError'
  BY DEF SelfIsLive, NoMemoryError, dereference
<1>3. OwnEntries'
  BY DEF OwnEntries
<1>4. XXIsPrimary' /\ SelfIsLive' /\ IKGoesFirst'
  BY DEF XXIsPrimary, SelfIsLive, IKGoesFirst
<1> QED BY <1>1, <1>2, <1>3, <1>4

\* The host's other calls: destroy, and what connections do.
LEMMA HostStep ==
    ASSUME LifecycleInv,
           \/ foreign_provider
           \/ \E e \in destroys : noise_destroy(e)
           \/ \E c \in Conn : \/ \E e \in registry : lookup(c, e)
                              \/ handshake_open(c) \/ handshake_close(c)
    PROVE  LifecycleInv'
<1>1. UNCHANGED <<api, registry, stage, self, memory, memory_error>>
  BY DEF foreign_provider, noise_destroy, lookup, handshake_open, handshake_close
<1>2. conn \in [Conn -> ConnState] /\ registry \subseteq Entry
  BY DEF LifecycleInv, Types
<1>3. conn' \in [Conn -> ConnState]
  <2>1. CASE UNCHANGED conn
    BY <1>2, <2>1
  <2>2. ASSUME NEW c \in Conn, NEW e \in registry, lookup(c, e)
        PROVE  conn' \in [Conn -> ConnState]
    BY <1>2, <2>2 DEF lookup, ConnState
  <2>3. ASSUME NEW c \in Conn, handshake_open(c)
        PROVE  conn' \in [Conn -> ConnState]
    <3>1. conn[c] \in ConnState /\ conn[c].phase = "found"
      BY <1>2, <2>3 DEF handshake_open
    <3>2. conn[c].entry \in Entry
      BY <3>1 DEF ConnState, Idle
    <3> QED BY <1>2, <2>3, <3>2 DEF handshake_open, ConnState
  <2>4. ASSUME NEW c \in Conn, handshake_close(c)
        PROVE  conn' \in [Conn -> ConnState]
    BY <1>2, <2>4 DEF handshake_close, ConnState
  <2> QED BY <2>1, <2>2, <2>3, <2>4 DEF foreign_provider, noise_destroy
<1>4. Types'
  BY <1>1, <1>3 DEF LifecycleInv, Types
<1> QED BY <1>1, <1>4 DEF LifecycleInv, SelfIsLive, OwnEntries, IKGoesFirst, XXIsPrimary, NoMemoryError

\* A host that replaces lets one of our providers go to make room.
LEMMA DisplaceStep ==
    ASSUME LifecycleInv, NEW e \in registry, displace(e) PROVE LifecycleInv'
<1> USE DEF LifecycleInv, displace
<1>1. Types'
  BY DEF Types
<1>2. OwnEntries'
  BY DEF OwnEntries
<1>3. IKGoesFirst' /\ XXIsPrimary' /\ SelfIsLive' /\ NoMemoryError'
  BY DEF IKGoesFirst, XXIsPrimary, SelfIsLive, NoMemoryError
<1> QED BY <1>1, <1>2, <1>3

\* LifecycleInv is inductive.
LEMMA NextLifecycle == LifecycleInv /\ [Next]_vars => LifecycleInv'
<1>1. ASSUME LifecycleInv, UNCHANGED vars PROVE LifecycleInv'
  BY <1>1 DEF vars, LifecycleInv, Types, SelfIsLive, OwnEntries, IKGoesFirst, XXIsPrimary, NoMemoryError
<1> QED BY <1>1, InitStep, RegisterStep, UnregisterStep, ShutdownStep, HostStep, DisplaceStep DEF Next

\* The inductive invariant of the lifecycle.
THEOREM LifecycleInvariant == Spec => []LifecycleInv
  BY InitLifecycle, NextLifecycle, PTL DEF Spec

(***************************************************************************)
(* The properties of the run.                                              *)
(***************************************************************************)
\* The plugin object is deleted once and never used after gn_plugin_shutdown.
THEOREM MemorySafe == Spec => []NoMemoryError
<1>1. LifecycleInv => NoMemoryError
  BY DEF LifecycleInv
<1> QED BY <1>1, LifecycleInvariant, PTL

\* With unregister_security no lookup finds a provider of a deleted plugin.
THEOREM NoneDangles == Spec => []NoDanglingProvider
<1>1. LifecycleInv => NoDanglingProvider
  <2> SUFFICES ASSUME LifecycleInv, api.unregister_security, NEW e \in registry
               PROVE  memory[e.self] = "live"
    BY DEF NoDanglingProvider
  <2>1. e.self = self /\ stage # "unloaded"
    BY DEF LifecycleInv, OwnEntries
  <2> QED BY <2>1 DEF LifecycleInv, SelfIsLive
<1> QED BY <1>1, LifecycleInvariant, PTL

\* On a host that refuses when it is full, XX is registered whenever IK is,
\* and from its registration to unregister.
THEOREM PrimaryProvider == Spec => []XXIsPrimary
<1>1. LifecycleInv => XXIsPrimary
  BY DEF LifecycleInv
<1> QED BY <1>1, LifecycleInvariant, PTL

==============================================================================
