--------------------------- MODULE PluginRegistry ---------------------------
(***************************************************************************)
(* The lifecycle of plugins (plugins/registry.py, core/plugin.py): a host  *)
(* registers plugins and calls start_all and stop_all, in any order and    *)
(* again; a plugin may fail at every call it gets, and the host may cancel *)
(* what it awaits.  One call at a time: register does not await, and       *)
(* nothing in the code overlaps the other two.                             *)
(*                                                                         *)
(* External: the plugins.  A start that raises leaves nothing running; a   *)
(* stop that raises or is cancelled may leave the instance running.        *)
(***************************************************************************)
EXTENDS Naturals, Sequences

CONSTANTS
  Plugin,
  Offer,                       \* what register is called with
  PLUGIN_CONTRACT_VERSION, PlatformVersion,
  MaxInstances                 \* bound: instances of one plugin

Version == Nat \X Nat \X Nat

PluginState == {"registered", "starting", "healthy", "degraded", "failed", "stopped"}

ASSUME PluginAssumption ==
  /\ PLUGIN_CONTRACT_VERSION \in Version /\ PlatformVersion \in Version
  /\ MaxInstances \in Nat \ {0}
  /\ Offer \subseteq [id : Plugin, contract : Version, minimum : Version, valid : BOOLEAN]

VARIABLES
  plugins,   \* PluginRegistry._plugins: ids in the order of registration
  handle,    \* handle[p]: the instance whose handle is held, or 0
  health,    \* health[p]: runtime_health.state
  call,      \* the call going on, or "none"
  at,        \* position of the plugin it has come to
  ended,     \* the call that came to its end last, or "none"
  instances, \* instances[p]: how many instances of p were started
  running,   \* running[p]: those that run
  lost       \* history: lost[p], those whose handle was given up unstopped

registryVars == <<plugins, handle, health, call, at, ended, instances, running, lost>>

RegistryInit ==
  /\ plugins = <<>>
  /\ handle = [p \in Plugin |-> 0]
  /\ health = [p \in Plugin |-> "registered"]
  /\ call = "none" /\ at = 0 /\ ended = "none"
  /\ instances = [p \in Plugin |-> 0]
  /\ running = [p \in Plugin |-> {}]
  /\ lost = [p \in Plugin |-> {}]

-----------------------------------------------------------------------------
Later(v, w) ==
  \/ v[1] > w[1]
  \/ v[1] = w[1] /\ v[2] > w[2]
  \/ v[1] = w[1] /\ v[2] = w[2] /\ v[3] > w[3]

Registered == {plugins[i] : i \in DOMAIN plugins}

Registrable(o) ==
  /\ o.id \notin Registered
  /\ o.contract[1] = PLUGIN_CONTRACT_VERSION[1]
  /\ ~ Later(o.minimum, PlatformVersion)
  /\ o.valid

\* register raises, and changes nothing, for an offer that is not registrable.
Register(o) ==
  /\ call = "none" /\ Registrable(o)
  /\ plugins' = Append(plugins, o.id)
  /\ health' = [health EXCEPT ![o.id] = "registered"]
  /\ ended' = "none"
  /\ UNCHANGED <<handle, call, at, instances, running, lost>>

-----------------------------------------------------------------------------
StartAll ==
  /\ call = "none" /\ \A p \in Plugin : instances[p] < MaxInstances
  /\ call' = "start" /\ at' = 1
  /\ UNCHANGED <<plugins, handle, health, ended, instances, running, lost>>

(* Sets STARTING and awaits start.                                         *)
BeginStart(p) ==
  /\ call = "start" /\ at \in DOMAIN plugins /\ p = plugins[at]
  /\ call' = "starting"
  /\ health' = [health EXCEPT ![p] = "starting"]
  /\ UNCHANGED <<plugins, handle, at, ended, instances, running, lost>>

Started(p) == call = "starting" /\ p = plugins[at]

\* The next plugin, or the end of start_all.
Proceed == call' = "start" /\ at' = at + 1

\* A handle that the registry held is replaced by what start_all found.
Replace(p, n) ==
  /\ handle' = [handle EXCEPT ![p] = n]
  /\ lost' = [lost EXCEPT ![p] = @ \cup ({handle[p]} \ {0})]

(* Whatever state the plugin reports is stored, also "stopped".             *)
StartSucceeds(p) ==
  /\ Started(p)
  /\ LET n == instances[p] + 1
     IN  /\ instances' = [instances EXCEPT ![p] = n]
         /\ running' = [running EXCEPT ![p] = @ \cup {n}]
         /\ Replace(p, n)
  /\ \E reported \in PluginState :
       health' = [health EXCEPT ![p] = reported]
  /\ Proceed
  /\ UNCHANGED <<plugins, ended>>

MarkFailed(p) == health' = [health EXCEPT ![p] = "failed"]

StartFails(p) ==
  /\ Started(p)
  /\ Replace(p, 0) /\ MarkFailed(p) /\ Proceed
  /\ UNCHANGED <<plugins, ended, instances, running>>

(* start succeeds and health raises: the handle is dropped all the same.   *)
HealthRaises(p) ==
  /\ Started(p)
  /\ LET n == instances[p] + 1
     IN  /\ instances' = [instances EXCEPT ![p] = n]
         /\ running' = [running EXCEPT ![p] = @ \cup {n}]
         /\ handle' = [handle EXCEPT ![p] = 0]
         /\ lost' = [lost EXCEPT ![p] = @ \cup ({handle[p], n} \ {0})]
  /\ MarkFailed(p) /\ Proceed
  /\ UNCHANGED <<plugins, ended>>

(* CancelledError is no Exception: it ends start_all where it stands.      *)
StartCancelled(p) ==
  /\ Started(p)
  /\ call' = "none" /\ at' = 0 /\ ended' = "none"
  /\ UNCHANGED <<plugins, handle, health, instances, running, lost>>

StartAllReturns ==
  /\ call = "start" /\ at \notin DOMAIN plugins
  /\ call' = "none" /\ at' = 0 /\ ended' = "start"
  /\ UNCHANGED <<plugins, handle, health, instances, running, lost>>

-----------------------------------------------------------------------------
StopAll ==
  /\ call = "none"
  /\ call' = "stop" /\ at' = Len(plugins)
  /\ UNCHANGED <<plugins, handle, health, ended, instances, running, lost>>

Stopping(p) == call = "stop" /\ at \in DOMAIN plugins /\ p = plugins[at]

\* Variant: without the finally.
Kept(p) == handle[p]

\* finally: item.handle = None
Released(p) == 0

Release(p) == handle' = [handle EXCEPT ![p] = Released(p)]

Stop(p) == health' = [health EXCEPT ![p] = "stopped"]

NothingToStop(p) ==
  /\ Stopping(p) /\ handle[p] = 0
  /\ Stop(p) /\ at' = at - 1
  /\ UNCHANGED <<plugins, handle, call, ended, instances, running, lost>>

StopSucceeds(p) ==
  /\ Stopping(p) /\ handle[p] # 0
  /\ running' = [running EXCEPT ![p] = @ \ {handle[p]}]
  /\ Stop(p) /\ Release(p) /\ at' = at - 1
  /\ UNCHANGED <<plugins, call, ended, instances, lost>>

\* What a stop that does not return may leave.
Unstopped(p) ==
  \/ UNCHANGED running
  \/ running' = [running EXCEPT ![p] = @ \ {handle[p]}]

Lose(p) == lost' = [lost EXCEPT ![p] = @ \cup {handle[p]}]

\* Variant: the first failure ends the loop.
NoneLeft(i) == 0

\* except Exception: the remaining plugins are stopped.
AfterFailure(i) == i - 1

StopRaises(p) ==
  /\ Stopping(p) /\ handle[p] # 0
  /\ Unstopped(p) /\ Lose(p)
  /\ MarkFailed(p) /\ Release(p) /\ at' = AfterFailure(at)
  /\ UNCHANGED <<plugins, call, ended, instances>>

(* The finally gives the handle up, and the rest is not stopped.           *)
StopCancelled(p) ==
  /\ Stopping(p) /\ handle[p] # 0
  /\ Unstopped(p) /\ Lose(p) /\ Release(p)
  /\ call' = "none" /\ at' = 0 /\ ended' = "none"
  /\ UNCHANGED <<plugins, health, instances>>

StopAllReturns ==
  /\ call = "stop" /\ at = 0
  /\ call' = "none" /\ ended' = "stop"
  /\ UNCHANGED <<plugins, handle, health, at, instances, running, lost>>

RegistryNext ==
  \/ \E o \in Offer : Register(o)
  \/ StartAll \/ StartAllReturns \/ StopAll \/ StopAllReturns
  \/ \E p \in Plugin :
       \/ BeginStart(p) \/ StartSucceeds(p) \/ StartFails(p) \/ HealthRaises(p) \/ StartCancelled(p)
       \/ NothingToStop(p) \/ StopSucceeds(p) \/ StopRaises(p) \/ StopCancelled(p)

RegistrySpec == RegistryInit /\ [][RegistryNext]_registryVars

-----------------------------------------------------------------------------
(* The types of the variables.                                             *)
RegistryTypeOK ==
  /\ plugins \in Seq(Plugin)
  /\ handle \in [Plugin -> 0 .. MaxInstances]
  /\ health \in [Plugin -> PluginState]
  /\ call \in {"none", "start", "starting", "stop"} /\ at \in 0 .. Len(plugins) + 1
  /\ ended \in {"none", "start", "stop"}
  /\ instances \in [Plugin -> 0 .. MaxInstances]
  /\ running \in [Plugin -> SUBSET (1 .. MaxInstances)]
  /\ lost \in [Plugin -> SUBSET (1 .. MaxInstances)]

(* After a stop_all that came to its end nothing runs but the instances    *)
(* whose handle the registry had given up: because health raised, because  *)
(* start_all was called on a started plugin, or because their stop failed. *)
(* All plugins are then reported stopped, or failed to stop.               *)
StopReachesAll ==
  call = "none" /\ ended = "stop" =>
    \A p \in Plugin :
      /\ running[p] \subseteq lost[p]
      /\ p \in Registered => handle[p] = 0 /\ health[p] \in {"stopped", "failed"}

(* A held handle is that of the newest instance, of one that runs and that *)
(* was never given up, so that none is stopped twice; what else runs is    *)
(* lost.  And stop_all, which goes through the plugins in the reverse      *)
(* order of their registration, leaves no handle behind it.                *)
HandlesAreLive ==
  /\ \A p \in Plugin :
       /\ handle[p] # 0 => handle[p] \in running[p] /\ handle[p] = instances[p]
       /\ handle[p] \notin lost[p]
       /\ running[p] \ {handle[p]} \subseteq lost[p]
  /\ call = "stop" => \A i \in DOMAIN plugins : i > at => handle[plugins[i]] = 0
=============================================================================
