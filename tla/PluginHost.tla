----------------------------- MODULE PluginHost -----------------------------
(* The boundary between Axiom and native plugins: PluginLoaderWin32 maps and  *)
(* frees modules on the UI thread, PluginHost keeps what they registered in   *)
(* the ActionRegistry and among the plugin commands, and every call into a    *)
(* plugin takes a lease on the callback gate of the registration it came      *)
(* from.  The workers of the executor invoke actions at any moment; commands  *)
(* run on the UI thread, so they never overlap the loader.                    *)
EXTENDS Naturals, Sequences, FiniteSets

CONSTANTS
  Plugins,   \* plugin ids
  Names,     \* names of actions and of commands
  Builtins,  \* names Axiom registered or reserved for itself
  Workers,   \* threads of the executor that invoke actions
  Axiom, None,
  MaxLoads   \* bound on how often a module is mapped

Modules == 1..MaxLoads
Handlers == [inst : Modules, gate : Modules]

(* Threads are finitely many; Axiom's own entries are no plugin's handlers.   *)
ASSUME HostAssumption ==
  /\ Builtins \subseteq Names /\ MaxLoads \in Nat /\ IsFiniteSet(Workers)
  /\ Axiom # None /\ {Axiom, None} \cap Handlers = {}

VARIABLES
  loads,          \* history: the plugin of the i-th module that was mapped
  mapped,         \* the modules that are in memory
  entries,        \* ActionRegistry::entries_
  commands,       \* PluginHost::commands_
  actionNames, commandNames,  \* action_names_by_plugin_, command_names_by_plugin_
  callbackGates,  \* callback_gates_: the gate of a plugin id, 0 when it has none
  gate,           \* the CallbackGate objects
  modules,        \* PluginLoaderWin32::modules_: the module of a loaded plugin
  ui,             \* where the loader is
  call            \* where each thread that invokes a callback is

hostVars == <<loads, mapped, entries, commands, actionNames, commandNames,
              callbackGates, gate, modules, ui, call>>

registered == <<entries, commands, actionNames, commandNames>>
NoGate == 0
NotCalling == [pc |-> "idle"]
Threads == Workers \union {"ui"}

HostInit ==
  /\ loads = <<>> /\ mapped = {}
  /\ entries = [n \in Names |-> IF n \in Builtins THEN Axiom ELSE None]
  /\ commands = [n \in Names |-> None]
  /\ actionNames = [p \in Plugins |-> {}] /\ commandNames = [p \in Plugins |-> {}]
  /\ callbackGates = [p \in Plugins |-> NoGate]
  /\ gate = [g \in Modules |-> [accepting |-> TRUE, active |-> 0]]
  /\ modules = [p \in Plugins |-> 0]
  /\ ui = NotCalling
  /\ call = [t \in Threads |-> NotCalling]

UiFree == ui.pc = "idle" /\ call["ui"].pc = "idle"

(* load_manifest: a plugin that is not loaded yet, whose manifest parses and  *)
(* whose library loads.                                                       *)
LoadLibrary(p) ==
  /\ UiFree /\ modules[p] = 0 /\ Len(loads) < MaxLoads
  /\ loads' = Append(loads, p)
  /\ mapped' = mapped \union {Len(loads) + 1}
  /\ ui' = [pc |-> "mapped", plugin |-> p, inst |-> Len(loads) + 1]
  /\ UNCHANGED <<registered, callbackGates, gate, modules, call>>

(* An entry point is missing or the descriptor contradicts the manifest.      *)
DescriptorRejected ==
  /\ ui.pc = "mapped"
  /\ mapped' = mapped \ {ui.inst} /\ ui' = NotCalling
  /\ UNCHANGED <<loads, registered, callbackGates, gate, modules, call>>

(* The gate of a new registration: the one on record for the id, or a fresh   *)
(* one.  (A gate on record is never active here: see the README.)             *)
GateFor(p, i) == IF callbackGates[p] = NoGate THEN i ELSE callbackGates[p]

OpenScope ==
  /\ ui.pc = "mapped"
  /\ LET g == GateFor(ui.plugin, ui.inst)
     IN /\ gate[g].active = 0
        /\ callbackGates' = [callbackGates EXCEPT ![ui.plugin] = g]
        /\ gate' = [gate EXCEPT ![g].accepting = TRUE]
        /\ ui' = [pc |-> "loading", plugin |-> ui.plugin,
                  handler |-> [inst |-> ui.inst, gate |-> g]]
  /\ UNCHANGED <<loads, mapped, registered, modules, call>>

(* Inside AxiomPlugin_LoadV1: the entry is in the registry, for every thread  *)
(* to see, before the host notes whose it is.                                 *)
UnregisteredMut(n) == TRUE
Unregistered(n) == entries[n] = None
RegisterAction(n) ==
  /\ ui.pc = "loading" /\ Unregistered(n)
  /\ entries' = [entries EXCEPT ![n] = ui.handler]
  /\ ui' = [pc |-> "noting", plugin |-> ui.plugin, handler |-> ui.handler, name |-> n]
  /\ UNCHANGED <<loads, mapped, commands, actionNames, commandNames, callbackGates, gate,
                 modules, call>>

NoteAction ==
  /\ ui.pc = "noting"
  /\ actionNames' = [actionNames EXCEPT ![ui.plugin] = @ \union {ui.name}]
  /\ ui' = [pc |-> "loading", plugin |-> ui.plugin, handler |-> ui.handler]
  /\ UNCHANGED <<loads, mapped, entries, commands, commandNames, callbackGates, gate,
                 modules, call>>

(* A command is refused when its name is reserved or taken.                   *)
RegisterCommand(n) ==
  /\ ui.pc = "loading" /\ n \notin Builtins /\ commands[n] = None
  /\ commands' = [commands EXCEPT ![n] = ui.handler]
  /\ commandNames' = [commandNames EXCEPT ![ui.plugin] = @ \union {n}]
  /\ UNCHANGED <<loads, mapped, entries, actionNames, callbackGates, gate, modules, ui, call>>

LoadAccepted ==
  /\ ui.pc = "loading"
  /\ modules' = [modules EXCEPT ![ui.plugin] = ui.handler.inst] /\ ui' = NotCalling
  /\ UNCHANGED <<loads, mapped, registered, callbackGates, gate, call>>

(* Leaving: what a rejected load and unload_plugin share.                     *)
Leaving(p, i) == [pc |-> "leaving", plugin |-> p, inst |-> i, names |-> {}]

LoadRejected ==
  /\ ui.pc = "loading"
  /\ ui' = Leaving(ui.plugin, ui.handler.inst)
  /\ UNCHANGED <<loads, mapped, registered, callbackGates, gate, modules, call>>

Unload(p) ==
  /\ UiFree /\ modules[p] # 0
  /\ ui' = Leaving(p, modules[p])
  /\ UNCHANGED <<loads, mapped, registered, callbackGates, gate, modules, call>>

(* unregister_plugin, first lock: the gate is shut, the names are taken and   *)
(* the commands dropped.                                                      *)
CloseGate ==
  /\ ui.pc = "leaving"
  /\ gate' = [gate EXCEPT ![callbackGates[ui.plugin]].accepting = FALSE]
  /\ commands' = [n \in Names |-> IF n \in commandNames[ui.plugin] THEN None ELSE commands[n]]
  /\ commandNames' = [commandNames EXCEPT ![ui.plugin] = {}]
  /\ actionNames' = [actionNames EXCEPT ![ui.plugin] = {}]
  /\ ui' = [ui EXCEPT !.pc = "removing", !.names = actionNames[ui.plugin]]
  /\ UNCHANGED <<loads, mapped, entries, callbackGates, modules, call>>

RemoveAction ==
  /\ ui.pc = "removing"
  /\ \E n \in ui.names :
       /\ entries' = [entries EXCEPT ![n] = None]
       /\ ui' = [ui EXCEPT !.names = @ \ {n}]
  /\ UNCHANGED <<loads, mapped, commands, actionNames, commandNames, callbackGates, gate,
                 modules, call>>

(* The wait for the callbacks that run, after which the gate is forgotten.    *)
NoLeaseMut(g) == TRUE
NoLease(g) == gate[g].active = 0
AwaitCallbacks ==
  /\ ui.pc = "removing" /\ ui.names = {} /\ NoLease(callbackGates[ui.plugin])
  /\ callbackGates' = [callbackGates EXCEPT ![ui.plugin] = NoGate]
  /\ ui' = [ui EXCEPT !.pc = "freeing"]
  /\ UNCHANGED <<loads, mapped, registered, gate, modules, call>>

(* The module's own unload function, FreeLibrary, modules_.erase.             *)
FreeLibrary ==
  /\ ui.pc = "freeing"
  /\ mapped' = mapped \ {ui.inst}
  /\ modules' = [modules EXCEPT ![ui.plugin] = 0]
  /\ ui' = NotCalling
  /\ UNCHANGED <<loads, registered, callbackGates, gate, call>>

-----------------------------------------------------------------------------
(* A call into a plugin.  The registry is asked under its lock, the handler   *)
(* is invoked without it: everything may change in between.                   *)
LookUp(t, n) ==
  /\ t \in Workers /\ call[t].pc = "idle" /\ entries[n] \in Handlers
  /\ call' = [call EXCEPT ![t] = [pc |-> "resolved", handler |-> entries[n]]]
  /\ UNCHANGED <<loads, mapped, registered, callbackGates, gate, modules, ui>>

LookUpCommand(n) ==
  /\ UiFree /\ commands[n] # None
  /\ call' = [call EXCEPT !["ui"] = [pc |-> "resolved", handler |-> commands[n]]]
  /\ UNCHANGED <<loads, mapped, registered, callbackGates, gate, modules, ui>>

(* invoke_callback: no lease on a gate that is shut.                          *)
Enter(t) ==
  /\ call[t].pc = "resolved"
  /\ LET g == call[t].handler.gate
     IN IF gate[g].accepting
        THEN /\ gate' = [gate EXCEPT ![g].active = @ + 1]
             /\ call' = [call EXCEPT ![t].pc = "running"]
        ELSE call' = [call EXCEPT ![t] = NotCalling] /\ UNCHANGED gate
  /\ UNCHANGED <<loads, mapped, registered, callbackGates, modules, ui>>

(* The callback returns and its lease with it.  (What it answered is still a  *)
(* pointer into the plugin, which may be gone when it is read: see the        *)
(* README.)                                                                   *)
ReturnMut(t) ==
  /\ call[t].pc = "running" /\ call' = [call EXCEPT ![t].pc = "returned"]
  /\ UNCHANGED <<loads, mapped, registered, callbackGates, gate, modules, ui>>
Return(t) ==
  /\ call[t].pc = "running"
  /\ gate' = [gate EXCEPT ![call[t].handler.gate].active = @ - 1]
  /\ call' = [call EXCEPT ![t].pc = "returned"]
  /\ UNCHANGED <<loads, mapped, registered, callbackGates, modules, ui>>

(* utf8_to_wide(result.message_utf8)                                          *)
ReadMessage(t) ==
  /\ call[t].pc = "returned"
  /\ call' = [call EXCEPT ![t] = NotCalling]
  /\ UNCHANGED <<loads, mapped, registered, callbackGates, gate, modules, ui>>

Loader ==
  \/ \E p \in Plugins : LoadLibrary(p) \/ Unload(p)
  \/ \E n \in Names : RegisterAction(n) \/ RegisterCommand(n)
  \/ DescriptorRejected \/ OpenScope \/ NoteAction \/ LoadAccepted \/ LoadRejected
  \/ CloseGate \/ RemoveAction \/ AwaitCallbacks \/ FreeLibrary

Answering(t) == Enter(t) \/ Return(t) \/ ReadMessage(t)

HostNext ==
  \/ Loader
  \/ \E t \in Threads : Answering(t) \/ \E n \in Names : LookUp(t, n)
  \/ \E n \in Names : LookUpCommand(n)

(* An unload goes on by itself; a callback that started returns (the ABI asks *)
(* plugins for no more than that).                                            *)
Unloading == CloseGate \/ RemoveAction \/ AwaitCallbacks \/ FreeLibrary
HostFairness == WF_hostVars(Unloading) /\ \A t \in Threads : WF_hostVars(Answering(t))
HostSpec == HostInit /\ [][HostNext]_hostVars /\ HostFairness

-----------------------------------------------------------------------------
HostTypeOK ==
  /\ mapped \subseteq Modules
  /\ entries \in [Names -> Handlers \union {Axiom, None}]
  /\ commands \in [Names -> Handlers \union {None}]
  /\ actionNames \in [Plugins -> SUBSET Names] /\ commandNames \in [Plugins -> SUBSET Names]
  /\ callbackGates \in [Plugins -> 0..MaxLoads] /\ modules \in [Plugins -> 0..MaxLoads]
  /\ gate \in [Modules -> [accepting : BOOLEAN, active : 0..Cardinality(Threads)]]

(* "No registry-held callback can execute after FreeLibrary": a callback that *)
(* runs belongs to a module in memory, however long ago its handler was       *)
(* looked up and however often the plugin was reloaded since, and neither the *)
(* registry nor the commands hold an entry of a module that is gone.          *)
OnlyMappedCodeRuns ==
  /\ HostTypeOK
  /\ \A t \in Threads : call[t].pc = "running" => call[t].handler.inst \in mapped
  /\ \A n \in Names : /\ entries[n] \in Handlers => entries[n].inst \in mapped
                      /\ commands[n] # None => commands[n].inst \in mapped

(* Two plugins may ask for the same name, or for one of Axiom's: unloading,   *)
(* or a load that is rejected half-way, takes away the plugin's own entries   *)
(* and no one else's, and all of them.                                        *)
OwnEntriesOnly ==
  [][ /\ \A n \in Names : entries[n] # None /\ entries'[n] = None
           => entries[n] # Axiom /\ entries[n].inst = ui.inst
      /\ ui.pc = "freeing" => \A n \in Names :
           entries[n] \in Handlers => entries[n].inst # ui.inst ]_hostVars

(* An unload that began ends, whatever is invoked meanwhile: nothing can take *)
(* a new lease on the gate it waits for.                                      *)
UnloadReturns == (ui.pc \in {"leaving", "removing", "freeing"}) ~> (ui.pc = "idle")
=============================================================================
