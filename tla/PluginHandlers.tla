--------------------------- MODULE PluginHandlers ---------------------------
(***************************************************************************)
(* The handlers of the Python plugins: for each event a vector of those    *)
(* that may veto it and one of the rest, which EXECUTE_HANDLER iterates    *)
(* while the plugin manager, one of the handlers, loads and unloads        *)
(* plugins, that is, appends to and erases from the same vectors.  A       *)
(* handler may have the bot queue a chat command, which is an event too.   *)
(*                                                                         *)
(* A plugin has one function for an event, so a handler is known by its    *)
(* plugin.                                                                 *)
(***************************************************************************)
EXTENDS Naturals, Sequences, FiniteSets

CONSTANTS
  Plugins,      \* what pluginman loads and unloads
  Manager,      \* pluginman
  Events,       \* names of events, Command and Queued among them
  Command,      \* ProcessCommand
  Queued,       \* QueueChatCommand
  Vetoable,     \* events that are put to the handlers registered as first
  Passed,       \* those whose other handlers may be left out
  Hooks,        \* <<event, first>> each plugin registers in init
  Unhooks,      \* and unregisters in deinit
  DeinitRaises  \* plugins whose deinit then raises an exception

Keys == Events \X BOOLEAN

ASSUME HandlersAssumption == /\ Manager \notin Plugins
                             /\ Command \in Vetoable /\ Queued \in Vetoable
                             /\ Command # Queued
                             /\ Vetoable \subseteq Events /\ Passed \subseteq Vetoable
                             /\ Hooks \in [Plugins -> SUBSET Keys]
                             /\ Unhooks \in [Plugins -> SUBSET Keys]
                             /\ DeinitRaises \subseteq Plugins

VARIABLES
  handlers,  \* gHandlersFirst and gHandlersSecond
  loaded,    \* loadedPlugins
  imported,  \* importedPlugins
  frames     \* the iterations under way, the innermost last

pluginVars == <<handlers, loaded, imported, frames>>

Handlers == Plugins \cup {Manager}

\* pluginman.init, with no plugins to load at the start.
PluginInit ==
  /\ handlers = [k \in Keys |-> IF k = <<Command, TRUE>> THEN <<Manager>> ELSE <<>>]
  /\ loaded = {} /\ imported = {}
  /\ frames = <<>>

-----------------------------------------------------------------------------
(* Iterations.                                                             *)

\* The vector of the key as it is when the iteration begins is a history variable.
Iterate(key) == [key |-> key, next |-> 1, begun |-> handlers[key]]

Innermost == frames[Len(frames)]
Outer == SubSeq(frames, 1, Len(frames) - 1)

\* An iterator is compared with the end of the vector as it is now.
AtEnd == Innermost.next > Len(handlers[Innermost.key])
Running == frames # <<>> /\ ~AtEnd
Current == handlers[Innermost.key][Innermost.next]

Advanced == Append(Outer, [Innermost EXCEPT !.next = @ + 1])

\* Something happens, and the core executes the handlers.
Happens(event) ==
  /\ frames = <<>>
  /\ frames' = <<Iterate(<<event, event \in Vetoable>>)>>
  /\ UNCHANGED <<handlers, loaded, imported>>

\* The handler returns true; or false, None, or an exception, which in a vector of
\* first handlers makes the macro throw, and the event is over.
Returns(verdict) ==
  /\ Running
  /\ frames' = IF Innermost.key[2] /\ ~verdict THEN Outer ELSE Advanced
  /\ UNCHANGED <<handlers, loaded, imported>>

\* After the first handlers the others, unless it is a whispered command and those are
\* disabled, or a message that is vetoed in ChatReceivedExtended.
Ends ==
  /\ frames # <<>> /\ AtEnd
  /\ \/ Innermost.key[2] /\ frames' = Append(Outer, Iterate(<<Innermost.key[1], FALSE>>))
     \/ Innermost.key[2] /\ Innermost.key[1] \in Passed /\ frames' = Outer
     \/ ~Innermost.key[2] /\ frames' = Outer
  /\ UNCHANGED <<handlers, loaded, imported>>

\* bnet.queueChatCommand, from a handler; the handlers of that do not call it.
Queue ==
  /\ Running /\ Innermost.key[1] # Queued
  /\ frames' = Append(frames, Iterate(<<Queued, TRUE>>))
  /\ UNCHANGED <<handlers, loaded, imported>>

-----------------------------------------------------------------------------
(* pluginman.                                                              *)

\* RegisterHandler, for all p registers in init.  Should init raise afterwards, its
\* handlers stay, and p is listed as loaded already.
Registered(vectors, p) ==
  [k \in Keys |-> IF k \in Hooks[p] THEN Append(vectors[k], p) ELSE vectors[k]]

\* All that is equal to p is erased: the rest in order, each by how many of the rest stand
\* up to it (Remove of SequencesExt, in a form that can be reasoned about).
Without(vector, p) ==
  LET rest == {i \in 1..Len(vector) : vector[i] # p}
      At(j) == CHOOSE i \in rest : Cardinality({m \in rest : m <= i}) = j
  IN  [j \in 1..Cardinality(rest) |-> vector[At(j)]]

\* Mutant: the handlers are looked for among the second ones.
UnregisteredSecond(vectors, p) ==
  [k \in Keys |-> IF k \in Unhooks[p] /\ ~k[2] THEN Without(vectors[k], p) ELSE vectors[k]]

\* UnregisterHandler, for all p unregisters in deinit.
Unregistered(vectors, p) ==
  [k \in Keys |-> IF k \in Unhooks[p] THEN Without(vectors[k], p) ELSE vectors[k]]

\* Mutant: a plugin can be loaded twice.
LoadAgain(p) ==
  /\ imported' = imported \cup {p}
  /\ loaded' = loaded \cup {p}
  /\ handlers' = Registered(handlers, p)

Load(p) ==
  /\ p \notin loaded
  /\ imported' = imported \cup {p}
  /\ loaded' = loaded \cup {p}
  /\ handlers' = Registered(handlers, p)

\* An exception in deinit leaves the plugin in loadedPlugins.
Deinitialized(p) == IF p \in loaded THEN Unregistered(handlers, p) ELSE handlers
DeinitFails(p) == p \in loaded /\ p \in DeinitRaises

Unload(p) ==
  /\ p \in loaded
  /\ handlers' = Deinitialized(p)
  /\ loaded' = IF DeinitFails(p) THEN loaded ELSE loaded \ {p}
  /\ UNCHANGED imported

\* Mutant: the new version is not initialized.
ReloadQuietly(p) ==
  /\ p \in imported
  /\ UNCHANGED imported
  /\ handlers' = Deinitialized(p)
  /\ loaded' = IF DeinitFails(p) THEN loaded ELSE loaded \cup {p}

\* deinit; reload, which may find an error in the new version; init.
Reload(p) ==
  /\ p \in imported
  /\ UNCHANGED imported
  /\ \/ ~DeinitFails(p) /\ handlers' = Registered(Deinitialized(p), p)
                        /\ loaded' = loaded \cup {p}
     \/ ~DeinitFails(p) /\ handlers' = Deinitialized(p) /\ loaded' = loaded \ {p}
     \/ DeinitFails(p) /\ handlers' = Deinitialized(p) /\ UNCHANGED loaded

\* Mutant: pluginman lets the other handlers have its commands too.
ManageOn ==
  /\ Running
  /\ Current = Manager /\ Innermost.key = <<Command, TRUE>>
  /\ \E p \in Plugins : Load(p) \/ Unload(p) \/ Reload(p)
  /\ frames' = Advanced

\* "stop executing so we don't run anything we just inited": returning False, None or an
\* exception, onCommand ends the iteration it is called from.
Manage ==
  /\ Running
  /\ Current = Manager /\ Innermost.key = <<Command, TRUE>>
  /\ \E p \in Plugins : Load(p) \/ Unload(p) \/ Reload(p)
  /\ frames' = Outer

-----------------------------------------------------------------------------
PluginNext == \/ \E event \in Events : Happens(event)
              \/ \E verdict \in BOOLEAN : Returns(verdict)
              \/ Ends \/ Queue \/ Manage

PluginSpec == PluginInit /\ [][PluginNext]_pluginVars

-----------------------------------------------------------------------------
(* Properties.                                                             *)

\* An iterator of a vector that has grown or shrunk since is invalid: no iteration, also
\* of an event around the one in which pluginman acts, goes on over a vector that was
\* changed under it (chop.h:64, chop.cpp:156).
IterationSound == \A i \in 1..Len(frames) : frames[i].begun = handlers[frames[i].key]

Registrations(p, k) == {i \in 1..Len(handlers[k]) : handlers[k][i] = p}

\* An event reaches a plugin once, however the plugin was loaded, unloaded and reloaded.
CalledOnce == \A p \in Handlers, k \in Keys :
                \A i, j \in Registrations(p, k) : i = j

\* A plugin that was unloaded, or whose reload failed, is never called again.
UnloadIsComplete == \A p \in Plugins \ loaded, k \in Keys : Registrations(p, k) = {}

\* pluginman.py:5: "Can reload plugins during testing so that the bot does not have to be
\* fully restarted": what is listed as loaded, and cannot be loaded again, is called, if
\* its deinit raises no exception.
LoadedIsAlive == \A p \in loaded \ DeinitRaises : \A k \in Hooks[p] : Registrations(p, k) # {}
=============================================================================
