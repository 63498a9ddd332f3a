SPECIFICATION PluginSpec
CONSTANTS
  Plugins = {"trivia", "alarm", "queue", "getmap", "inactive"}
  Manager = "pluginman"
  Events <- MCEvents
  Command = "ProcessCommand"
  Queued = "QueueChatCommand"
  Vetoable <- MCVetoable
  Passed <- MCPassed
  Hooks <- MCHooks
  Unhooks <- MCHooks
  DeinitRaises = {"inactive"}
INVARIANTS IterationSound CalledOnce UnloadIsComplete LoadedIsAlive
