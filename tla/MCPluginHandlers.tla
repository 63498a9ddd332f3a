-------------------------- MODULE MCPluginHandlers --------------------------
(* PluginHandlers for TLC: what init and deinit of some of the plugins      *)
(* register and unregister.                                                 *)
EXTENDS PluginHandlers, SequencesExt

MCEvents == {"ProcessCommand", "QueueChatCommand", "ChatReceived", "Update"}
MCVetoable == MCEvents \ {"Update"}
MCPassed == {"ProcessCommand", "ChatReceived"}

\* trivia.py, alarm.py, getgames.py, getmap.py, queue.py as a master, inactive.py
MCHooks ==
  [p \in Plugins |->
     CASE p = "trivia"   -> {"ProcessCommand", "ChatReceived", "Update"} \X {FALSE}
       [] p = "alarm"    -> {"ProcessCommand", "Update"} \X {FALSE}
       [] p = "getmap"   -> {<<"ProcessCommand", TRUE>>}
       [] p = "getgames" -> {<<"ProcessCommand", TRUE>>}
       [] p = "queue"    -> {<<"QueueChatCommand", TRUE>>, <<"Update", FALSE>>}
       [] p = "inactive" -> {<<"ProcessCommand", TRUE>>}]

ASSUME WithoutRemoves == \A vector \in SeqOf(Plugins, 4), p \in Plugins :
                           Without(vector, p) = Remove(vector, p)
=============================================================================
