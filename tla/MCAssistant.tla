----------------------------- MODULE MCAssistant -----------------------------
(* Values for the constants of Assistant that a .cfg cannot write.          *)
EXTENDS Assistant

Channel(enabled, open, from) == [enabled |-> enabled, openAccess |-> open, allowFrom |-> from]
File(channel, concurrency) ==
  [readable |-> TRUE, apiKeyEnv |-> TRUE, stateDir |-> TRUE, tokenBudget |-> 0, concurrency |-> concurrency,
   channels |-> [telegram |-> channel]]

MCFiles ==
  {File(Channel(TRUE, FALSE, {"leo"}), 0),
   File(Channel(TRUE, TRUE, {"leo"}), 1),
   File(Channel(TRUE, TRUE, {}), -1),
   File(Channel(FALSE, FALSE, {"leo"}), 1)}

MCLower ==
  [s \in {"", "Default", "default", "Work", "work", "w"} |->
     CASE s = "Default" -> "default" [] s = "Work" -> "work" [] OTHER -> s]
=============================================================================
