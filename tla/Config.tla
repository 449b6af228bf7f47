-------------------------------- MODULE Config --------------------------------
(***************************************************************************)
(* internal/config/config.go and internal/core/access.go: what Load makes  *)
(* of a configuration file, and whom Allowed lets in.  Of a file only the  *)
(* fields count that decide something here; a text field is either set or  *)
(* empty.  A file that is not readable is missing, or no YAML.             *)
(***************************************************************************)
EXTENDS Integers

\* Channel: allow_from as a set of user ids.
ChannelEntries(users) == [enabled : BOOLEAN, openAccess : BOOLEAN, allowFrom : SUBSET users]

ConfigFiles(names, users) ==
  [readable : BOOLEAN, apiKeyEnv : BOOLEAN, stateDir : BOOLEAN,
   concurrency : Int, tokenBudget : Int,
   channels : UNION {[some -> ChannelEntries(users)] : some \in SUBSET names}]

\* What Load returns on error.
Refused == [error |-> TRUE, channels |-> [name \in {} |-> {}]]

\* Slip: open access together with a list is accepted.
NoConflict(file) == FALSE

\* The check at the end of Load.
Conflict(file) ==
  \E name \in DOMAIN file.channels :
    file.channels[name].openAccess /\ file.channels[name].allowFrom # {}

\* Zero stands for a field that is missing.
OrDefault(value, default) == IF value = 0 THEN default ELSE value

WithDefaults(file) ==
  [file EXCEPT !.concurrency = OrDefault(@, 2), !.tokenBudget = OrDefault(@, 80000)]

Acceptable(file) ==
  /\ file.readable
  /\ file.apiKeyEnv /\ file.stateDir
  /\ WithDefaults(file).concurrency >= 1
  /\ ~Conflict(file)

Load(file) == IF Acceptable(file) THEN WithDefaults(file) ELSE Refused

\* Access.Allowed.
Allowed(cfg, channel, user) ==
  /\ channel \in DOMAIN cfg.channels
  /\ cfg.channels[channel].enabled
  /\ cfg.channels[channel].openAccess \/ user \in cfg.channels[channel].allowFrom

=============================================================================
