------------------------------ MODULE Settings ------------------------------
(***************************************************************************)
(* How a command of opencloud-sftp comes by its settings                   *)
(* (pkg/config/parser/parse.go): the built-in ones and the flags first,    *)
(* then what the global configuration has for the secrets that are still   *)
(* empty, then the service's configuration file, then the environment.     *)
(***************************************************************************)

CONSTANTS
    Values,     \* what a setting may be set to
    Unset       \* the empty string, or a source that does not name the setting

ASSUME SettingsAssumption == Unset \notin Values

Secrets  == {"JWTSecret", "MachineAuthAPIKey"}
Fields   == Secrets \cup {"SFTPAddress", "HostPrivateKeyPath"}
Settings == [Fields -> Values \cup {Unset}]
Nothing  == [f \in Fields |-> Unset]

\* A source sets what it names.
Over(cfg, source) == [f \in Fields |-> IF source[f] = Unset THEN cfg[f] ELSE source[f]]

\* EnsureDefaults copies the secrets that are empty from the global configuration.
EnsureDefaults(cfg, commons) ==
    [f \in Fields |-> IF f \in Secrets /\ cfg[f] = Unset THEN commons[f] ELSE cfg[f]]

ParseConfig(cfg, commons, file, env) ==
    Over(Over(EnsureDefaults(cfg, commons), file), env)

\* Validate: the two secrets have to come from somewhere.
IsValid(cfg) == \A f \in Secrets : cfg[f] # Unset

\* configSubsetToYAML; and a mutant that forgets where the key is.
AddressSubset(cfg) ==
    [f \in Fields |-> IF f = "SFTPAddress" THEN cfg[f] ELSE Unset]
ConfigSubset(cfg) ==
    [f \in Fields |-> IF f \in {"SFTPAddress", "HostPrivateKeyPath"} THEN cfg[f] ELSE Unset]

=============================================================================
