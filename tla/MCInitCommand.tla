--------------------------- MODULE MCInitCommand ----------------------------
(***************************************************************************)
(* Values for model checking InitCommand: two addresses, a key path inside *)
(* and one outside the data directory besides id_rsa.                      *)
(***************************************************************************)
EXTENDS InitCommand

CONSTANTS idRsa, idRsaPub, hostKey, etcKey, builtIn, a1, a2, secret, unset

MCPaths   == {idRsa, idRsaPub, hostKey, etcKey}
MCDataDir == {idRsa, idRsaPub, hostKey}
PairOnly  == {idRsa, idRsaPub}
MCValues  == MCPaths \cup {builtIn, a1, a2, secret}

Source(addr, key, secrets) ==
    [f \in Fields |-> CASE f = "SFTPAddress" -> addr
                        [] f = "HostPrivateKeyPath" -> key
                        [] OTHER -> secrets]

TwoAddresses == {a1, a2}
OneAddress   == {a1}
AnyKeyArg    == {idRsa, hostKey, etcKey}
Elsewhere    == {etcKey}

\* The global configuration has the secrets, or lacks them.
SecretCommons == {Source(unset, unset, secret)}
AnyCommons    == SecretCommons \cup {Nothing}

NoSettings == {Nothing}
AnyConf    == {Nothing, Source(a2, etcKey, unset), Source(unset, idRsa, secret)}
AnyEnv     == {Nothing, Source(a1, hostKey, unset)}

AllFaults == Labels \cup {"crash"}
NoFaults  == {}
=============================================================================
