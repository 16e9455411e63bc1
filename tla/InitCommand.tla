---------------------------- MODULE InitCommand -----------------------------
(***************************************************************************)
(* The commands init and server on the files they share                    *)
(* (pkg/command/init.go, pkg/command/server.go, pkg/server/sftp.go): init  *)
(* makes the configuration file and the host key, server reads the one and *)
(* then the other.                                                         *)
(*                                                                         *)
(* Every step of init on a file is a step of the model.  It may fail, as   *)
(* far as Faults says, and the process may end between any two steps.      *)
(* os.WriteFile is two steps: the file is there, and cut to nothing, before*)
(* the one write call that fills it.                                       *)
(***************************************************************************)
EXTENDS Settings, Integers, FiniteSets

CONSTANTS
    Paths,              \* the files besides the configuration
    DataDir,            \* those of them in the data directory
    DataKey, DataPub,   \* id_rsa and id_rsa.pub in the data directory
    DefaultAddress,     \* of the server when nobody says otherwise
    Addresses, KeyArgs, \* what --sftp-addr and -k are given
    ConfigFiles,        \* what a configuration file may say at the start
    CommonsSets, Envs,  \* global configurations and environments
    Faults,             \* the steps that may fail, and "crash"
    MaxRuns             \* bound: runs of init

ASSUME InitAssumption ==
    /\ DataDir \subseteq Paths /\ DataKey \in DataDir /\ DataPub \in DataDir
    /\ DataKey # DataPub
    /\ Paths \cup {DefaultAddress} \cup Addresses \subseteq Values
    /\ KeyArgs \subseteq Paths
    /\ ConfigFiles \subseteq Settings /\ CommonsSets \subseteq Settings /\ Envs \subseteq Settings
    /\ MaxRuns \in Nat

VARIABLES
    conf,           \* the service's configuration file
    files,          \* what the other files hold
    made,           \* key pairs there have been; the last one is number made
    commons, env,   \* the global configuration, and the environment
    pc, args, cfg,  \* of the run of init
    answer,         \* what the last run ended with
    met,            \* history: a fault was met in this run
    overlooked,     \* history: an error of deleteFiles was overlooked, in any run
    runs,
    server          \* the server process

disk    == <<conf, files, made>>
process == <<pc, args, cfg, answer, met, runs>>
vars    == <<disk, commons, env, process, overlooked, server>>

\* What a file holds: nothing as it is not there, nothing as it was cut, or
\* one half of a key pair.
Absent == 0
Cut    == -1
IsThere(content) == content # Absent    \* a mutant of IsWhole
IsWhole(content) == content > 0
Holds(path)      == IF path \in Paths THEN files[path] ELSE Absent

NoConf == [exists |-> FALSE, says |-> Nothing]
Conf(says) == [exists |-> TRUE, says |-> says]

DefaultConfig ==
    [f \in Fields |-> CASE f = "SFTPAddress" -> DefaultAddress
                        [] f = "HostPrivateKeyPath" -> DataKey
                        [] OTHER -> Unset]

NoArgs   == [addr |-> DefaultAddress, key |-> DataKey, force |-> FALSE]
NoServer == [pc |-> "down", cfg |-> DefaultConfig, key |-> Absent, calm |-> FALSE]

\* Any of the files may be there: both halves of a pair, one that a crash or a
\* user left, and keys of other names in the data directory and elsewhere.
Init ==
    /\ conf \in {NoConf} \cup {Conf(says) : says \in ConfigFiles}
    /\ made = 2
    /\ \E there \in SUBSET Paths :
          files = [p \in Paths |-> IF p \notin there THEN Absent
                                   ELSE IF p \in {DataKey, DataPub} THEN 1 ELSE 2]
    /\ commons \in CommonsSets /\ env \in Envs
    /\ pc = "idle" /\ args = NoArgs /\ cfg = DefaultConfig
    /\ answer = "none" /\ met = FALSE /\ runs = 0 /\ overlooked = FALSE
    /\ server = NoServer

-----------------------------------------------------------------------------
(* init *)

Goto(label) == pc' = label /\ UNCHANGED <<args, cfg, answer, met, runs>>

End(is) ==
    /\ pc' = "idle" /\ answer' = is
    /\ UNCHANGED <<args, cfg, met, runs>>

Untouched == UNCHANGED <<commons, env, overlooked, server>>

\* The flags are stored in the built-in configuration before anything is read.
Start ==
    /\ pc = "idle" /\ runs < MaxRuns
    /\ \E addr \in Addresses, key \in KeyArgs, force \in BOOLEAN :
          /\ args' = [addr |-> addr, key |-> key, force |-> force]
          /\ cfg' = [DefaultConfig EXCEPT !["SFTPAddress"] = addr, !["HostPrivateKeyPath"] = key]
    /\ pc' = "before" /\ answer' = "running" /\ met' = FALSE /\ runs' = runs + 1
    /\ server' = [server EXCEPT !.calm = FALSE]
    /\ UNCHANGED <<disk, commons, env, overlooked>>

Before ==
    /\ pc = "before"
    /\ cfg' = ParseConfig(cfg, commons, conf.says, env)
    /\ \/ IsValid(cfg') /\ pc' = "check" /\ UNCHANGED answer
       \/ ~IsValid(cfg') /\ pc' = "idle" /\ answer' = "refused"
    /\ UNCHANGED <<args, met, runs, disk>> /\ Untouched

\* init refuses when there is a configuration, or a file where the host key is
\* configured to be; and a mutant that only looks for the configuration.
ConfExists   == conf.exists
SetupExists  == conf.exists \/ Holds(cfg["HostPrivateKeyPath"]) # Absent

\* A mutant: init refuses, forced or not.
RefusesAlways == SetupExists
Refuses       == SetupExists /\ ~args.force

Check ==
    /\ pc = "check"
    /\ IF Refuses THEN End("refused") ELSE Goto("clear")
    /\ UNCHANGED disk /\ Untouched

\* What deleteFiles takes from the data directory; a mutant takes the key only.
ClearsKey == {DataKey}
Clears    == DataDir

\* RemoveAll takes the files of the data directory in any order ...
ClearData ==
    /\ pc = "clear"
    /\ \/ \E p \in Clears : /\ files[p] # Absent
                            /\ files' = [files EXCEPT ![p] = Absent]
                            /\ UNCHANGED pc
       \/ (\A p \in Clears : files[p] = Absent) /\ pc' = "clearConf" /\ UNCHANGED files
    /\ UNCHANGED <<conf, made, args, cfg, answer, met, runs>> /\ Untouched

\* ... and then the configuration.
ClearConf ==
    /\ pc = "clearConf"
    /\ conf' = NoConf /\ Goto("openConf")
    /\ UNCHANGED <<files, made>> /\ Untouched

OpenConf ==
    /\ pc = "openConf"
    /\ conf' = Conf(Nothing) /\ Goto("writeConf")
    /\ UNCHANGED <<files, made>> /\ Untouched

WriteConf ==
    /\ pc = "writeConf"
    /\ conf' = Conf(ConfigSubset(cfg)) /\ Goto("mkdir")
    /\ UNCHANGED <<files, made>> /\ Untouched

MakeDir ==
    /\ pc = "mkdir" /\ Goto("keygen")
    /\ UNCHANGED disk /\ Untouched

GenerateSSHKeyPair ==
    /\ pc = "keygen" /\ Goto("openKey")
    /\ made' = made + 1
    /\ UNCHANGED <<conf, files>> /\ Untouched

\* writeKeyPairToFile: whatever -k says, the data directory gets the pair.
WriteKeyPair ==
    /\ \/ pc = "openKey"  /\ files' = [files EXCEPT ![DataKey] = Cut]  /\ Goto("writeKey")
       \/ pc = "writeKey" /\ files' = [files EXCEPT ![DataKey] = made] /\ Goto("openPub")
       \/ pc = "openPub"  /\ files' = [files EXCEPT ![DataPub] = Cut]  /\ Goto("writePub")
       \/ pc = "writePub" /\ files' = [files EXCEPT ![DataPub] = made] /\ End("ok")
    /\ UNCHANGED <<conf, made>> /\ Untouched

\* What an error makes of the run; a mutant loses it, as that of deleteFiles is.
LostError  == "ok"
AfterError == "failed"

\* A step fails.  The error of deleteFiles is lost, so init goes on; at check
\* it is the panic of fileExists; every other error ends init.
StepFails ==
    /\ pc \in Faults \ {"idle"}
    /\ met' = TRUE
    /\ IF pc \in {"clear", "clearConf"}
       THEN pc' = "openConf" /\ overlooked' = TRUE /\ UNCHANGED answer
       ELSE pc' = "idle" /\ answer' = AfterError /\ UNCHANGED overlooked
    /\ UNCHANGED <<args, cfg, runs, disk, commons, env, server>>

Crash ==
    /\ pc # "idle" /\ "crash" \in Faults
    /\ pc' = "idle" /\ answer' = "failed" /\ met' = TRUE
    /\ UNCHANGED <<args, cfg, runs, disk>> /\ Untouched

-----------------------------------------------------------------------------
(* server *)

OnDisk == ParseConfig(DefaultConfig, commons, conf.says, env)

\* calm: init had succeeded, and has not been called again.
ServerParses ==
    /\ server.pc = "down"
    /\ server' = [pc |-> IF IsValid(OnDisk) THEN "parsed" ELSE "exited",
                  cfg |-> OnDisk, key |-> Absent,
                  calm |-> pc = "idle" /\ answer = "ok"]
    /\ UNCHANGED <<disk, commons, env, process, overlooked>>

ServerReadsKey ==
    /\ server.pc = "parsed"
    /\ LET key == Holds(server.cfg["HostPrivateKeyPath"]) IN
       server' = IF IsWhole(key) THEN [server EXCEPT !.pc = "up", !.key = key]
                                 ELSE [server EXCEPT !.pc = "exited"]
    /\ UNCHANGED <<disk, commons, env, process, overlooked>>

ServerEnds ==
    /\ server.pc \in {"up", "exited"}
    /\ server' = NoServer
    /\ UNCHANGED <<disk, commons, env, process, overlooked>>

-----------------------------------------------------------------------------

Step ==
    \/ Before \/ Check \/ ClearData \/ ClearConf \/ OpenConf \/ WriteConf
    \/ MakeDir \/ GenerateSSHKeyPair \/ WriteKeyPair

Next ==
    \/ Start \/ Step \/ StepFails \/ Crash
    \/ ServerParses \/ ServerReadsKey \/ ServerEnds

Spec == Init /\ [][Next]_vars

\* A process that is not ended goes on.
FairSpec == Spec /\ WF_vars(Step)

-----------------------------------------------------------------------------
(* Types *)

Labels ==
    {"idle", "before", "check", "clear", "clearConf", "openConf", "writeConf",
     "mkdir", "keygen", "openKey", "writeKey", "openPub", "writePub"}

\* The types of the variables; the settings of a run that got past its check
\* are what the code read, and a setting that names a file names one of Paths.
TypeOK ==
    /\ conf \in [exists : BOOLEAN, says : Settings]
    /\ made \in Nat /\ files \in [Paths -> {Absent, Cut} \cup 1 .. made]
    /\ commons \in Settings /\ env \in Settings
    /\ pc \in Labels /\ cfg \in Settings
    /\ args \in [addr : Values, key : Paths, force : BOOLEAN]
    /\ answer \in {"none", "running", "ok", "refused", "failed"}
    /\ met \in BOOLEAN /\ overlooked \in BOOLEAN /\ runs \in Nat
    /\ server \in [pc : {"down", "parsed", "up", "exited"}, cfg : Settings,
                   key : {Absent} \cup 1 .. made, calm : BOOLEAN]

-----------------------------------------------------------------------------
(* What init has to keep *)

Succeeded == pc = "idle" /\ answer = "ok"

\* The public key in the data directory belongs to the private key next to it,
\* at every moment and after every crash, as init deletes both before it writes
\* either (deleteFiles, writeKeyPairToFile); unless a deletion failed, which init
\* overlooks.
PairMatches ==
    ~overlooked /\ IsWhole(files[DataKey]) /\ IsWhole(files[DataPub]) =>
        files[DataKey] = files[DataPub]

\* The server will run with the settings that init ran with, though they reach
\* it through a file with two of them (configSubsetToYAML) and init's came from
\* flags, an older file and the environment.
ServerReadsWhatInitSaw ==
    Succeeded => \A f \in {"SFTPAddress", "HostPrivateKeyPath"} : OnDisk[f] = cfg[f]

\* An init that is not forced loses nothing that its check (init.go:61-68) looks
\* for: no key where its host key is configured to be, in the data directory or
\* elsewhere, and no configuration but the empty one it has just made itself; and
\* no key outside the data directory.  This holds whatever earlier runs left behind
\* and whichever of its own steps fail.  Other files in the data directory it does
\* delete: see KeysKeptUnforced.
Loses(path) == IsWhole(files[path]) /\ files'[path] # files[path]

CheckedIsKept ==
    [][~args.force =>
          /\ \A p \in Paths : Loses(p) => p \in DataDir /\ p # cfg["HostPrivateKeyPath"]
          /\ conf.exists /\ conf' # conf => pc = "writeConf" /\ conf = Conf(Nothing)]_vars

\* A server that is started after a successful init starts, and with the key
\* which that init made, whatever failed before (server.go:23, sftp.go:82); if
\* its host key is to be in the data directory and its secrets are in the global
\* configuration.
ServerStarts ==
    /\ server.calm /\ server.cfg["HostPrivateKeyPath"] = DataKey
    /\ \A f \in Secrets : commons[f] # Unset
    => /\ server.pc # "exited"
       /\ server.pc = "up" => server.key = made

\* An init that reports success has made a whole setup: the configuration has
\* what it ran with, and the pair is the last one made, its own.  This holds also
\* when it overlooked a deletion that failed, as it writes over what is left
\* (init.go:70-103).
IsSetUp ==
    /\ conf = Conf(ConfigSubset(cfg)) /\ IsWhole(made)
    /\ files[DataKey] = made /\ files[DataPub] = made

SuccessIsSetUp == Succeeded => IsSetUp

\* Whatever earlier runs left behind, a forced init that meets no fault itself
\* makes a whole setup; unless it is refused, as the secrets are missing.
ForcedInitRepairs ==
    pc = "check" /\ args.force ~> met \/ (answer = "ok" /\ IsSetUp)

-----------------------------------------------------------------------------
(* What the repository says and the code does not do *)

\* "configuration already exists at %s or host key at %s" (init.go:67): an init
\* that is not forced keeps every private key there is.
KeysKeptUnforced == [][~args.force => \A p \in Paths \ {DataPub} : ~Loses(p)]_vars

=============================================================================
