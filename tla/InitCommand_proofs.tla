------------------------- MODULE InitCommand_proofs -------------------------
(***************************************************************************)
(* Theorems about InitCommand, for every number of runs, every set of      *)
(* paths, settings and faults, and every crash.                            *)
(***************************************************************************)
EXTENDS InitCommand, TLAPS

-----------------------------------------------------------------------------
(* Settings *)

\* Every way the code combines settings gives settings.
LEMMA SettingsTypes ==
    /\ Nothing \in Settings /\ DefaultConfig \in Settings
    /\ \A c, d \in Settings :
          Over(c, d) \in Settings /\ EnsureDefaults(c, d) \in Settings
    /\ \A c \in Settings : ConfigSubset(c) \in Settings
    /\ \A c, m, f, e \in Settings : ParseConfig(c, m, f, e) \in Settings
<1>1. Nothing \in Settings
  BY DEF Nothing, Settings
<1>2. DefaultConfig \in Settings
  BY InitAssumption DEF InitAssumption, DefaultConfig, Settings
<1>3. \A c, d \in Settings : Over(c, d) \in Settings
  BY DEF Over, Settings
<1>4. \A c, d \in Settings : EnsureDefaults(c, d) \in Settings
  BY DEF EnsureDefaults, Settings
<1>5. \A c \in Settings : ConfigSubset(c) \in Settings
  BY DEF ConfigSubset, Settings
<1>6. \A c, m, f, e \in Settings : ParseConfig(c, m, f, e) \in Settings
  BY <1>3, <1>4 DEF ParseConfig
<1> QED BY <1>1, <1>2, <1>3, <1>4, <1>5, <1>6

\* The two settings that init writes are no secrets.
LEMMA WrittenFields ==
    /\ "SFTPAddress" \in Fields \ Secrets /\ "HostPrivateKeyPath" \in Fields \ Secrets
BY DEF Fields, Secrets

\* The environment wins over the file, and the file over what there was.
LEMMA ParsedSetting ==
    ASSUME NEW c \in Settings, NEW m \in Settings, NEW f \in Settings, NEW e \in Settings,
           NEW x \in Fields \ Secrets
    PROVE  ParseConfig(c, m, f, e)[x] =
              IF e[x] # Unset THEN e[x] ELSE IF f[x] # Unset THEN f[x] ELSE c[x]
BY DEF ParseConfig, Over, EnsureDefaults

-----------------------------------------------------------------------------
(* Types *)

\* The variables have their types at the start.
LEMMA TypeInit == Init => TypeOK
<1> SUFFICES ASSUME Init PROVE TypeOK
  OBVIOUS
<1> USE InitAssumption, SettingsTypes DEF InitAssumption
<1>1. conf \in [exists : BOOLEAN, says : Settings]
  <2>1. conf = NoConf \/ \E says \in Settings : conf = Conf(says)
    BY DEF Init
  <2>2. NoConf \in [exists : BOOLEAN, says : Settings]
    BY DEF NoConf
  <2>3. \A says \in Settings : Conf(says) \in [exists : BOOLEAN, says : Settings]
    BY DEF Conf
  <2> QED BY <2>1, <2>2, <2>3
<1>2. made \in Nat /\ files \in [Paths -> {Absent, Cut} \cup 1 .. made]
  BY DEF Init
<1>3. /\ commons \in Settings /\ env \in Settings /\ cfg \in Settings /\ pc \in Labels
      /\ answer \in {"none", "running", "ok", "refused", "failed"} /\ met \in BOOLEAN /\ runs \in Nat
      /\ overlooked \in BOOLEAN
  BY DEF Init, Labels
<1>4. args \in [addr : Values, key : Paths, force : BOOLEAN]
  BY DEF Init, NoArgs
<1>5. server \in [pc : {"down", "parsed", "up", "exited"}, cfg : Settings,
                  key : {Absent} \cup 1 .. made, calm : BOOLEAN]
  BY DEF Init, NoServer
<1> QED BY <1>1, <1>2, <1>3, <1>4, <1>5 DEF TypeOK

\* Every step keeps them.
LEMMA TypeStep == TypeOK /\ [Next]_vars => TypeOK'
<1> SUFFICES ASSUME TypeOK, [Next]_vars PROVE TypeOK'
  OBVIOUS
<1> USE InitAssumption, SettingsTypes DEF InitAssumption, Goto, End, Untouched, disk, process, Labels
<1>1. CASE Start
  <2>1. cfg' \in Settings
    BY <1>1 DEF Start, Settings, Fields
  <2>2. args' \in [addr : Values, key : Paths, force : BOOLEAN]
    BY <1>1 DEF Start
  <2>3. server' \in [pc : {"down", "parsed", "up", "exited"}, cfg : Settings,
                     key : {Absent} \cup 1 .. made, calm : BOOLEAN]
    BY <1>1 DEF Start, TypeOK
  <2>4. pc' \in Labels /\ answer' = "running" /\ met' = FALSE /\ runs' \in Nat
    BY <1>1 DEF Start, TypeOK
  <2>5. UNCHANGED <<conf, files, made, commons, env, overlooked>>
    BY <1>1 DEF Start
  <2> QED BY <2>1, <2>2, <2>3, <2>4, <2>5 DEF TypeOK
<1>2. CASE Before
  <2>1. cfg' \in Settings
    BY <1>2 DEF Before, TypeOK
  <2> QED BY <1>2, <2>1 DEF Before, TypeOK
<1>3. CASE Check
  BY <1>3 DEF Check, TypeOK
<1>4. CASE ClearData
  BY <1>4 DEF ClearData, TypeOK
<1>5. CASE ClearConf \/ OpenConf \/ WriteConf
  <2>1. conf' \in [exists : BOOLEAN, says : Settings]
    <3>1. \A says \in Settings, e \in BOOLEAN :
             [exists |-> e, says |-> says] \in [exists : BOOLEAN, says : Settings]
      OBVIOUS
    <3>2. Nothing \in Settings /\ ConfigSubset(cfg) \in Settings
      BY DEF TypeOK
    <3> QED BY <1>5, <3>1, <3>2 DEF ClearConf, OpenConf, WriteConf, Conf, NoConf
  <2>2. pc' \in Labels
    BY <1>5 DEF ClearConf, OpenConf, WriteConf
  <2>3. UNCHANGED <<files, made, commons, env, args, cfg, answer, met, runs, overlooked, server>>
    BY <1>5 DEF ClearConf, OpenConf, WriteConf
  <2> QED BY <2>1, <2>2, <2>3 DEF TypeOK
<1>6. CASE MakeDir
  BY <1>6 DEF MakeDir, TypeOK
<1>7. CASE GenerateSSHKeyPair
  BY <1>7 DEF GenerateSSHKeyPair, TypeOK
<1>8. CASE WriteKeyPair
  <2>1. made \in Nat /\ files' \in [Paths -> {Absent, Cut, made} \cup 1 .. made]
    BY <1>8 DEF WriteKeyPair, TypeOK
  <2>2. {Absent, Cut, made} \cup 1 .. made = {Absent, Cut} \cup 1 .. made
    BY <2>1 DEF Absent, Cut
  <2>3. files' \in [Paths -> {Absent, Cut} \cup 1 .. made]
    BY <2>1, <2>2
  <2> QED BY <1>8, <2>3 DEF WriteKeyPair, TypeOK
<1>9. CASE StepFails
  <2>1. /\ pc' \in {"openConf", "idle"} /\ (answer' = "failed" \/ UNCHANGED answer)
        /\ met' = TRUE /\ (overlooked' = TRUE \/ UNCHANGED overlooked)
    BY <1>9 DEF StepFails, AfterError
  <2>2. UNCHANGED <<args, cfg, runs, conf, files, made, commons, env, server>>
    BY <1>9 DEF StepFails
  <2>3. /\ pc' \in Labels /\ met' \in BOOLEAN /\ overlooked' \in BOOLEAN
        /\ answer' \in {"none", "running", "ok", "refused", "failed"}
    BY <2>1 DEF TypeOK
  <2> QED BY <2>2, <2>3 DEF TypeOK
<1>10. CASE Crash
  BY <1>10 DEF Crash, TypeOK
<1>11. CASE ServerParses
  <2>1. OnDisk \in Settings
    BY DEF OnDisk, TypeOK
  <2> QED BY <1>11, <2>1 DEF ServerParses, TypeOK
<1>12. CASE ServerReadsKey
  <2>1. ASSUME NEW p, IsWhole(Holds(p)) PROVE Holds(p) \in 1 .. made
    BY <2>1 DEF Holds, IsWhole, Absent, Cut, TypeOK
  <2>2. server' \in [pc : {"down", "parsed", "up", "exited"}, cfg : Settings,
                     key : {Absent} \cup 1 .. made, calm : BOOLEAN]
    BY <1>12, <2>1 DEF ServerReadsKey, TypeOK
  <2> QED BY <1>12, <2>2 DEF ServerReadsKey, TypeOK
<1>13. CASE ServerEnds
  BY <1>13 DEF ServerEnds, NoServer, TypeOK
<1>14. CASE UNCHANGED vars
  BY <1>14 DEF vars, TypeOK
<1> QED
  BY <1>1, <1>2, <1>3, <1>4, <1>5, <1>6, <1>7, <1>8, <1>9, <1>10, <1>11, <1>12, <1>13, <1>14
  DEF Next, Step

\* Every variable keeps its type: no file holds a key that was never made, and
\* no source of settings yields anything but settings.
THEOREM TypesHold == Spec => []TypeOK
BY TypeInit, TypeStep, PTL DEF Spec

\* The same of the settings that the server would read now.
LEMMA OnDiskSetting ==
    ASSUME TypeOK, NEW f \in Fields \ Secrets
    PROVE  OnDisk[f] = IF env[f] # Unset THEN env[f]
                       ELSE IF conf.says[f] # Unset THEN conf.says[f] ELSE DefaultConfig[f]
<1>1. /\ DefaultConfig \in Settings /\ commons \in Settings /\ env \in Settings
      /\ conf.says \in Settings
  BY SettingsTypes DEF TypeOK
<1> QED BY <1>1, ParsedSetting DEF OnDisk

-----------------------------------------------------------------------------
(* The pair of keys *)

\* From the end of the deletion until it is written there is no public key, and
\* until the private key is written no private key either, unless the deletion
\* failed.
PairInv ==
    /\ PairMatches
    /\ pc \in {"clearConf", "openConf", "writeConf", "mkdir", "keygen", "openKey",
               "writeKey", "openPub", "writePub"} => overlooked \/ ~IsWhole(files[DataPub])
    /\ pc \in {"openPub", "writePub"} => files[DataKey] = made

\* The code around the keys keeps PairInv.
LEMMA PairStep == TypeOK /\ PairInv /\ [Next]_vars => PairInv'
<1> SUFFICES ASSUME TypeOK, PairInv, [Next]_vars PROVE PairInv'
  OBVIOUS
<1> USE InitAssumption DEF InitAssumption, PairInv, PairMatches, Goto, End, Untouched, disk, process
<1>0. DataKey \in Paths /\ DataPub \in Paths /\ DataKey # DataPub
  OBVIOUS
<1>1. CASE UNCHANGED <<files, made, overlooked>> /\ pc' \in {"idle", "before", "check", "clear"}
  BY <1>1
<1>2. CASE Start
  BY <1>2, <1>1 DEF Start
<1>3. CASE Before
  BY <1>3, <1>1 DEF Before
<1>4. CASE Check
  BY <1>4, <1>1 DEF Check
<1>5. CASE ClearData
  <2>1. CASE UNCHANGED files
    <3>1. pc' = "clearConf" => files[DataPub] = Absent
      BY <1>5, <2>1 DEF ClearData, Clears
    <3> QED BY <1>5, <2>1, <3>1 DEF ClearData, IsWhole, Absent
  <2>2. ASSUME NEW p \in Clears, files' = [files EXCEPT ![p] = Absent], UNCHANGED pc
        PROVE PairInv'
    BY <1>5, <2>2, <1>0 DEF ClearData, IsWhole, Absent, TypeOK
  <2> QED BY <1>5, <2>1, <2>2 DEF ClearData
<1>6. CASE ClearConf \/ OpenConf \/ WriteConf \/ MakeDir
  BY <1>6 DEF ClearConf, OpenConf, WriteConf, MakeDir
<1>7. CASE GenerateSSHKeyPair
  BY <1>7 DEF GenerateSSHKeyPair
<1>8. CASE WriteKeyPair
  <2>1. ~IsWhole(Cut)
    BY DEF IsWhole, Cut
  <2>2. CASE pc \in {"openKey", "writeKey"}
    BY <1>8, <2>1, <2>2, <1>0 DEF WriteKeyPair, TypeOK
  <2>3. CASE pc = "openPub"
    BY <1>8, <2>1, <2>3, <1>0 DEF WriteKeyPair, TypeOK
  <2>4. CASE pc = "writePub"
    BY <1>8, <2>4, <1>0 DEF WriteKeyPair, TypeOK
  <2> QED BY <1>8, <2>2, <2>3, <2>4 DEF WriteKeyPair
<1>9. CASE StepFails
  <2>1. UNCHANGED <<files, made>>
    BY <1>9 DEF StepFails
  <2>2. CASE pc \in {"clear", "clearConf"}
    <3>1. overlooked' = TRUE /\ pc' = "openConf"
      BY <1>9, <2>2 DEF StepFails
    <3> QED BY <2>1, <3>1
  <2>3. CASE pc \notin {"clear", "clearConf"}
    <3>1. UNCHANGED overlooked /\ pc' = "idle"
      BY <1>9, <2>3 DEF StepFails
    <3> QED BY <2>1, <3>1
  <2> QED BY <2>2, <2>3
<1>10. CASE Crash
  BY <1>10, <1>1 DEF Crash
<1>11. CASE ServerParses \/ ServerReadsKey \/ ServerEnds \/ UNCHANGED vars
  BY <1>11 DEF ServerParses, ServerReadsKey, ServerEnds, vars
<1> QED
  BY <1>2, <1>3, <1>4, <1>5, <1>6, <1>7, <1>8, <1>9, <1>10, <1>11 DEF Next, Step

\* As long as no deletion failed, the public key in the data directory always
\* belongs to the private key beside it, whatever else fails and wherever init
\* ends.
THEOREM PairsMatch == Spec => []PairMatches
<1>1. Init => PairInv
  <2> SUFFICES ASSUME Init PROVE PairInv
    OBVIOUS
  <2>1. \A p \in {DataKey, DataPub} : files[p] \in {Absent, 1}
    BY InitAssumption DEF InitAssumption, Init
  <2>2. ~IsWhole(Absent)
    BY DEF IsWhole, Absent
  <2>3. pc = "idle"
    BY DEF Init
  <2> QED BY <2>1, <2>2, <2>3 DEF PairInv, PairMatches
<1>2. TypeOK /\ PairInv /\ [Next]_vars => PairInv'
  BY PairStep
<1>3. PairInv => PairMatches
  BY DEF PairInv
<1> QED BY <1>1, <1>2, <1>3, TypesHold, PTL DEF Spec

-----------------------------------------------------------------------------
(* The settings the server gets *)

\* From the moment it has read its settings, init's settings are none that the
\* environment would change; and from writing them they are in the file.
SettingsInv ==
    /\ pc # "idle" \/ answer = "ok" => \A f \in {"SFTPAddress", "HostPrivateKeyPath"} : cfg[f] # Unset
    /\ pc \notin {"idle", "before"} \/ Succeeded =>
          \A f \in {"SFTPAddress", "HostPrivateKeyPath"} : env[f] # Unset => cfg[f] = env[f]
    /\ pc \in {"mkdir", "keygen", "openKey", "writeKey", "openPub", "writePub"} \/ Succeeded =>
          conf.says = ConfigSubset(cfg)

\* Every step of init and server keeps SettingsInv.
LEMMA SettingsStep == TypeOK /\ SettingsInv /\ [Next]_vars => SettingsInv'
<1> SUFFICES ASSUME TypeOK, SettingsInv, [Next]_vars PROVE SettingsInv'
  OBVIOUS
<1> USE DEF SettingsInv, Succeeded, Goto, End, Untouched, disk, process
<1>1. CASE Start
  <2>1. \A f \in {"SFTPAddress", "HostPrivateKeyPath"} : cfg'[f] \in Values
    BY <1>1, InitAssumption DEF Start, InitAssumption, DefaultConfig, Fields
  <2> QED BY <1>1, <2>1, SettingsAssumption DEF Start, SettingsAssumption
<1>2. CASE Before
  <2>1. \A f \in {"SFTPAddress", "HostPrivateKeyPath"} :
           cfg'[f] = IF env[f] # Unset THEN env[f]
                     ELSE IF conf.says[f] # Unset THEN conf.says[f] ELSE cfg[f]
    <3>1. cfg \in Settings /\ commons \in Settings /\ env \in Settings /\ conf.says \in Settings
      BY DEF TypeOK
    <3>2. cfg' = ParseConfig(cfg, commons, conf.says, env)
      BY <1>2 DEF Before
    <3>3. \A f \in Fields \ Secrets :
             ParseConfig(cfg, commons, conf.says, env)[f] =
                IF env[f] # Unset THEN env[f]
                ELSE IF conf.says[f] # Unset THEN conf.says[f] ELSE cfg[f]
      BY <3>1, ParsedSetting
    <3> QED BY <3>2, <3>3, WrittenFields
  <2> QED BY <1>2, <2>1 DEF Before
<1>3. CASE Check \/ ClearData \/ MakeDir \/ GenerateSSHKeyPair \/ StepFails \/ Crash
  BY <1>3 DEF Check, ClearData, MakeDir, GenerateSSHKeyPair, StepFails, AfterError, Crash
<1>4. CASE ClearConf \/ OpenConf
  BY <1>4 DEF ClearConf, OpenConf
<1>5. CASE WriteConf
  BY <1>5 DEF WriteConf, Conf
<1>6. CASE WriteKeyPair
  BY <1>6 DEF WriteKeyPair
<1>7. CASE ServerParses \/ ServerReadsKey \/ ServerEnds \/ UNCHANGED vars
  BY <1>7 DEF ServerParses, ServerReadsKey, ServerEnds, vars
<1> QED BY <1>1, <1>2, <1>3, <1>4, <1>5, <1>6, <1>7 DEF Next, Step

\* After a successful init the server will read the address and key path that
\* init ran with, wherever these came from and whatever happened before.
THEOREM ServerReadsTheSame == Spec => []ServerReadsWhatInitSaw
<1>1. Init => SettingsInv
  BY DEF Init, SettingsInv, Succeeded
<1>2. Spec => []SettingsInv
  BY <1>1, SettingsStep, TypesHold, PTL DEF Spec
<1>3. TypeOK /\ SettingsInv => ServerReadsWhatInitSaw
  <2> SUFFICES ASSUME TypeOK, SettingsInv, Succeeded,
                      NEW f \in {"SFTPAddress", "HostPrivateKeyPath"}
               PROVE  OnDisk[f] = cfg[f]
    BY DEF ServerReadsWhatInitSaw
  <2>1. OnDisk[f] = IF env[f] # Unset THEN env[f]
                    ELSE IF conf.says[f] # Unset THEN conf.says[f] ELSE DefaultConfig[f]
    BY OnDiskSetting, WrittenFields
  <2>2. conf.says[f] = cfg[f] /\ cfg[f] # Unset
    BY WrittenFields DEF SettingsInv, Succeeded, ConfigSubset
  <2> QED BY <2>1, <2>2 DEF SettingsInv
<1> QED BY <1>2, <1>3, TypesHold, PTL

-----------------------------------------------------------------------------
(* What the check of init looks for *)

HostKeyPath(source) == source["HostPrivateKeyPath"]

\* An unforced init that got past its check has found neither a configuration nor
\* a file at the path of its host key, and what is there later it has put there.
KeyInv ==
    /\ pc \in {"clear", "clearConf", "openConf", "writeConf", "mkdir", "keygen", "openKey"}
       /\ ~args.force => Holds(HostKeyPath(cfg)) = Absent
    /\ pc \in {"writeKey", "openPub"} /\ ~args.force =>
          HostKeyPath(cfg) = DataKey \/ Holds(HostKeyPath(cfg)) = Absent
    /\ pc = "writeKey" => files[DataKey] = Cut
    /\ pc = "writePub" => files[DataPub] = Cut
    /\ pc \in {"clear", "clearConf", "openConf"} /\ ~args.force => ~conf.exists
    /\ pc = "writeConf" => conf = Conf(Nothing)

\* A step of an unforced run loses no key that the check looks for, and no
\* configuration but an empty one.
KeepsKeys == \A p \in Paths : Loses(p) => p \in DataDir /\ p # HostKeyPath(cfg)
KeepsConf == conf.exists /\ conf' # conf => pc = "writeConf" /\ conf = Conf(Nothing)
Keeps     == ~args.force => KeepsKeys /\ KeepsConf

\* Every step keeps KeyInv, and an unforced one keeps what was checked.
LEMMA KeyStep ==
    ASSUME TypeOK, KeyInv, [Next]_vars
    PROVE  KeyInv' /\ Keeps
<1> USE DEF KeyInv, Keeps, HostKeyPath, Goto, End, Untouched, disk, process
<1>0. /\ DataKey \in DataDir /\ DataPub \in DataDir /\ DataKey # DataPub
      /\ DataDir \subseteq Paths /\ DOMAIN files = Paths
      /\ ~IsWhole(Absent) /\ ~IsWhole(Cut)
  BY InitAssumption DEF InitAssumption, IsWhole, Absent, Cut, TypeOK
<1>f. ASSUME UNCHANGED files PROVE KeepsKeys /\ \A path : Holds(path)' = Holds(path)
  BY <1>f DEF KeepsKeys, Loses, Holds
<1>c. ASSUME UNCHANGED conf PROVE KeepsConf
  BY <1>c DEF KeepsConf
<1>h. ASSUME NEW path \in Paths PROVE Holds(path) = files[path] /\ Holds(path)' = files'[path]
  BY DEF Holds
<1>1. CASE Start
  BY <1>1, <1>f, <1>c DEF Start
<1>2. CASE Before
  BY <1>2, <1>f, <1>c DEF Before
<1>3. CASE Check
  <2>1. UNCHANGED <<conf, files, args, cfg>> /\ pc' \in {"idle", "clear"}
    BY <1>3 DEF Check
  <2>2. pc' = "clear" /\ ~args.force => ~conf.exists /\ Holds(cfg["HostPrivateKeyPath"]) = Absent
    BY <1>3 DEF Check, Refuses, SetupExists
  <2> QED BY <2>1, <2>2, <1>f, <1>c
<1>4. CASE ClearData
  <2>1. UNCHANGED <<conf, args, cfg>> /\ pc = "clear" /\ pc' \in {"clear", "clearConf"}
    BY <1>4 DEF ClearData
  <2>2. \/ UNCHANGED files
        \/ \E p \in DataDir : files[p] # Absent /\ files' = [files EXCEPT ![p] = Absent]
    BY <1>4 DEF ClearData, Clears
  <2>3. \A p \in Paths : \/ files'[p] = files[p]
                         \/ p \in DataDir /\ files[p] # Absent /\ files'[p] = Absent
    BY <2>2, <1>0
  <2>4. \A path : Holds(path) = Absent => Holds(path)' = Absent
    BY <2>3 DEF Holds
  <2>5. ~args.force => KeepsKeys
    BY <2>1, <2>3, <1>h DEF KeepsKeys, Loses
  <2> QED BY <2>1, <2>4, <2>5, <1>c
<1>5. CASE ClearConf \/ OpenConf \/ WriteConf
  <2>1. UNCHANGED <<files, args, cfg>>
    BY <1>5 DEF ClearConf, OpenConf, WriteConf
  <2>2. /\ pc \in {"clearConf", "openConf", "writeConf"}
        /\ pc' \in {"openConf", "writeConf", "mkdir"}
        /\ pc' = "openConf" => conf' = NoConf
        /\ pc' = "writeConf" => conf' = Conf(Nothing)
    BY <1>5 DEF ClearConf, OpenConf, WriteConf
  <2>3. KeyInv'
    BY <2>1, <2>2, <1>f DEF NoConf
  <2>4. ~args.force => KeepsConf
    BY <2>2 DEF KeepsConf
  <2> QED BY <2>1, <2>3, <2>4, <1>f
<1>6. CASE MakeDir \/ GenerateSSHKeyPair
  <2>1. UNCHANGED <<conf, files, args, cfg>>
    BY <1>6 DEF MakeDir, GenerateSSHKeyPair
  <2>2. pc \in {"mkdir", "keygen"} /\ pc' \in {"keygen", "openKey"}
    BY <1>6 DEF MakeDir, GenerateSSHKeyPair
  <2> QED BY <2>1, <2>2, <1>f, <1>c
<1>7. CASE WriteKeyPair
  <2>1. UNCHANGED <<conf, args, cfg>>
    BY <1>7 DEF WriteKeyPair
  <2>2. CASE pc = "openKey" \/ pc = "writeKey"
    <3>1. \A p \in Paths \ {DataKey} : files'[p] = files[p]
      BY <1>7, <2>2, <1>0 DEF WriteKeyPair
    <3>2. (pc = "openKey" /\ pc' = "writeKey" /\ files'[DataKey] = Cut) \/ (pc = "writeKey" /\ pc' = "openPub")
      BY <1>7, <2>2, <1>0 DEF WriteKeyPair
    <3>3. \A path : path # DataKey => Holds(path)' = Holds(path)
      BY <3>1 DEF Holds
    <3>4. KeyInv'
      BY <2>1, <3>2, <3>3
    <3>5. \A p \in Paths : Loses(p) => p = DataKey
      BY <3>1 DEF Loses
    <3>6. ~args.force /\ Loses(DataKey) => HostKeyPath(cfg) # DataKey
      BY <2>2, <1>0, <1>h DEF Loses
    <3> QED BY <2>1, <3>4, <3>5, <3>6, <1>0, <1>c DEF KeepsKeys
  <2>3. CASE pc = "openPub" \/ pc = "writePub"
    <3>1. \A p \in Paths \ {DataPub} : files'[p] = files[p]
      BY <1>7, <2>3, <1>0 DEF WriteKeyPair
    <3>2. (pc = "openPub" /\ pc' = "writePub" /\ files'[DataPub] = Cut) \/ (pc = "writePub" /\ pc' = "idle")
      BY <1>7, <2>3, <1>0 DEF WriteKeyPair
    <3>3. KeyInv'
      BY <2>1, <3>2
    <3>4. \A p \in Paths : Loses(p) => p = DataPub
      BY <3>1 DEF Loses
    <3>5. ~args.force /\ Loses(DataPub) => HostKeyPath(cfg) # DataPub
      BY <2>3, <1>0, <1>h DEF Loses
    <3> QED BY <2>1, <3>3, <3>4, <3>5, <1>0, <1>c DEF KeepsKeys
  <2> QED BY <1>7, <2>2, <2>3 DEF WriteKeyPair
<1>8. CASE StepFails \/ Crash
  <2>1. UNCHANGED <<cfg, args, conf, files>>
    BY <1>8 DEF StepFails, AfterError, Crash
  <2>2. pc' = "idle" \/ (pc \in {"clear", "clearConf"} /\ pc' = "openConf")
    BY <1>8 DEF StepFails, AfterError, Crash
  <2> QED BY <2>1, <2>2, <1>f, <1>c
<1>9. CASE ServerParses \/ ServerReadsKey \/ ServerEnds \/ UNCHANGED vars
  BY <1>9, <1>f, <1>c DEF ServerParses, ServerReadsKey, ServerEnds, vars
<1> QED
  BY <1>1, <1>2, <1>3, <1>4, <1>5, <1>6, <1>7, <1>8, <1>9 DEF Next, Step

\* An init that is not forced loses no key where its host key is configured to be,
\* none outside the data directory, and no configuration but its own empty one,
\* whatever it and earlier runs met and whichever files there are at the start.
THEOREM UnforcedKeepsWhatItChecks == Spec => CheckedIsKept
<1>1. Init => KeyInv
  BY DEF Init, KeyInv
<1>2. TypeOK /\ KeyInv /\ [Next]_vars => KeyInv'
  BY KeyStep
<1>3. TypeOK /\ KeyInv /\ [Next]_vars =>
         [~args.force =>
            /\ \A p \in Paths : Loses(p) => p \in DataDir /\ p # cfg["HostPrivateKeyPath"]
            /\ conf.exists /\ conf' # conf => pc = "writeConf" /\ conf = Conf(Nothing)]_vars
  BY KeyStep DEF Keeps, KeepsKeys, KeepsConf, HostKeyPath
<1> QED BY <1>1, <1>2, <1>3, TypesHold, PTL DEF Spec, CheckedIsKept

-----------------------------------------------------------------------------
(* The setup that init makes *)

\* What a run has written by the time it is at pc, and why one that was forced
\* and met no fault can have ended without.
SetUpInv ==
    /\ pc = "writeConf" => conf.exists
    /\ pc \in {"mkdir", "keygen", "openKey", "writeKey", "openPub", "writePub"} =>
          conf = Conf(ConfigSubset(cfg))
    /\ IsWhole(made)
    /\ pc \in {"openPub", "writePub"} => files[DataKey] = made
    /\ Succeeded => IsSetUp
    /\ pc \notin {"idle", "before"} => IsValid(cfg)
    /\ pc # "idle" => answer = "running"
    /\ pc = "idle" /\ args.force /\ ~met => answer \in {"none", "ok"} \/ ~IsValid(cfg)

\* Every step keeps SetUpInv.
LEMMA SetUpStep ==
    ASSUME TypeOK, SetUpInv, [Next]_vars
    PROVE  SetUpInv'
<1> USE DEF SetUpInv, IsSetUp, Succeeded, Goto, End, Untouched, disk, process
<1>0. DataKey \in Paths /\ DataPub \in Paths /\ DataKey # DataPub /\ made \in Nat
  BY InitAssumption DEF InitAssumption, TypeOK
<1>1. CASE Start
  BY <1>1 DEF Start
<1>2. CASE Before
  BY <1>2 DEF Before
<1>3. CASE Check
  BY <1>3 DEF Check, Refuses
<1>4. CASE ClearData
  BY <1>4 DEF ClearData
<1>5. CASE ClearConf \/ OpenConf \/ WriteConf \/ MakeDir
  BY <1>5 DEF ClearConf, OpenConf, WriteConf, MakeDir, Conf
<1>6. CASE GenerateSSHKeyPair
  <2>1. IsWhole(made')
    BY <1>6, <1>0 DEF GenerateSSHKeyPair, IsWhole
  <2> QED BY <1>6, <2>1 DEF GenerateSSHKeyPair
<1>7. CASE WriteKeyPair
  <2>1. /\ UNCHANGED <<conf, cfg, made, args, met>>
        /\ \/ pc' \in {"writeKey", "openPub", "writePub"} /\ UNCHANGED answer
           \/ pc = "writePub" /\ pc' = "idle" /\ answer' = "ok"
    BY <1>7 DEF WriteKeyPair
  <2>2. pc' \in {"openPub", "writePub", "idle"} => files'[DataKey] = made
    BY <1>7, <1>0 DEF WriteKeyPair, TypeOK
  <2>3. pc' = "idle" => files'[DataPub] = made
    BY <1>7, <1>0 DEF WriteKeyPair, TypeOK
  <2> QED BY <1>7, <2>1, <2>2, <2>3 DEF WriteKeyPair
<1>8. CASE StepFails
  BY <1>8 DEF StepFails, AfterError
<1>9. CASE Crash
  BY <1>9 DEF Crash
<1>10. CASE ServerParses \/ ServerReadsKey \/ ServerEnds \/ UNCHANGED vars
  BY <1>10 DEF ServerParses, ServerReadsKey, ServerEnds, vars
<1> QED
  BY <1>1, <1>2, <1>3, <1>4, <1>5, <1>6, <1>7, <1>8, <1>9, <1>10 DEF Next, Step

\* SetUpInv holds throughout.
LEMMA SetUpHolds == Spec => []SetUpInv
<1>1. Init => SetUpInv
  BY DEF Init, SetUpInv, Succeeded, IsWhole
<1> QED BY <1>1, SetUpStep, TypesHold, PTL DEF Spec

\* An init that reports success has made a whole setup, whatever it overlooked
\* and whatever runs before it left behind.
THEOREM SuccessesAreSetUp == Spec => []SuccessIsSetUp
<1>1. SetUpInv => SuccessIsSetUp
  BY DEF SetUpInv, SuccessIsSetUp
<1> QED BY <1>1, SetUpHolds, PTL

\* A forced init that has ended without meeting a fault has made a setup, unless
\* its settings were not valid: what is left of ForcedInitRepairs is that init ends.
THEOREM ForcedInitsEndWell ==
    Spec => [](pc = "idle" /\ runs > 0 /\ args.force /\ ~met =>
                  (answer = "ok" /\ IsSetUp) \/ ~IsValid(cfg))
<1> DEFINE EndsWell == pc = "idle" /\ runs > 0 /\ args.force /\ ~met =>
                          (answer = "ok" /\ IsSetUp) \/ ~IsValid(cfg)
           HasRun   == runs \in Nat /\ (runs > 0 => answer # "none")
<1>1. Init => HasRun
  BY DEF Init
<1>2. SetUpInv /\ HasRun /\ [Next]_vars => HasRun'
  BY DEF HasRun, SetUpInv, Next, Start, Step, Before, Check, ClearData, ClearConf, OpenConf, WriteConf,
         MakeDir, GenerateSSHKeyPair, WriteKeyPair, StepFails, Crash, ServerParses,
         ServerReadsKey, ServerEnds, Goto, End, AfterError, process, disk, vars
<1>3. SetUpInv /\ HasRun => EndsWell
  BY DEF SetUpInv, Succeeded
<1> HIDE DEF EndsWell, HasRun
<1>4. Spec => []EndsWell
  BY <1>1, <1>2, <1>3, SetUpHolds, PTL DEF Spec
<1> QED BY <1>4 DEF EndsWell

\* How many labels a run has before it at most.
Left ==
    [idle |-> 0, writePub |-> 1, openPub |-> 2, writeKey |-> 3, openKey |-> 4, keygen |-> 5,
     mkdir |-> 6, writeConf |-> 7, openConf |-> 8, clearConf |-> 9, clear |-> 10,
     check |-> 11, before |-> 12]

\* What deleteFiles still has to take from the data directory.
InData == {p \in DataDir : files[p] # Absent}

\* A run gets nearer to its end.
Advances ==
    \/ Left[pc'] < Left[pc]
    \/ pc = "clear" /\ pc' = "clear" /\ InData' \subseteq InData /\ InData' # InData

\* Every step of init, and every fault it meets, brings it nearer to its end, or
\* takes one more file out of the data directory; a server does not touch it. So
\* init ends with a data directory of any size: with ForcedInitsEndWell this is
\* the safety part of ForcedInitRepairs.
THEOREM InitsAdvance ==
    Spec => [][pc # "idle" => Advances \/ UNCHANGED <<process, disk, overlooked>>]_vars
<1>1. ASSUME TypeOK, [Next]_vars, pc # "idle"
      PROVE  Advances \/ UNCHANGED <<process, disk, overlooked>>
  <2>0. pc \in Labels
    BY <1>1 DEF TypeOK
  <2>1. CASE Before \/ Check
    BY <2>1 DEF Before, Check, Goto, End, Advances, Left
  <2>2. CASE ClearData
    <3>1. CASE pc' = "clearConf"
      BY <2>2, <3>1 DEF ClearData, Advances, Left
    <3>2. CASE pc' # "clearConf"
      <4>1. PICK p \in DataDir : files[p] # Absent /\ files' = [files EXCEPT ![p] = Absent]
        BY <2>2, <3>2 DEF ClearData, Clears
      <4>2. DOMAIN files = Paths /\ DataDir \subseteq Paths
        BY <1>1, InitAssumption DEF TypeOK, InitAssumption
      <4>3. p \in InData /\ p \notin InData' /\ InData' \subseteq InData
        BY <4>1, <4>2 DEF InData
      <4>4. pc = "clear" /\ pc' = "clear"
        BY <2>2, <3>2 DEF ClearData
      <4> QED BY <4>3, <4>4 DEF Advances
    <3> QED BY <3>1, <3>2
  <2>3. CASE ClearConf \/ OpenConf \/ WriteConf \/ MakeDir \/ GenerateSSHKeyPair
    BY <2>3 DEF ClearConf, OpenConf, WriteConf, MakeDir, GenerateSSHKeyPair, Goto, Advances, Left
  <2>4. CASE WriteKeyPair
    BY <2>4 DEF WriteKeyPair, Goto, End, Advances, Left
  <2>5. CASE StepFails \/ Crash
    <3>1. \/ pc' = "idle"
          \/ pc \in {"clear", "clearConf"} /\ pc' = "openConf"
      BY <2>5 DEF StepFails, Crash
    <3>2. Left["idle"] < Left[pc]
      BY <1>1, <2>0 DEF Left, Labels
    <3>3. Left["openConf"] < Left["clear"] /\ Left["openConf"] < Left["clearConf"]
      BY DEF Left
    <3> QED BY <3>1, <3>2, <3>3 DEF Advances
  <2>6. ~Start
    BY <1>1 DEF Start
  <2>7. CASE ServerParses \/ ServerReadsKey \/ ServerEnds \/ UNCHANGED vars
    BY <2>7 DEF ServerParses, ServerReadsKey, ServerEnds, vars
  <2> QED BY <1>1, <2>1, <2>2, <2>3, <2>4, <2>5, <2>6, <2>7 DEF Next, Step
<1>2. TypeOK /\ [Next]_vars =>
        [pc # "idle" => Advances \/ UNCHANGED <<process, disk, overlooked>>]_vars
  BY <1>1
<1> QED BY <1>2, TypesHold, PTL DEF Spec

-----------------------------------------------------------------------------
(* The server that init sets up *)

\* What a server that is started in peace finds, and has found.
ServerInv ==
    /\ IsWhole(made)
    /\ pc \in {"openPub", "writePub"} \/ Succeeded => files[DataKey] = made
    /\ server.calm => Succeeded
    /\ ServerStarts

\* A configuration whose secrets are set by the global one is valid.
LEMMA SecretsAreSet ==
    ASSUME TypeOK, \A f \in Secrets : commons[f] # Unset
    PROVE  IsValid(OnDisk)
<1>1. \A f \in Secrets : f \in Fields
  BY DEF Fields
<1> QED BY <1>1 DEF IsValid, OnDisk, ParseConfig, Over, EnsureDefaults, DefaultConfig, Secrets

\* Every step of init and server keeps ServerInv.
LEMMA ServerStep ==
    ASSUME TypeOK, ServerInv, [Next]_vars
    PROVE  ServerInv'
<1> USE DEF ServerInv, ServerStarts, Succeeded, Goto, End, Untouched, disk, process
<1>0. DataKey \in Paths /\ DataPub \in Paths /\ DataKey # DataPub /\ made \in Nat
  BY InitAssumption DEF InitAssumption, TypeOK
<1>1. CASE Start
  <2>1. ~server'.calm /\ ~Succeeded'
    BY <1>1 DEF Start, TypeOK
  <2> QED BY <1>1, <2>1 DEF Start
<1>2. CASE Before \/ Check
  BY <1>2 DEF Before, Check
<1>3. CASE ClearData
  BY <1>3 DEF ClearData
<1>4. CASE ClearConf \/ OpenConf \/ WriteConf \/ MakeDir
  BY <1>4 DEF ClearConf, OpenConf, WriteConf, MakeDir
<1>5. CASE GenerateSSHKeyPair
  <2>1. IsWhole(made')
    BY <1>5, <1>0 DEF GenerateSSHKeyPair, IsWhole
  <2>2. ~server.calm
    BY <1>5 DEF GenerateSSHKeyPair
  <2> QED BY <1>5, <2>1, <2>2 DEF GenerateSSHKeyPair
<1>6. CASE WriteKeyPair
  <2>1. pc' \in {"openPub", "writePub"} \/ Succeeded' => files'[DataKey] = made
    BY <1>6, <1>0 DEF WriteKeyPair, TypeOK
  <2> QED BY <1>6, <2>1 DEF WriteKeyPair
<1>7. CASE StepFails
  BY <1>7 DEF StepFails, AfterError
<1>8. CASE Crash
  BY <1>8 DEF Crash
<1>9. CASE ServerParses
  <2>1. server'.pc = IF IsValid(OnDisk) THEN "parsed" ELSE "exited"
    BY <1>9 DEF ServerParses
  <2> QED BY <1>9, <2>1, SecretsAreSet DEF ServerParses
<1>10. CASE ServerReadsKey
  <2>1. server.cfg["HostPrivateKeyPath"] = DataKey =>
           Holds(server.cfg["HostPrivateKeyPath"]) = files[DataKey]
    BY <1>0 DEF Holds
  <2>2. /\ server'.cfg = server.cfg /\ server'.calm = server.calm
        /\ server.cfg["HostPrivateKeyPath"] = DataKey =>
              IF IsWhole(files[DataKey]) THEN server'.pc = "up" /\ server'.key = files[DataKey]
                                         ELSE server'.pc = "exited"
    BY <1>10, <2>1 DEF ServerReadsKey, TypeOK
  <2> QED BY <1>10, <2>2 DEF ServerReadsKey
<1>11. CASE ServerEnds
  BY <1>11 DEF ServerEnds, NoServer
<1>12. CASE UNCHANGED vars
  BY <1>12 DEF vars
<1> QED
  BY <1>1, <1>2, <1>3, <1>4, <1>5, <1>6, <1>7, <1>8, <1>9, <1>10, <1>11, <1>12 DEF Next, Step

\* When the host key is where init puts it and the global configuration has the
\* secrets, a server started after a successful init starts, with init's key.
THEOREM ServersStart == Spec => []ServerStarts
<1>1. Init => ServerInv
  BY DEF Init, ServerInv, ServerStarts, Succeeded, NoServer, IsWhole
<1>2. TypeOK /\ ServerInv /\ [Next]_vars => ServerInv'
  BY ServerStep
<1>3. ServerInv => ServerStarts
  BY DEF ServerInv
<1> QED BY <1>1, <1>2, <1>3, TypesHold, PTL DEF Spec

=============================================================================
