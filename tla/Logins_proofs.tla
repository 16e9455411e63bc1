---------------------------- MODULE Logins_proofs ---------------------------
(***************************************************************************)
(* Theorems about Logins, for any number of users, connections, keys and   *)
(* files, and without the bounds on offers, changes and sessions.          *)
(***************************************************************************)
EXTENDS Logins, TLAPS

RunType ==
    [pc : Labels, key : Keys \cup {NoKey}, todo : SUBSET PubNames, name : PubNames \cup {NoName},
     loaded : SUBSET Keys, token : Tokens, answer : BOOLEAN]

-----------------------------------------------------------------------------
(* Types *)

\* Only files with a key have one, and that is a key.
LEMMA FolderTypes ==
    ASSUME NEW h \in Homes, NEW n \in PubNames
    PROVE  /\ h.files[n] \in Entries /\ h.folder \in BOOLEAN
           /\ HasKey(h.files[n]) => KeyOf(h.files[n]) \in Keys /\ h.files[n].kind = "file"
<1>1. n \in Names /\ KeyLists \subseteq Seq(Keys)
  BY LoginsAssumption DEF LoginsAssumption
<1>2. h.files[n] \in Entries /\ h.folder \in BOOLEAN
  BY <1>1 DEF Homes
<1>3. ASSUME HasKey(h.files[n]) PROVE KeyOf(h.files[n]) \in Keys
  <2>1. PICK keys \in KeyLists : h.files[n] = File(keys)
    BY <1>2, <1>3 DEF Entries, HasKey, Missing, Folder
  <2>2. keys \in Seq(Keys) /\ keys # <<>> /\ h.files[n].keys = keys
    BY <1>1, <1>3, <2>1 DEF File, HasKey
  <2> QED BY <2>2 DEF KeyOf
<1> QED BY <1>2, <1>3 DEF HasKey

\* What is found in a folder are names of key files, and keys.
LEMMA InFolderTypes ==
    ASSUME homes \in [Users -> Homes], NEW u \in Users
    PROVE  /\ InFolder(u) \subseteq PubNames \X Keys /\ InPlace(u) \subseteq InFolder(u)
           /\ KeysOf(InFolder(u)) \subseteq Keys
<1>1. InFolder(u) \subseteq PubNames \X Keys
  <2> SUFFICES ASSUME NEW pair \in InFolder(u) PROVE pair \in PubNames \X Keys
    OBVIOUS
  <2>1. PICK n \in PubNames : HasKey(homes[u].files[n]) /\ pair = <<n, KeyOf(homes[u].files[n])>>
    BY DEF InFolder
  <2> QED BY <2>1, FolderTypes
<1>2. InPlace(u) \subseteq InFolder(u)
  BY DEF InPlace
<1>3. KeysOf(InFolder(u)) \subseteq Keys
  BY <1>1 DEF KeysOf
<1> QED BY <1>1, <1>2, <1>3

\* A change leaves a home a home.
LEMMA ChangeTypes ==
    ASSUME homes \in [Users -> Homes], NEW u \in Users, NEW home \in Homes, Change(u, home)
    PROVE  homes' \in [Users -> Homes]
BY DEF Change

\* The variables have their types at the start.
LEMMA TypeInit == Init => TypeOK
<1> SUFFICES ASSUME Init PROVE TypeOK
  OBVIOUS
<1>1. homes \in [Users -> Homes]
  BY LoginsAssumption DEF Init, LoginsAssumption
<1>2. issued \in Seq(Users) /\ NoToken \in Tokens
  BY DEF Init, Tokens
<1>3. run \in [Connections -> RunType] /\ \A c \in Connections : run[c].pc = "idle"
  <2>1. NoRun \in RunType /\ NoRun.pc = "idle"
    BY <1>2 DEF NoRun, RunType, Labels
  <2> QED BY <2>1 DEF Init
<1>4. context \in [Connections -> [uid : Users \cup {NoUser}, token : Tokens]]
  BY <1>2 DEF Init, Values
<1> QED BY <1>1, <1>2, <1>3, <1>4 DEF Init, TypeOK, RunType

\* A new token leaves the others what they are.
LEMMA NewToken ==
    ASSUME TypeOK, NEW c \in Connections, Authenticate(c)
    PROVE  /\ issued' \in Seq(Users) /\ Len(issued') \in Tokens' /\ Tokens \subseteq Tokens'
           /\ \A t \in Tokens \ {NoToken} : issued'[t] = issued[t]
           /\ Len(issued') \in 1 .. Len(issued') /\ issued'[Len(issued')] = UserOf[c]
BY LoginsAssumption DEF LoginsAssumption, TypeOK, Authenticate, Tokens, NoToken

\* A step of a login that leaves its own variables well typed leaves all so.
LEMMA RunStep ==
    ASSUME TypeOK, NEW c \in Connections, NEW r \in RunType, Becomes(c, r),
           r.pc = "get" => r.name \in PubNames
    PROVE  /\ run' \in [Connections -> RunType]
           /\ \A d \in Connections : run'[d].pc = "get" => run'[d].name \in PubNames
           /\ run'[c] = r /\ \A d \in Connections \ {c} : run'[d] = run[d]
BY DEF TypeOK, RunType, Becomes

\* Every step keeps the types.
LEMMA TypeStep == TypeOK /\ [Next]_vars => TypeOK'
<1> SUFFICES ASSUME TypeOK, [Next]_vars PROVE TypeOK'
  OBVIOUS
<1> USE LoginsAssumption DEF LoginsAssumption, RunType, client, history, OnlyRun
<1>0. /\ run \in [Connections -> RunType] /\ homes \in [Users -> Homes]
      /\ \A c \in Connections : UserOf[c] \in Users
      /\ \A c \in Connections : run[c].pc = "get" => run[c].name \in PubNames
  BY DEF TypeOK
<1>1. ASSUME NEW c \in Connections, Offer(c) PROVE TypeOK'
  <2>1. run' \in [Connections -> RunType] /\ \A d \in Connections : run'[d].pc = "get" => run'[d].name \in PubNames
    <3>1. PICK k \in Keys : Becomes(c, [run[c] EXCEPT !.pc = "auth", !.key = k, !.answer = FALSE])
      BY <1>1 DEF Offer
    <3>2. [run[c] EXCEPT !.pc = "auth", !.key = k, !.answer = FALSE] \in RunType
      BY <1>0 DEF Labels
    <3> QED BY <3>1, <3>2, RunStep
  <2>2. KeysOf(InFolder(UserOf[c])) \subseteq Keys /\ InPlace(UserOf[c]) \subseteq PubNames \X Keys
    BY <1>0, InFolderTypes
  <2>3. UNCHANGED <<homes, issued, context, up, sessions, changes, logins>> /\ Tokens' = Tokens
    BY <1>1 DEF Offer, Tokens
  <2>4. /\ seen' \in [Connections -> SUBSET Keys]
        /\ steady' \in [Connections -> SUBSET (PubNames \X Keys)]
        /\ offers' \in [Connections -> Nat]
    BY <1>1, <2>2 DEF Offer, TypeOK
  <2> QED BY <2>1, <2>3, <2>4 DEF TypeOK
<1>2. ASSUME NEW c \in Connections, Authenticate(c) PROVE TypeOK'
  <2>1. /\ issued' \in Seq(Users) /\ Len(issued') \in Tokens' /\ Tokens \subseteq Tokens'
    BY <1>2, NewToken
  <2>2. run' \in [Connections -> RunType]' /\ \A d \in Connections : run'[d].pc = "get" => run'[d].name \in PubNames
    <3>1. \A d \in Connections : run[d] \in RunType'
      BY <1>0, <2>1
    <3>2. [run[c] EXCEPT !.pc = "spaces", !.token = Len(issued')] \in RunType'
      BY <2>1, <3>1 DEF Labels
    <3>3. run' = [run EXCEPT ![c] = [run[c] EXCEPT !.pc = "spaces", !.token = Len(issued')]]
      BY <1>2 DEF Authenticate, Becomes
    <3> QED BY <1>0, <3>1, <3>2, <3>3
  <2>3. UNCHANGED <<homes, context, up, sessions, offers, changes, seen, steady, logins>>
    BY <1>2 DEF Authenticate
  <2>4. context' \in [Connections -> [uid : Users \cup {NoUser}, token : Tokens']]
    BY <2>1, <2>3 DEF TypeOK
  <2>5. logins' \in [Connections -> SUBSET Tokens']
    BY <2>1, <2>3 DEF TypeOK
  <2>6. sessions' \in [Connections ->
           SUBSET [n : 1 .. MaxSessions, uid : Users \cup {NoUser}, token : Tokens']]
    BY <2>1, <2>3 DEF TypeOK
  <2> QED BY <2>1, <2>2, <2>3, <2>4, <2>5, <2>6 DEF TypeOK
<1>3. ASSUME NEW c \in Connections,
             ListSpaces(c) \/ ListFolder(c) \/ InitiateDownload(c) \/ Get(c)
      PROVE TypeOK'
  <2>1. UNCHANGED <<homes, issued, context, up, sessions, offers, changes, seen, steady, logins>>
        /\ Tokens' = Tokens
    BY <1>3 DEF ListSpaces, ListFolder, InitiateDownload, Get, Tokens
  <2>2. run' \in [Connections -> RunType] /\ \A d \in Connections : run'[d].pc = "get" => run'[d].name \in PubNames
    <3>1. CASE ListSpaces(c)
      <4>1. \E label \in {"list", "idle"} : Becomes(c, [run[c] EXCEPT !.pc = label])
        BY <3>1 DEF ListSpaces, Goto, Return
      <4>2. \A label \in {"list", "idle"} :
               LET r == [run[c] EXCEPT !.pc = label] IN r \in RunType /\ r.pc # "get"
        BY <1>0 DEF Labels
      <4> QED BY <4>1, <4>2, RunStep
    <3>2. CASE ListFolder(c)
      <4> DEFINE files == {n \in PubNames : homes[UserOf[c]].files[n].kind = "file"}
                 r == [run[c] EXCEPT !.pc = "load", !.loaded = {}, !.todo = files]
      <4>1. Becomes(c, r) \/ Becomes(c, [run[c] EXCEPT !.pc = "idle"])
        BY <3>2 DEF ListFolder, Goto, Return, NothingYet, KeyFiles
      <4>2. r \in RunType /\ r.pc = "load"
        BY <1>0 DEF Labels
      <4>3. [run[c] EXCEPT !.pc = "idle"] \in RunType /\ [run[c] EXCEPT !.pc = "idle"].pc = "idle"
        BY <1>0 DEF Labels
      <4> HIDE DEF r
      <4> QED BY <4>1, <4>2, <4>3, RunStep
    <3>3. CASE InitiateDownload(c)
      <4> DEFINE r(n) == [run[c] EXCEPT !.todo = @ \ {n}, !.name = n,
                    !.pc = IF homes[UserOf[c]].files[n].kind = "file" THEN "get" ELSE "load"]
      <4>1. PICK n \in run[c].todo : Becomes(c, r(n))
        BY <3>3 DEF InitiateDownload
      <4>2. n \in PubNames
        BY <1>0
      <4>3. r(n) \in RunType /\ r(n).name = n
        BY <1>0, <4>2 DEF Labels
      <4> HIDE DEF r
      <4> QED BY <4>1, <4>2, <4>3, RunStep
    <3>4. CASE Get(c)
      <4> DEFINE entry == homes[UserOf[c]].files[run[c].name]
                 r == [run[c] EXCEPT !.pc = "load", !.loaded = @ \cup {KeyOf(entry)}]
      <4>1. run[c].name \in PubNames
        BY <1>0, <3>4 DEF Get
      <4>2. HasKey(entry) => KeyOf(entry) \in Keys
        BY <1>0, <4>1, FolderTypes
      <4>3. (HasKey(entry) /\ Becomes(c, r)) \/ Becomes(c, [run[c] EXCEPT !.pc = "load"])
        BY <3>4 DEF Get, SkipsFile, Goto
      <4>4. HasKey(entry) => r \in RunType /\ r.pc = "load"
        BY <1>0, <4>2 DEF Labels
      <4>5. [run[c] EXCEPT !.pc = "load"] \in RunType /\ [run[c] EXCEPT !.pc = "load"].pc = "load"
        BY <1>0 DEF Labels
      <4> HIDE DEF r
      <4> QED BY <4>3, <4>4, <4>5, RunStep
    <3> QED BY <1>3, <3>1, <3>2, <3>3, <3>4
  <2> QED BY <2>1, <2>2 DEF TypeOK
<1>4. ASSUME NEW c \in Connections, CompareKeys(c) PROVE TypeOK'
  <2>1. UNCHANGED <<homes, issued, up, sessions, offers, changes, seen, steady>> /\ Tokens' = Tokens
    BY <1>4 DEF CompareKeys, Tokens
  <2>2. run' \in [Connections -> RunType] /\ \A d \in Connections : run'[d].pc = "get" => run'[d].name \in PubNames
    <3> DEFINE b == run[c].key \in run[c].loaded
               r == [run[c] EXCEPT !.pc = "idle", !.answer = b]
    <3>1. Becomes(c, r)
      BY <1>4 DEF CompareKeys
    <3>2. r \in RunType /\ r.pc = "idle"
      <4>1. b \in BOOLEAN
        OBVIOUS
      <4> HIDE DEF b
      <4> QED BY <1>0, <4>1 DEF Labels
    <3> HIDE DEF r
    <3> QED BY <3>1, <3>2, RunStep
  <2>3. context' \in [Connections -> [uid : Users \cup {NoUser}, token : Tokens]]
    BY <1>0, <1>4 DEF CompareKeys, SetValues, Values, TypeOK
  <2>4. logins' \in [Connections -> SUBSET Tokens]
    BY <1>0, <1>4 DEF CompareKeys, TypeOK
  <2> QED BY <2>1, <2>2, <2>3, <2>4 DEF TypeOK
<1>5. ASSUME NEW c \in Connections, CallFails(c) PROVE TypeOK'
  <2>1. UNCHANGED <<homes, issued, context, up, sessions, offers, changes, seen, logins>> /\ Tokens' = Tokens
    BY <1>5 DEF CallFails, Tokens
  <2>2. run' \in [Connections -> RunType] /\ \A d \in Connections : run'[d].pc = "get" => run'[d].name \in PubNames
    <3>1. CASE \E label \in {"idle", "load"} : Becomes(c, [run[c] EXCEPT !.pc = label])
      <4>1. \A label \in {"idle", "load"} :
               LET r == [run[c] EXCEPT !.pc = label] IN r \in RunType /\ r.pc # "get"
        BY <1>0 DEF Labels
      <4> QED BY <3>1, <4>1, RunStep
    <3>2. CASE run[c].pc = "load" /\ \E n \in run[c].todo : Becomes(c, [run[c] EXCEPT !.todo = @ \ {n}])
      <4>1. \A n \in PubNames :
               LET r == [run[c] EXCEPT !.todo = @ \ {n}] IN r \in RunType /\ r.pc = run[c].pc
        BY <1>0
      <4>2. run[c].todo \subseteq PubNames
        BY <1>0
      <4> QED BY <3>2, <4>1, <4>2, RunStep
    <3> QED BY <1>5, <3>1, <3>2 DEF CallFails, Return, SkipsFile, Goto
  <2>3. steady' \in [Connections -> SUBSET (PubNames \X Keys)]
    <3>1. steady \in [Connections -> SUBSET (PubNames \X Keys)]
      BY DEF TypeOK
    <3>2. \E kept \in SUBSET steady[c] : steady' = [steady EXCEPT ![c] = kept]
      BY <1>5 DEF CallFails
    <3> QED BY <3>1, <3>2
  <2> QED BY <2>1, <2>2, <2>3 DEF TypeOK
<1>6. ASSUME NEW c \in Connections, Handshake(c) \/ SFTPHandler(c) \/ SessionEnds(c) PROVE TypeOK'
  <2>1. UNCHANGED <<homes, issued, run, context, offers, changes, seen, steady, logins>> /\ Tokens' = Tokens
    BY <1>6 DEF Handshake, SFTPHandler, SessionEnds, Tokens
  <2>2. up' \in [Connections -> BOOLEAN]
    BY <1>6 DEF Handshake, SFTPHandler, SessionEnds, TypeOK
  <2>3. sessions' \in [Connections ->
           SUBSET [n : 1 .. MaxSessions, uid : Users \cup {NoUser}, token : Tokens]]
    <3> DEFINE S == [n : 1 .. MaxSessions, uid : Users \cup {NoUser}, token : Tokens]
    <3>1. sessions \in [Connections -> SUBSET S]
      BY DEF TypeOK
    <3>2. \A n \in 1 .. MaxSessions : Session(n, context[c]) \in S
      BY DEF Session, TypeOK
    <3> SUFFICES sessions' \in [Connections -> SUBSET S]
      OBVIOUS
    <3> HIDE DEF S
    <3>3. CASE Handshake(c)
      BY <3>1, <3>3 DEF Handshake
    <3>4. CASE SFTPHandler(c)
      <4>1. PICK n \in 1 .. MaxSessions :
               sessions' = [sessions EXCEPT ![c] = @ \cup {Session(n, context[c])}]
        BY <3>4 DEF SFTPHandler
      <4>2. sessions[c] \cup {Session(n, context[c])} \in SUBSET S
        BY <3>1, <3>2
      <4> QED BY <3>1, <4>1, <4>2
    <3>5. CASE SessionEnds(c)
      <4>1. PICK x \in sessions[c] : sessions' = [sessions EXCEPT ![c] = @ \ {x}]
        BY <3>5 DEF SessionEnds
      <4>2. sessions[c] \ {x} \in SUBSET S
        BY <3>1
      <4> QED BY <3>1, <4>1, <4>2
    <3> QED BY <1>6, <3>3, <3>4, <3>5
  <2> QED BY <2>1, <2>2, <2>3 DEF TypeOK
<1>7. ASSUME NEW u \in Users, ChangeFile(u) \/ ChangeFolder(u) \/ ChangeSpaces(u) PROVE TypeOK'
  <2>1. PICK home \in Homes : Change(u, home)
    <3>1. homes[u] \in Homes /\ Missing \in Entries
      BY <1>0 DEF Entries
    <3>2. CASE ChangeFile(u)
      BY <3>1, <3>2 DEF ChangeFile, Homes
    <3>3. CASE ChangeFolder(u)
      BY <3>1, <3>3 DEF ChangeFolder, Homes, NoFiles
    <3>4. CASE ChangeSpaces(u)
      BY <3>1, <3>4 DEF ChangeSpaces, Homes
    <3> QED BY <1>7, <3>2, <3>3, <3>4
  <2>2. homes' \in [Users -> Homes]
    BY <1>0, <2>1, ChangeTypes
  <2>3. \A c \in Connections : /\ KeysOf(InFolder(UserOf[c])') \subseteq Keys
    <3> TAKE c \in Connections
    <3>1. InFolder(UserOf[c])' \subseteq PubNames \X Keys
      <4> SUFFICES ASSUME NEW pair \in InFolder(UserOf[c])' PROVE pair \in PubNames \X Keys
        OBVIOUS
      <4>1. PICK n \in PubNames :
               HasKey(homes'[UserOf[c]].files[n]) /\ pair = <<n, KeyOf(homes'[UserOf[c]].files[n])>>
        BY DEF InFolder
      <4> QED BY <1>0, <2>2, <4>1, FolderTypes
    <3> QED BY <3>1 DEF KeysOf
  <2>4. /\ seen' \in [Connections -> SUBSET Keys]
        /\ steady' \in [Connections -> SUBSET (PubNames \X Keys)] /\ changes' \in Nat
    BY <2>1, <2>3 DEF Change, TypeOK
  <2>5. UNCHANGED <<issued, run, context, up, sessions, offers, logins>> /\ Tokens' = Tokens
    BY <2>1 DEF Change, Tokens
  <2> QED BY <2>2, <2>4, <2>5 DEF TypeOK
<1>8. CASE UNCHANGED vars
  BY <1>8 DEF vars, TypeOK, Tokens
<1> QED
  BY <1>1, <1>2, <1>3, <1>4, <1>5, <1>6, <1>7, <1>8 DEF Next, HandlePubKey

\* Every variable keeps its type, so no session or context has a token that was
\* never issued.
THEOREM TypesHold == Spec => []TypeOK
BY TypeInit, TypeStep, PTL DEF Spec

-----------------------------------------------------------------------------
(* Keys *)

\* What a login has loaded was in the folder at one moment of it.
LoadedInv ==
    \A c \in Connections :
        /\ run[c].pc \in {"load", "get"} => run[c].loaded \subseteq seen[c]
        /\ run[c].pc # "idle" => KeysOf(InFolder(UserOf[c])) \subseteq seen[c] /\ ~run[c].answer
        /\ run[c].answer => run[c].key \in seen[c]

\* Every step keeps LoadedInv.
LEMMA LoadedStep == TypeOK /\ LoadedInv /\ [Next]_vars => LoadedInv'
<1> SUFFICES ASSUME TypeOK, LoadedInv, [Next]_vars PROVE LoadedInv'
  OBVIOUS
<1> USE LoginsAssumption DEF LoginsAssumption, client, history, OnlyRun
<1> DEFINE Here(c) ==
        /\ run[c].pc \in {"load", "get"} => run[c].loaded \subseteq seen[c]
        /\ run[c].pc # "idle" => KeysOf(InFolder(UserOf[c])) \subseteq seen[c] /\ ~run[c].answer
        /\ run[c].answer => run[c].key \in seen[c]
<1>0. /\ \A c \in Connections : Here(c) /\ run[c] \in RunType /\ UserOf[c] \in Users
      /\ seen \in [Connections -> SUBSET Keys] /\ homes \in [Users -> Homes]
      /\ DOMAIN run = Connections
  BY DEF LoadedInv, TypeOK, RunType
<1>1. ASSUME UNCHANGED homes, NEW d \in Connections,
             UNCHANGED run[d], UNCHANGED seen[d]
      PROVE  Here(d)'
  BY <1>0, <1>1 DEF InFolder
<1>2. ASSUME NEW c \in Connections, Offer(c) PROVE LoadedInv'
  <2>1. \A d \in Connections \ {c} : UNCHANGED run[d] /\ UNCHANGED seen[d]
    BY <1>0, <1>2 DEF Offer, Becomes
  <2>2. Here(c)'
    <3>1. run'[c].pc = "auth" /\ ~run'[c].answer
      BY <1>0, <1>2 DEF Offer, Becomes, RunType
    <3>2. seen'[c] = KeysOf(InFolder(UserOf[c])) /\ UNCHANGED homes
      BY <1>0, <1>2 DEF Offer
    <3> QED BY <3>1, <3>2 DEF InFolder
  <2>3. UNCHANGED homes
    BY <1>2 DEF Offer
  <2> QED BY <1>1, <2>1, <2>2, <2>3 DEF LoadedInv
<1>3. ASSUME NEW c \in Connections, HandlePubKey(c) \/ CallFails(c) PROVE LoadedInv'
  <2>1. UNCHANGED <<homes, seen>>
    BY <1>3 DEF HandlePubKey, Authenticate, ListSpaces, ListFolder, InitiateDownload, Get,
                CompareKeys, CallFails
  <2>2. \A d \in Connections \ {c} : UNCHANGED run[d]
    BY <1>0, <1>3 DEF HandlePubKey, Authenticate, ListSpaces, ListFolder, InitiateDownload, Get,
                CompareKeys, CallFails, SkipsFile, Return, Goto, Becomes
  <2>3. Here(c)'
    <3>1. KeysOf(InFolder(UserOf[c]))' = KeysOf(InFolder(UserOf[c]))
      BY <2>1 DEF InFolder
    <3>2. CASE Authenticate(c)
      <4>1. run'[c] = [run[c] EXCEPT !.pc = "spaces", !.token = Len(issued')]
        BY <1>0, <3>2 DEF Authenticate, Becomes
      <4> QED BY <1>0, <2>1, <3>1, <3>2, <4>1 DEF Authenticate, RunType
    <3>3. CASE ListSpaces(c)
      <4>1. run'[c] = [run[c] EXCEPT !.pc = "list"] \/ run'[c] = [run[c] EXCEPT !.pc = "idle"]
        BY <1>0, <3>3 DEF ListSpaces, Return, Goto, Becomes
      <4> QED BY <1>0, <2>1, <3>1, <3>3, <4>1 DEF ListSpaces, RunType
    <3>4. CASE ListFolder(c)
      <4>1. \/ run'[c] = [run[c] EXCEPT !.pc = "load", !.loaded = {},
                    !.todo = {n \in PubNames : homes[UserOf[c]].files[n].kind = "file"}]
            \/ run'[c] = [run[c] EXCEPT !.pc = "idle"]
        BY <1>0, <3>4 DEF ListFolder, Return, Goto, Becomes, NothingYet, KeyFiles
      <4>2. /\ run'[c].loaded = {} \/ run'[c].pc = "idle"
            /\ run'[c].answer = run[c].answer /\ run'[c].key = run[c].key
        BY <1>0, <4>1 DEF RunType
      <4> QED BY <1>0, <2>1, <3>1, <3>4, <4>2 DEF ListFolder
    <3>5. CASE InitiateDownload(c)
      BY <1>0, <2>1, <3>1, <3>5 DEF InitiateDownload, Becomes, RunType
    <3>6. CASE Get(c)
      <4> DEFINE entry == homes[UserOf[c]].files[run[c].name]
      <4>1. HasKey(entry) => KeyOf(entry) \in seen[c]
        <5>1. run[c].name \in PubNames /\ run[c].pc = "get"
          BY <3>6 DEF Get, TypeOK
        <5>2. HasKey(entry) => <<run[c].name, KeyOf(entry)>> \in InFolder(UserOf[c])
          BY <5>1 DEF InFolder
        <5>3. KeysOf(InFolder(UserOf[c])) \subseteq seen[c]
          BY <1>0, <5>1
        <5> QED BY <5>2, <5>3 DEF KeysOf
      <4>2. CASE HasKey(entry)
        <5>1. run'[c] = [run[c] EXCEPT !.pc = "load", !.loaded = @ \cup {KeyOf(entry)}]
          BY <1>0, <3>6, <4>2 DEF Get, Becomes
        <5>2. /\ run'[c].loaded = run[c].loaded \cup {KeyOf(entry)}
              /\ run'[c].answer = run[c].answer /\ run'[c].key = run[c].key
          BY <1>0, <5>1 DEF RunType
        <5> QED BY <1>0, <2>1, <3>1, <3>6, <4>1, <4>2, <5>2 DEF Get
      <4>3. CASE ~HasKey(entry)
        <5>1. run'[c] = [run[c] EXCEPT !.pc = "load"]
          BY <1>0, <3>6, <4>3 DEF Get, SkipsFile, Goto, Becomes
        <5>2. /\ run'[c].loaded = run[c].loaded
              /\ run'[c].answer = run[c].answer /\ run'[c].key = run[c].key
          BY <1>0, <5>1 DEF RunType
        <5> QED BY <1>0, <2>1, <3>1, <3>6, <5>2 DEF Get
      <4> QED BY <4>2, <4>3
    <3>7. CASE CompareKeys(c)
      BY <1>0, <2>1, <3>1, <3>7 DEF CompareKeys, Becomes, RunType
    <3>8. CASE CallFails(c)
      <4>1. \/ run'[c] = [run[c] EXCEPT !.pc = "idle"]
            \/ run[c].pc \in {"load", "get"} /\ run'[c] = [run[c] EXCEPT !.pc = "load"]
            \/ /\ run[c].pc = "load"
               /\ \E n \in run[c].todo : run'[c] = [run[c] EXCEPT !.todo = @ \ {n}]
        BY <1>0, <3>8 DEF CallFails, SkipsFile, Return, Goto, Becomes
      <4>2. /\ run'[c].answer = run[c].answer /\ run'[c].key = run[c].key
            /\ run'[c].loaded = run[c].loaded
            /\ run'[c].pc = "idle" \/ run[c].pc \in {"load", "get"}
        BY <1>0, <4>1 DEF RunType
      <4> QED BY <1>0, <2>1, <3>1, <4>2
    <3> QED BY <1>3, <3>2, <3>3, <3>4, <3>5, <3>6, <3>7, <3>8 DEF HandlePubKey
  <2> QED BY <1>1, <2>1, <2>2, <2>3 DEF LoadedInv
<1>4. ASSUME NEW c \in Connections, Handshake(c) \/ SFTPHandler(c) \/ SessionEnds(c) PROVE LoadedInv'
  <2>1. UNCHANGED <<homes, run, seen>>
    BY <1>4 DEF Handshake, SFTPHandler, SessionEnds
  <2> QED BY <1>1, <2>1 DEF LoadedInv
<1>5. ASSUME NEW u \in Users, ChangeFile(u) \/ ChangeFolder(u) \/ ChangeSpaces(u) PROVE LoadedInv'
  <2>1. PICK home : Change(u, home)
    BY <1>5 DEF ChangeFile, ChangeFolder, ChangeSpaces
  <2>2. UNCHANGED run /\ \A d \in Connections : seen'[d] = seen[d] \cup KeysOf(InFolder(UserOf[d])')
    BY <2>1 DEF Change
  <2>3. \A d \in Connections : KeysOf(InFolder(UserOf[d]))' = KeysOf(InFolder(UserOf[d])')
    BY DEF KeysOf
  <2> QED BY <1>0, <2>2, <2>3 DEF LoadedInv
<1>6. CASE UNCHANGED vars
  BY <1>1, <1>6 DEF LoadedInv, vars
<1> QED BY <1>2, <1>3, <1>4, <1>5, <1>6 DEF Next

\* A key is accepted only if it was in a key file of the user at one moment of
\* the login, whatever the user changes while it runs and whichever calls fail.
THEOREM AcceptedKeysWereThere == Spec => []AcceptedKeyWasThere
<1>1. Init => LoadedInv
  BY DEF Init, LoadedInv, NoRun
<1>2. LoadedInv => AcceptedKeyWasThere
  BY DEF LoadedInv, AcceptedKeyWasThere
<1> QED BY <1>1, <1>2, LoadedStep, TypesHold, PTL DEF Spec

-----------------------------------------------------------------------------
(* Steady keys *)

\* A key that has been in place all the time is still to be looked at, being
\* downloaded, or loaded; and when the login is over it was accepted.
SteadyHere(c) ==
    /\ steady[c] \subseteq InPlace(UserOf[c])
    /\ \A pair \in steady[c] :
          /\ run[c].pc = "load" => pair[1] \in run[c].todo \/ pair[2] \in run[c].loaded
          /\ run[c].pc = "get"  => \/ pair[1] \in run[c].todo \cup {run[c].name}
                                  \/ pair[2] \in run[c].loaded
          /\ run[c].pc = "idle" /\ run[c].key = pair[2] => run[c].answer

SteadyInv == \A c \in Connections : SteadyHere(c)

\* What is in place are the names of files and their keys, where the server looks.
LEMMA InPlaceFacts ==
    ASSUME NEW u \in Users, NEW pair \in InPlace(u)
    PROVE  /\ homes[u].spaces = 1 /\ homes[u].folder /\ pair[1] \in PubNames
           /\ HasKey(homes[u].files[pair[1]]) /\ pair[2] = KeyOf(homes[u].files[pair[1]])
BY DEF InPlace, InFolder

\* A connection that a step leaves alone keeps its part of SteadyInv.
LEMMA SteadyElsewhere ==
    ASSUME NEW d \in Connections, SteadyHere(d),
           UNCHANGED homes, UNCHANGED run[d], UNCHANGED steady[d]
    PROVE  SteadyHere(d)'
BY DEF SteadyHere, InPlace, InFolder

\* Every step of HandlePubKey keeps its part of SteadyInv.
LEMMA SteadyHandle ==
    ASSUME TypeOK, NEW c \in Connections, SteadyHere(c), HandlePubKey(c)
    PROVE  SteadyHere(c)'
<1> USE LoginsAssumption DEF LoginsAssumption, client, history, OnlyRun
<1>1. /\ run[c] \in RunType /\ DOMAIN run = Connections /\ UserOf[c] \in Users
      /\ \A pair \in steady[c] : pair[1] \in PubNames /\ pair[2] \in Keys
  BY DEF TypeOK, RunType
<1>2. UNCHANGED <<homes, steady>>
  BY DEF HandlePubKey, Authenticate, ListSpaces, ListFolder, InitiateDownload, Get, CompareKeys
<1>3. InPlace(UserOf[c])' = InPlace(UserOf[c]) /\ steady[c] \subseteq InPlace(UserOf[c])
  BY <1>2 DEF InPlace, InFolder, SteadyHere
<1>4. \A pair \in steady[c] :
         /\ homes[UserOf[c]].spaces = 1 /\ homes[UserOf[c]].folder
         /\ HasKey(homes[UserOf[c]].files[pair[1]])
         /\ pair[2] = KeyOf(homes[UserOf[c]].files[pair[1]])
  BY <1>1, <1>3, InPlaceFacts
<1>5. SUFFICES ASSUME NEW pair \in steady[c]
      PROVE  /\ run'[c].pc = "load" => pair[1] \in run'[c].todo \/ pair[2] \in run'[c].loaded
             /\ run'[c].pc = "get"  => \/ pair[1] \in run'[c].todo \cup {run'[c].name}
                                       \/ pair[2] \in run'[c].loaded
             /\ run'[c].pc = "idle" /\ run'[c].key = pair[2] => run'[c].answer
  BY <1>2, <1>3 DEF SteadyHere
<1>6. CASE Authenticate(c)
  <2>1. run'[c] = [run[c] EXCEPT !.pc = "spaces", !.token = Len(issued')]
    BY <1>1, <1>6 DEF Authenticate, Becomes
  <2> QED BY <1>1, <2>1 DEF RunType
<1>7. CASE ListSpaces(c)
  <2>1. run'[c] = [run[c] EXCEPT !.pc = "list"]
    BY <1>1, <1>4, <1>7 DEF ListSpaces, Goto, Becomes
  <2> QED BY <1>1, <2>1 DEF RunType
<1>8. CASE ListFolder(c)
  <2> DEFINE files == {n \in PubNames : homes[UserOf[c]].files[n].kind = "file"}
  <2>1. run'[c] = [run[c] EXCEPT !.pc = "load", !.loaded = {}, !.todo = files]
    BY <1>1, <1>4, <1>8 DEF ListFolder, NothingYet, KeyFiles, Becomes
  <2>2. pair[1] \in files
    BY <1>1, <1>4 DEF HasKey
  <2> HIDE DEF files
  <2> QED BY <1>1, <2>1, <2>2 DEF RunType
<1>9. CASE InitiateDownload(c)
  <2>1. PICK n \in run[c].todo :
           run'[c] = [run[c] EXCEPT !.todo = @ \ {n}, !.name = n,
              !.pc = IF homes[UserOf[c]].files[n].kind = "file" THEN "get" ELSE "load"]
    BY <1>1, <1>9 DEF InitiateDownload, Becomes
  <2>2. /\ run'[c].todo = run[c].todo \ {n} /\ run'[c].name = n
        /\ run'[c].loaded = run[c].loaded
        /\ run'[c].pc = IF homes[UserOf[c]].files[n].kind = "file" THEN "get" ELSE "load"
    BY <1>1, <2>1 DEF RunType
  <2>3. pair[1] = n => run'[c].pc = "get"
    BY <1>4, <2>2 DEF HasKey
  <2>4. pair[1] \in run[c].todo \/ pair[2] \in run[c].loaded
    BY <1>9 DEF InitiateDownload, SteadyHere
  <2> QED BY <2>2, <2>3, <2>4
<1>10. CASE Get(c)
  <2> DEFINE entry == homes[UserOf[c]].files[run[c].name]
  <2>1. \/ pair[1] \in run[c].todo \cup {run[c].name}
        \/ pair[2] \in run[c].loaded
    BY <1>10 DEF Get, SteadyHere
  <2>2. CASE HasKey(entry)
    <3>1. run'[c] = [run[c] EXCEPT !.pc = "load", !.loaded = @ \cup {KeyOf(entry)}]
      BY <1>1, <1>10, <2>2 DEF Get, Becomes
    <3>2. /\ run'[c].loaded = run[c].loaded \cup {KeyOf(entry)} /\ run'[c].todo = run[c].todo
          /\ run'[c].pc = "load"
      BY <1>1, <3>1 DEF RunType
    <3>3. pair[1] = run[c].name => pair[2] = KeyOf(entry)
      BY <1>4
    <3> QED BY <2>1, <3>2, <3>3
  <2>3. CASE ~HasKey(entry)
    <3>1. run'[c] = [run[c] EXCEPT !.pc = "load"]
      BY <1>1, <1>10, <2>3 DEF Get, SkipsFile, Goto, Becomes
    <3>2. pair[1] # run[c].name
      BY <1>4, <2>3
    <3> QED BY <1>1, <2>1, <3>1, <3>2 DEF RunType
  <2> QED BY <2>2, <2>3
<1>11. CASE CompareKeys(c)
  <2>1. run'[c] = [run[c] EXCEPT !.pc = "idle", !.answer = run[c].key \in run[c].loaded]
    BY <1>1, <1>11 DEF CompareKeys, Becomes
  <2>2. pair[2] \in run[c].loaded
    BY <1>11 DEF CompareKeys, SteadyHere
  <2> QED BY <1>1, <2>1, <2>2 DEF RunType
<1> QED BY <1>6, <1>7, <1>8, <1>9, <1>10, <1>11 DEF HandlePubKey

\* So does a call that fails.
LEMMA SteadyFails ==
    ASSUME TypeOK, NEW c \in Connections, SteadyHere(c), CallFails(c)
    PROVE  SteadyHere(c)'
<1>1. run[c] \in RunType /\ DOMAIN run = Connections /\ DOMAIN steady = Connections
  BY DEF TypeOK, RunType
<1>2. UNCHANGED homes /\ InPlace(UserOf[c])' = InPlace(UserOf[c])
  BY DEF CallFails, InPlace, InFolder
<1>3. CASE run[c].pc \in {"auth", "spaces", "list"} /\ steady' = [steady EXCEPT ![c] = {}]
  BY <1>1, <1>3 DEF SteadyHere
<1>4. CASE run[c].pc = "load" /\ \E n \in run[c].todo :
             /\ Becomes(c, [run[c] EXCEPT !.todo = @ \ {n}])
             /\ steady' = [steady EXCEPT ![c] = {pair \in @ : pair[1] # n}]
  <2>1. PICK n \in run[c].todo :
           /\ run'[c] = [run[c] EXCEPT !.todo = @ \ {n}]
           /\ steady'[c] = {pair \in steady[c] : pair[1] # n}
    BY <1>1, <1>4 DEF Becomes
  <2>2. /\ run'[c].pc = "load" /\ run'[c].todo = run[c].todo \ {n}
        /\ run'[c].loaded = run[c].loaded
    BY <1>1, <1>4, <2>1 DEF RunType
  <2> QED BY <1>2, <1>4, <2>1, <2>2 DEF SteadyHere
<1>5. CASE /\ run[c].pc = "get" /\ SkipsFile(c)
           /\ steady' = [steady EXCEPT ![c] = {pair \in @ : pair[1] # run[c].name}]
  <2>1. /\ run'[c] = [run[c] EXCEPT !.pc = "load"]
        /\ steady'[c] = {pair \in steady[c] : pair[1] # run[c].name}
    BY <1>1, <1>5 DEF SkipsFile, Goto, Becomes
  <2>2. /\ run'[c].pc = "load" /\ run'[c].todo = run[c].todo /\ run'[c].loaded = run[c].loaded
    BY <1>1, <2>1 DEF RunType
  <2> QED BY <1>2, <1>5, <2>1, <2>2 DEF SteadyHere
<1> QED BY <1>3, <1>4, <1>5 DEF CallFails

\* Every step keeps SteadyInv.
LEMMA SteadyStep == TypeOK /\ SteadyInv /\ [Next]_vars => SteadyInv'
<1> SUFFICES ASSUME TypeOK, SteadyInv, [Next]_vars PROVE SteadyInv'
  OBVIOUS
<1> USE DEF client, history, OnlyRun
<1>0. /\ \A c \in Connections : SteadyHere(c) /\ run[c] \in RunType
      /\ DOMAIN run = Connections /\ DOMAIN steady = Connections
  BY DEF SteadyInv, TypeOK, RunType
<1>1. ASSUME NEW c \in Connections, Offer(c) PROVE SteadyInv'
  <2>1. PICK k \in Keys : Becomes(c, [run[c] EXCEPT !.pc = "auth", !.key = k, !.answer = FALSE])
    BY <1>1 DEF Offer
  <2>2. /\ run'[c].pc = "auth" /\ \A d \in Connections \ {c} : run'[d] = run[d]
    BY <1>0, <2>1 DEF Becomes, RunType
  <2>3. /\ steady'[c] = InPlace(UserOf[c]) /\ \A d \in Connections \ {c} : steady'[d] = steady[d]
        /\ UNCHANGED homes
    BY <1>0, <1>1 DEF Offer
  <2>4. SteadyHere(c)'
    BY <2>2, <2>3 DEF SteadyHere, InPlace, InFolder
  <2> QED BY <1>0, <2>2, <2>3, <2>4, SteadyElsewhere DEF SteadyInv
<1>2. ASSUME NEW c \in Connections, HandlePubKey(c) \/ CallFails(c) PROVE SteadyInv'
  <2>1. UNCHANGED homes
    BY <1>2 DEF HandlePubKey, Authenticate, ListSpaces, ListFolder, InitiateDownload, Get,
                CompareKeys, CallFails
  <2>2. \A d \in Connections \ {c} : UNCHANGED run[d]
    BY <1>0, <1>2 DEF HandlePubKey, Authenticate, ListSpaces, ListFolder, InitiateDownload, Get,
                CompareKeys, CallFails, SkipsFile, Return, Goto, Becomes
  <2>3. \A d \in Connections \ {c} : UNCHANGED steady[d]
    BY <1>0, <1>2 DEF HandlePubKey, Authenticate, ListSpaces, ListFolder, InitiateDownload, Get,
                CompareKeys, CallFails
  <2>4. SteadyHere(c)'
    BY <1>0, <1>2, SteadyHandle, SteadyFails
  <2> QED BY <1>0, <2>1, <2>2, <2>3, <2>4, SteadyElsewhere DEF SteadyInv
<1>3. ASSUME NEW c \in Connections, Handshake(c) \/ SFTPHandler(c) \/ SessionEnds(c) PROVE SteadyInv'
  <2>1. UNCHANGED <<homes, run, steady>>
    BY <1>3 DEF Handshake, SFTPHandler, SessionEnds
  <2> QED BY <1>0, <2>1, SteadyElsewhere DEF SteadyInv
<1>4. ASSUME NEW u \in Users, ChangeFile(u) \/ ChangeFolder(u) \/ ChangeSpaces(u) PROVE SteadyInv'
  <2>1. PICK home : Change(u, home)
    BY <1>4 DEF ChangeFile, ChangeFolder, ChangeSpaces
  <2>2. UNCHANGED run /\ \A d \in Connections : steady'[d] = steady[d] \cap InPlace(UserOf[d])'
    BY <2>1 DEF Change
  <2> QED BY <1>0, <2>2 DEF SteadyInv, SteadyHere
<1>5. CASE UNCHANGED vars
  <2>1. UNCHANGED <<homes, run, steady>>
    BY <1>5 DEF vars
  <2> QED BY <1>0, <2>1, SteadyElsewhere DEF SteadyInv
<1> QED BY <1>1, <1>2, <1>3, <1>4, <1>5 DEF Next

\* A key that is in place during the whole login, and whose own file can be
\* downloaded, is accepted, whatever happens to the other files.
THEOREM SteadyKeysAreAccepted == Spec => []SteadyKeyIsAccepted
<1>1. Init => SteadyInv
  BY DEF Init, SteadyInv, SteadyHere
<1>2. SteadyInv => SteadyKeyIsAccepted
  BY DEF SteadyInv, SteadyHere, SteadyKeyIsAccepted, KeysOf
<1> QED BY <1>1, <1>2, SteadyStep, TypesHold, PTL DEF Spec

-----------------------------------------------------------------------------
(* Sessions *)

\* A token that the server got for the user of a connection.
TokenFor(c, token) == token \in 1 .. Len(issued) /\ issued[token] = UserOf[c]

\* The tokens of a login, of the context, and of the sessions are the user's, and
\* the latter two are of logins that succeeded.
TokensHere(c) ==
    /\ run[c].pc \in Labels \ {"idle", "auth"} => TokenFor(c, run[c].token)
    /\ context[c].token # NoToken =>
          /\ context[c].uid = UserOf[c] /\ context[c].token \in logins[c]
          /\ TokenFor(c, context[c].token)
    /\ \A s \in sessions[c] : s.uid = UserOf[c] /\ s.token \in logins[c] /\ TokenFor(c, s.token)

TokensInv == \A c \in Connections : TokensHere(c)

\* A token stays the user's, whatever step is taken.
LEMMA TokensStay ==
    ASSUME TypeOK, [Next]_vars, NEW c \in Connections, NEW token, TokenFor(c, token)
    PROVE  TokenFor(c, token)'
<1>1. CASE UNCHANGED issued
  BY <1>1 DEF TokenFor
<1>2. CASE \E d \in Connections : Authenticate(d)
  BY <1>2, NewToken DEF TokenFor, Tokens, NoToken
<1>3. UNCHANGED issued \/ \E d \in Connections : Authenticate(d)
  BY DEF Next, HandlePubKey, Offer, ListSpaces, ListFolder, InitiateDownload, Get, CompareKeys,
         CallFails, Handshake, SFTPHandler, SessionEnds, ChangeFile, ChangeFolder, ChangeSpaces,
         Change, vars
<1> QED BY <1>1, <1>2, <1>3

\* So a connection that a step leaves alone keeps its part of TokensInv.
LEMMA TokensElsewhere ==
    ASSUME TypeOK, [Next]_vars, NEW d \in Connections, TokensHere(d),
           UNCHANGED run[d] \/ run'[d].pc \in {"idle", "auth"}
              \/ (run'[d].token = run[d].token /\ run[d].pc \in Labels \ {"idle", "auth"}),
           UNCHANGED <<context[d], sessions[d], logins[d]>>
    PROVE  TokensHere(d)'
BY TokensStay DEF TokensHere

\* The token of a login is the one it authenticated with, until it is over.
LEMMA TokenOfLogin ==
    ASSUME TypeOK, NEW c \in Connections,
           ListSpaces(c) \/ ListFolder(c) \/ InitiateDownload(c) \/ Get(c) \/ CallFails(c)
    PROVE  /\ run'[c].pc = "idle" \/ run'[c].token = run[c].token
           /\ run'[c].pc # "idle" => run[c].pc \in Labels \ {"idle", "auth"}
<1>1. run[c] \in RunType /\ DOMAIN run = Connections
  BY DEF TypeOK, RunType
<1>2. CASE ListSpaces(c) \/ CallFails(c)
  <2>1. \/ run'[c] = [run[c] EXCEPT !.pc = "idle"]
        \/ run[c].pc = "spaces" /\ run'[c] = [run[c] EXCEPT !.pc = "list"]
        \/ run[c].pc = "get" /\ run'[c] = [run[c] EXCEPT !.pc = "load"]
        \/ run[c].pc = "load" /\ \E n \in run[c].todo : run'[c] = [run[c] EXCEPT !.todo = @ \ {n}]
    BY <1>1, <1>2 DEF ListSpaces, CallFails, SkipsFile, Return, Goto, Becomes
  <2> QED BY <1>1, <2>1 DEF RunType, Labels
<1>3. CASE ListFolder(c)
  <2>1. \/ run'[c] = [run[c] EXCEPT !.pc = "idle"]
        \/ run'[c] = [run[c] EXCEPT !.pc = "load", !.loaded = {},
                         !.todo = {n \in PubNames : homes[UserOf[c]].files[n].kind = "file"}]
    BY <1>1, <1>3 DEF ListFolder, Return, Goto, Becomes, NothingYet, KeyFiles
  <2> QED BY <1>1, <1>3, <2>1 DEF ListFolder, RunType, Labels
<1>4. CASE InitiateDownload(c)
  <2>1. PICK n \in run[c].todo :
           run'[c] = [run[c] EXCEPT !.todo = @ \ {n}, !.name = n,
              !.pc = IF homes[UserOf[c]].files[n].kind = "file" THEN "get" ELSE "load"]
    BY <1>1, <1>4 DEF InitiateDownload, Becomes
  <2> QED BY <1>1, <1>4, <2>1 DEF InitiateDownload, RunType, Labels
<1>5. CASE Get(c)
  <2>1. \/ run'[c] = [run[c] EXCEPT !.pc = "load"]
        \/ run'[c] = [run[c] EXCEPT !.pc = "load",
                         !.loaded = @ \cup {KeyOf(homes[UserOf[c]].files[run[c].name])}]
    BY <1>1, <1>5 DEF Get, SkipsFile, Goto, Becomes
  <2> QED BY <1>1, <1>5, <2>1 DEF Get, RunType, Labels
<1> QED BY <1>2, <1>3, <1>4, <1>5

\* Every step keeps TokensInv.
LEMMA TokensStep == TypeOK /\ TokensInv /\ [Next]_vars => TokensInv'
<1> SUFFICES ASSUME TypeOK, TokensInv, [Next]_vars PROVE TokensInv'
  OBVIOUS
<1> USE DEF client, history, OnlyRun
<1>0. /\ \A c \in Connections : TokensHere(c) /\ run[c] \in RunType
      /\ DOMAIN run = Connections /\ DOMAIN context = Connections /\ DOMAIN logins = Connections
      /\ DOMAIN sessions = Connections
  BY DEF TokensInv, TypeOK, RunType
<1>1. ASSUME NEW c \in Connections, Offer(c) PROVE TokensInv'
  <2>1. /\ \A d \in Connections \ {c} : UNCHANGED run[d]
        /\ run'[c].pc = "auth"
    BY <1>0, <1>1 DEF Offer, Becomes, RunType
  <2>2. UNCHANGED <<context, sessions, logins>>
    BY <1>1 DEF Offer
  <2> QED BY <1>0, <2>1, <2>2, TokensElsewhere DEF TokensInv
<1>2. ASSUME NEW c \in Connections, Authenticate(c) PROVE TokensInv'
  <2>1. UNCHANGED <<context, sessions, logins>> /\ \A d \in Connections \ {c} : UNCHANGED run[d]
    BY <1>0, <1>2 DEF Authenticate, Becomes
  <2>2. run'[c] = [run[c] EXCEPT !.pc = "spaces", !.token = Len(issued')]
    BY <1>0, <1>2 DEF Authenticate, Becomes
  <2>3. TokenFor(c, run[c].token)'
    BY <1>0, <1>2, <2>2, NewToken DEF TokenFor, RunType
  <2>4. TokensHere(c)'
    BY <1>0, <2>1, <2>3, TokensStay DEF TokensHere
  <2> QED BY <1>0, <2>1, <2>4, TokensElsewhere DEF TokensInv
<1>3. ASSUME NEW c \in Connections,
             ListSpaces(c) \/ ListFolder(c) \/ InitiateDownload(c) \/ Get(c) \/ CallFails(c)
      PROVE  TokensInv'
  <2>1. UNCHANGED <<context, sessions, logins>>
    BY <1>3 DEF ListSpaces, ListFolder, InitiateDownload, Get, CallFails
  <2>2. \A d \in Connections \ {c} : UNCHANGED run[d]
    BY <1>0, <1>3 DEF ListSpaces, ListFolder, InitiateDownload, Get, CallFails, SkipsFile, Return,
                      Goto, Becomes
  <2> QED BY <1>0, <1>3, <2>1, <2>2, TokenOfLogin, TokensElsewhere DEF TokensInv
<1>4. ASSUME NEW c \in Connections, CompareKeys(c) PROVE TokensInv'
  <2>1. /\ UNCHANGED sessions
        /\ \A d \in Connections \ {c} : UNCHANGED <<run[d], context[d], logins[d]>>
    BY <1>0, <1>4 DEF CompareKeys, SetValues, Becomes
  <2>2. run'[c].pc = "idle"
    BY <1>0, <1>4 DEF CompareKeys, Becomes, RunType
  <2>3. TokenFor(c, run[c].token)
    BY <1>0, <1>4 DEF TokensHere, CompareKeys, Labels
  <2>4. \/ UNCHANGED <<context[c], logins[c]>>
        \/ /\ context'[c] = Values(UserOf[c], run[c].token)
           /\ logins'[c] = logins[c] \cup {run[c].token}
    BY <1>0, <1>4 DEF CompareKeys, SetValues
  <2>5. TokensHere(c)'
    BY <1>0, <2>1, <2>2, <2>3, <2>4, TokensStay DEF TokensHere, Values
  <2> QED BY <1>0, <2>1, <2>5, TokensElsewhere DEF TokensInv
<1>5. ASSUME NEW c \in Connections, Handshake(c) \/ SFTPHandler(c) \/ SessionEnds(c) PROVE TokensInv'
  <2>1. /\ UNCHANGED <<run, context, logins>>
        /\ \A d \in Connections \ {c} : UNCHANGED sessions[d]
    BY <1>0, <1>5 DEF Handshake, SFTPHandler, SessionEnds
  <2>2. \A s \in sessions'[c] :
           \/ s \in sessions[c]
           \/ context[c].token # NoToken /\ s.uid = context[c].uid /\ s.token = context[c].token
    <3>1. CASE Handshake(c)
      BY <3>1 DEF Handshake
    <3>2. CASE SFTPHandler(c)
      <4>1. PICK n \in 1 .. MaxSessions : sessions'[c] = sessions[c] \cup {Session(n, context[c])}
        BY <1>0, <3>2 DEF SFTPHandler
      <4> QED BY <3>2, <4>1 DEF SFTPHandler, Session
    <3>3. CASE SessionEnds(c)
      BY <1>0, <3>3 DEF SessionEnds
    <3> QED BY <1>5, <3>1, <3>2, <3>3
  <2>3. TokensHere(c)'
    BY <1>0, <2>1, <2>2, TokensStay DEF TokensHere
  <2> QED BY <1>0, <2>1, <2>3, TokensElsewhere DEF TokensInv
<1>6. CASE UNCHANGED vars \/ \E u \in Users : ChangeFile(u) \/ ChangeFolder(u) \/ ChangeSpaces(u)
  <2>1. UNCHANGED <<run, context, sessions, logins>>
    BY <1>6 DEF vars, ChangeFile, ChangeFolder, ChangeSpaces, Change
  <2> QED BY <1>0, <2>1, TokensElsewhere DEF TokensInv
<1> QED BY <1>1, <1>2, <1>3, <1>4, <1>5, <1>6 DEF Next, HandlePubKey

\* Every session acts for the user of its connection, with a token of that user
\* from a login of this connection that accepted a key.
THEOREM SessionsOfLogins == Spec => []SessionsAreOfLogins
<1>1. Init => TokensInv
  BY DEF Init, TokensInv, TokensHere, NoRun, Values
<1>2. TokensInv => SessionsAreOfLogins
  BY DEF TokensInv, TokensHere, TokenFor, SessionsAreOfLogins
<1> QED BY <1>1, <1>2, TokensStep, TypesHold, PTL DEF Spec

=============================================================================
