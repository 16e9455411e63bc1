------------------------------- MODULE Logins -------------------------------
(***************************************************************************)
(* Logging in with a key, and the sessions of a connection                 *)
(* (pkg/server/auth/handler.go and keystore.go, pkg/server/sftp.go).       *)
(*                                                                         *)
(* A client connects under a user name and offers keys, one after the      *)
(* other.  For each the server has itself authenticated as that user and   *)
(* loads the keys from the folder ".ssh" of the user's personal space: it  *)
(* lists the spaces, lists the folder, and downloads each key file.  A     *)
(* step is one of these calls, and the user may change the folder between  *)
(* any two.                                                                *)
(***************************************************************************)
EXTENDS Integers, Sequences, FiniteSets

CONSTANTS
    Users, Keys,
    Connections, UserOf,    \* connections of clients, and the user name of each
    Names, PubNames,        \* of files in ".ssh"; those that end in ".pub"
    KeyLists,               \* what files hold: sequences of keys
    SpaceCounts,            \* how many personal spaces a user may have
    StartHomes,             \* what users may have at the start
    Faults,                 \* the calls that may fail
    MaxOffers,              \* bound: keys offered on each connection
    MaxChanges,             \* bound: changes by users
    MaxSessions             \* bound: sessions of a connection

\* What is in the folder under a name.
Missing    == [kind |-> "none", keys |-> <<>>]
Folder     == [kind |-> "dir", keys |-> <<>>]
File(keys) == [kind |-> "file", keys |-> keys]
Entries    == {Missing, Folder} \cup {File(keys) : keys \in KeyLists}
Homes      == [spaces : SpaceCounts, folder : BOOLEAN, files : [Names -> Entries]]
NoFiles    == [n \in Names |-> Missing]

ASSUME LoginsAssumption ==
    /\ UserOf \in [Connections -> Users] /\ PubNames \subseteq Names
    /\ KeyLists \subseteq Seq(Keys) /\ StartHomes \subseteq Homes
    /\ MaxOffers \in [Connections -> Nat] /\ MaxChanges \in Nat /\ MaxSessions \in Nat

VARIABLES
    homes,      \* what OpenCloud has of each user
    issued,     \* the users of the tokens that were issued
    run,        \* the local variables of HandlePubKey on each connection
    context,    \* the values in the context of the connection
    up,         \* the connections that are authenticated
    sessions,   \* the sessions of each connection, with the values they took
    offers, changes,
    seen,       \* history: keys that were in the folder at some moment of the login
    steady,     \* history: <<name, key>> in place since the login began, fault or not
    logins      \* history: the tokens of the logins that succeeded

client  == <<up, sessions, offers>>
history == <<seen, steady, logins>>
vars    == <<homes, issued, run, context, client, changes, history>>

NoToken == 0
NoUser  == "nobody"
NoKey   == "none"
NoName  == "none"
NoRun   == [pc |-> "idle", key |-> NoKey, todo |-> {}, name |-> NoName,
            loaded |-> {}, token |-> NoToken, answer |-> FALSE]
Values(user, token) == [uid |-> user, token |-> token]

\* ParseAuthorizedKey takes the first key of a file, and fails without one.
HasKey(entry) == entry.kind = "file" /\ entry.keys # <<>>
KeyOf(entry)  == entry.keys[1]

\* The keys in the folder of a user, by the names of their files; and those
\* among them that are where the server finds the folder.
InFolder(u) ==
    {<<n, KeyOf(homes[u].files[n])>> : n \in {m \in PubNames : HasKey(homes[u].files[m])}}
InPlace(u)  == IF homes[u].spaces = 1 /\ homes[u].folder THEN InFolder(u) ELSE {}

KeysOf(pairs) == {pair[2] : pair \in pairs}

Init ==
    /\ homes \in [Users -> StartHomes] /\ issued = <<>>
    /\ run = [c \in Connections |-> NoRun]
    /\ context = [c \in Connections |-> Values(NoUser, NoToken)]
    /\ up = [c \in Connections |-> FALSE]
    /\ sessions = [c \in Connections |-> {}]
    /\ offers = [c \in Connections |-> 0] /\ changes = 0
    /\ seen = [c \in Connections |-> {}] /\ steady = [c \in Connections |-> {}]
    /\ logins = [c \in Connections |-> {}]

-----------------------------------------------------------------------------
(* HandlePubKey *)

Becomes(c, r) == run' = [run EXCEPT ![c] = r]

Goto(c, label) == Becomes(c, [run[c] EXCEPT !.pc = label])
Return(c)      == Goto(c, "idle")

\* The client offers a key; it may go on to offer others also after one was
\* accepted, until it has proved that it holds one of these.
Offer(c) ==
    /\ run[c].pc = "idle" /\ ~up[c] /\ offers[c] < MaxOffers[c]
    /\ \E k \in Keys : Becomes(c, [run[c] EXCEPT !.pc = "auth", !.key = k, !.answer = FALSE])
    /\ offers' = [offers EXCEPT ![c] = @ + 1]
    /\ seen' = [seen EXCEPT ![c] = KeysOf(InFolder(UserOf[c]))]
    /\ steady' = [steady EXCEPT ![c] = InPlace(UserOf[c])]
    /\ UNCHANGED <<homes, issued, context, up, sessions, changes, logins>>

OnlyRun == UNCHANGED <<homes, context, client, changes, history>>

Authenticate(c) ==
    /\ run[c].pc = "auth"
    /\ issued' = Append(issued, UserOf[c])
    /\ Becomes(c, [run[c] EXCEPT !.pc = "spaces", !.token = Len(issued')])
    /\ OnlyRun

\* LoadKeys wants exactly one personal space.
ListSpaces(c) ==
    /\ run[c].pc = "spaces"
    /\ IF homes[UserOf[c]].spaces = 1 THEN Goto(c, "list") ELSE Return(c)
    /\ UNCHANGED issued /\ OnlyRun

\* What LoadKeys starts its list with; a mutant keeps what it loaded before.
LoadedBefore(c) == run[c].loaded
NothingYet(c)   == {}

\* Directories and files of other names are left out; a mutant lets names pass.
AnyFiles(u) == {n \in Names : homes[u].files[n].kind = "file"}
KeyFiles(u) == {n \in PubNames : homes[u].files[n].kind = "file"}

ListFolder(c) ==
    /\ run[c].pc = "list"
    /\ IF homes[UserOf[c]].folder
       THEN Becomes(c, [run[c] EXCEPT !.pc = "load", !.loaded = NothingYet(c),
                                      !.todo = KeyFiles(UserOf[c])])
       ELSE Return(c)
    /\ UNCHANGED issued /\ OnlyRun

\* downloadPublicKey asks for the file, by its name, ...
InitiateDownload(c) ==
    /\ run[c].pc = "load"
    /\ \E n \in run[c].todo :
          Becomes(c, [run[c] EXCEPT !.todo = @ \ {n}, !.name = n,
                        !.pc = IF homes[UserOf[c]].files[n].kind = "file" THEN "get" ELSE "load"])
    /\ UNCHANGED issued /\ OnlyRun

\* A file without a key is skipped; a mutant gives up the login.
GivesUp(c)   == Return(c)
SkipsFile(c) == Goto(c, "load")

\* ... and gets the content of that moment.
Get(c) ==
    /\ run[c].pc = "get"
    /\ LET entry == homes[UserOf[c]].files[run[c].name] IN
       IF HasKey(entry)
       THEN Becomes(c, [run[c] EXCEPT !.pc = "load", !.loaded = @ \cup {KeyOf(entry)}])
       ELSE SkipsFile(c)
    /\ UNCHANGED issued /\ OnlyRun

\* SetValue on the context of the connection; a mutant has one for all.
ShareValues(c) == [d \in Connections |-> Values(UserOf[c], run[c].token)]
SetValues(c)   == [context EXCEPT ![c] = Values(UserOf[c], run[c].token)]

CompareKeys(c) ==
    /\ run[c].pc = "load" /\ run[c].todo = {}
    /\ LET accepts == run[c].key \in run[c].loaded IN
       /\ Becomes(c, [run[c] EXCEPT !.pc = "idle", !.answer = accepts])
       /\ context' = IF accepts THEN SetValues(c) ELSE context
       /\ logins' = IF accepts THEN [logins EXCEPT ![c] = @ \cup {run[c].token}] ELSE logins
    /\ UNCHANGED <<homes, issued, client, changes, seen, steady>>

\* A call fails: before the files are known that ends the login, and then it
\* only loses a file.
CallFails(c) ==
    /\ run[c].pc \in Faults
    /\ \/ run[c].pc \in {"auth", "spaces", "list"} /\ Return(c)
          /\ steady' = [steady EXCEPT ![c] = {}]
       \/ run[c].pc = "load" /\ \E n \in run[c].todo :
             /\ Becomes(c, [run[c] EXCEPT !.todo = @ \ {n}])
             /\ steady' = [steady EXCEPT ![c] = {pair \in @ : pair[1] # n}]
       \/ run[c].pc = "get" /\ SkipsFile(c)
          /\ steady' = [steady EXCEPT ![c] = {pair \in @ : pair[1] # run[c].name}]
    /\ UNCHANGED <<homes, issued, context, client, changes, seen, logins>>

-----------------------------------------------------------------------------
(* Connections and sessions *)

\* The client proves that it holds a key that was accepted (external: x/crypto).
Handshake(c) ==
    /\ run[c].pc = "idle" /\ ~up[c] /\ logins[c] # {}
    /\ up' = [up EXCEPT ![c] = TRUE]
    /\ UNCHANGED <<homes, issued, run, context, sessions, offers, changes, history>>

Session(n, values) == [n |-> n, uid |-> values.uid, token |-> values.token]

\* SFTPHandler; without the values there is no session.
SFTPHandler(c) ==
    /\ up[c] /\ context[c].uid # NoUser /\ context[c].token # NoToken
    /\ \E n \in 1 .. MaxSessions :
          /\ \A s \in sessions[c] : s.n # n
          /\ sessions' = [sessions EXCEPT ![c] = @ \cup {Session(n, context[c])}]
    /\ UNCHANGED <<homes, issued, run, context, up, offers, changes, history>>

\* Serve returns, at the end of the client's input or with an error.
SessionEnds(c) ==
    /\ \E s \in sessions[c] : sessions' = [sessions EXCEPT ![c] = @ \ {s}]
    /\ UNCHANGED <<homes, issued, run, context, up, offers, changes, history>>

-----------------------------------------------------------------------------
(* Users, with other clients of OpenCloud *)

Change(u, home) ==
    /\ changes < MaxChanges /\ changes' = changes + 1
    /\ homes' = [homes EXCEPT ![u] = home]
    /\ seen' = [c \in Connections |-> seen[c] \cup KeysOf(InFolder(UserOf[c])')]
    /\ steady' = [c \in Connections |-> steady[c] \cap InPlace(UserOf[c])']
    /\ UNCHANGED <<issued, run, context, client, logins>>

ChangeFile(u) ==
    \E n \in Names, entry \in Entries :
        homes[u].folder /\ Change(u, [homes[u] EXCEPT !.files[n] = entry])

ChangeFolder(u) ==
    Change(u, [homes[u] EXCEPT !.folder = ~@, !.files = NoFiles])

ChangeSpaces(u) ==
    \E count \in SpaceCounts : Change(u, [homes[u] EXCEPT !.spaces = count])

-----------------------------------------------------------------------------

HandlePubKey(c) ==
    \/ Authenticate(c) \/ ListSpaces(c) \/ ListFolder(c)
    \/ InitiateDownload(c) \/ Get(c) \/ CompareKeys(c)

Next ==
    \/ \E c \in Connections :
          \/ Offer(c) \/ HandlePubKey(c) \/ CallFails(c)
          \/ Handshake(c) \/ SFTPHandler(c) \/ SessionEnds(c)
    \/ \E u \in Users : ChangeFile(u) \/ ChangeFolder(u) \/ ChangeSpaces(u)

Spec == Init /\ [][Next]_vars

-----------------------------------------------------------------------------
(* Types *)

Labels == {"idle", "auth", "spaces", "list", "load", "get"}
Tokens == {NoToken} \cup 1 .. Len(issued)

\* The types of the variables: tokens are such as were issued, and whoever is
\* about to get a file has its name.
TypeOK ==
    /\ homes \in [Users -> Homes] /\ issued \in Seq(Users)
    /\ run \in [Connections -> [pc : Labels, key : Keys \cup {NoKey}, todo : SUBSET PubNames,
                                name : PubNames \cup {NoName}, loaded : SUBSET Keys,
                                token : Tokens, answer : BOOLEAN]]
    /\ \A c \in Connections : run[c].pc = "get" => run[c].name \in PubNames
    /\ context \in [Connections -> [uid : Users \cup {NoUser}, token : Tokens]]
    /\ up \in [Connections -> BOOLEAN]
    /\ sessions \in [Connections ->
          SUBSET [n : 1 .. MaxSessions, uid : Users \cup {NoUser}, token : Tokens]]
    /\ offers \in [Connections -> Nat] /\ changes \in Nat
    /\ seen \in [Connections -> SUBSET Keys]
    /\ steady \in [Connections -> SUBSET (PubNames \X Keys)]
    /\ logins \in [Connections -> SUBSET Tokens]

-----------------------------------------------------------------------------
(* What logins have to keep *)

\* A key is accepted only if it was in a key file of the user at one moment of
\* that very login, though the folder is listed and each file read in calls of
\* their own (LoadKeys, downloadPublicKey), and keys were loaded before.
AcceptedKeyWasThere ==
    \A c \in Connections : run[c].answer => run[c].key \in seen[c]

\* A key that is in place during the whole login is accepted, whatever happens
\* to the other files meanwhile, also when these cannot be downloaded
\* (keystore.go:141-144).
SteadyKeyIsAccepted ==
    \A c \in Connections :
        run[c].pc = "idle" /\ run[c].key \in KeysOf(steady[c]) => run[c].answer

\* Every session acts for the user of its connection, with a token of that user
\* that was issued to a login of this connection which accepted a key
\* (handler.go:58-59, sftp.go:48-61), also when a later login failed.
SessionsAreOfLogins ==
    \A c \in Connections : \A s \in sessions[c] :
        s.uid = UserOf[c] /\ s.token \in logins[c] /\ issued[s.token] = UserOf[c]

=============================================================================
