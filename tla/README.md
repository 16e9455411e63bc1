# opencloud-sftp in TLA+

opencloud-sftp is an SFTP server whose file system is OpenCloud: SFTP requests
become calls of the CS3 gateway (gRPC) and, for the contents of files,
downloads and uploads at its data gateway (HTTP). This directory holds TLA+
modules that model it, TLC configurations that check them, and TLAPS proofs
about the open file handle, the commands that name paths and the lookup of these
paths, logins, directory listings, and the command that sets a server up.

The server keeps nothing on disk but its configuration and host key. What makes
it hard is the distance between its steps: every request is several calls, the
state they talk about lies in OpenCloud, other clients of OpenCloud and other
goroutines of the server change it between the calls, and each call may fail or
succeed without an answer.

## Inventory

| Component | State | Operations | Status |
| --- | --- | --- | --- |
| File handle `pkg/vfs/filehandler.go` | `cache`, `cacheValid`, `fileSize`, `etag` under the RWMutex `mu` | `ReadAt`, `WriteAt`, `downloadFile`, `uploadFile`, `readFromCache`; `Truncate` (no caller) | modelled, but `Truncate` |
| File system root `pkg/vfs/sftp.go` | none of its own: the user's context and the gateway selector | `Fileread`, `Filewrite`, `OpenFile`, `Filecmd`, `PosixRename`, `Filelist`, `ListAt` | modelled |
| Path commands `pkg/vfs/cs3.go` | the local variables of a command between its calls | `mkdir`, `renameFile`, `remove`, `rmdir`, `list`, `stat`, `listStorageSpaces` | modelled |
| Space lookup `pkg/vfs/spacelookup` | none | `FindSpaceForPath`, `SplitAbsolutePath`, `MakeStorageSpaceReference` | modelled |
| Server and sessions `pkg/server/sftp.go` | connections, uid and token in their contexts | `ListenAndServe`, `SFTPHandler` | modelled, but the listener |
| Authentication `pkg/server/auth` | key list of one login, token of the session | `HandlePubKey`, `LoadKeys`, `downloadPublicKey` | modelled |
| Key generation and init `pkg/keygen`, `pkg/command/init.go` | configuration file, data directory, host key | `init` and its steps | modelled |
| Configuration `pkg/config` | settings, set once | `ParseConfig`, `EnsureDefaults`, `Validate` | modelled for the settings init and server share |
| `server` command `pkg/command/server.go` | none | parses the settings, runs the listener | its start |
| Other commands, logging | none | `health`, `version` | not modelled |

### How they interact

A connection is authenticated (`HandlePubKey`), which leaves uid and token in
the context of the connection. Each `sftp` session on it gets a request server
of `pkg/sftp` and a `root` made from them. The request server runs reads and
writes in eight goroutines, all other requests in one. `OpenFile` resolves the
path and makes a `sftpFileHandler`; its `ReadAt` and `WriteAt` are then called by
several of the eight goroutines at once, as clients send requests before the
answers to earlier ones arrive. Commands that name paths (`Filecmd`, `Filelist`)
run one at a time in a session, next to those of other sessions.

### What is hard, and what has to hold

* **File handle.** The copy of the file is checked for validity without the
  mutex, or with a mutex that is given back, and the download that follows ends
  at any time: several downloads and an upload may be under way for one cache.
  Failed uploads leave their bytes behind, timed out uploads may arrive later, and
  ETags may be missing. It has to hold that nothing is overwritten that the writer
  has not seen, that a write that was acknowledged is stored, that what is read
  is one version of the file with this handle's writes, and that requests return.
* **Path commands.** A command looks the space up, checks, and then changes, in
  separate calls that name the node by path. Its answer has to be one that was
  true while it ran, and it may only change what it was asked to.
* **Space lookup.** Space names are not unique and may change; the first one
  listed counts.
* **Listings.** A directory is listed once and sent in pages; at the cuts and at
  the end nothing may be lost or sent twice.
* **Sessions, authentication.** A login reads a folder in many calls while its
  user changes it: what is accepted must have been there, and what was there all
  the time must be accepted, whatever other files do. A session has to act for the
  user of its connection.
* **Init.** Runs that fail half way, or are repeated, must not destroy keys
  without being forced to and must leave a configuration the server can use; and
  what init was told has to reach the server through the file it writes.

`PROJECT.json` lists each of these hazards at its line with the properties that
watch it.

## Modules

| Module | Models |
| --- | --- |
| `Overlays` | contents as byte sequences, the write that `WriteAt` lays over a cache, and what it means that one content is another with writes over it |
| `FileHandler` | one open handle with the goroutines that serve it, the file, and other clients |
| `SpaceFile` | abstract: what a handle may do to the file |
| `MCFileHandler` | values for TLC |
| `FileHandler_proofs` | types, and the facts about sequences the other proofs use |
| `FileHandler_safety` | proofs that need no assumption about ETags |
| `FileHandler_etag` | which uploads lose nothing, for a client alone and under ETags (`EtagsProtect`), with the refinement of `SpaceFile` |
| `Trees` | trees of files and directories in spaces (external: the gateway's storage) |
| `Lookup` | what a path, as a sequence of names, names in a list of spaces |
| `VfsCommands` | the path commands of several sessions, one gateway call a step |
| `Namespace` | abstract: the commands as atomic changes of the tree |
| `MCVfsCommands` | values for TLC |
| `VfsCommands_proofs` | types, answers and changes of the commands, and the refinement of `Namespace` for sessions that work apart |
| `SpacePaths`, `MCSpacePaths` | paths as strings, and that looking them up is what `Lookup` says |
| `SpacePaths_proofs` | that it is, for all paths and lists of spaces |
| `Listing`, `Listing_proofs` | reading a directory in pages |
| `Settings` | where settings come from, and which source wins |
| `InitCommand`, `MCInitCommand` | `init` and the start of `server` on the files they share |
| `InitCommand_proofs` | what init keeps |
| `Logins`, `MCLogins` | logging in with keys, and the sessions of connections |
| `Logins_proofs` | what logins keep |

`VfsCommands` and `FileHandler` meet in `OpenFile`: `VfsCommands` resolves its path
and touches the file, `FileHandler` is the handle it returns. `Logins` says for
whom the sessions act whose requests these are.

### FileHandler and the code

`flags`, `mu`, `cache`, `cacheValid`, `fileSize` and `etag` are the handler's
fields. `versions` and `current` are the file as the gateway sees it: every
content it ever had, and the one it has now, 0 for none. The ETag of a version is
its number, and `NoEtag` the empty string. `base` and `dirty` are history: the
version the cache was made from, and the writes over it.

A goroutine `w` goes through labels (`pc[w]`):

| Label | Next step | Code |
| --- | --- | --- |
| `idle` | `ReadAt`, `WriteAt` | the request server calls; `WriteAt` reads `cacheValid` here, without the mutex |
| `check` | `CheckCache` | `ReadAt` under `RLock` |
| `stat` | `Stat`, `StatFails` | the Stat call of `downloadFile` |
| `get` | `Get`, `GetFails` | `InitiateFileDownload` and GET; the content is that of one moment |
| `empty`, `fill` | `CacheEmpty`, `CacheFill` | the two critical sections of `downloadFile` |
| `serve` | `Serve` | `readFromCache` |
| `lock` | `LockAndWrite` | `WriteAt` locks, grows the cache and copies |
| `initiate` | `Initiate`, `InitiateFails` | `InitiateFileUpload` with `Upload-Length` and `If-Match` |
| `put` | `PutStored`, `PutRefused`, `PutTimesOut` | PUT, the ETag of its answer, and the deferred `Unlock` |

Read locks are never held across a step, so the mutex is only the goroutine that
holds it for writing. The unsynchronised read of `cacheValid` races only with
stores of TRUE; either outcome is the model's step before or after the store.
What the model takes from outside `src/`: `If-Match` is compared when the upload
is taken (`Matches`), every stored content has a new ETag, TouchFile leaves an
existing file alone, and the request server closes a handle when its requests
have returned. `OpenFile` is one step; when one of its lookups fails nothing
has changed, so there is no step.

### VfsCommands and the code

`pc[s]` is the call that the command of session `s` makes next: the list of the
spaces, Stat, ListContainer, CreateContainer, Delete or Move; the actions bear
these names. `ref[s]` and `to[s]` are the references that the paths were resolved
to once, at the start. A path is the sequence of its names, which is what the
request server's cleaned absolute paths are to `SplitAbsolutePath`: `SpacePaths`
checks that. `ignored[s]`
is history: the command used an answer whose status was not OK, as
`listStorageSpaces` and `stat` do. `views[s]` is history too: what the command's
names named in each moment of its run. The gateway's side (Delete takes whole
directories, Move may or may not replace its destination, `MoveReplaces`) is
external; no step depends on which it is but `Move`.

`open` and `openTouch` are `OpenFile` without and with the flags that make it call
TouchFile. Without them the open ends when the path is resolved, and whether there
is a file is nobody's question; with them whatever TouchFile answers is ignored.
`TreesAssumption` and `CommandsAssumption` say of the constants that the model has
the directories above everything it has, and whatever the commands name. `IsTree` also
says that a file has nothing below it, and that the root of a space is a directory.

### InitCommand, Settings and the code

The variables are the files: `conf` (the service's configuration file), and
`files`, with the private key in `DataKey`, the public one in `DataPub`, and other
places where a key may be. A key pair is a number, `made` counts them; `Cut` is a
file between the two system calls of `os.WriteFile`, which empties and then fills
it. Commons and environment do not change within a behaviour, and nobody edits
the files while init runs.

`pc` names the step of init that is next: `before` (`ParseConfig`), `check`, `clear`
and `clearConf` (the two paths of `deleteFiles`; files of the directory go one by
one), `openConf`, `writeConf`, `mkdir`, `keygen`, and the two writes of each key file.
Each may fail (`StepFails`), and the process may end between any two (`Crash`). The
error of `deleteFiles` is assigned to `err` and overwritten, so init goes on; all
others end it. In the initial states any of the files may be there: a pair of init or
of `ssh-keygen` (as the README of the repository says), one half of a pair, and keys
of other names, in the data directory (`hostKey` in `MCInitCommand`) and elsewhere;
with a configuration or without. The server parses its settings and reads the key in two steps, and may do so while
init runs; `server.calm` is history: it was started after an init that succeeded,
and init has not been called since. `met` and `overlooked` are history too: a fault in
the present run, and an error of `deleteFiles` in any.

`Settings` has four of the settings: the two secrets without which `Validate`
refuses, and the two that init writes. `Over` is what `BindSourcesToStructs` and
`envdecode` do: what a source names replaces what was there, flags included, as
they are stored in the same record before.

### Logins and the code

`run[c]` holds the local variables of `HandlePubKey` on connection `c`, with the
call that is next in `pc`: `auth` (Authenticate), `spaces` (ListStorageSpaces),
`list` (ListContainer), `load` (InitiateFileDownload of some file of the list, in
any order, or the comparison when none is left) and `get` (the GET). `context[c]` are
the values that `SetValue` leaves on the connection; a session takes them when it
begins. Only the first key of a file counts. `seen`, `steady` and `logins` are
history: keys that were in the folder at some moment of the login, pairs of a
file and its key that were in place through all of it and whose calls did not
fail, and the tokens of logins that accepted a key. The handshake and what users do
to their folders are external. Connections have one user name, and tokens do not
expire: the code does not look at either again.

### Listing, SpacePaths and the code

`Listing` has a directory that changes, handles with the list they were given when
they were opened, and the request server's offset, which advances by what
`ListAt` returns until it returns nothing and the end. `SpacePaths` lets a client
type any path, of letters, slashes and dots; the cleaning by the request server and
`MakeRelativePath` are external, `SplitAbsolutePath` and `FindSpaceForPath` the
code's. A loop over a sequence is `Run` of a step: `Read` reads a character, `Go`
walks to a name, `Enter` adds a name to a path. All that is assumed of spaces is that
they have names; a name may have slashes or dots, as nothing in the code looks.

## Runs

| Run | Question | Bounds |
| --- | --- | --- |
| `fh_etag` | is any update lost when the storage hands out ETags? | 2 goroutines, 2 writes of 1 or 2 bytes at 2 offsets, 1 foreign upload |
| `fh_any` | what holds with no assumption at all, and do requests return? | 2 goroutines, 2 writes of 2 different bytes at offset 1, 1 foreign change; files absent, deleted, ETags missing, every call may fail |
| `vfs_answers` | are answers true and changes of named nodes only? | 2 sessions, 2 commands, 2 spaces with 3 lists of them, 1 foreign change |
| `vfs_homes` | do the commands implement `Namespace`? | 2 sessions, 3 commands, trees of 2 levels |
| `space_paths` | does the lookup of strings name what `Lookup` says? | every path of up to 7 characters, 4 lists of spaces whose names begin with one another, are equal, or have a slash |
| `listing_pages` | is a directory received whole, and does a client that reads on get to its end? | 2 handles, up to 4 entries, pages of 2, 1 change |
| `init_runs` | do key pairs match, is kept what the check looks for, does the file carry what init had, does the server start, does success mean a setup, does force repair? | 3 runs of init, any files at the start, host key anywhere, secrets missing, faults and crashes everywhere |
| `logins` | who is accepted, and for whom do sessions act? | 2 users with a connection each, one with 2 offers and one with 1; 3 files of up to 2 keys, 1 change, every call may fail |
| `fh_download_error`, `fh_stale_etag`, `vfs_rename`, `init_other_key` | the findings below | the smallest instance that shows them |

Why these bounds are enough to be of use: the races of a handle are between a
download, another download or upload of the same handle, and a foreign change.
Two goroutines and one foreign change give each pair of those in each order, and
two writes let the second one meet what the first left behind, in the cache, in
the ETag or as a late upload. In `fh_etag` two bytes and two offsets give writes that
overlap, extend the file and leave a gap. `fh_any` keeps to offset 1, which is inside,
at the end of and behind the contents it has (two, one and no bytes), so that its
liveness can be checked along with the rest; the foreign content is shorter than what
it replaces. Two commands at a time meet in every order of their calls, and
the spaces' lists have equal names and swapped names. `FileHandler` needs no
bound but those on writes and foreign changes, and its proofs need not even these.

Three runs of init are one that fails somewhere, one that meets what it left, and
one after that. Pages of two names are cut before, at and after the end of lists of
up to four. In a login one change takes a key away, cuts a file, or takes the folder or
the space away between any two calls, and a second offer meets what the first loaded.

`vfs_*`, `init_*` and `logins` say CHECK_DEADLOCK FALSE because a behaviour stops
when its commands, runs or offers are used up; in `fh_*` and `listing_pages` a handle
can always be closed and opened, and in `space_paths` spaces always change.

Three properties of `init_runs` carry their conditions: `CheckedIsKept` is about
the key at the configured path, the keys outside the data directory and the
configuration (of every key it is `KeysKeptUnforced`, which `init_other_key` refutes in
a data directory with nothing but the pair), `ServerStarts` about servers whose
key is there and whose secrets are in the global configuration (the configuration
that init writes has none), and `PairMatches` about deletions that work, as init takes
one that failed for one that did not.

`vfs_homes` gives each session a directory of its own and no foreign changes
(`WorkApart`, which TLC checks of its constants as `HomesAreApart`):
without that `remove` and `rmdir` do not implement `Namespace`, as they delete by path what
may have become another thing, or got entries, since it was checked. It also takes a
Move that does not replace (`TargetsChecked`), for the reason that `vfs_rename` shows.

### Fairness

In `fh_any`, `RequestReturns` assumes that calls return (weak fairness of `CallStep`),
and that a goroutine that waits for `mu` gets it though others come and go (strong
fairness of `LockStep`; Go's RWMutex keeps new readers out while a writer waits
and lets waiting readers in before the next writer). HTTP calls return because
the client has a timeout of 30 s. The gRPC calls have no deadline, so that they
return is an assumption about the gateway.

In `init_runs`, `ForcedInitRepairs` assumes that an init that has not ended takes its
next step (weak fairness of `Step`), as a process that is not killed does; being
killed is `Crash`, which the property excepts.

In `listing_pages`, `ReadingEnds` assumes that a client that has opened a directory
reads on (weak fairness of `Readdir` of each handle): the pages are the client's to
ask for, the server only has to bring it further with each.

### What the violations show

1. `WriteAt` ignores every error of its download, not only "not found": the bytes
   are laid over an empty cache and uploaded without an ETag, and the file becomes
   zeroes and those bytes (`fh_download_error`).
2. The branch for a missing file resets the cache but not the ETag. Of two
   writers on a new file the second uploads its cache without the bytes of the
   first, under the first one's ETag (`fh_stale_etag`).
3. A rename goes on when its check for the target fails (`vfs_rename`).
4. `init -k` looks for a key at the path it is given but deletes the data directory:
   the host key that is there goes without force (`init_other_key`).

### What else the models allow

These behaviours of the code are in the models too; nothing that holds is said of
them, and they have no run of their own.

* A download that ends late replaces a newer cache, so a write starts from an old
  content though nobody else wrote; the ETag then makes the upload fail, and the
  handle is of no use until it is opened again, which is `StaleHandleNeverCommits`.
* Truncation on open is only a touch: what was in the file stays behind what is
  written.
* `remove` deletes a directory that took the place of the file it checked, and
  `rmdir` the files put into the directory it found empty.
* The key that `init -k` makes is written to the data directory, while the
  configuration names the path of `-k`: the server ends as it finds no key.
* An init that is not forced deletes the whole data directory when there is no
  configuration and no file at its host key path. Without `-k` that is every private
  key there that is not called `id_rsa`; with a path of `-k` inside the data
  directory where nothing is, it is `id_rsa` as well.
* A forced init takes the address from the file it is about to replace instead of
  the flag it requires.

## Proofs

### FileHandler

For any number of goroutines, any contents, offsets, writes and faults, and
without the bounds. `ConstantsAssumption` is all that is assumed of the constants.

* `TypeInv` is `TypeOK`, `SizeInv` (`fileSize` is the length of the cache) and
  `RequestInv` (a goroutine at a label has the request that leads there). `TypeOK`
  alone is not inductive: `Body` is a byte sequence only if the size fits.
  `ReadsKeepContract` follows from it.
* `UploadInv` adds that who uploads holds the mutex (`LockInv`), that its write is
  in the cache (`HoldsInv`), and that a closed handle has no goroutine. The session
  told to the gateway then describes the body until the PUT
  (`UploadsAreAsAnnounced`), and a successful `WriteAt` has stored its bytes
  (`AckedWritesAreStored`), whichever downloads ended in between.
* `HolderInv` is the other direction: the mutex is not held but by a goroutine in an
  upload, so none keeps it on any way out of `WriteAt`. With `LockInv` this is
  `UploadsAreAlone`. `RequestsAdvance` gives each label a rank (`Left`) that every step of
  a request lowers and no step of another raises, so a request takes at most seven
  steps: the two are the part of `RequestReturns` that is not liveness.
* `OverlayInv` says that the cache and the body of every timed out upload are
  overlays of the version they were made from. `OverlayOfWrite` is its heart: one
  more write over an overlay is an overlay (`CacheIsOneVersion`).
* `StaleHandlesStayStale` needs only the first two.
* `OnlyUnsafeUploadsLose` says what an upload has to be so that no update is lost,
  whatever the gateway, the storage and other clients do: made from what the file
  has, or announced under an ETag that makes the storage refuse it (`SafeUploads`).
  It needs `UploadInv` and `OverlayInv` only. The two theorems that nothing is lost
  each show that all uploads are safe (`SafeIsEnough`).
* `SoleClientLosesNothing` is the first, and assumes no ETags: one goroutine, no other
  clients, no download that fails and no upload that times out (`SoleClient`). `SoleInv`
  says that the handle then knows what the file has, before, during and after a
  download and also after uploads that failed.
* `EtagInv` holds under `EtagsProtect` (GET answers carry ETags, downloads do not
  fail, the file is there and nobody deletes it): whoever writes has an ETag, and
  that ETag, also the one of a late upload, is of its base or of a version that is
  gone for good. So every upload is safe (`UpdatesAreNotLost`), and the handle
  implements the abstract file with `pending <- Pending` as refinement mapping
  (`HandleImplementsSpaceFile`). Each part of `EtagsProtect` is needed: violations 1
  and 2 are what happens without.

### VfsCommands

For any sessions, commands, trees, lists of spaces and faults.

* `TypeOK` includes that whatever is in the tree is in a directory, which the moves
  and deletions of whole directories have to keep (`MovedIsTree`). `CallsInv` adds
  that who makes a call has resolved the paths the call needs, both in one space.
* `ViewsInv` says of each session that what it named and saw in every moment of
  its command is in `views` (`SeesHere`), that what it resolved is among these
  (`NamesHere`), and that its answer is explained by one of them (`AnswerHere`). A
  step of one session keeps the three parts of another because that one observes
  the change (`ViewsElsewhere`). `AnswersAreTrue` and `OnlyNamedChanges` follow.
* `CommandsAdvance` gives each call a rank (`Left`): a command makes at most four, and
  nothing that others do makes it ask again. It needs `CallsInv`, as what a command
  calls first depends on its paths.
* `CommandsImplementNamespace` assumes `WorkApart`: no session names anything above,
  at or below what another names, no other client changes anything (`NamesApart`), and
  Move does not replace, or the check of rename can be relied on: its Stat does not
  fail and nobody uses posixRename, which has no check (`TargetsChecked`). `ApartInv`
  says that a session has resolved only what it names (`NamedHere`) and that what it
  found before a deletion or a move still is so (`CheckedHere`).
  A step of one session keeps this for another, since it changes only what is under
  its own names (`ChangesHere`). A deletion, which takes everything below, then takes
  one node (`OnlyOneDeleted`), as nothing is below a file or an empty directory
  (`NothingBelow`). Each part of `WorkApart` is needed: see `vfs_homes` and `vfs_rename`
  above.
* `RenamesKeepTargets` says how far violation 3 reaches: a rename replaces nothing where
  Move does not, or where names are apart and the Stat does not fail.
* `NamespaceKeepsTrees` is about the abstract specification alone: what it allows keeps
  everything in a directory, so what the commands are shown to implement is a file
  system.

### SpacePaths

For any letters, paths of any length, and any lists of spaces that have names
(`SpacePathsAssumption`).

* The loops need an induction over sequences. `SequenceInduction` is about a set
  instead of a predicate: a set that has the empty sequence, and with each sequence
  all that are longer by one element, has every sequence. It follows from the least
  element of a set of naturals (`Least`), and `RunEmpty`, `RunAppend`, `RunType` and
  `RunConcat` are what it gives about `Run`.
* Reading the path of some names gives these names (`ReadPath`, `ElementsOfJoined`),
  and a walk along clean names arrives at them (`WalkOfClean`). So a cleaned path is
  split after its first name, with a slash at either end or without (`SplitFacts`),
  and what `FindSpaceForPath` finds is what `Lookup` resolves (`LookupFacts`):
  `LookupsFindWhatIsNamed` and `SlashesChangeNothing`.
* `ReferencesStayBelow` follows from the same: no name of a reference is `..`, so no
  reference leaves its space, whatever the client typed.

### Listing

`ListingInv`: what a client has received is the part of the list before the offset,
and the list has what was there, each entry once. `ListAtFacts` is the one fact
about `ListAt`: it returns a part that begins at the offset, and nothing only when
there is nothing left. `PagesGoOn` is the part of `ReadingEnds` that is not liveness:
each page brings at least one name until there is none left, and then the end.

### InitCommand

For any paths, settings, faults and number of runs.

* `PairsMatch` needs to know that there is no public key from the deletion until the
  private key is written, unless a deletion failed, so a crash in between cannot leave
  halves of two pairs.
* `ServerReadsTheSame` rests on the order of the sources being the same in init and
  server, and on the environment not changing.
* `KeyInv` follows what a run that is not forced has found absent, the configuration
  and the file at its host key path wherever that is, from its check until init itself
  makes it: what is lost there after the check is what init wrote, an empty file, and
  so no key (`UnforcedKeepsWhatItChecks`). `ServerInv` adds that the key is the last
  one made once it is written, and that a server started in peace meets no init:
  `ServersStart`.
* `SetUpInv` follows one run through its steps: what it has written so far is whole.
  An init that says it succeeded has then left a whole setup with its own pair, whatever it overlooked
  and whatever it found (`SuccessesAreSetUp`), and a forced one that has ended
  without meeting a fault has done so or had settings that are not valid (`ForcedInitsEndWell`).
  That it can only go on to its end is `InitsAdvance`: each step lowers the rank of the label (`Left`), or takes
  one more file out of the data directory.

`InitAssumption` and `SettingsAssumption` are all that is assumed of the constants.

### Logins

`LoadedInv`: the keys loaded so far were in the folder at some moment of this login.
`SteadyInv`: of every file that stayed in place, the key is loaded or the file still
to do. `TokensInv`: context and sessions have tokens that were issued to a login of
that connection. There are no assumptions but `LoginsAssumption`.

### Only model-checked

Liveness under fairness, which the prover does not do: `RequestReturns`,
`ForcedInitRepairs` and `ReadingEnds`. Of each the part that is not liveness is proved:
`UploadsAreAlone` and `RequestsAdvance`, `ForcedInitsEndWell` and `InitsAdvance`, and
`PagesGoOn`. What is left is that the step which is due is taken. The four violations
are found on their instances.

## Not modelled

`Truncate` of the file handle (nothing calls it: the request server asks for
truncation by Setstat, which `Filecmd` refuses), the sizes, modes and times of file
infos, extended attributes of spaces, TLS, the expiry of tokens, the settings that
init and server do not share, logging, and the commands `health` and `version`,
which are single calls. The shutdown of the server: the code cancels a context that
nothing uses, so there is nothing but the end of the process. What the SSH library,
the request server, reva's clients and OpenCloud do is modelled as far as `src/`
relies on it.

## Plan

1. Two handles on one file (`FileHandler` twice over one `versions`), where each is
   the other's foreign client.
2. Sessions that end while handles are in use, composed of `Logins` and
   `FileHandler`.
3. `Truncate`, should anything come to call it.
