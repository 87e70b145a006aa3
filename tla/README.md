# TLA+ verification of pbmac

A model of [pbmac](../src/README.md), the Proxmox Backup Server client for macOS: a Go
command-line program and a SwiftUI app that runs it. The modules are written from the
source, line by line where control is concerned; `PROJECT.json` names for every
definition the lines it stands for.

Check a configuration with `tlc -workers 2 -config MCUpload.cfg MCUpload`, a proof
module with `tlapm UploadProofs.tla`.

## 1. The system

| Component | State it keeps | Operations | Hard behaviour |
|---|---|---|---|
| Live backup: `backup/upload.go`, `backup/backup.go`, `protocol/writer.go`, `protocol/session.go`, `index/dynamic.go` | `opts.Known`, `seen`, the entries of the `DynamicIndexWriter`, the append loop's position, the result's counters, one upgraded connection | begin, GET previous, create index, put chunk, append, close index, put manifest, finish | lost requests and answers, the kill of a run, overlapping runs of one group, dedup against a snapshot that was only heard of, index batches |
| Pipeline and source: `backup/backup.go`, `source/snapshot.go`, `pxar/pxar.go` | encoder goroutine and pipe; `snapDate`, `mount` of the APFS snapshot | localsnapshot, mount, encode, split, unmount, delete | two goroutines and a pipe without a buffer, files that change while they are read, a set-up that fails half way, teardown after a failure |
| SwiftUI app: `AppModel.swift` and its views | the sidebar's snapshots and selection, archives, tree, focused row, `busy`, `lastError`, `browseToken`, connection | connect, save, load, select snapshot or archive, restore, backup, console | async functions interleave at every `await`, results arrive after the selection moved on, deep links |
| Drag-out: `DragOut.swift` | scratch directories named `pbmac-drag-*` | restore a row to scratch and hand it to Finder | two drags at once |
| Restore: `restore/`, `protocol/reader.go`, `pxar/decoder.go` | chunk cache, stream position; files on disk | download index and chunks, decode, extract or list | bodies cut short, a restore that fails half way, metadata set in the wrong order |
| Chunker: `chunker/chunker.go` | rolling hash, window, chunk size | scan, Split | boundaries must not depend on the sizes of the reads |
| pxar and excludes: `pxar/pxar.go`, `pxar/decoder.go`, `exclude/exclude.go` | the encoder's directories, tables and byte count, the decoder's position; an ordered list of patterns | Encode, Walk, New, Excluded | offsets through nested tables, attributes of the right entry, last match wins, negation, `**` |
| CLI and settings: `cli/`, `config/`, `repo/`, `keychain/`, `crypto/keyfile.go`, `protocol/client.go` | `config.json`, keyfile, Keychain items | login, key create, list, ping, archives, resolving of repository, pin, token and key | crash between truncate and write, two commands at once, login half done |
| Formats: `datablob/`, `manifest/`, `crypto/` | none | encode, decode, sign | byte formats, tested against vectors |

The parts meet in a few places. `cmdBackup` opens a source (the live directory or a
snapshot), and `backup.Upload` opens a session and calls `backup.Run`, which starts the
encoder and calls the chunker, whose callback puts chunks through the session. The app
never calls Go code: it starts one `pbmac` process per command and awaits its end, so
all the concurrency within the app is between async functions on the main actor.

What makes each part correct, in a line: a snapshot on the server is complete or not
there, and a reported success is true (backup); the archive is well formed and of one
moment, and nothing is left behind (pipeline and source); what the screen shows and what
a restore reads belong to the selection (app); a restore that reports success has
written what was backed up (restore); chunks concatenate to the stream and depend on its
content alone (chunker); the decoder gives back the tree the encoder was given, without
what the patterns exclude (pxar); a key, pin or token that was reported as stored is the one
that later commands use, and for nothing else (settings); a drop delivers the whole item
(drag-out).

## 2. The modules

| Module | Models | Extended by |
|---|---|---|
| `SnapshotStore` | the promise of `pbmac backup`, without the protocol | instantiated by `Upload` |
| `Upload` | any number of runs of `pbmac backup` against one group, and the server | `MCUpload`, `UploadProofs`, `UploadProtocolProofs` |
| `BackupRun` | one run, inside: both goroutines, the pipe, the source | `BackupRunProofs` |
| `AppModel` | the app's main actor, its views' events and the pbmac processes | `MCAppModel`, `AppModelProofs` |
| `Restore` | one run of `pbmac restore`, with the target directory | `MCRestore`, `RestoreProofs` |
| `Chunker` | one call of `Chunker.Split`, byte by byte | `MCChunker`, `ChunkerProofs` |
| `Pxar` | `Encoder.Encode` with `exclude.Matcher`, then `Decoder.Walk`, item by item | `MCPxar`, `PxarProofs` |
| `Settings` | any number of `pbmac` commands that share a machine's settings | `MCSettings`, `SettingsProofs` |
| `DragOut` | any number of rows dragged out, and the pbmac processes that restore them | `MCDragOut` |

### Upload

A run goes through the calls of `backup.Upload` in order; `pc[b]` names the call it is
in. A call is three steps: the client's action puts a request in `req[b]`, a `Serve`
action of the server turns it into an answer in `resp[b]`, and the next action of the
client consumes that. `Break` can cut the connection between any two of them, `Kill` can
end the run, `ServerError` can answer anything with an error, and a request of a dead
run can still be served: so a commit can happen whose run has reported an error.

* `StreamChunk` is the whole callback of `backup.Run` (backup.go:92-125): digest, index
  entry, `seen`, `Known`, counters, upload.
* `AppendChunks`, `CloseDynamicIndex`, `UploadManifest`, `Finish` are the rest of
  `Upload` (upload.go:81-136), with the batch size a constant.
* `CreateDynamicIndex` takes `opts.Known` from the answer to GET /previous, or, whatever
  went wrong with it, from nothing (upload.go:48-56).
* `End` is the return of `Upload` with its deferred `Close`.

The server is external. It follows the rules that the client's comments quote: one
writer per group, newer backup times only, GET /previous registers the chunks of the last
snapshot, an append must name registered digests and carry on at the right offset, close
compares count, size and checksum, finish wants a closed index and a manifest. A chunk is
a model value with a size; `Digest(d, k)` is injective in plaintext and key; a blob
carries the key it is sealed with; a checksum is the list of entries it is computed from.

### BackupRun

One run with `pc` for the main goroutine and `enc` for the encoder's. The archive is a
sequence of units that cross the pipe one at a time: a header that states a file's size,
the units of its data, and the root's GOODBYE. `Change` lets another program write,
truncate, create or delete a live file at any moment; `View` is what the encoder sees, the
live files or, through the mount, the frozen ones. `SourceError` is any `ReadDir`, `Stat`,
`Open` or read that fails, on live files and on the mounted snapshot (a file is gone, no
permission, a disk error); a file that shrank is `CopyShort`. Each command of
`newSnapshotSource` and of `Close` is an action that succeeds or fails; macOS (external) refuses to unmount a
volume in which a file is open.

### AppModel

Everything in `AppModel.swift` runs on the main actor and gives it up only at `await
client.run`. A task in `tasks` is an async function that waits for its process; its next
action is the code up to its next await. A SwiftUI event is an action that changes what a
binding changes and enqueues at most one `Task`, which runs (`turn`) before the next event
is handled; the main queue is first in, first out, which `ahead` keeps track of: only
tasks that were under way when a `Task` was enqueued can resume before it.

The restore sheet opens over a tree (`OpenSheet`) and then does not look at it again: it is still up
when a deep link has cleared the tree, and its button then restores without a path. While it is up
it keeps clicks from the window behind it, and shows no button while its restore is under way; the model
leaves both out, so that more can happen in it than in the app.

`archives` and `tree` record which snapshot and archive the shown data came from, which is
what the properties compare. The code counts selections in `browseToken`; a token is only
ever compared with the current one, so the model takes any number that no waiting task
holds: the same comparisons come out as with a counter, and no bound on the number of
selections is needed.

### Restore

`archive` is a sequence of units, an entry with its attributes in one and each unit of a
payload in another, and `chunks` is how it was cut. `DownloadIndex` and `ReadChunk` are the
reader session's calls under `Extract` and `chunkStream.Read`: both ignore an error of
`io.ReadAll`, so a body can end early. An index is then parsed as long as it ends after an
entry; a chunk is not decoded, its DataBlob having a CRC. The `Take` actions are the decoder's
walk with the visitor's method for the entry, `CopyData` and `EndFile` the `io.Copy` of
`OnFile` and what follows it. `io.Copy` takes the end of the stream for the end of the file:
`StreamEnds` finishes such a file, counts it, gives it its times, and only then fails. The
target is a function from paths to entries with the system's rules for parents, existing
entries and directory times. What other programs do to it is left out. So are targets that hold a
symbolic link where the archive has a file or a directory, by a conjunct of `RestoreAssumption`
(`LeadsElsewhere`): there the code writes to what the link leads to (visitors.go:67, 87, 90), and
nothing is claimed of that. A link in the place of one of the archive's links is replaced, as in the
code. `SystemError` fails a call of the
Extractor, `Kill` ends the process.

### Chunker

A hash is the set of its bits that are 1. `Fill`, `Roll` and `Boundary` are the two phases of
`scan` for one byte; the state they keep outlives a call of `scan`, and `Read` hands them any
number of bytes. `pc = "flush"` is a return of `scan` at a boundary, `pc = "last"` the
`flush` at the end.

### Pxar

The encoder's recursion is a `stack` of directories, each with the names that are left and
the rows of its table; `SkipChild`, `EncodeLeaf`, `EncodeDir` and `EncodeGoodbye` are the
passes of the loop of `encodeDir`, and `EncodeGoodbye` also goes on in the parent as the
return of the recursive call does. `n` is the `countingWriter`, and `Size` the length of an
item, so that offsets are real. The decoder has one action per item: its recursion needs no
stack but the path of the directory it is in. `Next` is a single thread, the states differ
by their input: every tree with every list of patterns is an initial state.

A name is a number in byte order, with a length and a hash; a glob is the set of names that
`path.Match` gives it (malformed globs match nothing: the empty set); an attribute is the length
of its name and value. Mode, owner and times are written and read as one block and are not
kept apart; items that the encoder never writes (preludes, ACLs, capabilities) are left out,
as are the bytes of a header and the checks of names. Files that change while they are
read are in `BackupRun`, archives that break off in `Restore`.

### Settings

A command goes through the accesses of `cmdLogin`, `cmdKeyCreate`, `cmdList` or `cmdBackup` to
what it shares with others, one action for each; `Fail` is any of these calls failing, `Kill`
the end of the process between any two. `os.WriteFile` is an open that truncates
(`LoginTruncate`) and a write (`LoginSave`); `KeyOpen` and `KeyWrite` are those of the keyfile.
A write of a few hundred bytes happens whole or not at all. The length of a text is kept
because two writers that both have the file open write over each other: a longer text's end
behind a shorter one makes the file unreadable. A keyfile cut at exactly the length of a raw
key is left out.

A key and a token are named by the command that made or brought them. `repo.Parse` is taken
to accept every spec in `Repos`. A server has a certificate that the system trusts or not;
`Send` is the TLS check and one request, or for a backup all of `Upload`, which may fail before
or after it took effect. `rivals`, `atRisk`, `pinSaved`, `bound` and `last` are history for the
properties: `bound` are the commands that resolved after a pin was saved, `last` is the last login
that reported success, until another one truncates `config.json`.

### DragOut

The code of `restoreToTemp` up to its await is one action (`Begin`): it clears the scratch
directories, makes its own and starts pbmac for the archive that is selected then. `Write` is
one call of the Extractor, which makes every directory on the way; `Locate` is the code past
the await, `Copy` the system's copy after `completion`. A removal fails or is complete.

## 3. The runs

| Run | Instance | What it shows |
|---|---|---|
| `upload_safety` | 2 runs, both `Faulty`, of archives of 3 and 4 chunks over 3 plaintexts, plain or with 1 key, 2 times, batches of 2; symmetric in the runs | every snapshot restorable, success durable, no refusal, dedup sound, the abstract store implemented |
| `upload_liveness` | 2 runs, 1 `Faulty`, smaller archives, fair | every run ends; a sound run that got the lock succeeds |
| `app_browsing` | 3 snapshots (both kinds of archive, only a .pxar, nothing to browse), 2 processes at a time, fair | the browser matches the selection, restores read what was focused, browsable selections arrive |
| `app_not_browsable` | the same | **violated**: spinner instead of "Not Browsable" |
| `backup_run` | 2 files of 0 to 2 units, fair | success means whole, `--snapshot` means one moment, nothing left behind, no deadlock |
| `backup_run_teardown` | the same | **violated**: the deferred Close cannot unmount while the encoder reads |
| `restore` | an archive with a directory, three files of 0 and 2 units, two of them equal, and a link; 3 chunkings, 5 targets, every `--file`, fair | success means restored and counted, nothing else touched, failures leave what came before whole |
| `restore_dir_times` | the same | **violated**: a directory's mtime is that of the restore |
| `chunker` | hash and window scaled to 8, averages 4 and 64, 8 streams of 0 to 270 bytes, reads of 1 to 10, fair | boundaries depend on the bytes alone, chunks are the stream |
| `pxar` | 3 names, two of them with the same hash, 3 trees of up to 9 paths and depth 3, 711 lists of up to 3 patterns | the decoder visits what the patterns leave of the tree; tables lead to their items |
| `settings` | 3 commands, 2 repositories with their servers, one with an untrusted certificate, 20 command lines; symmetric in the commands | no order of commands, failures and kills loses a key or a reported setting, takes a command past a saved pin, or sends a token elsewhere |
| `drag_out` | 2 drags, an archive with a folder of two files, one with the folder empty | **violated**: the second drop removes what the first is restoring |

### Why the bounds are enough

*Upload.* The archives `<<d2, d1, d2>>` and `<<d3, d1, d3, d2>>` repeat chunks, share
chunks with each other, and with batches of 2 need two appends, the last one half full or
full. Two runs and two times give a previous snapshot to reuse, a group lock to contend
for, and the same second for both. A plain and an encrypted run share plaintexts but not
digests. Two runs suffice for every pair of actors the server sees: the lock keeps a third
one out of a session, and history reaches a run only through `chunks` and the newest
snapshot. The proof of `TypeCorrect` has no bounds.

*BackupRun.* Two files are needed for a snapshot torn between them, sizes up to 2 for a
file that shrinks or grows while it is copied to something other than empty. Chunk
boundaries fall after any unit.

*AppModel.* Two processes under way are needed for a result to be stale; a third would
only repeat one of them, since each is compared with the current token alone and not with
one another (`OneListing` says so). `Listings` lets a snapshot leave and come back.

*Restore.* The chunkings cut inside a payload, between equal chunks, or nowhere, so a stream
that breaks off does so in front of an entry, within a file, and between a file and the next.
The targets put an older file, an empty directory or a file where an entry, a link or a
directory has to go; one is what an earlier restore left, with its link in the link's place. `--file /` is left out: the code's `want` then wants the root alone.

*Chunker.* 8 divides 8 as 32 divides 64, which is what lets `scan` xor the leaving byte in
without rotating it. With an average of 4 the minimum is below the window, with 64 above it
as with 4 MiB; a stream of a byte that never breaks reaches the maximum, one that always
does the minimum, and the others break by their content. Reads end everywhere in a window.

*Pxar.* The trees have nested and empty directories, a skipped file, an empty file, a link,
and attributes at every kind of entry, also in front of an entry without any. Depth 3 is
needed for `**` between two names. The first of several patterns is one that matches much, so
that the later ones have something to override.

*Settings.* Three commands are what the properties need: a backup, the command that made its
key or token, and one that interferes; or two logins and the command that reads after them.
The command lines are those that can meet: with and without `--force`, pin, passphrase and
token, and a repository from the command line or from `config.json`.

*DragOut.* One drag alone satisfies `DropIsWhole`; two are the least that do not.

### Fairness

*Upload* assumes that the client takes its next step, and that the server answers a
request on an open connection or notices that it is closed. The code sets no timeout, so a
server that accepts a request and never answers holds the run for ever: liveness is stated
for servers that do answer or break. *BackupRun* assumes that both goroutines are
scheduled and that no command or call blocks for ever. *Restore* and *Chunker* assume that
the calls of server, system and reader return. *AppModel* assumes that every pbmac
process ends and that the main actor and SwiftUI do what is enqueued. No fairness is put on
users, faults, kills, other programs or the clock.

### Deadlock

Every run checks for deadlock. `AllEnded` in `Upload` and `Over` in the other modules are the
stuttering of a system whose runs are over.

## 4. Properties

*Upload.* `SnapshotsComplete`: each chunk of each committed index is stored and opens under
the manifest's key, ends are contiguous, checksums agree. `SuccessIsDurable`: a run that
reported success finds its own archive when it reads its snapshot back. `NeverRefused`: the
client never breaks a rule of the server. `KnownIsRegistered`: what the client will not
upload is registered in its session. `ResultAdds`: unique and reused chunks partition the
distinct ones. `ImplementsStore`: with the datastore read back through the index as the
abstract store, every step is a step of `SnapshotStore` or a stutter, so snapshots appear
whole, once, newest last, never change, and success comes after commit. `RunsEnd`,
`SoundRunsSucceed`: see above.

*BackupRun.* `SuccessMeansWhole`: what a successful run stored is a stream the decoder can
walk, though files shrank or vanished. `PointInTime`: with `--snapshot` it lists exactly the
files of the moment of the snapshot, with their sizes. `LeavesNothing`: a run that exits
leaves no snapshot, mount or directory unless a teardown command failed for reasons of its
own or the encoder was still at work. `RunEnds`: neither goroutine waits for the other for
ever. `TornDownEvenOnFailure` drops the exception for a live encoder, as the comment in
`cmdBackup` does, and is violated.

*AppModel.* `BrowserMatchesSelection`: archives, tree and focused row are those of the
selection. `RestoresWhatWasFocused`: a row of one archive is never restored out of another.
`OneListing`: at most one process under way is current. `TreeArrives`: a browsable
selection is shown in the end unless an error is reported or the selection moves on.
`NotBrowsableIsSaid`: the empty state of `DetailView`, violated because `busy` stays set.

*Restore.* `SuccessMeansRestored`: a success has written everything that was asked for, whole.
`NothingElse`: no other path is touched, and none by `--list`. `SummaryIsTrue`: the counts are
those of the files that were asked for and of the data in them, and a listing has every entry at
its place in the archive. `EarlierAreWhole`: after a failure or a kill only the
entry it was at can be incomplete. `RestoreEnds`. `DirTimesKept` is DESIGN's promise of mtimes
and is violated.

*Pxar.* `LastLineDecides`: the matcher, with its recursion and its loop, excludes a path exactly
if the last line that applies to it says so, where a line applies if the path can be cut into
pieces for its segments, as the package comment describes. `DecodesWhatWasThere`: the
visitor's calls are the entries that no line leaves out, alone or with a directory above, each
once, in order, with its own size and attributes. `TablesLead`: each row of a GOODBYE leads to its
child's FILENAME, the rows share the bytes of the children between them, the tail leads to the
ENTRY.

*Settings.* `KeyOfSnapshotKept`: the key of every encrypted snapshot can be had from the keyfile
with the passphrase of its backup. `ReportedKeyStands`: a key that `key create` reported stays in
the file. Both except what a `--force` has destroyed: it truncates the old key before it writes
the new one, so a crash in between loses both, which the flag asks for. `TokenForItsRepo`: a stored
token is sent only to the repository it was stored for. `PinBinds`: once a fingerprint was saved, a
command that then reads `config.json` sends its request only to a server whose certificate it or a
login has named. That a later login without `--fingerprint` keeps the pin, though it is another
server's, makes such a command fail rather than go on unpinned; so does a `config.json` that a killed
login has left empty. Of two logins at the same time the later save does drop the other's pin, which
is why what resolves after such a pair is excepted. `LoginTakesEffect`: a login that reported success is what the next command
resolves, until another login has come as far as its truncate; its token is in the Keychain if it ran
with `--json`. Without `--json` a Keychain that refuses is a note and success, and nothing is
claimed of the token.

*DragOut.* `DropIsWhole`: a drop that went through has delivered the item with all that is in it.
Violated.

*Chunker.* `HashIsOfWindow`: the rolling hash is that of the last bytes by its definition.
`BoundariesAreContent`: a chunk ends at the first place where its own bytes allow.
`NothingLost`: chunks lie end to end and are the stream. `SplitEnds`.

Each property of a passing run has a mutant in its module, marked "Mutant:", a definition
with the bug it stands for; `PROJECT.json` says which definition it replaces.

## 5. Proofs

`UploadProofs` proves `TypeCorrect == Spec => []TypeOK` for all values of the constants
that satisfy `UploadAssumption`: any number of runs, any plaintexts, sizes, sources, keys
and times, any batch size.

`TypeOK` is not inductive. A serve action reads `job[b].time`, which is a time only if the
run has a job; `ServePut` reads the first reference of its request, which is there only if
a put carries one; `AppendChunks` takes `idx[b]` from `sent[b]` on, which is a sequence
only if `sent[b]` has not passed the index's end. `TypeInv` adds these three (`JobKnown`,
`OneChunkPerPut`, `SentWithinIndex`). The proof takes one lemma for the initial states, one
step per action of `Next` for the induction step, and the temporal rule for the rest.

It also proves `SnapshotsComplete` and `SuccessIsDurable` for the same constants, from one inductive `StoreInv`. Neither property says why a commit is right: a request may be
served long after its run has given up, so the proof has to follow an index from the client,
over the wire, to the session and the snapshot. The conjuncts are that path:

- `Sealed`: a stored blob is the plaintext and the key its digest names;
- `RunOK`: a run's index names the beginning of its archive, the whole of it from the first
  append on, and a request left on the wire is one of the run's last call;
- `HeldOK`, of the run that holds the session: its registered chunks are stored, its assembled
  index is contiguous, once closed it names the whole archive and stays as it is, the manifest
  carries its checksum and key, and every snapshot of the group is older;
- `SnapOK`: `SnapshotsComplete` in terms of digests;
- `DoneOK`: a run that reported success, or is about to, has its own whole snapshot at its time,
  and only a run that reached `Finish` has one.

`AppendRefs` is the lemma on the server's own bookkeeping: references it accepts extend a
contiguous index to a contiguous one. That the client always closes the index it meant to is
not needed for safety, the checksum comparison of `ServeClose` is what carries it over.

Its last part proves `Spec => ImplementsStore`. Every step is shown to be an action of
`SnapshotStore` or a stutter, under `TypeInv` and `StoreInv`: calls before the last are stutters
(`WorkStep`), an end is `Succeed` or `Fail`, the accepted finish is `Commit` (`ReadsBack` shows
that what appears is what was asked), and a finish that is lost after its run has given up is
`Lose` (`LostStep`). Blobs are never replaced, so no step changes what an older snapshot reads
(`StoreSeenKept`).

`ChunkerProofs` proves `TypeCorrect` and `NothingIsLost == Spec => []NothingLost` for every
alphabet, width, window that the width divides, table, average size, stream and read length.
`NothingLost` is not inductive: that `chunkBuf` goes on where it should needs `data` to be the
piece of the stream before `pos` (`DataIsRead`), and that a success has everything needs to know
where in its loop `Split` has used up its read and seen the end (`LoopState`). `MoveByte` is the
lemma that carries the proof: a byte that leaves the piece behind it joins the piece before it.
The cut decision is left out of that argument: chunks are the stream whatever it is.

`HashesTheWindow` and `ContentDecides` are about the cut decision. `HashIsOfWindow` is not
inductive: rolling takes the leaving byte out of the window, so `WindowInv` has to say what the
window holds, byte i of a chunk being at i modulo the window's size once a roll has put it there.
With it the argument is algebra: a rotation distributes over xor, rotations add up, and one by the
whole window is none, since the width divides the window. `BoundariesAreContent` follows with the
second half of `WindowInv`, that no earlier place in `chunkBuf` was one to cut at.

The proofs about `Settings` hold for any number of commands, repositories, certificates and
passphrases that satisfy `SettingsAssumption`, and cover all six of its properties.
`TypeCorrect` comes from `TypeInv`: types, the kind of job a command has at each place
(`JobKnown`), and that a login saves its own repository and pin (`ToSave`). From it and
`TokensKnown` (a token in the Keychain, or in a command that has asked for it, was stored by a
login for that repository) follows `TokensStayHome`. `Stable`, that a command keeps its job once
it has started, lets facts about other commands be carried over a step.

Those about the keyfile rest on `WritesAlone`: a `key create` that no `--force` has disturbed is
the only one that has the file open, finds it empty when it writes, and no one has the file open
while it holds a key that is not at risk. `KeyStays` follows: such a key is still there after any
step. With it `KeysStand` is one case, the write itself, and `SnapshotsCanBeRead` needs only
`KeysHeld`, that a key in a command's memory was read from the keyfile and is still there.

Those about logins rest on `OneLogin`: without rivals one login at a time is at work, and it
writes into the empty file it made. `PinHeld` says where the pin is while the file is torn, so that a
`config.json` that parses has not lost it. `PinsBind` adds `PinsKnown`, where each pin comes from: that
in the file and those that logins are about to save are a login's, that of a command which goes on to
a server is a login's or its own, and it has one if it resolved after the save. `LoginsTakeEffect`
follows from `OneLogin` and `ToSave`.

`BackupRunProofs` proves all the safety properties of `BackupRun` for every number of files and
sizes. `Phases` ties the places of the two goroutines to each other: nothing is encoded before the
upload, a failed encoder has ended, a success has seen it end and stored all it read. On top of it
stand three invariants that do not need each other: `TeardownInv`, what of snapshot, directory and
mount may exist at each place of the teardown; `StreamInv`, that what the chunker has received is
whole items, or whole items and the beginning of the file the encoder is at (`SuccessMeansWhole`);
`SnapshotInv`, that the headers received are those of the frozen files the encoder is past
(`PointInTime`).

`AppModelProofs` proves all the safety properties of `AppModel` for any snapshots, archives and
number of processes. A token is any number that no waiting task holds, so the proof first counts:
with finitely many tasks there always is one (`Fresh`). `OneListing` needs nothing but the
tokens. `BrowserInv` adds to it that a current listing of archives has nothing shown yet
(`ListingCleared`) and that a current listing is of the selection, once SwiftUI has told the model
of it (`LoadsSelection`). `FocusInv` adds `RestoreTurn`: the row a restore was asked for still
belongs to the selected archive when the `Task` runs, because of what may come before it in the main
queue nothing can select another. It is about restores of a row only: a sheet whose tree a deep link
has cleared restores without one, with an archive's listing on its way. `NilAssumption` is Swift's: nil is no value.

`RestoreProofs` proves all the safety properties of `Restore` for every set of archives, targets
and paths, for every cut into chunks, every `--file`, and with failures and a kill anywhere. None of
the properties speaks of the stream, and yet each needs to know where in the archive the decoder is:

- `StreamInv`: what is buffered is the archive, from the item after the `Consumed` ones on. It
  takes lemmas on `FlattenSeq`, whose recursion is unrolled from its definition by an argument
  about the first place where it could differ;
- `DepthInv`: the decoder's depth is ENTRYs of directories less GOODBYEs up to there, so that
  the GOODBYE at depth 0, which alone ends a run well, is the archive's last item;
- `FileInv`: within a payload, the file at hand is the one whose header was consumed, and is on
  disk with the data that came so far;
- `TargetInv`: the target is a tree, as it was outside of what was asked for, and holds every
  asked entry that is done with. `MkdirAllKeeps` and `PutPuts` are why an entry cannot disturb an
  earlier one: an archive has each path once;
- `CountInv`: counters and listing are those of the items before the decoder.

Its assumptions are on what a restore is given. `WellFormed` is what `Encoder.Encode` writes
(nested directories, whole payloads, each path once); what a restore makes of another archive is not
said. `IsTree` is a file system's: what is there is in a directory that is there. No target has a
link where an archive has a file or a directory; without that `SuccessIsWhole`, `TouchesNothingElse`
and `EarlierStaysWhole` would say of the code what does not hold. The archive
reaches the decoder through a server and a connection that may fail, so nothing is assumed of
`entries` and of what is downloaded.

`UploadProtocolProofs` proves the other three of `Upload`'s invariants. `StoreInv` says that what the
server holds is sound; these need that the server is never behind the client. `ProtocolInv` is the
conversation from both ends: `CallOK`, how far a run's calls have got and that a request under way says
what the run has; `HolderOK`, of the run that holds the session, that its registered digests
include all that the run will skip and that the assembled index is the run's entries up to `Written`;
`CountOK`, that the counters are those of the index.

`PxarProofs` proves `LastLineDecides` for every tree and list of patterns. `Excluded` is a recursion
in a loop, and both are recursive functions, which are a CHOOSE of a function that satisfies their
equations. The proof names what the function has to be (a call of `matchSegs` is true if a cut of the
rest of the path exists, the loop's result after k lines is what the last of them says), shows that this
satisfies the equations (`CallsExist`, `LoopExists`), and that nothing else does: the least place
where a solution differs would be one whose own calls do not (`CallsAre`, `LoopIs`). What is left is
that a call and the cuts it looks for agree (`CoversAny`, `CoversName`) and that a floating line
is a match of the last name (`FloatingMatches`).

It also proves `TypeOK` and `DecodesWhatWasThere`. The archive is a flat sequence that the encoder
produced with a stack and the decoder reads with a path only, so the invariant, `PxarInv`, gives every
item a label: the path it was written for, and which item of it (the k-th of its block of FILENAME,
ENTRY, xattrs and content, or its GOODBYE). It has three parts:

- `Labelled` says what may follow what, item by item (`Follows`: within a block the next item; behind
  a directory's block a child or its own GOODBYE; behind a leaf or a GOODBYE a sibling or the GOODBYE
  of the directory above);
- while the encoder runs, `Encoded`: what is on the stack is in order (`StackOK`), every path written
  comes before every path that is still to do, and what is to be backed up is written or below
  something to do (`Written`). When the stack is empty this is `Whole`: all of it, once, in
  order. Pushing and popping disturb the set of what is left to do, and `Later` is that set
  frame by frame;
- then `Decoding` and `Visits`: position, directory, the entry under way and the visits so far are
  functions of the label of the item consumed last. The decoder knows of an entry's path only what
  it made from FILENAMEs, and of where it is only what GOODBYEs took away, so this is where
  a popped name too many or a missing one would show.

The tree and the lines stay as they are, and what depends on them only is carried over a step by
`LabelsStay` and `EncodedStays`.

And it proves `TablesLead`, which is about bytes: `Offset` is the size of the first items of the archive,
and because no item is empty an offset belongs to one item (`OffsetOnce`, `StartIs`). `TablesInv` stands
beside `PxarInv` and says of every directory on the stack that the items from its ENTRY on are cut
into attributes and one piece for each row it has so far (`Cuts`, `Tabled`). The last piece ends where
the next child begins: at the end of the archive for the directory on top, and where the directory
above it began for the others (`Stop`); this is the part that a row with the wrong start, or a row
that is added when a directory is entered and not when it ends, would break. Of every GOODBYE written it
says that its rows are those of such a cut, counted back from its own offset (`Leads`). Sorting
neither loses nor doubles a row, because two rows of a directory never are the same (`HashedOnce`), and
what is written later moves nothing (`CutsStay`).

Every proof assumes what its module's `ASSUME`s say of the constants and nothing else. They have the
shape of the code's types (sizes are positive, times are numbers, nil is no value) or are named above;
TLC evaluates them in every run.

Only model-checked: every liveness property, because of fairness and ENABLED, and the properties that
are violated, which is the only one `DragOut` has. That `Sizes`, `ByHash` and the other recursive or
chosen operators have values is proved where the theorems need it (`SumsExist`, `HashedExists`), by least
counterexamples and not by induction theorems.

## 6. Findings

1. *Spinner for ever* (AppModel.swift:167). Choosing an archive that is not a `.pxar` while
   the tree of another is loading leaves `busy` set; the pane never shows "Not Browsable".
2. *Teardown under a live encoder* (backup.go:127). A run that fails while uploading returns
   without waiting for its encoder, so the deferred Close may find the snapshot's volume
   busy and leave mount, directory and snapshot behind.
3. *Directory times* (visitors.go:71). `OnDir` sets a directory's times before its children
   are created, which sets its mtime anew; DESIGN promises that mtime is preserved.
4. *Drops that cut each other short* (DragOut.swift:45). A drop removes the scratch directories
   of all drags, also one that pbmac is restoring into. pbmac makes the directory anew for its
   next entry and succeeds, and the first drop delivers a folder without what was written
   before, with no error. The comment speaks of leftovers of earlier drags.

Seen while modelling and listed under hazards, without a document to hold them against:
`loadSnapshots` turns off the spinner of a tree that is still loading; overlapping refreshes
may leave the older list; a row that is dropped after the selection has changed is restored out
of the archive selected then; a deep link between a pick and its `Task` leaves the picker empty;
the tree of an encrypted archive is listed without its key; `restore --file` with a path that
is not in the archive restores nothing and succeeds; a restore follows links that are already in its
target; a `key create --force` that is killed between open and write has lost the old key and the
new one.

## 7. Plan

Done: all modules of section 2 and their runs, the proof of every invariant that a passing run
checks, and that of the refinement of `SnapshotStore`.

Next, in this order:

1. Action properties of the proved modules that the invariants already imply: what is on disk of a
   finished entry never changes (`Restore`), a stored blob is never replaced (`Upload`).
2. The hazards without a property: overlapping refreshes in `AppModel` (`loadSnapshots` has no token).

## 8. Not modelled, and why

Byte formats (DataBlob, manifest JSON and signature, index header) and cryptography are pure
functions tested against vectors; the models keep only what the properties tell apart. What the
answers of `ping`, `list` and `archives` hold is printed and not kept. The HTML prototype
under `gui/` is not part of the program. Directories, symlinks, xattrs and excludes are
left out of `BackupRun`: they add units to the stream and no control, and are in `Pxar`.
`AppModel` leaves out the settings fields, the console's log and key creation, which no other
function reads across an await. Directory trees of other programs' making, and archives that the encoder here would not
write, are left out of `Pxar`. Targets with a link where the archive has a file or a directory are left
out of `Restore`: where such a link leads is outside of the modelled tree.
