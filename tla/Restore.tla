------------------------------- MODULE Restore -------------------------------
(***************************************************************************)
(* `pbmac restore`: restore.Extract downloads the index of an archive,     *)
(* fetches and decodes its chunks as the decoder asks for bytes, and the   *)
(* decoder calls a visitor for each entry: the Extractor, which writes to  *)
(* the target directory, or the Lister of --list.  protocol.RestoreReader  *)
(* ignores errors while it reads a body, so a download can come back short *)
(* without an error.                                                       *)
(*                                                                         *)
(* The archive is a sequence of units: the items of the decoder, a payload *)
(* being a header that states its size and that many units of data.  An    *)
(* entry is in one unit with its name, its attributes and the header that  *)
(* the decoder reads before it calls the visitor.  Paths are sequences of  *)
(* names.                                                                  *)
(***************************************************************************)
EXTENDS Integers, Sequences, FiniteSets, SequencesExt

CONSTANTS Paths,      \* the paths under the target, the root <<>> among them
          Values,     \* the values of a unit of data
          Snapshots,  \* the archives a snapshot may hold, as sequences of chunks
          Targets,    \* what the target directory may hold before
          NoPath      \* no --file

Unit == [item : {"version", "dir", "link", "file", "goodbye"}, path : Paths, size : Nat]
          \union [item : {"data"}, value : Values]
Data == Seq(Unit)
IsEntry(unit) == unit.item \in {"dir", "link", "file"}

(* What is at a path: an entry that is there was made by this restore with *)
(* the archive's times, or got its times from the system.                  *)
Node == [kind : {"dir", "file", "link"}, data : Data, time : {"archive", "system"}]
Absent == [kind |-> "absent"]
Target == [Paths -> Node \union {Absent}]

Above(p) == {q \in Paths : IsPrefix(q, p)}

(* What Encoder.Encode writes: each GOODBYE ends a directory, the last one *)
(* the root; a payload is whole, and no data is outside of one; an entry   *)
(* is there once, in the directories above it, whose ENTRY is before it.   *)
Depth(a, i) == Cardinality({j \in 1 .. i : a[j].item = "dir"})
                 - Cardinality({j \in 1 .. i : a[j].item = "goodbye"})
Payload(a, i) == IF a[i].item = "file" THEN i + 1 .. i + a[i].size ELSE {}
WellFormed(a) ==
  /\ \A i \in DOMAIN a :
       a[i].item = "goodbye" => Depth(a, i) >= 0 /\ (Depth(a, i) = 0 <=> i = Len(a))
  /\ {i \in DOMAIN a : a[i].item = "data"} = UNION {Payload(a, i) : i \in DOMAIN a}
  /\ \A i \in DOMAIN a : IsEntry(a[i]) =>
       /\ a[i].item # "file" => a[i].size = 0
       /\ a[i].item # "dir" => a[i].path # <<>>
       /\ \A q \in Above(a[i].path) \ {a[i].path} :
            \E j \in 1 .. i - 1 : a[j].item = "dir" /\ a[j].path = q
       /\ \A j \in 1 .. i - 1 : IsEntry(a[j]) => a[j].path # a[i].path

(* What is in a directory is in one that is there.                         *)
IsTree(t) ==
  \A p \in Paths : p # <<>> /\ t[p] # Absent => t[Front(p)] # Absent /\ t[Front(p)].kind = "dir"

(* The Extractor opens what is at an entry's path: through a symbolic link  *)
(* that the target has where the archive has a file or a directory it       *)
(* writes to wherever the link leads.  Such targets are left out; a link    *)
(* where the archive has a link is replaced.                                *)
LeadsElsewhere(t, a) ==
  \E i \in DOMAIN a : a[i].item \in {"dir", "file"} /\ t[a[i].path].kind = "link"

ASSUME RestoreAssumption ==
  /\ Paths \subseteq Seq(UNION {Range(p) : p \in Paths})
  /\ <<>> \in Paths /\ \A p \in Paths : p # <<>> => Front(p) \in Paths
  /\ Snapshots \subseteq Seq(Seq(Unit))
  /\ \A s \in Snapshots : WellFormed(FlattenSeq(s))
  /\ Targets \subseteq Target /\ \A t \in Targets : IsTree(t)
  /\ \A t \in Targets, s \in Snapshots : ~LeadsElsewhere(t, FlattenSeq(s))
  /\ NoPath \notin Paths

VARIABLES
  chunks,    \* the archive of the snapshot, in its chunks
  mode,      \* the visitor: "extract", or "list" with --list
  only,      \* Only of the Extractor: --file
  before,    \* what the target held before
  pc,        \* where the decoder is, or how the restore ended
  entries,   \* the chunks of the index that was downloaded
  fetched,   \* how many of them the chunk stream has handed out
  cache,     \* the chunks it has downloaded
  buf,       \* what the decoder has not consumed of them
  depth,     \* the directories the decoder is in
  file,      \* the payload it is in: its path, its size and what is left of it
  target,    \* the target directory
  files,     \* the Extractor's Files and Bytes
  bytes,
  listing    \* the Lister's Entries

input == <<chunks, mode, only, before>>
stream == <<entries, fetched, cache, buf>>
visitor == <<target, files, bytes, listing>>
vars == <<input, pc, stream, depth, file, visitor>>

NoFile == [path |-> <<>>, size |-> 0, left |-> 0]

Init ==
  /\ chunks \in Snapshots
  /\ mode \in {"extract", "list"}
  /\ only \in (Paths \ {<<>>}) \union {NoPath}
  /\ before \in Targets
  /\ pc = "index"
  /\ entries = <<>> /\ fetched = 0 /\ cache = {} /\ buf = <<>>
  /\ depth = 0 /\ file = NoFile
  /\ target = before
  /\ files = 0 /\ bytes = 0
  /\ listing = <<>>
-----------------------------------------------------------------------------
(* The index and the chunk stream. *)

Fail == pc' = "failed"

(* Download and ParseDynamicIndex: the body may end early, after any       *)
(* entry; within an entry or the header it does not parse.                 *)
DownloadIndex ==
  /\ pc = "index"
  /\ \/ \E n \in 0 .. Len(chunks) : entries' = SubSeq(chunks, 1, n) /\ pc' = "walk"
     \/ Fail /\ UNCHANGED entries
  /\ UNCHANGED <<input, fetched, cache, buf, depth, file, visitor>>

Starved == buf = <<>> /\ (pc = "walk" \/ (pc \in {"copy", "skip"} /\ file.left > 0))

(* chunkStream.Read for the next chunk: one that is cached, one that is    *)
(* downloaded and decoded, or an error; a blob cut short does not decode.  *)
ReadChunk ==
  /\ Starved /\ fetched < Len(entries)
  /\ LET next == entries[fetched + 1]
     IN \/ /\ buf' = next /\ fetched' = fetched + 1 /\ cache' = cache \union {next}
           /\ UNCHANGED pc
        \/ next \notin cache /\ Fail /\ UNCHANGED <<buf, fetched, cache>>
  /\ UNCHANGED <<input, entries, depth, file, visitor>>

-----------------------------------------------------------------------------
(* The target directory (the operating system). *)

Exists(t, p) == t[p] # Absent
IsDir(t, p) == Exists(t, p) /\ t[p].kind = "dir"
Blocked(t, p) == \E q \in Above(p) : Exists(t, q) /\ ~IsDir(t, q)

Entry(kind, data, time) == [kind |-> kind, data |-> data, time |-> time]

(* A new entry in a directory sets the directory's times. *)
Put(t, p, node) ==
  [q \in Paths |->
     IF q = p THEN node
     ELSE IF p # <<>> /\ q = Front(p) /\ ~Exists(t, p) THEN [t[q] EXCEPT !.time = "system"]
     ELSE t[q]]

(* os.MkdirAll, where nothing is in the way.  *)
MkdirAll(t, p) ==
  [q \in Paths |->
     IF q \in Above(p) /\ ~Exists(t, q) THEN Entry("dir", <<>>, "system")
     ELSE IF q \in Above(p) /\ \E r \in Above(p) : r # <<>> /\ Front(r) = q /\ ~Exists(t, r)
       THEN [t[q] EXCEPT !.time = "system"]
     ELSE t[q]]

(* os.Remove: a file, a link or an empty directory.  *)
Empty(t, p) == \A q \in Paths : q # <<>> /\ Front(q) = p => ~Exists(t, q)
OsRemove(t, p) ==
  IF Exists(t, p) /\ (IsDir(t, p) => Empty(t, p))
  THEN [t EXCEPT ![p] = Absent, ![Front(p)].time = "system"] ELSE t
-----------------------------------------------------------------------------
(* The visitors.  Any call of the system may fail, and ends the restore.   *)

(* Extractor.want: the target of --file, what leads to it, what is in it.  *)
(* Mutant: what is next to the target as well.                             *)
WantSiblings(p) == only # NoPath => IsPrefix(p, only) \/ IsPrefix(Front(only), p)
Want(p) == only # NoPath => IsPrefix(p, only) \/ IsPrefix(only, p)

Extracts(p) == mode = "extract" /\ Want(p)
Ignores(p) == mode = "extract" /\ ~Want(p)
Listed(p, kind, n) == Append(listing, [path |-> p, kind |-> kind, size |-> n])

(* The decoder consumes the next item. *)
Take(kind) == pc = "walk" /\ buf # <<>> /\ Head(buf).item = kind /\ buf' = Tail(buf)
Item == Head(buf)

TakeVersion ==
  /\ Take("version")
  /\ UNCHANGED <<input, pc, entries, fetched, cache, depth, file, visitor>>

(* OnDir: MkdirAll, then the archive's times, which on an entry of its own *)
(* making the restore can set.                                             *)
TakeDir ==
  /\ Take("dir")
  /\ \/ mode = "list" /\ listing' = Listed(Item.path, "dir", 0) /\ UNCHANGED target
     \/ Ignores(Item.path) /\ UNCHANGED <<target, listing>>
     \/ /\ Extracts(Item.path) /\ ~Blocked(target, Item.path)
        /\ target' = [MkdirAll(target, Item.path) EXCEPT ![Item.path].time = "archive"]
        /\ UNCHANGED listing
  /\ depth' = depth + 1
  /\ UNCHANGED <<input, pc, entries, fetched, cache, file, files, bytes>>

TakeLink ==
  /\ Take("link")
  /\ \/ mode = "list" /\ listing' = Listed(Item.path, "link", 0) /\ UNCHANGED target
     \/ Ignores(Item.path) /\ UNCHANGED <<target, listing>>
     \/ /\ Extracts(Item.path) /\ ~Blocked(target, Front(Item.path))
        /\ LET there == OsRemove(MkdirAll(target, Front(Item.path)), Item.path)
           IN /\ ~Exists(there, Item.path)
              /\ target' = Put(there, Item.path, Entry("link", <<>>, "system"))
        /\ UNCHANGED listing
  /\ UNCHANGED <<input, pc, entries, fetched, cache, depth, file, files, bytes>>

(* OnFile up to its io.Copy: the file is created or truncated.             *)
(* Mutant: an existing file is not truncated.                              *)
KeepData(p) == IF Exists(target, p) THEN target[p].data ELSE <<>>
OldData(p) == <<>>
TakeFile ==
  /\ Take("file")
  /\ file' = [path |-> Item.path, size |-> Item.size, left |-> Item.size]
  /\ \/ mode = "list" /\ pc' = "copy" /\ UNCHANGED target
     \/ Ignores(Item.path) /\ pc' = "skip" /\ UNCHANGED target
     \/ /\ Extracts(Item.path)
        /\ ~Blocked(target, Front(Item.path)) /\ ~IsDir(target, Item.path)
        /\ pc' = "copy"
        /\ target' = Put(MkdirAll(target, Front(Item.path)), Item.path,
                         Entry("file", OldData(Item.path), "system"))
  /\ UNCHANGED <<input, entries, fetched, cache, depth, files, bytes, listing>>

(* The LimitedReader hands out the payload and no more.                    *)
(* Mutant: the reader has no limit.                                        *)
Unlimited == TRUE
Limited == file.left > 0
CopyData ==
  /\ pc \in {"copy", "skip"} /\ Limited /\ buf # <<>>
  /\ buf' = Tail(buf)
  /\ file' = [file EXCEPT !.left = @ - 1]
  /\ target' = IF pc = "copy" /\ mode = "extract"
               THEN [target EXCEPT ![file.path].data = Append(@, Item)] ELSE target
  /\ UNCHANGED <<input, pc, entries, fetched, cache, depth, files, bytes, listing>>

(* The rest of OnFile after its io.Copy, which ends with the payload or,   *)
(* without an error, with the stream.                                      *)
(* Mutant: what is counted is what the reader has left.                    *)
LeftOver == file.left
Copied == file.size - file.left
FileDone ==
  IF mode = "list"
  THEN listing' = Listed(file.path, "file", Copied) /\ UNCHANGED <<target, files, bytes>>
  ELSE /\ files' = files + 1 /\ bytes' = bytes + Copied
       /\ target' = [target EXCEPT ![file.path].time = "archive"]
       /\ UNCHANGED listing

EndFile ==
  /\ pc \in {"copy", "skip"} /\ file.left = 0
  /\ pc' = "walk" /\ file' = NoFile
  /\ IF pc = "copy" THEN FileDone ELSE UNCHANGED visitor
  /\ UNCHANGED <<input, stream, depth>>

(* The GOODBYE ends a directory; the root's ends the walk.                 *)
TakeGoodbye ==
  /\ Take("goodbye")
  /\ depth' = depth - 1
  /\ pc' = IF depth' = 0 THEN "ok" ELSE "walk"
  /\ UNCHANGED <<input, entries, fetched, cache, file, visitor>>

(* The stream ends before that: every read of the decoder fails, after an  *)
(* OnFile that was content with what there was.                            *)
(* Mutant: the end of the stream, between two items, ends the walk.        *)
EndsWalk == pc' = IF pc = "walk" THEN "ok" ELSE "failed"
(* Mutant: at an item the decoder reads again.                             *)
ReadsOn == IF pc = "walk" THEN UNCHANGED pc ELSE Fail
EndsEarly == Fail
StreamEnds ==
  /\ Starved /\ fetched = Len(entries)
  /\ EndsEarly
  /\ IF pc = "copy" THEN FileDone ELSE UNCHANGED visitor
  /\ UNCHANGED <<input, stream, depth, file>>

(* A system call of the Extractor fails: something is in the way, or the   *)
(* disk is full, ...  What OnSymlink removed before it stays removed.      *)
SystemError ==
  /\ mode = "extract"
  /\ \/ /\ pc = "walk" /\ buf # <<>> /\ IsEntry(Item) /\ Want(Item.path)
        /\ \/ UNCHANGED target
           \/ Item.item = "link" /\ target' = OsRemove(target, Item.path)
     \/ pc = "copy" /\ UNCHANGED target
  /\ Fail
  /\ UNCHANGED <<input, stream, depth, file, files, bytes, listing>>

Ended == {"ok", "failed", "killed"}
Kill ==
  /\ pc \notin Ended
  /\ pc' = "killed"
  /\ UNCHANGED <<input, stream, depth, file, visitor>>
-----------------------------------------------------------------------------
Step ==
  \/ DownloadIndex \/ ReadChunk \/ TakeVersion \/ TakeDir \/ TakeLink \/ TakeFile
  \/ CopyData \/ EndFile \/ TakeGoodbye \/ StreamEnds \/ SystemError

Over == pc \in Ended /\ UNCHANGED vars

Next == Step \/ Kill \/ Over

Spec == Init /\ [][Next]_vars

(* No call to the server or the system waits for ever.                     *)
FairSpec == Spec /\ WF_vars(Step)
-----------------------------------------------------------------------------
(* Properties. *)

TypeOK ==
  /\ chunks \in Seq(Seq(Unit)) /\ mode \in {"extract", "list"}
  /\ only \in Paths \union {NoPath} /\ before \in Target
  /\ pc \in {"index", "walk", "copy", "skip"} \union Ended
  /\ entries \in Seq(Seq(Unit)) /\ fetched \in 0 .. Len(entries)
  /\ cache \subseteq Range(entries) /\ buf \in Seq(Unit)
  /\ depth \in Nat
  /\ file.path \in Paths /\ file.left \in 0 .. file.size
  /\ target \in Target /\ files \in Nat /\ bytes \in Nat
  /\ listing \in Seq([path : Paths, kind : {"dir", "link", "file"}, size : Nat])

(* What was asked for: everything, or what --file names, with what leads   *)
(* to it and what is in it.                                                *)
archive == FlattenSeq(chunks)
Asked ==
  {j \in DOMAIN archive :
     /\ IsEntry(archive[j])
     /\ only # NoPath => \/ IsPrefix(archive[j].path, only)
                        \/ IsPrefix(only, archive[j].path)}
AskedFiles == {j \in Asked : archive[j].item = "file"}

(* Entry j of the archive is on disk, whole.                               *)
OnDisk(j) ==
  LET node == target[archive[j].path]
  IN /\ node # Absent /\ node.kind = archive[j].item
     /\ node.kind = "file" =>
          node.data = SubSeq(archive, j + 1, j + archive[j].size) /\ node.time = "archive"

(* A restore that reports success has written every entry it was asked     *)
(* for, whole, though downloads fail or come back short without an error.  *)
SuccessMeansRestored ==
  pc = "ok" /\ mode = "extract" => \A j \in Asked : OnDisk(j)

(* A restore touches nothing but the entries it was asked for and the      *)
(* directories that lead to them, and --list touches nothing at all.       *)
NothingElse ==
  \A p \in Paths :
    \/ mode = "extract" /\ \E j \in Asked : archive[j].path = p
    \/ target[p] = before[p]

(* The summary of a successful restore counts the files that were asked    *)
(* for and the data in them; a successful listing has every entry in its   *)
(* place, with the size of its payload.                                    *)
AskedData == UNION {Payload(archive, j) : j \in AskedFiles}
Place(j) == Cardinality({i \in 1 .. j : IsEntry(archive[i])})
SummaryIsTrue ==
  pc = "ok" =>
    IF mode = "extract"
    THEN files = Cardinality(AskedFiles) /\ bytes = Cardinality(AskedData)
    ELSE /\ Len(listing) = Place(Len(archive))
         /\ \A j \in DOMAIN archive : IsEntry(archive[j]) =>
              listing[Place(j)] = [path |-> archive[j].path, kind |-> archive[j].item,
                                   size |-> archive[j].size]

(* A restore that fails half way leaves whole what came before: only the   *)
(* entry it was at can be incomplete.                                      *)
Consumed == Len(FlattenSeq(SubSeq(entries, 1, fetched))) - Len(buf)
EarlierAreWhole ==
  mode = "extract" =>
    \A j \in Asked : j + archive[j].size < Consumed => OnDisk(j)

(* A restore ends: the stream that ends early is no reason to read on.     *)
RestoreEnds == pc = "index" ~> pc \in Ended

(* DESIGN.md 7: "standard POSIX metadata (mode, mtime, symlinks) ... are   *)
(* preserved".                                                             *)
DirTimesKept ==
  pc = "ok" /\ mode = "extract" =>
    \A j \in Asked : archive[j].item = "dir" => target[archive[j].path].time = "archive"
=============================================================================
