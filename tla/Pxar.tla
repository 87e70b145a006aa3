-------------------------------- MODULE Pxar --------------------------------
(***************************************************************************)
(* The pxar archive of a directory: pxar.Encoder walks the tree and leaves *)
(* out what exclude.Matcher excludes, and pxar.Decoder walks the archive.  *)
(* An archive is a sequence of items, each a header and its content; the   *)
(* encoder counts bytes for the GOODBYE table that ends a directory.       *)
(*                                                                         *)
(* Names are numbers, in their byte order; paths are sequences of names,   *)
(* from the root of the backup.  A line of --exclude or .pxarexclude is    *)
(* [negated, leading, globs, trailing]: a "!" in front, a "/" in front,    *)
(* globs with a "/" between them, and a "/" at the end.  A glob is the set *)
(* of names it matches, or "**".  The files do not change while they are   *)
(* read (BackupRun has those that do).                                     *)
(***************************************************************************)
EXTENDS Integers, Sequences, FiniteSets, SequencesExt

CONSTANTS Names,     \* a set of numbers
          NameLen,   \* their lengths in bytes
          Hash,      \* hashFilename of each
          Attrs,     \* extended attributes, by the length of name and value
          AnyDepth,  \* "**"
          Trees,     \* the trees to back up
          Excludes   \* the lines of patterns

Kinds == {"dir", "file", "link", "special"}
(* What Stat and Readlink say: size is that of the data, or the target's.  *)
Node == [kind : Kinds, size : Nat, xattrs : SUBSET Attrs]
Glob == (SUBSET Names) \union {AnyDepth}
Line == [negated : BOOLEAN, leading : BOOLEAN, globs : Seq(Glob), trailing : BOOLEAN]

ASSUME PxarAssumption ==
  /\ Names \subseteq Nat /\ IsFiniteSet(Names) /\ Attrs \subseteq Nat /\ IsFiniteSet(Attrs)
  /\ NameLen \in [Names -> Nat] /\ Hash \in [Names -> Nat]
  /\ AnyDepth \notin SUBSET Names
  /\ Excludes \subseteq Seq(Line)
  /\ \A t \in Trees :
       /\ DOMAIN t \subseteq Seq(Names) /\ \A p \in DOMAIN t : t[p] \in Node
       /\ <<>> \in DOMAIN t /\ t[<<>>].kind = "dir"
       /\ \A p \in DOMAIN t \ {<<>>} : Front(p) \in DOMAIN t /\ t[Front(p)].kind = "dir"

VARIABLES
  tree, lines,  \* the tree that is backed up, and the lines of patterns
  pc,           \* "encode", then "version", "root", "dir", "child" and "content"
                \* of the decoder, then "done"
  stack,        \* the directories the encoder is in: path, the names that are
                \* left, where the ENTRY was written, and the rows of the table
  archive,      \* the items that were written
  n,            \* countingWriter: the bytes that were written
  pos,          \* the items the decoder has consumed
  dirPath,      \* the directory the decoder is in
  entry,        \* the entry whose metadata it collects
  visited       \* the visitor's calls

input == <<tree, lines>>
encoder == <<stack, archive, n>>
decoder == <<pos, dirPath, entry, visited>>
vars == <<input, pc, encoder, decoder>>
-----------------------------------------------------------------------------
(* exclude.New: a slash that is not the last one anchors a pattern to the  *)
(* root.                                                                   *)
Pattern(line) ==
  [negate |-> line.negated, dirOnly |-> line.trailing,
   anchored |-> line.leading \/ Len(line.globs) > 1, segs |-> line.globs]

(* path.Match of one segment, for which "**" is as good as "*".  *)
GlobMatches(g, name) == g = AnyDepth \/ name \in g

(* matchSegs: m[i][j] is the call for pat[i:] and segs[j:].                *)
(* Mutant: "**" stands for at least one segment.                           *)
MatchSegsPlus(pat, segs) ==
  LET m[i \in 1 .. Len(pat) + 1] ==
        [j \in 1 .. Len(segs) + 1 |->
           IF i > Len(pat) THEN j > Len(segs)
           ELSE IF pat[i] = AnyDepth THEN \E k \in j + 1 .. Len(segs) + 1 : m[i + 1][k]
           ELSE j <= Len(segs) /\ GlobMatches(pat[i], segs[j]) /\ m[i + 1][j + 1]]
  IN m[1][1]
MatchSegs(pat, segs) ==
  LET m[i \in 1 .. Len(pat) + 1] ==
        [j \in 1 .. Len(segs) + 1 |->
           IF i > Len(pat) THEN j > Len(segs)
           ELSE IF pat[i] = AnyDepth THEN \E k \in j .. Len(segs) + 1 : m[i + 1][k]
           ELSE j <= Len(segs) /\ GlobMatches(pat[i], segs[j]) /\ m[i + 1][j + 1]]
  IN m[1][1]

Match(pattern, p) ==
  IF pattern.anchored THEN MatchSegs(pattern.segs, p)
  ELSE p # <<>> /\ GlobMatches(Head(pattern.segs), Last(p))

(* Matcher.Excluded: each pattern that matches overrides the ones before.  *)
(* A line with nothing but slashes has left no pattern.                    *)
Excluded(p, isDir) ==
  LET excluded[i \in 0 .. Len(lines)] ==
        IF i = 0 THEN FALSE
        ELSE LET pat == Pattern(lines[i])
             IN IF pat.segs # <<>> /\ (pat.dirOnly => isDir) /\ Match(pat, p)
                THEN ~pat.negate ELSE excluded[i - 1]
  IN excluded[Len(lines)]
-----------------------------------------------------------------------------
(* The items, and their sizes. *)

HeaderSize == 16
RowSize == 24
Version == [item |-> "version"]
Entry(node) == [item |-> "entry", kind |-> node.kind]
Filename(name) == [item |-> "filename", name |-> name]
Xattr(a) == [item |-> "xattr", attr |-> a]
Payload(size) == [item |-> "payload", size |-> size]
Symlink(size) == [item |-> "symlink", size |-> size]
Goodbye(rows, tail) == [item |-> "goodbye", rows |-> rows, tail |-> tail]

Size(i) ==
  HeaderSize + CASE i.item = "version" -> 8
                 [] i.item = "entry" -> 40
                 [] i.item = "filename" -> NameLen[i.name] + 1
                 [] i.item = "xattr" -> i.attr + 1
                 [] i.item = "payload" -> i.size
                 [] i.item = "symlink" -> i.size + 1
                 [] i.item = "goodbye" -> (Len(i.rows) + 1) * RowSize
Sizes(items) ==
  LET sum[i \in 0 .. Len(items)] == IF i = 0 THEN 0 ELSE sum[i - 1] + Size(items[i])
  IN sum[Len(items)]

InOrder(S) ==
  CHOOSE s \in [1 .. Cardinality(S) -> S] : \A i, j \in DOMAIN s : i < j => s[i] < s[j]
Xattrs(node) == [i \in 1 .. Cardinality(node.xattrs) |-> Xattr(InOrder(node.xattrs)[i])]

(* Encoder.Encode and encodeDir: the names of a directory are sorted.      *)
Children(p) == {Last(q) : q \in {q \in DOMAIN tree : q # <<>> /\ Front(q) = p}}
Frame(p, start) == [path |-> p, names |-> InOrder(Children(p)), start |-> start, rows |-> <<>>]

Init ==
  /\ tree \in Trees /\ lines \in Excludes
  /\ pc = "encode"
  /\ LET start == <<Version, Entry(tree[<<>>])>> \o Xattrs(tree[<<>>])
     IN archive = start /\ n = Sizes(start)
  /\ stack = <<Frame(<<>>, Size(Version))>>
  /\ pos = 0 /\ dirPath = <<>> /\ visited = <<>>
  /\ entry = [path |-> <<>>, kind |-> "none", xattrs |-> {}]

Top == Last(stack)
Child == Append(Top.path, Head(Top.names))
NextName(frame) == [frame EXCEPT !.names = Tail(@)]
(* The table has a row for each child, from its FILENAME to its last item. *)
(* Mutant: from behind the FILENAME.                                       *)
RowPastName(name, start, end) ==
  [hash |-> Hash[name], offset |-> start + Size(Filename(name)), size |-> end - start]
Row(name, start, end) == [hash |-> Hash[name], offset |-> start, size |-> end - start]
WithRow(frame, name, start, end) ==
  [frame EXCEPT !.rows = Append(@, Row(name, start, end))]

(* Sockets, FIFOs and devices are skipped, and so is what is excluded.     *)
Skips(p) == tree[p].kind = "special" \/ Excluded(p, tree[p].kind = "dir")

SkipChild ==
  /\ pc = "encode" /\ Top.names # <<>> /\ Skips(Child)
  /\ stack' = ReplaceAt(stack, Len(stack), NextName(Top))
  /\ UNCHANGED <<input, pc, archive, n, decoder>>

EncodeLeaf ==
  /\ pc = "encode" /\ Top.names # <<>> /\ ~Skips(Child) /\ tree[Child].kind # "dir"
  /\ LET node == tree[Child]
         content == IF node.kind = "link" THEN Symlink(node.size) ELSE Payload(node.size)
         items == <<Filename(Last(Child)), Entry(node)>> \o Xattrs(node) \o <<content>>
     IN /\ archive' = archive \o items
        /\ n' = n + Sizes(items)
        /\ stack' = ReplaceAt(stack, Len(stack),
                              WithRow(NextName(Top), Last(Child), n, n + Sizes(items)))
  /\ UNCHANGED <<input, pc, decoder>>

EncodeDir ==
  /\ pc = "encode" /\ Top.names # <<>> /\ ~Skips(Child) /\ tree[Child].kind = "dir"
  /\ LET items == <<Filename(Last(Child)), Entry(tree[Child])>> \o Xattrs(tree[Child])
     IN /\ archive' = archive \o items
        /\ n' = n + Sizes(items)
  /\ stack' = Append(stack, Frame(Child, n + Size(Filename(Last(Child)))))
  /\ UNCHANGED <<input, pc, decoder>>

(* writeGoodbye: offsets back from here, rows by hash, the tail last.      *)
ByHash(rows) ==
  CHOOSE s \in [DOMAIN rows -> Range(rows)] :
    /\ Range(s) = Range(rows)
    /\ \A i, j \in DOMAIN s : i < j => s[i].hash <= s[j].hash
Table(frame) ==
  Goodbye(ByHash([i \in DOMAIN frame.rows |-> [frame.rows[i] EXCEPT !.offset = n - @]]),
          [offset |-> n - frame.start, size |-> HeaderSize + (Len(frame.rows) + 1) * RowSize])

EncodeGoodbye ==
  /\ pc = "encode" /\ Top.names = <<>>
  /\ archive' = Append(archive, Table(Top))
  /\ n' = n + Size(Table(Top))
  /\ IF Len(stack) = 1
     THEN pc' = "version" /\ stack' = <<>>
     ELSE /\ LET parent == stack[Len(stack) - 1]
                 name == Last(Top.path)
             IN stack' = Append(SubSeq(stack, 1, Len(stack) - 2),
                           WithRow(NextName(parent), name, Top.start - Size(Filename(name)), n'))
          /\ UNCHANGED pc
  /\ UNCHANGED <<input, decoder>>
-----------------------------------------------------------------------------
(* Decoder.Walk, walkDir and decodeChild: an item at a time.               *)

NextItem == archive[pos + 1]
Take(item) == NextItem.item = item /\ pos' = pos + 1
Visit(e, size) == Append(visited, [path |-> e.path, kind |-> e.kind, xattrs |-> e.xattrs, size |-> size])

DecodeVersion ==
  /\ pc = "version" /\ Take("version")
  /\ pc' = "root"
  /\ UNCHANGED <<input, encoder, dirPath, entry, visited>>

(* The ENTRY of the root, or of the FILENAME that was read.                *)
(* Mutant: the attributes of the entry before are not forgotten.           *)
NewEntryKeeps(p, kind) == [path |-> p, kind |-> kind, xattrs |-> entry.xattrs]
NewEntry(p, kind) == [path |-> p, kind |-> kind, xattrs |-> {}]
DecodeEntry ==
  /\ pc \in {"root", "child"} /\ Take("entry")
  /\ entry' = NewEntry(entry.path, NextItem.kind)
  /\ pc' = "content"
  /\ UNCHANGED <<input, encoder, dirPath, visited>>

(* collectMeta. *)
DecodeXattr ==
  /\ pc = "content" /\ Take("xattr")
  /\ entry' = [entry EXCEPT !.xattrs = @ \union {NextItem.attr}]
  /\ UNCHANGED <<input, pc, encoder, dirPath, visited>>

(* OnDir, before the first item of the directory is looked at.             *)
DecodeDir ==
  /\ pc = "content" /\ entry.kind = "dir" /\ NextItem.item # "xattr"
  /\ visited' = Visit(entry, 0)
  /\ dirPath' = entry.path
  /\ pc' = "dir"
  /\ UNCHANGED <<input, encoder, pos, entry>>

(* OnSymlink and OnFile, which gets as many bytes as the payload has.      *)
DecodeLeaf ==
  /\ pc = "content"
  /\ \/ entry.kind = "link" /\ Take("symlink")
     \/ entry.kind = "file" /\ Take("payload")
  /\ visited' = Visit(entry, NextItem.size)
  /\ pc' = "dir"
  /\ UNCHANGED <<input, encoder, dirPath, entry>>

DecodeName ==
  /\ pc = "dir" /\ Take("filename")
  /\ entry' = [entry EXCEPT !.path = Append(dirPath, NextItem.name)]
  /\ pc' = "child"
  /\ UNCHANGED <<input, encoder, dirPath, visited>>

(* The end of a directory: back in its parent.                             *)
(* Mutant: still in the directory.                                         *)
StillHere(p) == p
ParentOf(p) == Front(p)
DecodeGoodbye ==
  /\ pc = "dir" /\ Take("goodbye")
  /\ IF dirPath = <<>> THEN pc' = "done" /\ UNCHANGED dirPath
     ELSE dirPath' = ParentOf(dirPath) /\ UNCHANGED pc
  /\ UNCHANGED <<input, encoder, entry, visited>>

Over == pc = "done" /\ UNCHANGED vars

Next ==
  \/ SkipChild \/ EncodeLeaf \/ EncodeDir \/ EncodeGoodbye
  \/ DecodeVersion \/ DecodeEntry \/ DecodeXattr \/ DecodeDir \/ DecodeLeaf
  \/ DecodeName \/ DecodeGoodbye
  \/ Over

Spec == Init /\ [][Next]_vars
-----------------------------------------------------------------------------
(* Types: the encoder and the decoder are always at a path of the tree,    *)
(* and the decoder never asks for an item past the last one.               *)
TypeOK ==
  /\ tree \in Trees /\ lines \in Excludes
  /\ pc \in {"encode", "version", "root", "dir", "child", "content", "done"}
  /\ \A i \in DOMAIN stack : stack[i].path \in DOMAIN tree
  /\ n = Sizes(archive) /\ pos \in 0 .. Len(archive)
  /\ pos = Len(archive) => pc = "done"
  /\ dirPath \in DOMAIN tree /\ tree[dirPath].kind = "dir"
  /\ entry.path \in DOMAIN tree
  /\ \A i \in DOMAIN visited : visited[i].path \in DOMAIN tree

(* How patterns are to be read: a path is cut into as many pieces as the   *)
(* pattern has segments, where only "**" takes other than one name.        *)
Covers(segs, p) ==
  \E cut \in [0 .. Len(segs) -> 0 .. Len(p)] :
    /\ cut[0] = 0 /\ cut[Len(segs)] = Len(p)
    /\ \A i \in 1 .. Len(segs) :
         IF segs[i] = AnyDepth THEN cut[i - 1] <= cut[i]
         ELSE cut[i] = cut[i - 1] + 1 /\ p[cut[i]] \in segs[i]
Hits(line, p) ==
  /\ line.globs # <<>>
  /\ line.trailing => tree[p].kind = "dir"
  /\ IF line.leading \/ Len(line.globs) > 1 THEN Covers(line.globs, p)
     ELSE Covers(<<AnyDepth>> \o line.globs, p)
LeftOut(p) ==
  \E i \in DOMAIN lines : /\ ~lines[i].negated /\ Hits(lines[i], p)
                          /\ \A j \in i + 1 .. Len(lines) : ~Hits(lines[j], p)

(* The last line that applies to a path decides, and a line applies as the *)
(* package comment has it: a bare name at any depth, one with a slash from *)
(* the root, "**" for any number of names, none included.                  *)
LastLineDecides ==
  pc = "encode" /\ Len(stack) = 1 /\ Top.rows = <<>> =>
    \A p \in DOMAIN tree \ {<<>>} : Excluded(p, tree[p].kind = "dir") <=> LeftOut(p)

(* What is restored is what was to be backed up: each file, directory and  *)
(* link that no line leaves out, alone or with a directory it is in, once, *)
(* with its own size and attributes, after the directory it is in and      *)
(* after what sorts before it.                                             *)
ToBackUp ==
  {p \in DOMAIN tree :
     /\ tree[p].kind # "special"
     /\ \A q \in DOMAIN tree : IsPrefix(q, p) /\ q # <<>> => ~LeftOut(q)}
Before(p, q) ==
  \/ IsStrictPrefix(p, q)
  \/ \E i \in DOMAIN p \intersect DOMAIN q :
       p[i] < q[i] /\ SubSeq(p, 1, i - 1) = SubSeq(q, 1, i - 1)
DecodesWhatWasThere ==
  pc = "done" =>
    /\ {visited[i].path : i \in DOMAIN visited} = ToBackUp
    /\ \A i \in DOMAIN visited :
         LET v == visited[i]
         IN /\ v.kind = tree[v.path].kind /\ v.xattrs = tree[v.path].xattrs
            /\ v.kind # "dir" => v.size = tree[v.path].size
    /\ \A i, j \in DOMAIN visited : i < j => Before(visited[i].path, visited[j].path)

(* A reader that does not walk the archive finds every child in its        *)
(* directory's table: a row leads back to the child's FILENAME, the rows   *)
(* are in the order of their hashes and share all bytes of the children    *)
(* between them, and the tail leads to the directory's ENTRY.              *)
Start(i) == Sizes(SubSeq(archive, 1, i - 1))
ItemAt(offset) == CHOOSE i \in DOMAIN archive : Start(i) = offset
TablesLead ==
  pc = "version" =>
    \A g \in DOMAIN archive : archive[g].item = "goodbye" =>
      LET table == archive[g]
          rows == table.rows
          here == ItemAt(Start(g) - table.tail.offset)
          first == CHOOSE i \in here + 1 .. g :
                     /\ archive[i].item # "xattr"
                     /\ \A j \in here + 1 .. i - 1 : archive[j].item = "xattr"
          From(row) == Start(g) - row.offset
          Spans(row) == From(row) .. From(row) + row.size - 1
      IN /\ archive[here].item = "entry" /\ archive[here].kind = "dir"
         /\ table.tail.size = Size(table)
         /\ \A i \in DOMAIN rows :
              LET child == archive[ItemAt(From(rows[i]))]
              IN child.item = "filename" /\ Hash[child.name] = rows[i].hash
         /\ \A i, j \in DOMAIN rows :
              i < j => /\ rows[i].hash <= rows[j].hash
                       /\ Spans(rows[i]) \intersect Spans(rows[j]) = {}
         /\ UNION {Spans(rows[i]) : i \in DOMAIN rows} = Start(first) .. Start(g) - 1
=============================================================================
