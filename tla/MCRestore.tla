----------------------------- MODULE MCRestore -----------------------------
(* Instances of Restore for TLC: a directory with files in it and next to  *)
(* it, two equal files, a link, and an empty file.                         *)
EXTENDS Restore

CONSTANTS x, y

Sub == <<"sub">>
SubA == <<"sub", "a">>
SubB == <<"sub", "b">>
Top == <<"top">>
Lnk == <<"lnk">>
MCPaths == {<<>>, Sub, SubA, SubB, Top, Lnk}

At(item, path, size) == [item |-> item, path |-> path, size |-> size]
D(v) == [item |-> "data", value |-> v]
Bye(path) == At("goodbye", path, 0)

(* The whole archive in one chunk, in chunks of which two are the same, and *)
(* in chunks that end inside a payload.                                    *)
Head1 == <<At("version", <<>>, 0), At("dir", <<>>, 0), At("link", Lnk, 0), At("dir", Sub, 0)>>
FileA == <<At("file", SubA, 2)>>
XY == <<D(x), D(y)>>
FileB == <<At("file", SubB, 0), Bye(Sub)>>
FileTop == <<At("file", Top, 2)>>
End == <<Bye(<<>>)>>
MCSnapshots ==
  {<<Head1 \o FileA \o XY \o FileB \o FileTop \o XY \o End>>,
   <<Head1 \o FileA, XY, FileB \o FileTop, XY, End>>,
   <<Head1 \o FileA \o <<D(x)>>, <<D(y)>> \o FileB, FileTop \o <<D(x)>>, <<D(y)>> \o End>>}

Old == Entry("file", <<D(y)>>, "system")
Dir == Entry("dir", <<>>, "system")
OldLink == Entry("link", <<>>, "system")
None == [p \in MCPaths |-> Absent]
MCTargets ==
  {None, [None EXCEPT ![<<>>] = Dir, ![Top] = Old, ![Lnk] = Old],
   [None EXCEPT ![<<>>] = Dir, ![Sub] = Dir, ![SubB] = Old, ![Lnk] = Dir],
   [None EXCEPT ![<<>>] = Dir, ![Sub] = Old],
   [None EXCEPT ![<<>>] = Dir, ![Sub] = Dir, ![SubA] = Old, ![Top] = Old, ![Lnk] = OldLink]}
=============================================================================
