----------------------------- MODULE MCDragOut -----------------------------
(* A folder of two files and a file, and an archive of the empty folder.   *)
EXTENDS DragOut, TLC

CONSTANTS site, draft, x, y, z

MCEntries == site :> <<<<x>>, <<x, y>>, <<x, z>>, <<y>>>> @@ draft :> <<<<x>>>>
=============================================================================
