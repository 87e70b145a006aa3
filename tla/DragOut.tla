------------------------------ MODULE DragOut ------------------------------
(***************************************************************************)
(* DragOut.swift: a row of the browser is dragged out as a file promise,   *)
(* and a drop restores its path into a scratch directory from which the    *)
(* system copies it.  The Swift code up to and after the await of          *)
(* model.restore runs on the main actor; pbmac, which restores entry by    *)
(* entry meanwhile, and the system, which copies after completion, are     *)
(* processes of their own.                                                 *)
(*                                                                         *)
(* Paths are sequences of names; <<>> is the scratch directory itself.     *)
(***************************************************************************)
EXTENDS Naturals, Sequences, FiniteSets, SequencesExt

CONSTANTS Drags,     \* the rows dragged, each with a UUID of its own
          Archives,
          Names,
          Entries,   \* Entries[a]: the paths in each archive, in its order
          None       \* nothing is selected

VARIABLES
  selected,  \* selectedSnapshot and selectedArchive
  phase,     \* of each drag
  row,       \* the archive the dragged row was listed in, and its path
  from,      \* the archive that pbmac restores from
  todo,      \* the entries that pbmac still has to write
  scratch,   \* pbmac-drag-<uuid>: the paths in it, {} if it is not there
  url,       \* what completion gets: a path in the scratch directory
  got        \* what the system has copied to where the row was dropped

vars == <<selected, phase, row, from, todo, scratch, url, got>>

Row == [archive : Archives, path : Seq(Names)]
Above(p) == {SubSeq(p, 1, i) : i \in 0 .. Len(p)}
Below(S, p) == {q \in S : IsPrefix(p, q)}

Init ==
  /\ selected \in Archives
  /\ phase = [d \in Drags |-> "idle"] /\ row = [d \in Drags |-> None]
  /\ from = [d \in Drags |-> None]
  /\ todo = [d \in Drags |-> <<>>] /\ scratch = [d \in Drags |-> {}]
  /\ url = [d \in Drags |-> <<>>] /\ got = [d \in Drags |-> {}]

At(d, name) == phase[d] = name
Go(d, name) == phase' = [phase EXCEPT ![d] = name]

(* A selection by the user, a link or a reload of the sidebar.             *)
Select(a) ==
  /\ selected' = a /\ a # selected
  /\ UNCHANGED <<phase, row, from, todo, scratch, url, got>>

(* itemProvider, and the drop that calls its load handler.                 *)
Drag(d) ==
  /\ At(d, "idle") /\ selected # None
  /\ \E p \in Range(Entries[selected]) :
       row' = [row EXCEPT ![d] = [archive |-> selected, path |-> p]]
  /\ Go(d, "dragged")
  /\ UNCHANGED <<selected, from, todo, scratch, url, got>>

Drop(d) ==
  /\ At(d, "dragged")
  /\ Go(d, "dropped")
  /\ UNCHANGED <<selected, row, from, todo, scratch, url, got>>

(* Extractor.want: the path, what it is in, and what is in it.             *)
Wanted(a, path) ==
  SelectSeq(Entries[a], LAMBDA q : IsPrefix(q, path) \/ IsPrefix(path, q))

(* restoreToTemp up to its await, with model.restore: the scratch          *)
(* directories of other drags go, a new one is made, and pbmac is started  *)
(* for the archive that is selected now.  (Each removal may fail; one that *)
(* stops half-way is not kept apart.)                                      *)
Begin(d) ==
  /\ At(d, "dropped")
  /\ \E removed \in SUBSET (Drags \ {d}), made \in BOOLEAN :
       /\ scratch' = [e \in Drags |-> CASE e = d /\ made -> {<<>>}
                                       [] e = d /\ ~made -> {}
                                       [] e \in removed -> {}
                                       [] OTHER -> scratch[e]]
       /\ IF made /\ selected # None
          THEN /\ from' = [from EXCEPT ![d] = selected]
               /\ todo' = [todo EXCEPT ![d] = Wanted(selected, row[d].path)]
               /\ Go(d, "restoring")
          ELSE Go(d, "failed") /\ UNCHANGED <<from, todo>>
  /\ UNCHANGED <<selected, row, url, got>>

(* The Extractor makes every directory on the way to an entry.             *)
Write(d) ==
  /\ At(d, "restoring") /\ todo[d] # <<>>
  /\ scratch' = [scratch EXCEPT ![d] = @ \union Above(Head(todo[d]))]
  /\ todo' = [todo EXCEPT ![d] = Tail(@)]
  /\ UNCHANGED <<selected, phase, row, from, url, got>>

(* pbmac ends with an error, as it may at any point.                       *)
RestoreFails(d) ==
  /\ At(d, "restoring")
  /\ Go(d, "failed")
  /\ UNCHANGED <<selected, row, from, todo, scratch, url, got>>

(* Past the await: `expected`, or the first entry of the row's name.       *)
Located(d) ==
  LET path == row[d].path
      named == {q \in scratch[d] \ {<<>>} : Last(q) = Last(path)}
  IN IF path \in scratch[d] \/ named = {} THEN {path} ELSE named
Locate(d) ==
  /\ At(d, "restoring") /\ todo[d] = <<>>
  /\ \E p \in Located(d) : url' = [url EXCEPT ![d] = p]
  /\ Go(d, "located")
  /\ UNCHANGED <<selected, row, from, todo, scratch, got>>

(* completion: the system copies what is there, or fails if nothing is.    *)
Copy(d) ==
  /\ At(d, "located")
  /\ IF url[d] \in scratch[d]
     THEN got' = [got EXCEPT ![d] = Below(scratch[d], url[d])] /\ Go(d, "delivered")
     ELSE Go(d, "failed") /\ UNCHANGED got
  /\ UNCHANGED <<selected, row, from, todo, scratch, url>>

Over == (\A d \in Drags : phase[d] \in {"delivered", "failed"}) /\ UNCHANGED vars

Next ==
  \/ \E a \in Archives \union {None} : Select(a)
  \/ \E d \in Drags : \/ Drag(d) \/ Drop(d) \/ Begin(d) \/ Write(d)
                      \/ RestoreFails(d) \/ Locate(d) \/ Copy(d)
  \/ Over

Spec == Init /\ [][Next]_vars
-----------------------------------------------------------------------------
(* A drop that went through, of a row whose own archive was still the one  *)
(* selected, has delivered the item and everything in it: "Reclaim scratch *)
(* dirs left by earlier drags" leaves those of other drags under way alone.*)
DropIsWhole ==
  \A d \in Drags :
    At(d, "delivered") /\ from[d] = row[d].archive =>
      got[d] = Below(Range(Entries[from[d]]), row[d].path)
=============================================================================
