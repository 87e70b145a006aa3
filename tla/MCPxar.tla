------------------------------- MODULE MCPxar -------------------------------
(* Three names, the last two with the same hash, in trees of depth three:  *)
(* nested and empty directories, what is skipped, and attributes at any    *)
(* kind of entry; lists of up to three lines, the first a broad one.       *)
EXTENDS Pxar, TLC

MCNameLen == 1 :> 3 @@ 2 :> 1 @@ 3 :> 6
MCHash == 1 :> 9 @@ 2 :> 4 @@ 3 :> 4

N(kind, size, xattrs) == [kind |-> kind, size |-> size, xattrs |-> xattrs]
Dir == N("dir", 0, {})
Deep ==
  <<>> :> N("dir", 0, {5})
    @@ <<1>> :> Dir @@ <<1, 1>> :> N("dir", 0, {5, 8})
    @@ <<1, 1, 2>> :> N("file", 2, {8}) @@ <<1, 1, 3>> :> N("link", 4, {})
    @@ <<1, 3>> :> N("file", 0, {})
    @@ <<2>> :> N("special", 0, {})
    @@ <<3>> :> N("file", 7, {5, 8})
Wide ==
  <<>> :> Dir
    @@ <<1>> :> N("link", 3, {5})
    @@ <<2>> :> Dir @@ <<2, 1>> :> Dir @@ <<2, 2>> :> N("file", 1, {5}) @@ <<2, 3>> :> Dir
    @@ <<2, 3, 1>> :> N("file", 3, {})
    @@ <<3>> :> N("dir", 0, {8})
MCTrees == {Deep, Wide, <<>> :> Dir}

L(negated, leading, globs, trailing) ==
  [negated |-> negated, leading |-> leading, globs |-> globs, trailing |-> trailing]
Globs == {<<>>, <<{1}>>, <<Names>>, <<{2, 3}>>, <<AnyDepth>>, <<{1}, Names>>, <<Names, {3}>>,
          <<AnyDepth, {1}>>, <<{1}, AnyDepth, {2}>>, <<AnyDepth, {1, 3}, AnyDepth, {2, 3}>>}
Lines == {L(FALSE, leading, globs, trailing) :
            leading \in BOOLEAN, globs \in Globs, trailing \in BOOLEAN}
           \union {L(TRUE, FALSE, globs, FALSE) : globs \in Globs}
Broad == {L(FALSE, FALSE, <<Names>>, FALSE), L(FALSE, TRUE, <<AnyDepth>>, TRUE),
          L(FALSE, FALSE, <<{1, 2}>>, FALSE), L(FALSE, TRUE, <<{2, 3}>>, FALSE),
          L(TRUE, FALSE, <<{1, 3}>>, TRUE), L(TRUE, FALSE, <<{1}, AnyDepth>>, FALSE)}
MCExcludes ==
  {<<>>} \union {<<l>> : l \in Lines} \union {<<k, l>> : k \in Broad, l \in Lines}
    \union {<<k, l, m>> : k, m \in Broad, l \in {l \in Lines : l.negated}}
=============================================================================
