----------------------------- MODULE MCChunker -----------------------------
(* Chunker for TLC, scaled down: a hash of 8 bits and a window of 8 bytes, *)
(* where averages of 4 and 64 give sizes of 1 to 16, from below the        *)
(* window's size, and of 16 to 256.                                        *)
EXTENDS Chunker, TLC

MCByte == {1, 2, 3}
(* All of a window is 1: no bit of its hash.  All is 2: all of its bits.   *)
MCTable == 1 :> {0, 3} @@ 2 :> {0, 1, 2, 4, 6} @@ 3 :> {1, 4, 5, 7}

MCStreams ==
  {<<>>, <<1, 2, 3>>,
   [i \in 1 .. 8 |-> 3],
   [i \in 1 .. 30 |-> 2],
   [i \in 1 .. 270 |-> 1],
   [i \in 1 .. 70 |-> IF i \in 19 .. 30 \/ i > 45 THEN 2 ELSE 1],
   [i \in 1 .. 60 |-> 1 + ((i * i + (i \div 4)) % 3)],
   [i \in 1 .. 60 |-> 1 + ((i * i * i + (i \div 3)) % 3)]}
=============================================================================
