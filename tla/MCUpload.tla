------------------------------ MODULE MCUpload ------------------------------
(* Instances of Upload for TLC: archives that repeat chunks, share chunks  *)
(* with other archives, and take two append batches, the last full or not. *)
EXTENDS Upload, TLC

CONSTANTS d1, d2, d3, b1, b2, k1

MCData == {d1, d2, d3}
MCSize == d1 :> 1 @@ d2 :> 2 @@ d3 :> 1
MCSources == {<<d2, d1, d2>>, <<d3, d1, d3, d2>>}
MCSourcesSmall == {<<d2, d1, d2>>, <<d3>>}
MCSymmetry == Permutations(Backups)
=============================================================================
