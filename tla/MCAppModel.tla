----------------------------- MODULE MCAppModel -----------------------------
(* Instances of AppModel for TLC: one snapshot with a .pxar and another    *)
(* archive, one with a .pxar only, one with nothing that can be browsed.   *)
EXTENDS AppModel, TLC

CONSTANTS s1, s2, s3, pxar, conf, t1, t2

MCArchivesOf == s1 :> <<conf, pxar>> @@ s2 :> <<pxar>> @@ s3 :> <<conf>>
MCListings == {{s1}, {s1, s2, s3}}
=============================================================================
