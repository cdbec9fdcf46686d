----------------------------- MODULE MCCluster -----------------------------
(***************************************************************************)
(* Instances of Cluster for TLC.                                           *)
(***************************************************************************)
EXTENDS Cluster

CONSTANTS s1, s2, s3

\* Two servers that take each other for failed; the third may have seen both.
Pair == {<<s1, s2>>, <<s2, s1>>}
=============================================================================
