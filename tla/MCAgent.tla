------------------------------ MODULE MCAgent ------------------------------
(***************************************************************************)
(* Instances of Agent for TLC: two servers, of which A comes first for the *)
(* agent, and a seed that leads to B.  Its URL has no fragment, so its     *)
(* entry in the table is one without an id, which ranks before both.       *)
(***************************************************************************)
EXTENDS Agent, TLC

CONSTANTS A, B, seed, me

MCHash     == (seed :> (me :> 3)) @@ (A :> (me :> 2)) @@ (B :> (me :> 1))
MCTables   == {{}, {A, B}}
MCServerAt == (seed :> B) @@ [s \in {A, B} |-> s]
MCClusters == {{B}, {A, B}}
=============================================================================
