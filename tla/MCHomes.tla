------------------------------ MODULE MCHomes ------------------------------
(***************************************************************************)
(* An instance of Homes for TLC: three nodes that two values rank in       *)
(* opposite orders.                                                        *)
(***************************************************************************)
EXTENDS Homes, TLC

CONSTANTS k1, k2, k3, v1, v2

MCHash == (k1 :> (v1 :> 1 @@ v2 :> 3)) @@ (k2 :> (v1 :> 2 @@ v2 :> 2))
             @@ (k3 :> (v1 :> 3 @@ v2 :> 1))
=============================================================================
