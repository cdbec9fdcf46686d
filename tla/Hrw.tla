-------------------------------- MODULE Hrw --------------------------------
(***************************************************************************)
(* Rendezvous hashing: util/hash.go.  An agent hashes its own id together  *)
(* with the key of each server and goes to the server with the highest     *)
(* hash.                                                                   *)
(*                                                                         *)
(* A Hrw is the set of keys of its nodes (a node is found by its HashKey,  *)
(* and HashWeight is used nowhere).                                        *)
(***************************************************************************)
EXTENDS Naturals

CONSTANTS
  Keys,      \* the keys of the nodes: server ids
  Values,    \* what is looked up: agent ids
  Hash,      \* Hash[k][v]: murmur3.Sum32 of k followed by v
  Nowhere    \* no node

ASSUME HrwAssumption ==
  /\ Hash \in [Keys -> [Values -> Nat]]
  /\ Nowhere \notin Keys

\* Two nodes never tie: 32-bit hashes of different keys may, but seldom do.
ASSUME HashInjective ==
  \A v \in Values, j, k \in Keys : Hash[j][v] = Hash[k][v] => j = k

\* A variant: the key is left out of what is hashed, so all nodes tie.
AnyNode(S, v) == S

\* What Get may return: a node no other has a higher hash than.  sort.Slice is
\* not stable and the map is visited in any order, so ties go either way; on an
\* empty set there is none, and Get panics.
Top(S, v) == {k \in S : \A j \in S : Hash[j][v] <= Hash[k][v]}
=============================================================================
