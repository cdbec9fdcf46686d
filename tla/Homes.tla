------------------------------- MODULE Homes -------------------------------
(***************************************************************************)
(* What rendezvous hashing is for: a set of nodes that changes while many  *)
(* values (agents) look up their node, each at its own pace.               *)
(***************************************************************************)
EXTENDS Hrw

VARIABLES
  nodes,   \* the keys of the nodes in the Hrw
  home,    \* home[v]: the node v was last given, or Nowhere
  seen     \* seen[v]: the nodes there were when it was (no program state)

hvars == <<nodes, home, seen>>

AddNode(k) == nodes' = nodes \cup {k} /\ UNCHANGED <<home, seen>>

RemoveNode(k) == nodes' = nodes \ {k} /\ UNCHANGED <<home, seen>>

\* Get, called with at least one node.
Get(v) ==
  /\ nodes # {}
  /\ \E k \in Top(nodes, v) : home' = [home EXCEPT ![v] = k]
  /\ seen' = [seen EXCEPT ![v] = nodes]
  /\ UNCHANGED nodes

HInit ==
  /\ nodes = {}
  /\ home = [v \in Values |-> Nowhere]
  /\ seen = [v \in Values |-> {}]

HNext == \/ \E k \in Keys : AddNode(k) \/ RemoveNode(k)
         \/ \E v \in Values : Get(v)

HSpec == HInit /\ [][HNext]_hvars

-----------------------------------------------------------------------------
HTypeOK ==
  /\ nodes \subseteq Keys
  /\ home \in [Values -> Keys \cup {Nowhere}]
  /\ seen \in [Values -> SUBSET Keys]

\* What a value was given is the top of what it saw.
HomeIsTop ==
  \A v \in Values : home[v] # Nowhere => home[v] \in Top(seen[v], v)

HInv == HTypeOK /\ HomeIsTop

\* A value is moved only off a node that is gone or onto a node that is new to
\* it, however many nodes came and went since its last lookup: the agents of
\* the servers that stay are not shuffled around.
MovesOnlyWhenNeeded ==
  [][\A v \in Values :
       home[v] # Nowhere /\ home'[v] # home[v] =>
         home[v] \notin nodes \/ home'[v] \notin seen[v]]_hvars

\* A lookup among other nodes, be they more or fewer, gives what was given before,
\* unless one of the two answers is a node that the other lookup did not see.
LookupsAgree ==
  \A v \in Values, k \in Keys :
    /\ home[v] \in nodes /\ k \in seen[v]
    /\ k \in Top(nodes, v)
    => k = home[v]
=============================================================================
