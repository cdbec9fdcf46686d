---------------------------- MODULE SubsetRouter ----------------------------
(***************************************************************************)
(* The subset router: cluster/subset_router.go.  A destination binds a set *)
(* of tags (a map from keys to values) and is to be sent every message     *)
(* whose tags include them.  Bindings are kept in a trie: the tags of a    *)
(* binding, sorted by key, spell the path from the root to the node its    *)
(* destination is kept at.                                                 *)
(*                                                                         *)
(* A node is named by its path.  Route is a breadth-first search, one step *)
(* per node.  Nothing else uses the trie while a search is under way: it   *)
(* has no lock, and its users are sequential.                              *)
(***************************************************************************)
EXTENDS Naturals, Sequences, FiniteSets

CONSTANTS
  TagKeys,     \* a set of numbers: what matters of the keys is their order
  TagValues,
  Local,       \* destinations whose role is local
  Remote,      \* destinations whose role is a peer's
  MaxBinds     \* bound: bindings made

Destinations == Local \cup Remote

\* Maps from some of the keys to values; a Go map has a finite number of entries.
Tags == UNION {[K -> TagValues] : K \in {L \in SUBSET TagKeys : IsFiniteSet(L)}}

ASSUME SubsetRouterAssumption == TagKeys \subseteq Nat /\ MaxBinds \in Nat

VARIABLES
  subscribers,  \* subscribers[p]: the destinations kept at the node with path p
  bound,        \* the bindings made so far (no program state)
  tags,         \* what is being routed
  search,       \* searchSpace: nodes to visit, with the tags left to match
  found,        \* destinations
  at            \* "idle", "searching", or "done"

tvars == <<subscribers, bound, tags, search, found, at>>

-----------------------------------------------------------------------------
\* The numbers in S from the least to the greatest.
Ascending(S) ==
  CHOOSE f \in [1..Cardinality(S) -> S] : \A i, j \in DOMAIN f : i < j => f[i] < f[j]

\* linearizeTags: the entries of a map, sorted by key.
LinearizeTags(b) ==
  LET key == Ascending(DOMAIN b) IN [i \in DOMAIN key |-> <<key[i], b[key[i]]>>]

\* The nodes AddBind finds or makes.
Path(b) == {SubSeq(LinearizeTags(b), 1, n) : n \in 0..Cardinality(DOMAIN b)}

AddBind(dest, b) ==
  /\ at = "idle" /\ Len(bound) < MaxBinds
  /\ LET leaf  == LinearizeTags(b)
         known == DOMAIN subscribers
     IN subscribers' = [p \in known \cup Path(b) |->
          (IF p \in known THEN subscribers[p] ELSE <<>>)
            \o (IF p = leaf THEN <<dest>> ELSE <<>>)]
  /\ bound' = Append(bound, [dest |-> dest, tags |-> b])
  /\ UNCHANGED <<tags, search, found, at>>

\* Route begins at the root.
Route(t) ==
  /\ at = "idle"
  /\ at' = "searching" /\ tags' = t /\ found' = <<>>
  /\ search' = <<[node |-> <<>>, check |-> LinearizeTags(t)]>>
  /\ UNCHANGED <<subscribers, bound>>

\* A variant: the tag after the one that was matched is passed over as well.
AfterNext(check, i) == SubSeq(check, i + 2, Len(check))

\* check[index+1:]
After(check, i) == SubSeq(check, i + 1, Len(check))

\* The subnodes of an item that its tags lead to, in the order of the tags.
Onward(item) ==
  LET next(i) == Append(item.node, item.check[i])
      hits    == {i \in DOMAIN item.check : next(i) \in DOMAIN subscribers}
      order   == Ascending(hits)
  IN  [j \in DOMAIN order |->
         [node |-> next(order[j]), check |-> After(item.check, order[j])]]

Visit ==
  /\ at = "searching" /\ search # <<>>
  /\ found' = found \o subscribers[Head(search).node]
  /\ search' = Tail(search) \o Onward(Head(search))
  /\ UNCHANGED <<subscribers, bound, tags, at>>

Return ==
  /\ at = "searching" /\ search = <<>>
  /\ at' = "done"
  /\ UNCHANGED <<subscribers, bound, tags, search, found>>

\* The caller has used the result.
Used ==
  /\ at = "done"
  /\ at' = "idle"
  /\ UNCHANGED <<subscribers, bound, tags, search, found>>

TInit ==
  /\ subscribers = [p \in {<<>>} |-> <<>>]
  /\ bound = <<>> /\ tags = <<>> /\ search = <<>> /\ found = <<>>
  /\ at = "idle"

TNext == \/ \E d \in Destinations, b \in Tags : AddBind(d, b)
         \/ \E t \in Tags : Route(t)
         \/ Visit \/ Return \/ Used

TSpec == TInit /\ [][TNext]_tvars

-----------------------------------------------------------------------------
AnyAt(p) == subscribers[p] # <<>>                               \* a variant

\* A node is worth listing when one of its subscribers is local.
LocalAt(p) == \E i \in DOMAIN subscribers[p] : subscribers[p][i] \in Local

\* The map the path of a node spells.
Spelled(p) == [k \in {p[i][1] : i \in DOMAIN p} |->
                 (CHOOSE e \in {p[i] : i \in DOMAIN p} : e[1] = k)[2]]

\* ListLocalBinding visits every node of the trie once.
ListLocalBinding == {Spelled(p) : p \in {q \in DOMAIN subscribers : LocalAt(q)}}

-----------------------------------------------------------------------------
Included(b, t) == DOMAIN b \subseteq DOMAIN t /\ \A k \in DOMAIN b : b[k] = t[k]

\* Route finds each destination as often as it has a binding that the tags
\* include: none is missed, none is found twice along two paths, and none whose
\* binding asks for another value or for a tag that is not there.
RoutesToSubsets ==
  at = "done" => \A d \in Destinations :
    Cardinality({i \in DOMAIN found : found[i] = d})
      = Cardinality({i \in DOMAIN bound :
                       bound[i].dest = d /\ Included(bound[i].tags, tags)})

\* What is listed for the cluster is what local destinations have bound.
ListsLocalBindings ==
  ListLocalBinding
    = {bound[i].tags : i \in {j \in DOMAIN bound : bound[j].dest \in Local}}
=============================================================================
