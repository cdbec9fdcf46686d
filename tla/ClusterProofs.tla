--------------------------- MODULE ClusterProofs ---------------------------
(***************************************************************************)
(* Proofs about Cluster, for any servers and any bounds.  MembersListed is *)
(* not inductive: it needs that what is left to merge says alive, which is *)
(* so because a server's row for itself is alive while it runs.            *)
(***************************************************************************)
EXTENDS Cluster, TLAPS

USE ClusterAssumption

LEMMA InitInvariant == Init => CInv
BY DEF Init, CInv, CTypeOK, Running, MembersListed, NoGhosts, Statuses

LEMMA StartStep ==
  ASSUME CInv, NEW s \in Servers, Start(s) PROVE CInv'
<1> USE DEF CInv, Start, Statuses
<1>1. CTypeOK'
  BY DEF CTypeOK, Marked
<1>2. Running'
  BY DEF CTypeOK, Running
<1>3. MembersListed' /\ NoGhosts'
  BY DEF CTypeOK, Running, MembersListed, NoGhosts, Marked
<1> QED BY <1>1, <1>2, <1>3

LEMMA CrashStep ==
  ASSUME CInv, NEW s \in Servers, Crash(s) PROVE CInv'
<1> USE DEF CInv, Crash, Statuses
<1>1. CTypeOK'
  BY DEF CTypeOK
<1>2. Running'
  BY DEF CTypeOK, Running
<1>3. MembersListed' /\ NoGhosts'
  BY DEF CTypeOK, Running, MembersListed, NoGhosts
<1> QED BY <1>1, <1>2, <1>3

\* A member that is dropped is another server, and its row is marked.
LEMMA LeaveStep ==
  ASSUME CInv, NEW s \in Servers, NEW t \in Servers, s \in up, s # t, Leave(s, t),
         UNCHANGED <<up, joinList, merging, crashes, late>>,
         mistakes' \in 0..MaxMistakes
  PROVE  CInv'
<1> USE DEF CInv, Leave, Statuses
<1>1. CTypeOK'
  BY DEF CTypeOK
<1>2. Running'
  BY DEF CTypeOK, Running
<1>3. MembersListed' /\ NoGhosts'
  BY DEF CTypeOK, Running, MembersListed, NoGhosts
<1> QED BY <1>1, <1>2, <1>3

LEMMA SearchStep ==
  ASSUME CInv, NEW s \in Servers, NEW found \in SUBSET Servers, Search(s, found)
  PROVE  CInv'
BY DEF CInv, Search, Others, CTypeOK, Running, MembersListed, NoGhosts, Statuses

\* A server that is new to another is listed when it is a member, whether or not it
\* still runs; only a server that runs learns of one.
LEMMA ExchangeStep ==
  ASSUME CInv, NEW s \in up, NEW t \in up, s # t, Exchange(s, t),
         UNCHANGED <<up, crashes, mistakes>>,
         joinList' \in [Servers -> SUBSET Servers],
         \A x \in Servers : joinList'[x] \subseteq joinList[x]
  PROVE  CInv'
<1> DEFINE New(x) == CASE x = s -> Learned(s, t)
                       [] x = t -> Learned(t, s)
                       [] OTHER -> {}
<1>1. /\ members' = [x \in Servers |-> members[x] \cup New(x)]
      /\ row' = [x \in Servers |-> [y \in Servers |->
                   IF y \in New(x) THEN "alive" ELSE row[x][y]]]
      /\ merging' = merging \cup {<<s, t, row[t][t]>>, <<t, s, row[s][s]>>}
      /\ late' = {l \in late : l[2] \notin New(l[1])}
  BY DEF Exchange
<1>2. s \in Servers /\ t \in Servers /\ up \subseteq Servers
  BY DEF CInv, CTypeOK
<1>3. \A x \in Servers : /\ New(x) \subseteq Servers
                         /\ x \notin up => New(x) = {}
  BY <1>2 DEF Learned, CInv, CTypeOK
<1> HIDE DEF New
<1> USE DEF CInv, Statuses
<1>4. row[s][s] = "alive" /\ row[t][t] = "alive"
  BY DEF MembersListed
<1>5. CTypeOK'
  BY <1>1, <1>2, <1>3, <1>4 DEF CTypeOK
<1>6. Running'
  BY <1>1, <1>2, <1>3, <1>4 DEF CTypeOK, Running
<1>7. MembersListed' /\ NoGhosts'
  BY <1>1, <1>2, <1>3 DEF CTypeOK, MembersListed, NoGhosts
<1> QED BY <1>5, <1>6, <1>7

LEMMA MergeStep ==
  ASSUME CInv, NEW m \in merging, Merge(m[1], m[2], m[3]) PROVE CInv'
<1>1. /\ m[1] \in Servers /\ m[2] \in Servers /\ m[3] \in Statuses
      /\ m = <<m[1], m[2], m[3]>>
  BY DEF CInv, CTypeOK
<1>2. m[1] \in up /\ m[1] # m[2] /\ m[3] = "alive"
  BY <1>1 DEF CInv, Running
<1> USE <1>1, <1>2 DEF CInv, Merge, Statuses
<1>3. CTypeOK'
  BY DEF CTypeOK
<1>4. Running'
  BY DEF Running
<1>5. MembersListed' /\ NoGhosts'
  BY DEF CTypeOK, MembersListed, NoGhosts
<1> QED BY <1>3, <1>4, <1>5

LEMMA NextInvariant == CInv /\ [Next]_vars => CInv'
<1> SUFFICES ASSUME CInv, [Next]_vars PROVE CInv'
  OBVIOUS
<1>1. ASSUME NEW s \in Servers, NEW t \in Servers, Detect(s, t) PROVE CInv'
  BY <1>1, LeaveStep DEF Detect, CInv, CTypeOK
<1>2. ASSUME NEW s \in Servers, NEW t \in Servers, Mistake(s, t) PROVE CInv'
  <2>1. mistakes' \in 0..MaxMistakes
    BY <1>2 DEF Mistake, CInv, CTypeOK
  <2> QED BY <1>2, <2>1, LeaveStep DEF Mistake
<1>3. ASSUME NEW s \in Servers, NEW t \in Servers, Join(s, t) PROVE CInv'
  <2>1. /\ joinList' \in [Servers -> SUBSET Servers] /\ s # t
        /\ \A x \in Servers : joinList'[x] \subseteq joinList[x]
        /\ s \in up
    BY <1>3 DEF Join, CInv, CTypeOK, Running
  <2>2. CASE t \in up
    BY <1>3, <2>1, <2>2, ExchangeStep DEF Join
  <2>3. CASE t \notin up
    BY <1>3, <2>1, <2>3 DEF Join, CInv, CTypeOK, Running, MembersListed, NoGhosts
  <2> QED BY <2>2, <2>3
<1>4. ASSUME NEW s \in Servers, NEW t \in Servers, PushPull(s, t) PROVE CInv'
  BY <1>4, ExchangeStep DEF PushPull, CInv, CTypeOK
<1>5. CASE UNCHANGED vars
  BY <1>5 DEF vars, CInv, CTypeOK, Running, MembersListed, NoGhosts
<1> QED BY <1>1, <1>2, <1>3, <1>4, <1>5, StartStep, CrashStep, SearchStep, MergeStep
        DEF Next

\* Whatever the number of servers, crashes, mistakes and exchanges under way: the
\* types are right, every member is listed, and there is no ghost in the table that
\* was not merged late.
THEOREM ClusterInvariant == Safety => []CInv
BY InitInvariant, NextInvariant, PTL DEF Safety

\* Among the types: no server joins itself.
THEOREM ClusterTypeCorrect == Safety => []CTypeOK
BY ClusterInvariant, PTL DEF CInv

\* No member is missing among the rows a server sends to agents.
THEOREM MembersAreListed == Safety => []MembersListed
BY ClusterInvariant, PTL DEF CInv

\* Beside its members, these rows hold no server but one whose state was merged
\* when it had left.
THEOREM OthersAreNotListed == Safety => []NoGhosts
BY ClusterInvariant, PTL DEF CInv
=============================================================================
