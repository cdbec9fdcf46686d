------------------------------- MODULE Cluster -------------------------------
(***************************************************************************)
(* Several servers: how they find one another (cluster/discover.go), what  *)
(* memberlist's callbacks make of their tables of servers                  *)
(* (cluster/gossip.go), and what a restart does to them (cmd/server.go).   *)
(*                                                                         *)
(* A server is reduced to its rows for servers and its view of the         *)
(* cluster.  That a callback's message passes the router and the storage   *)
(* loop before it is saved is left to module Server: here it is saved at   *)
(* once.                                                                   *)
(*                                                                         *)
(* memberlist is external.  A failed server is detected some time after it *)
(* failed, unless it is back by then, and a server that is cut off for     *)
(* some time is taken for failed.  A push/pull exchange shows two servers  *)
(* each other's members, also those that failed and are not yet detected,  *)
(* which calls NotifyJoin, and then each of them calls MergeRemoteState    *)
(* with what the other sent.  An orderly shutdown is a crash that is       *)
(* detected soon.                                                          *)
(***************************************************************************)
EXTENDS Naturals, FiniteSets

CONSTANTS
  Servers,
  MaxCrashes,    \* bound: crashes of servers
  MaxMistakes,   \* bound: how often a server that runs is taken for failed
  MaxTroubles,   \* bound: both together
  Crashable,     \* bound: the servers that may crash
  Mistakable,    \* bound: <<s, t>>: s may take t for failed
  MaxMerging     \* bound: states that push/pull brought and are yet to be merged

ASSUME ClusterAssumption ==
  /\ MaxCrashes \in Nat /\ MaxMistakes \in Nat /\ MaxTroubles \in Nat
  /\ MaxMerging \in Nat

VARIABLES
  up,        \* the servers that run
  members,   \* members[s]: the servers memberlist lists as alive at s
  joinList,  \* joinList[s]: the servers a search found that s has yet to join
  merging,   \* <<s, t, status>>: s has yet to merge t's row for itself
  row,       \* row[s][t]: the status that s's table has for t
  crashes,
  mistakes,
  late       \* <<s, t>>: s merged the state of t when t had left

vars == <<up, members, joinList, merging, row, crashes, mistakes, late>>

\* The troubles that nothing forces to happen are bounded in number.
Quota == crashes + mistakes < MaxTroubles

-----------------------------------------------------------------------------
(* Start, crash, detection.                                                *)

\* Variants: the own row is saved before all are marked; none is marked.
MarkedLast(s) == [t \in Servers |-> IF row[s][t] = "none" /\ t # s THEN "none"
                                                                  ELSE "unknown"]
Unmarked(s)   == [row[s] EXCEPT ![s] = "alive"]

\* MarkServersUnknown, then SaveServer of the server itself.
Marked(s) == [t \in Servers |-> IF t = s THEN "alive"
                                ELSE IF row[s][t] = "none" THEN "none" ELSE "unknown"]

\* serverCmd up to StartCluster.
Start(s) ==
  /\ s \notin up
  /\ up' = up \cup {s}
  /\ members' = [members EXCEPT ![s] = {s}]
  /\ row' = [row EXCEPT ![s] = Marked(s)]
  /\ UNCHANGED <<joinList, merging, crashes, mistakes, late>>

Crash(s) ==
  /\ s \in up \cap Crashable /\ crashes < MaxCrashes /\ Quota
  /\ crashes' = crashes + 1
  /\ up' = up \ {s}
  /\ members' = [members EXCEPT ![s] = {}]
  /\ joinList' = [joinList EXCEPT ![s] = {}]
  /\ merging' = {m \in merging : m[1] # s}
  /\ late' = {l \in late : l[1] # s}
  /\ UNCHANGED <<row, mistakes>>

\* NotifyLeave at s.
Leave(s, t) ==
  /\ members' = [members EXCEPT ![s] = @ \ {t}]
  /\ row' = [row EXCEPT ![s][t] = "offline"]

Detect(s, t) ==
  /\ s \in up /\ t \in members[s] \ up
  /\ Leave(s, t)
  /\ UNCHANGED <<up, joinList, merging, crashes, mistakes, late>>

Mistake(s, t) ==
  /\ s \in up /\ t \in (members[s] \cap up) \ {s}
  /\ <<s, t>> \in Mistakable /\ mistakes < MaxMistakes /\ Quota
  /\ mistakes' = mistakes + 1
  /\ Leave(s, t)
  /\ UNCHANGED <<up, joinList, merging, crashes, late>>

-----------------------------------------------------------------------------
(* Discovery and push/pull.                                                *)

\* A variant: the size of the cluster is compared with the wrong number.
AloneOfTwo(s) == Cardinality(members[s]) < 1

\* The search is left out when mlist.NumMembers() > 1.
Alone(s) == Cardinality(members[s]) <= 1

\* A variant: the own advertisement is not left out.
Advertised(s) == up

\* The servers that answer a search, the own answer left out.
Others(s) == up \ {s}

\* An SSDP search finds some of them.
Search(s, found) ==
  /\ s \in up /\ Alone(s) /\ joinList[s] = {}
  /\ found # {} /\ found \subseteq Others(s)
  /\ joinList' = [joinList EXCEPT ![s] = found]
  /\ UNCHANGED <<up, members, merging, row, crashes, mistakes, late>>

\* The servers that s has found to have failed, or has taken for failed.
Buried(s) == {t \in Servers : row[s][t] = "offline" \/ <<s, t>> \in late}

\* The members that s learns of from t: one may have failed without t knowing yet,
\* and one that s took for failed says that it is alive.
Learned(s, t) == (members[t] \ members[s]) \ (Buried(s) \ up)

\* NotifyJoin saves a member that is new as alive.
Exchange(s, t) ==
  LET New(x) == CASE x = s -> Learned(s, t)
                  [] x = t -> Learned(t, s)
                  [] OTHER -> {}
  IN /\ Cardinality(merging) + 2 <= MaxMerging
     /\ members' = [x \in Servers |-> members[x] \cup New(x)]
     /\ row' = [x \in Servers |-> [y \in Servers |->
                  IF y \in New(x) THEN "alive" ELSE row[x][y]]]
     /\ merging' = merging \cup {<<s, t, row[t][t]>>, <<t, s, row[s][s]>>}
     /\ late' = {l \in late : l[2] \notin New(l[1])}

\* mlist.Join: the servers found are contacted one after the other.
Join(s, t) ==
  /\ t \in joinList[s]
  /\ joinList' = [joinList EXCEPT ![s] = @ \ {t}]
  /\ IF t \in up THEN Exchange(s, t) ELSE UNCHANGED <<members, row, merging, late>>
  /\ UNCHANGED <<up, crashes, mistakes>>

\* memberlist's own exchange with a member it picks.
PushPull(s, t) ==
  /\ s \in up /\ t \in (members[s] \cap up) \ {s}
  /\ Exchange(s, t)
  /\ UNCHANGED <<up, joinList, crashes, mistakes>>

\* MergeRemoteState: t's row for itself is saved, whether or not t is a member.
Merge(s, t, status) ==
  /\ merging' = merging \ {<<s, t, status>>}
  /\ row' = [row EXCEPT ![s][t] = status]
  /\ late' = IF t \in members[s] THEN late ELSE late \cup {<<s, t>>}
  /\ UNCHANGED <<up, members, joinList, crashes, mistakes>>

-----------------------------------------------------------------------------
\* No server has ever run.
Init ==
  /\ up = {} /\ crashes = 0 /\ mistakes = 0
  /\ members = [s \in Servers |-> {}]
  /\ joinList = [s \in Servers |-> {}]
  /\ merging = {} /\ late = {}
  /\ row = [s \in Servers |-> [t \in Servers |-> "none"]]

Next ==
  \/ \E s \in Servers :
       \/ Start(s) \/ Crash(s)
       \/ \E found \in SUBSET Servers : Search(s, found)
       \/ \E t \in Servers : Detect(s, t) \/ Mistake(s, t) \/ Join(s, t) \/ PushPull(s, t)
  \/ \E m \in merging : Merge(m[1], m[2], m[3])

\* memberlist's exchanges by which a server learns of another.
Spread(s) ==
  \E t \in Servers : PushPull(s, t) /\ Learned(s, t) \cup Learned(t, s) # {}

\* Discovery's timer, memberlist's timers and its goroutines go on: a search
\* finds another server that runs sooner or later, and a member is picked for an
\* exchange sooner or later.  Nothing makes a server start or crash.  While the
\* bound on exchanges is met others wait for their turn, hence strong fairness.
Fairness ==
  /\ WF_vars(\E m \in merging : Merge(m[1], m[2], m[3]))
  /\ \A s \in Servers :
       /\ WF_vars(\E found \in SUBSET Servers : Search(s, found))
       /\ WF_vars(\E t \in Servers : Detect(s, t))
       /\ SF_vars(\E t \in Servers : Join(s, t))
       /\ SF_vars(Spread(s))

Safety == Init /\ [][Next]_vars
Spec == Safety /\ Fairness

-----------------------------------------------------------------------------
Statuses == {"none", "unknown", "alive", "offline"}

CTypeOK ==
  /\ up \subseteq Servers
  /\ members \in [Servers -> SUBSET Servers]
  /\ joinList \in [Servers -> SUBSET Servers]
  /\ \A s \in Servers : s \notin joinList[s]
  /\ merging \subseteq Servers \X Servers \X Statuses
  /\ row \in [Servers -> [Servers -> Statuses]]
  /\ crashes \in 0..MaxCrashes /\ mistakes \in 0..MaxMistakes
  /\ late \subseteq Servers \X Servers

\* A server that runs has itself and every member in its table as alive, although
\* a restart marked all rows unknown and an exchange brings the other's own row:
\* what agents are told are the rows that are alive.
MembersListed ==
  \A s \in up : \A t \in members[s] \cup {s} : row[s][t] = "alive"

\* It has no other server as alive, whatever its table said when it stopped,
\* except one whose state it merged when that server had left already.
NoGhosts ==
  \A s \in up : \A t \in Servers :
    row[s][t] = "alive" => t \in members[s] \cup {s} \/ <<s, t>> \in late

\* The inductive invariant: what is merged is a running server's row for itself,
\* and a server is a member of its own cluster exactly while it runs.
Running ==
  /\ \A s \in Servers : IF s \in up THEN s \in members[s]
                                  ELSE members[s] = {} /\ joinList[s] = {}
  /\ \A s, t \in Servers, status \in Statuses :
       <<s, t, status>> \in merging => s \in up /\ s # t /\ status = "alive"

CInv == CTypeOK /\ Running /\ MembersListed /\ NoGhosts

\* The servers that run find one another, after crashes and after two took each other
\* for failed, be they both alone then or both with a third, and remain in one cluster.
\* (Crashes are bounded, so from some time on it is the same servers that run.)
OneCluster == <>[](\A s \in up : up \subseteq members[s])
=============================================================================
