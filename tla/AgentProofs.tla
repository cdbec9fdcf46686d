---------------------------- MODULE AgentProofs ----------------------------
(***************************************************************************)
(* Proofs about rendezvous hashing, for every set of nodes and values and  *)
(* every hash without ties; and about the agent that asks it for a server, *)
(* for any servers, messages and failures.                                 *)
(***************************************************************************)
EXTENDS Homes, Agent, FiniteSetTheorems, WellFoundedInduction, TLAPS

USE HrwAssumption, HashInjective

\* At most one node is at the top.
LEMMA TopUnique ==
  ASSUME NEW S \in SUBSET Keys, NEW v \in Values,
         NEW j \in Top(S, v), NEW k \in Top(S, v)
  PROVE  j = k
<1>1. Hash[j][v] \in Nat /\ Hash[k][v] \in Nat
  BY DEF Top
<1>2. Hash[j][v] = Hash[k][v]
  BY <1>1 DEF Top
<1> QED BY <1>2 DEF Top

\* Some node is at the top: a smallest set of nodes without a top would still have
\* none when a node is taken from it.
LEMMA TopExists ==
  ASSUME NEW S \in SUBSET Keys, IsFiniteSet(S), S # {}, NEW v \in Values
  PROVE  Top(S, v) # {}
<1> DEFINE Topless == {T \in SUBSET S : T # {} /\ Top(T, v) = {}}
<1> SUFFICES ASSUME S \in Topless PROVE FALSE
  OBVIOUS
<1>1. PICK T \in Topless :
        \A U \in Topless : ~(<<U, T>> \in StrictSubsetOrdering(S))
  <2>1. IsWellFoundedOn(StrictSubsetOrdering(S), FiniteSubsetsOf(S))
    BY FS_StrictSubsetOrderingWellFounded
  <2>2. FiniteSubsetsOf(S) = SUBSET S
    BY FS_FiniteSubsetsOfFinite
  <2>3. Topless # {} /\ Topless \subseteq SUBSET S
    OBVIOUS
  <2> HIDE DEF Topless
  <2> QED BY <2>1, <2>2, <2>3, WFMin
<1>2. PICK k \in T : TRUE
  OBVIOUS
<1> DEFINE U == T \ {k}
<1>3. U \notin Topless
  <2>1. U \in SUBSET S /\ T \in SUBSET S /\ U \subseteq T /\ U # T
    BY <1>2
  <2>2. <<U, T>> \in StrictSubsetOrdering(S)
    BY <2>1 DEF StrictSubsetOrdering
  <2> QED BY <1>1, <2>2, Zenon
<1>4. \A j \in T : j \in Keys /\ Hash[j][v] \in Nat
  OBVIOUS
<1>5. CASE U = {}
  BY <1>2, <1>4, <1>5 DEF Top
<1>6. CASE U # {}
  <2>1. PICK j \in U : \A i \in U : Hash[i][v] <= Hash[j][v]
    BY <1>3, <1>6 DEF Top
  <2>2. CASE Hash[k][v] <= Hash[j][v]
    BY <1>4, <2>1, <2>2 DEF Top
  <2>3. CASE ~(Hash[k][v] <= Hash[j][v])
    <3>1. \A i \in T : Hash[i][v] <= Hash[k][v]
      BY <1>2, <1>4, <2>1, <2>3
    <3> QED BY <1>2, <3>1 DEF Top
  <2> QED BY <2>2, <2>3
<1> QED BY <1>5, <1>6

\* Get has exactly one node to return, whatever order sort.Slice and the map leave the
\* nodes in.
THEOREM GetReturnsOne ==
  ASSUME NEW S \in SUBSET Keys, IsFiniteSet(S), S # {}, NEW v \in Values
  PROVE  \E k \in S : Top(S, v) = {k}
<1>1. PICK k \in Top(S, v) : TRUE
  BY TopExists
<1> QED BY <1>1, TopUnique DEF Top

\* What a value was given last is the top of the nodes it was looked up among.
LEMMA HomesInvariant == HSpec => []HInv
<1>1. HInit => HInv
  BY DEF HInit, HInv, HTypeOK, HomeIsTop
<1>2. HInv /\ [HNext]_hvars => HInv'
  <2> SUFFICES ASSUME HInv, [HNext]_hvars PROVE HInv'
    OBVIOUS
  <2> USE DEF HInv
  <2>1. ASSUME NEW k \in Keys, AddNode(k) \/ RemoveNode(k) PROVE HInv'
    BY <2>1 DEF AddNode, RemoveNode, HTypeOK, HomeIsTop
  <2>2. ASSUME NEW v \in Values, Get(v) PROVE HInv'
    <3>1. PICK k \in Top(nodes, v) : home' = [home EXCEPT ![v] = k]
      BY <2>2 DEF Get
    <3>2. k \in Keys
      BY <3>1 DEF Top, HTypeOK
    <3>3. HTypeOK'
      BY <2>2, <3>1, <3>2 DEF Get, HTypeOK
    <3>4. HomeIsTop'
      BY <2>2, <3>1 DEF Get, HTypeOK, HomeIsTop
    <3> QED BY <3>3, <3>4
  <2>3. CASE UNCHANGED hvars
    BY <2>3 DEF hvars, HTypeOK, HomeIsTop
  <2> QED BY <2>1, <2>2, <2>3 DEF HNext
<1> QED BY <1>1, <1>2, PTL DEF HSpec

\* A value is moved only off a node that is gone or onto one that is new to it.
THEOREM MinimalDisruption == HSpec => MovesOnlyWhenNeeded
<1> DEFINE Needed ==
      \A v \in Values : home[v] # Nowhere /\ home'[v] # home[v] =>
                          home[v] \notin nodes \/ home'[v] \notin seen[v]
<1>1. HInv /\ [HNext]_hvars => [Needed]_hvars
  <2> SUFFICES ASSUME HInv, HNext,
                      NEW v \in Values, home[v] # Nowhere, home'[v] # home[v],
                      home[v] \in nodes, home'[v] \in seen[v]
               PROVE  FALSE
    OBVIOUS
  <2>1. ~ \E k \in Keys : AddNode(k) \/ RemoveNode(k)
    BY DEF AddNode, RemoveNode
  <2>2. PICK w \in Values : Get(w)
    BY <2>1 DEF HNext
  <2>3. w = v
    BY <2>2 DEF Get, HInv, HTypeOK
  <2>4. home'[v] \in Top(nodes, v)
    BY <2>2, <2>3 DEF Get, HInv, HTypeOK
  <2>5. /\ home[v] \in Top(seen[v], v) /\ nodes \subseteq Keys /\ seen[v] \subseteq Keys
        /\ home[v] \in Keys /\ home'[v] \in Keys
    BY <2>4 DEF HInv, HomeIsTop, HTypeOK, Top
  <2>6. Hash[home[v]][v] \in Nat /\ Hash[home'[v]][v] \in Nat
    BY <2>5
  <2>7. /\ Hash[home'[v]][v] <= Hash[home[v]][v]
        /\ Hash[home[v]][v] <= Hash[home'[v]][v]
    BY <2>4, <2>5 DEF Top
  <2>8. Hash[home'[v]][v] = Hash[home[v]][v]
    BY <2>6, <2>7
  <2>9. home'[v] = home[v]
    BY <2>5, <2>8
  <2> QED BY <2>9
<1> QED BY <1>1, HomesInvariant, PTL DEF HSpec, MovesOnlyWhenNeeded

\* Two lookups of a value agree, whichever nodes each saw, unless one of the answers
\* is a node the other did not see: each answer beats, and is beaten by, the other.
THEOREM AgreementOnHomes == HSpec => []LookupsAgree
<1>1. HInv => LookupsAgree
  <2> SUFFICES ASSUME HInv, NEW v \in Values, NEW k \in Keys,
                      home[v] \in nodes, k \in seen[v], k \in Top(nodes, v)
               PROVE  k = home[v]
    BY DEF LookupsAgree
  <2>1. nodes \subseteq Keys /\ home[v] \in Keys /\ home[v] # Nowhere
    BY DEF HInv, HTypeOK
  <2>2. home[v] \in Top(seen[v], v)
    BY <2>1 DEF HInv, HomeIsTop
  <2>3. Hash[home[v]][v] <= Hash[k][v] /\ Hash[k][v] <= Hash[home[v]][v]
    BY <2>2 DEF Top
  <2>4. Hash[home[v]][v] \in Nat /\ Hash[k][v] \in Nat
    BY <2>1
  <2>5. Hash[home[v]][v] = Hash[k][v]
    BY <2>3, <2>4
  <2> QED BY <2>1, <2>5
<1> QED BY <1>1, HomesInvariant, PTL

-----------------------------------------------------------------------------
(* The agent.                                                              *)

USE AgentAssumption

\* A message about servers that names one at least.
Named(m) == m \in News /\ m.of # {}

\* The messages on their way to the executor name servers, wherever they are.
OnTheWay ==
  /\ \A i \in 1..Len(wire) : Named(wire[i])
  /\ held = None \/ Named(held)
  /\ reader = "handing" => Named(held)
  /\ \A m \in late : Named(m)
  /\ exec = "saving" => Named(doing)

\* A server that is connected is in the cluster, and its table has itself.
Served ==
  conn = "open" => main = "up" /\ Peer \in cluster /\ Peer \notin untold

\* Where the executor compares servers the table has one.
Answerable ==
  /\ exec \in {"reading", "comparing"} => All # {}
  /\ Seeds # {} \/ All # {}

AInv == ATypeOK /\ OnTheWay /\ Served /\ Answerable

Statuses == {"none", "unknown", "alive", "degraded", "offline"}

\* What the servers say names servers.
LEMMA SaysNames ==
  /\ \A S \in SUBSET Servers : S # {} => Named(List(S))
  /\ \A s \in Servers : Named(Join(s)) /\ Named(Leave(s))
  /\ \A m \in News : m.of \subseteq Keys
<1>1. \A S \in SUBSET Servers : List(S) \in News /\ List(S).of = S
  BY DEF News, List
<1>2. ASSUME NEW s \in Servers PROVE Named(Join(s)) /\ Named(Leave(s))
  <2>1. Join(s) \in News /\ Leave(s) \in News
    BY DEF News
  <2>2. Join(s).of = {s} /\ Leave(s).of = {s}
    BY DEF Join, Leave
  <2> QED BY <2>1, <2>2 DEF Named
<1>3. ASSUME NEW m \in News PROVE m.of \subseteq Keys
  BY DEF News, List, Join, Leave
<1> QED BY <1>1, <1>2, <1>3 DEF Named

\* A message more on the wire.
LEMMA WireGrows ==
  ASSUME wire \in Seq(News), \A i \in 1..Len(wire) : Named(wire[i]),
         NEW m, Named(m), NEW w, w = Append(wire, m)
  PROVE  w \in Seq(News) /\ \A i \in 1..Len(w) : Named(w[i])
<1>1. m \in News
  BY DEF Named
<1>2. w \in Seq(News) /\ Len(w) = Len(wire) + 1
  BY <1>1
<1>3. ASSUME NEW i \in 1..Len(w) PROVE Named(w[i])
  <2>1. CASE i \in 1..Len(wire)
    <3>1. w[i] = wire[i]
      BY <2>1
    <3> QED BY <2>1, <3>1
  <2>2. CASE i \notin 1..Len(wire)
    <3>1. w[i] = m
      BY <1>2, <2>2
    <3> QED BY <3>1
  <2> QED BY <2>1, <2>2
<1> QED BY <1>2, <1>3

\* A server is never behind on itself.
LEMMA ServersOnly ==
  ASSUME ATypeOK
  PROVE  Behind \subseteq Servers /\ Peer \notin Behind
BY DEF ATypeOK, Behind

\* The invariant holds when the process has started.
LEMMA AgentInit ==
  ASSUME AInit
  PROVE  AInv
<1>1. PICK K \in Tables : row = [k \in Keys |-> IF k \in K THEN "unknown" ELSE "none"]
  BY DEF AInit
<1>2. wire = <<>> /\ wire \in Seq(News) /\ Len(wire) = 0
  BY DEF AInit
<1>3. ATypeOK
  <2>1. row \in [Keys -> Statuses]
    BY <1>1 DEF Statuses
  <2>2. latePump \in BOOLEAN /\ greeted \in BOOLEAN /\ lost \in BOOLEAN
    BY DEF AInit
  <2>3. drops \in 0..MaxDrops /\ prints \in 0..MaxPrints /\ news \in 0..MaxNews
    BY DEF AInit
  <2>4. cluster \subseteq Servers /\ spreading \subseteq Servers /\ ghosts \subseteq Servers
    BY DEF AInit
  <2>5. /\ main = "start" /\ target = None /\ current = None /\ conn = "none" /\ pump = "none"
        /\ reader = "none" /\ held = None /\ late = {} /\ exec = "idle" /\ doing = None
        /\ was = None /\ untold = {} /\ missed = {} /\ cut \subseteq Unreachable
    BY DEF AInit
  <2> QED BY <1>2, <2>1, <2>2, <2>3, <2>4, <2>5 DEF ATypeOK, Statuses
<1>4. OnTheWay
  BY <1>2 DEF AInit, OnTheWay
<1>5. Served
  BY DEF AInit, Served
<1>6. Answerable
  <2>1. All = K
    BY <1>1 DEF All
  <2>2. Seeds # {} \/ K # {}
    OBVIOUS
  <2> QED BY <2>1, <2>2 DEF AInit, Answerable
<1> QED BY <1>3, <1>4, <1>5, <1>6 DEF AInv

\* main, when it looks for a server: the table may change, but loses no server.
LEMMA ChooseStep ==
  ASSUME AInv, Choose \/ DialFails \/ GiveUp
  PROVE  AInv'
<1> USE DEF AInv
<1>1. /\ UNCHANGED <<current, cvars, xvars, evars>>
      /\ main' \in {"retry", "unknown", "any", "mark", "dial", "exited"} /\ main # "up"
  BY DEF Choose, FindLive, FindUnknown, FindAny, MarkUnknown, DialFails, GiveUp
<1>2. target' \in Keys \cup {None}
  BY DEF Choose, FindLive, FindUnknown, FindAny, MarkUnknown, DialFails, GiveUp, Top,
         Candidates, With, All, ATypeOK
<1>3. row' \in [Keys -> Statuses] /\ \A k \in Keys : row[k] # "none" => row'[k] # "none"
  <2>1. CASE MarkUnknown
    <3>1. row' = [k \in Keys |-> IF row[k] = "none" THEN "none" ELSE "unknown"]
      BY <2>1 DEF MarkUnknown
    <3> QED BY <3>1 DEF Statuses
  <2>2. CASE DialFails
    BY <2>2 DEF DialFails, ATypeOK, Statuses
  <2>3. CASE row' = row
    BY <2>3 DEF ATypeOK, Statuses
  <2> QED BY <2>1, <2>2, <2>3 DEF Choose, FindLive, FindUnknown, FindAny, GiveUp
<1>4. All # {} => All' # {}
  BY <1>3 DEF All
<1>5. ATypeOK'
  BY <1>1, <1>2, <1>3 DEF ATypeOK, Statuses, cvars, xvars, evars, tvars, nvars, fvars
<1>6. OnTheWay'
  BY <1>1 DEF OnTheWay, cvars, xvars, evars
<1>7. Served'
  BY <1>1 DEF Served, cvars
<1>8. Answerable'
  BY <1>1, <1>4 DEF Answerable, xvars
<1> QED BY <1>5, <1>6, <1>7, <1>8

\* What breaks a connection.
LEMMA BreakStep ==
  ASSUME AInv, Break,
         main' \in {"start", "retry", "unknown", "any", "mark", "dial", "up", "closing",
                    "exited"},
         pump' \in {"none", "running", "failing"},
         reader' = reader \/ reader' = "none",
         drops' \in 0..MaxDrops, news' \in 0..MaxNews,
         cluster' \subseteq Servers, spreading' \subseteq Servers, ghosts' \subseteq Servers,
         UNCHANGED <<target, row, current, latePump, held, late, xvars, wire, prints, fvars>>
  PROVE  AInv'
<1> USE DEF AInv
<1>1. ATypeOK'
  <2>1. /\ conn' = "broken" /\ greeted' = FALSE /\ untold' = {} /\ missed' = {}
        /\ FALSE \in BOOLEAN
    BY DEF Break
  <2>2. reader' \in {"none", "reading", "handing", "failed", "failing", "succeeding"}
    BY DEF ATypeOK
  <2>3. target' = target /\ row' = row /\ current' = current /\ latePump' = latePump
    OBVIOUS
  <2>4. held' = held /\ late' = late /\ wire' = wire /\ prints' = prints
    OBVIOUS
  <2>5. exec' = exec /\ doing' = doing /\ was' = was /\ cut' = cut /\ lost' = lost
    BY DEF xvars, fvars
  <2>6. latePump' \in BOOLEAN /\ greeted' \in BOOLEAN /\ lost' \in BOOLEAN
    BY <2>1, <2>3, <2>5 DEF ATypeOK
  <2>7. exec' \in {"idle", "saving", "reading", "comparing", "asking"}
    BY <2>5 DEF ATypeOK
  <2>8. /\ target' \in Keys \cup {None} /\ current' \in Keys \cup {None}
        /\ held' \in News \cup {None} /\ late' \subseteq News /\ wire' \in Seq(News)
        /\ doing' \in News \cup {None} /\ was' \in Keys \cup {None}
    BY <2>3, <2>4, <2>5 DEF ATypeOK
  <2>9. /\ row' \in [Keys -> {"none", "unknown", "alive", "degraded", "offline"}]
        /\ prints' \in 0..MaxPrints /\ cut' \subseteq Unreachable
    BY <2>3, <2>4, <2>5 DEF ATypeOK
  <2> QED BY <2>1, <2>2, <2>6, <2>7, <2>8, <2>9 DEF ATypeOK
<1>2. OnTheWay'
  BY DEF OnTheWay, xvars
<1>3. Served' /\ Answerable'
  BY DEF Served, Answerable, All, Break, xvars
<1> QED BY <1>1, <1>2, <1>3

\* main, when it has found a server.
LEMMA MainStep ==
  ASSUME AInv, Main \/ GiveUp
  PROVE  AInv'
<1> USE DEF AInv
<1>1. CASE Choose \/ DialFails \/ GiveUp
  BY <1>1, ChooseStep
<1>2. CASE Connect
  <2>1. /\ main' = "up" /\ current' = target /\ conn' = "open" /\ pump' = "running"
        /\ reader' = "reading" /\ Peer \in cluster
        /\ UNCHANGED <<target, row, latePump, held, late, xvars, wire, greeted, nvars,
                       drops, prints, fvars>>
    BY <1>2 DEF Connect
  <2>2. untold' \subseteq Behind /\ missed' \subseteq Behind
    BY <1>2 DEF Connect
  <2>3. untold' \subseteq Servers /\ missed' \subseteq Servers /\ Peer \notin untold'
    BY <2>2, ServersOnly
  <2>4. ATypeOK'
    BY <2>1, <2>3 DEF ATypeOK, xvars, nvars, fvars
  <2>5. OnTheWay'
    BY <2>1 DEF OnTheWay, xvars
  <2>6. Served'
    BY <2>1, <2>3 DEF Served, Peer, nvars
  <2>7. Answerable'
    BY <2>1 DEF Answerable, All, xvars
  <2> QED BY <2>4, <2>5, <2>6, <2>7
<1>3. CASE TakeError
  <2>1. /\ Break /\ main' \in {"closing", "exited"}
        /\ pump' = pump \/ pump' = "none"
        /\ reader' = reader \/ reader' = "none"
        /\ UNCHANGED <<target, row, current, latePump, held, late, xvars, wire, nvars,
                       drops, prints, fvars>>
    BY <1>3 DEF TakeError
  <2>2. pump' \in {"none", "running", "failing"} /\ drops' \in 0..MaxDrops
    BY <2>1 DEF ATypeOK
  <2>3. /\ cluster' \subseteq Servers /\ spreading' \subseteq Servers
        /\ ghosts' \subseteq Servers /\ news' \in 0..MaxNews
    BY <2>1 DEF ATypeOK, nvars
  <2>4. UNCHANGED <<target, row, current, latePump, held, late, xvars, wire, prints, fvars>>
    BY <2>1
  <2>5. main' \in {"start", "retry", "unknown", "any", "mark", "dial", "up", "closing",
                   "exited"}
    BY <2>1
  <2>6. Break /\ (reader' = reader \/ reader' = "none")
    BY <2>1
  <2> QED BY <2>2, <2>3, <2>4, <2>5, <2>6, BreakStep, Zenon
<1>4. CASE Closed
  <2>1. /\ main' = "retry" /\ target' = None /\ conn' = "none" /\ wire' = <<>>
        /\ pump' = "none" /\ reader' = "none" /\ held' = None
        /\ UNCHANGED <<row, current, xvars, tvars, nvars, drops, prints, fvars>>
    BY <1>4 DEF Closed
  <2>2. late' \subseteq News /\ \A m \in late' : Named(m)
    BY <1>4 DEF Closed, ATypeOK, OnTheWay
  <2>3. latePump' \in BOOLEAN
    BY <1>4 DEF Closed, ATypeOK
  <2>4. wire' \in Seq(News) /\ Len(wire') = 0
    BY <2>1
  <2>5. ATypeOK'
    BY <2>1, <2>2, <2>3, <2>4 DEF ATypeOK, xvars, tvars, nvars, fvars
  <2>6. OnTheWay'
    BY <2>1, <2>2, <2>4 DEF OnTheWay, xvars
  <2>7. Served' /\ Answerable'
    BY <2>1 DEF Served, Answerable, All, xvars
  <2> QED BY <2>5, <2>6, <2>7
<1> QED BY <1>1, <1>2, <1>3, <1>4 DEF Main

\* The reader hands over what it reads.
LEMMA ReaderStep ==
  ASSUME AInv, Reader
  PROVE  AInv'
<1> USE DEF AInv
<1>1. ASSUME Read PROVE AInv'
  <2>1. wire \in Seq(News) /\ wire # <<>> /\ \A i \in 1..Len(wire) : Named(wire[i])
    BY <1>1 DEF Read, ATypeOK, OnTheWay
  <2>2. /\ Head(wire) \in News /\ Named(Head(wire))
        /\ Tail(wire) \in Seq(News) /\ \A i \in 1..Len(Tail(wire)) : Named(Tail(wire)[i])
    <3>1. Len(wire) \in Nat /\ Len(wire) >= 1 /\ Head(wire) = wire[1] /\ 1 \in 1..Len(wire)
      BY <2>1
    <3>2. /\ Tail(wire) \in Seq(News) /\ Len(Tail(wire)) = Len(wire) - 1
          /\ \A i \in 1..(Len(wire) - 1) : Tail(wire)[i] = wire[i + 1] /\ i + 1 \in 1..Len(wire)
      BY <2>1, <3>1
    <3>3. \A i \in 1..Len(Tail(wire)) : Named(Tail(wire)[i])
      BY <2>1, <3>2
    <3>4. Named(Head(wire))
      BY <2>1, <3>1
    <3> QED BY <3>2, <3>3, <3>4 DEF Named
  <2>3. /\ held' = Head(wire) /\ wire' = Tail(wire) /\ reader' = "handing"
        /\ UNCHANGED <<mvars, conn, pump, latePump, late, xvars, tvars, nvars, drops,
                       prints, fvars>>
    BY <1>1 DEF Read
  <2>4. ATypeOK'
    BY <2>2, <2>3 DEF ATypeOK, mvars, xvars, tvars, nvars, fvars
  <2>5. OnTheWay'
    BY <2>2, <2>3 DEF OnTheWay, xvars
  <2>6. Served' /\ Answerable'
    BY <2>3 DEF Served, Answerable, Peer, All, mvars, xvars, tvars, nvars
  <2> QED BY <2>4, <2>5, <2>6
<1>2. ASSUME ReadFails \/ ReportRead PROVE AInv'
  <2>1. ATypeOK'
    <3>1. /\ reader' \in {"none", "reading", "handing", "failed", "failing", "succeeding"}
          /\ UNCHANGED <<mvars, conn, pump, latePump, held, late, xvars, evars>>
      BY <1>2 DEF ReadFails, ReportRead, ATypeOK
    <3> QED BY <3>1 DEF ATypeOK, mvars, xvars, evars, tvars, nvars, fvars
  <2>2. OnTheWay'
    BY <1>2 DEF ReadFails, ReportRead, OnTheWay, xvars, evars
  <2>3. Served' /\ Answerable'
    BY <1>2 DEF ReadFails, ReportRead, Served, Answerable, Peer, All, mvars, xvars, evars,
                tvars, nvars
  <2> QED BY <2>1, <2>2, <2>3
<1> QED BY <1>1, <1>2 DEF Reader

\* The pumps, and what they take from output.
LEMMA PumpStep ==
  ASSUME AInv, Write \/ LateTake \/ LateReturn \/ Reconnect
  PROVE  AInv'
<1> USE DEF AInv
<1>1. /\ UNCHANGED <<mvars, conn, held, late, doing, wire, tvars, nvars, drops, cut>>
      /\ pump' \in {pump, "running", "failing"}
      /\ reader' \in {reader, "succeeding"}
      /\ \/ exec' = exec /\ was' = was
         \/ exec' = "idle" /\ was' = None
  <2>1. ASSUME Write PROVE <1>1!:
    BY <2>1 DEF Write, xvars, fvars
  <2>2. ASSUME LateTake PROVE <1>1!:
    BY <2>2 DEF LateTake, xvars
  <2>3. ASSUME LateReturn PROVE <1>1!:
    BY <2>3 DEF LateReturn, xvars, evars, fvars
  <2>4. ASSUME Reconnect PROVE <1>1!:
    BY <2>4 DEF Reconnect, evars, fvars
  <2> QED BY <2>1, <2>2, <2>3, <2>4
<1>2. latePump' \in BOOLEAN /\ lost' \in BOOLEAN /\ prints' \in 0..MaxPrints
  <2>1. latePump \in BOOLEAN /\ lost \in BOOLEAN /\ prints \in 0..MaxPrints
    BY DEF ATypeOK
  <2>2. ASSUME Write PROVE <1>2!:
    BY <2>1, <2>2 DEF Write, fvars
  <2>3. ASSUME LateTake PROVE <1>2!:
    <3>1. prints' \in 0..MaxPrints
      BY <2>1, <2>3 DEF LateTake
    <3>2. latePump' \in BOOLEAN /\ lost' \in BOOLEAN
      BY <2>1, <2>3 DEF LateTake
    <3> QED BY <3>1, <3>2
  <2>4. ASSUME LateReturn \/ Reconnect PROVE <1>2!:
    BY <2>1, <2>4 DEF LateReturn, Reconnect, evars, fvars
  <2> QED BY <2>2, <2>3, <2>4
<1>3. ATypeOK'
  BY <1>1, <1>2 DEF ATypeOK, mvars, tvars, nvars
<1>4. OnTheWay'
  BY <1>1 DEF OnTheWay
<1>5. Served'
  BY <1>1 DEF Served, Peer, mvars, tvars, nvars
<1>6. Answerable'
  BY <1>1 DEF Answerable, All, mvars
<1> QED BY <1>3, <1>4, <1>5, <1>6

\* The executor: once it has saved what it was told, the table has a server.
LEMMA ExecutorStep ==
  ASSUME AInv, Receive \/ SaveNews \/ ReadCurrent \/ Compare
  PROVE  AInv'
<1> USE DEF AInv
<1>1. ASSUME Receive PROVE AInv'
  <2>1. Named(doing') /\ late' \subseteq late
    BY <1>1 DEF Receive, OnTheWay
  <2>2. ATypeOK'
    BY <1>1, <2>1 DEF Receive, ATypeOK, Named, mvars, evars, tvars, nvars, fvars
  <2>3. OnTheWay'
    BY <1>1, <2>1 DEF Receive, OnTheWay, evars
  <2>4. Served' /\ Answerable'
    BY <1>1 DEF Receive, Served, Answerable, Peer, All, mvars, evars, tvars, nvars
  <2> QED BY <2>2, <2>3, <2>4
<1>2. ASSUME SaveNews PROVE AInv'
  <2>1. Named(doing) /\ doing.of \subseteq Keys /\ doing.of # {}
    BY <1>2, SaysNames DEF SaveNews, OnTheWay, Named
  <2>2. StatusIn(doing) \in {"offline", "alive"}
    BY DEF StatusIn
  <2>3. row' = [s \in Keys |-> IF s \in doing.of THEN StatusIn(doing) ELSE row[s]]
    BY <1>2 DEF SaveNews
  <2>4. row' \in [Keys -> Statuses]
    BY <2>2, <2>3 DEF ATypeOK, Statuses
  <2>5. All' # {}
    <3>1. \A s \in doing.of : row'[s] # "none"
      BY <2>1, <2>2, <2>3
    <3> QED BY <2>1, <3>1 DEF All
  <2>6. /\ exec' = "reading" /\ doing' = None
        /\ UNCHANGED <<main, target, current, cvars, was, evars>>
    BY <1>2 DEF SaveNews
  <2>7. ATypeOK'
    BY <2>4, <2>6 DEF ATypeOK, Statuses, cvars, evars, tvars, nvars, fvars
  <2>8. OnTheWay'
    BY <2>6 DEF OnTheWay, cvars, evars
  <2>9. Served' /\ Answerable'
    BY <2>5, <2>6 DEF Served, Answerable, Peer, cvars, evars, tvars, nvars
  <2> QED BY <2>7, <2>8, <2>9
<1>3. ASSUME ReadCurrent \/ Compare PROVE AInv'
  <2>1. exec \in {"reading", "comparing"} /\ All # {}
    BY <1>3 DEF ReadCurrent, Compare, Answerable
  <2>2. ATypeOK'
    <3>1. /\ UNCHANGED <<mvars, cvars, evars>>
          /\ exec' \in {"comparing", "idle", "asking"}
          /\ doing' = doing
          /\ was' \in Keys \cup {None}
      BY <1>3 DEF ReadCurrent, Compare, All, ATypeOK
    <3> QED BY <3>1 DEF ATypeOK, mvars, cvars, evars, tvars, nvars, fvars
  <2>3. OnTheWay'
    BY <1>3 DEF ReadCurrent, Compare, OnTheWay, cvars, evars
  <2>4. Served' /\ Answerable'
    BY <1>3, <2>1 DEF ReadCurrent, Compare, Served, Answerable, Peer, All, mvars, cvars,
                      evars, tvars, nvars
  <2> QED BY <2>2, <2>3, <2>4
<1> QED BY <1>1, <1>2, <1>3

\* The servers: the one the agent is connected to is in the list it sends.
LEMMA ServersStep ==
  ASSUME AInv, Serve \/ (\E t \in Servers : Spread(t)) \/ Environment
  PROVE  AInv'
<1> USE DEF AInv
<1> DEFINE Told == wire' \in Seq(News) /\ (\A i \in 1..Len(wire) : Named(wire[i]))'
<1>0. ASSUME wire' = wire \/ \E m : Named(m) /\ wire' = Append(wire, m) PROVE Told
  <2>1. CASE wire' = wire
    BY <2>1 DEF ATypeOK, OnTheWay
  <2>2. ASSUME NEW m, Named(m), wire' = Append(wire, m) PROVE Told
    BY <2>2, WireGrows DEF ATypeOK, OnTheWay
  <2> QED BY <1>0, <2>1, <2>2
<1>1. CASE Greet
  <2>1. PICK X \in SUBSET (Behind \cup untold), G \in SUBSET ghosts :
          /\ wire' = Append(wire, List(Listed(X, G)))
          /\ missed' = missed \cap X \cap cluster
    BY <1>1 DEF Greet
  <2>2. /\ conn = "open" /\ greeted' = TRUE
        /\ UNCHANGED <<mvars, cvars, xvars, untold, nvars, drops, prints, fvars>>
    BY <1>1 DEF Greet
  <2>3. Listed(X, G) \subseteq Servers /\ Peer \in Listed(X, G)
    <3>1. Peer \in cluster /\ Peer \notin X
      BY <2>2, ServersOnly DEF Served
    <3>2. X \subseteq Servers
      BY ServersOnly DEF ATypeOK
    <3> QED BY <3>1, <3>2 DEF Listed, ATypeOK
  <2>4. Told
    BY <1>0, <2>1, <2>3, SaysNames
  <2>5. ATypeOK'
    BY <2>1, <2>2, <2>4 DEF ATypeOK, mvars, cvars, xvars, nvars, fvars
  <2>6. OnTheWay'
    BY <2>2, <2>4 DEF OnTheWay, cvars, xvars
  <2>7. Served' /\ Answerable'
    BY <2>2 DEF Served, Answerable, Peer, All, mvars, cvars, xvars, nvars
  <2> QED BY <2>5, <2>6, <2>7
<1>2. ASSUME NEW t \in Servers, Announce(t) PROVE AInv'
  <2>1. /\ untold' = untold \ {t} /\ missed' = missed \ {t}
        /\ UNCHANGED <<mvars, cvars, xvars, greeted, nvars, drops, prints, fvars>>
    BY <1>2 DEF Announce
  <2>2. Told
    BY <1>0, <1>2, SaysNames DEF Announce
  <2>3. ATypeOK'
    BY <2>1, <2>2 DEF ATypeOK, mvars, cvars, xvars, nvars, fvars
  <2>4. OnTheWay'
    BY <2>1, <2>2 DEF OnTheWay, cvars, xvars
  <2>5. Served' /\ Answerable'
    BY <2>1 DEF Served, Answerable, Peer, All, mvars, cvars, xvars, nvars
  <2> QED BY <2>3, <2>4, <2>5
<1>3. ASSUME NEW t \in Servers, Spread(t) PROVE AInv'
  <2>1. /\ spreading' = spreading \ {t}
        /\ UNCHANGED <<mvars, cvars, xvars, wire, tvars, cluster, ghosts, news, drops, prints,
                       fvars>>
    BY <1>3 DEF Spread
  <2>2. ATypeOK'
    BY <2>1 DEF ATypeOK, mvars, cvars, xvars, tvars, fvars
  <2>3. OnTheWay'
    BY <2>1 DEF OnTheWay, cvars, xvars
  <2>4. Served' /\ Answerable'
    BY <2>1 DEF Served, Answerable, Peer, All, mvars, cvars, xvars, tvars
  <2> QED BY <2>2, <2>3, <2>4
<1>4. ASSUME NEW s \in Servers, ServerJoins(s) \/ ServerLeaves(s) \/ Mistake(s)
      PROVE  AInv'
  <2>1. /\ spreading' = spreading \cup {s} /\ news' \in 0..MaxNews
        /\ cluster' \subseteq Servers /\ ghosts' \subseteq Servers
    BY <1>4 DEF ServerJoins, ServerLeaves, Mistake, Changes, ATypeOK
  <2>2. CASE conn = "open" /\ Peer = s /\ ServerLeaves(s)
    <3>1. /\ Break
          /\ UNCHANGED <<mvars, pump, latePump, reader, held, late, xvars, wire, drops,
                         prints, fvars>>
      BY <2>2 DEF ServerLeaves
    <3> QED BY <2>1, <3>1, BreakStep DEF ATypeOK, mvars
  <2>3. CASE ~(conn = "open" /\ Peer = s /\ ServerLeaves(s))
    <3>1. /\ Heard(s)
          /\ UNCHANGED <<mvars, conn, pump, latePump, reader, held, late, xvars, greeted,
                         missed, drops, prints, fvars>>
      BY <1>4, <2>3 DEF ServerJoins, ServerLeaves, Mistake, cvars
    <3>2. untold' \subseteq Servers
      BY <3>1 DEF Heard, ATypeOK
    <3>3. Told
      BY <1>0, <1>4, SaysNames DEF ServerJoins, ServerLeaves, Mistake
    <3>4. ATypeOK'
      BY <2>1, <3>1, <3>2, <3>3 DEF ATypeOK, mvars, xvars, fvars
    <3>5. OnTheWay'
      BY <3>1, <3>3 DEF OnTheWay, xvars
    <3>6. Served'
      <4>1. ASSUME conn = "open" PROVE s # Peer /\ Peer \in cluster'
        BY <1>4, <2>3, <4>1 DEF ServerJoins, ServerLeaves, Mistake, Served
      <4> QED BY <3>1, <4>1 DEF Served, Heard, Peer, mvars
    <3>7. Answerable'
      BY <3>1 DEF Answerable, All, mvars, xvars
    <3> QED BY <3>4, <3>5, <3>6, <3>7
  <2> QED BY <2>2, <2>3
<1>5. CASE Drop
  <2>1. /\ Break /\ drops' \in 0..MaxDrops
        /\ UNCHANGED <<mvars, pump, latePump, reader, held, late, xvars, wire, nvars, prints,
                       fvars>>
    BY <1>5 DEF Drop, ATypeOK
  <2> QED BY <2>1, BreakStep DEF ATypeOK, mvars, nvars
<1> QED BY <1>1, <1>2, <1>3, <1>4, <1>5 DEF Serve, Environment

\* The invariant holds of every behaviour of the agent.
LEMMA AgentInvariant == ASafety => []AInv
<1>1. AInit => AInv
  BY AgentInit
<1>2. AInv /\ [ANext]_avars => AInv'
  <2> SUFFICES ASSUME AInv, [ANext]_avars PROVE AInv'
    OBVIOUS
  <2>1. CASE ANext
    BY <2>1, MainStep, ReaderStep, PumpStep, ExecutorStep, ServersStep DEF ANext, Executor
  <2>2. CASE UNCHANGED avars
    BY <2>2 DEF avars, mvars, cvars, xvars, evars, tvars, nvars, fvars, AInv, ATypeOK,
                OnTheWay, Served, Answerable, Peer, All
  <2> QED BY <2>1, <2>2
<1> QED BY <1>1, <1>2, PTL DEF ASafety

\* Type correctness of the agent (cmd/agent.go, payload/interface.go), for any servers
\* and any number of failures.
THEOREM AgentTypeCorrect == ASafety => []ATypeOK
<1>1. AInv => ATypeOK
  BY DEF AInv
<1> QED BY <1>1, AgentInvariant, PTL

\* Get (util/hash.go:51-66) always has an answer, and only one, when the agent asks it:
\* main because seeds stand in for an empty table (agent.go:135) and no server is ever
\* removed from one, the executor because it has just saved a message that names a
\* server (payload/interface.go:73-104).
THEOREM AgentGetsAnswers ==
  ASSUME IsFiniteSet(Keys)
  PROVE  ASafety => []GetIsAnswered
<1>1. AInv => GetIsAnswered
  <2> SUFFICES ASSUME AInv PROVE GetIsAnswered
    OBVIOUS
  <2>1. ASSUME NEW S \in SUBSET Keys, S # {}
        PROVE  \E k \in Keys : Top(S, AgentId) = {k}
    <3>1. IsFiniteSet(S)
      BY FS_Subset
    <3>2. \E k \in S : Top(S, AgentId) = {k}
      BY <2>1, <3>1, GetReturnsOne
    <3> QED BY <3>2
  <2>2. Candidates \in SUBSET Keys /\ Candidates # {}
    BY DEF AInv, Answerable, Candidates, All
  <2>3. ASSUME exec = "comparing" PROVE \E k \in Keys : Best = {k}
    <3> DEFINE S == IF With("alive") # {} THEN With("alive") ELSE All
    <3>1. S \in SUBSET Keys /\ S # {}
      BY <2>3 DEF AInv, Answerable, With, All
    <3>2. Best = Top(S, AgentId)
      BY DEF Best
    <3> HIDE DEF S
    <3> QED BY <2>1, <3>1, <3>2
  <2> QED BY <2>1, <2>2, <2>3 DEF GetIsAnswered
<1> QED BY <1>1, AgentInvariant, PTL
=============================================================================
