------------------------------- MODULE Agent -------------------------------
(***************************************************************************)
(* One agent process: cmd/agent.go and payload/interface.go.               *)
(*                                                                         *)
(* main tries to connect, over and over.  Each attempt picks a server from *)
(* the agent's own table, dials it, and then runs two goroutines: one      *)
(* reads the websocket and hands what it reads to the executor, the other  *)
(* takes what is put on "output" and writes it (pump).  Both report to     *)
(* main on "errors", from which main receives once.  The executor lives as *)
(* long as the process: it saves what it is told about servers, compares   *)
(* the best one with the current one, and asks to reconnect on "output".   *)
(* All four channels are unbuffered.                                       *)
(*                                                                         *)
(* The servers are modelled from the outside: each has a table of its own, *)
(* which follows the cluster with a delay and may hold servers that are    *)
(* gone for good.  An agent that connects is sent what the table listed    *)
(* when it was read (HandleEvent), and the changes are broadcast, before   *)
(* or after the table has them.                                            *)
(***************************************************************************)
EXTENDS Hrw, Sequences, FiniteSets

CONSTANTS
  Servers,     \* the servers there may be
  ServerAt,    \* ServerAt[k]: the server at the address of entry k of the table
  Tables,      \* the tables the process may start with: sets of entries
  Seeds,       \* the entries that agent.seed_nodes is made into
  Clusters,    \* the clusters there may be at first
  Unreachable, \* servers whose address this agent may be unable to reach
  MaxNews,     \* bound: changes of the cluster
  MaxDrops,    \* bound: connections that break
  MaxPrints,   \* bound: messages a running script puts on output
  MaxEvents,   \* bound: all these together
  MaxLate,     \* bound: messages that readers of earlier attempts hold
  AgentId, None

ASSUME AgentAssumption ==
  /\ Servers \subseteq Keys /\ Unreachable \subseteq Servers
  /\ Clusters \subseteq SUBSET Servers
  /\ ServerAt \in [Keys -> Servers \cup {None}]
  /\ \A s \in Servers : ServerAt[s] = s
  /\ Tables \subseteq SUBSET Keys /\ Seeds \subseteq Keys
  \* Without a server to start from the first attempt panics in Get.
  /\ Seeds # {} \/ {} \notin Tables
  /\ AgentId \in Values
  /\ MaxNews \in Nat /\ MaxDrops \in Nat /\ MaxPrints \in Nat
  /\ MaxEvents \in Nat /\ MaxLate \in Nat
  /\ None \notin Keys

VARIABLES
  main,     \* where main is
  target,   \* the entry of the server of this attempt
  row,      \* row[k]: the status of entry k of the agent's table, or "none"
  current,  \* the property server_node: the entry last connected to
  conn,     \* the websocket
  pump,     \* the goroutine that takes from output, for this attempt
  latePump, \* whether a pump whose attempt is over has yet to get to its select
  reader,   \* the goroutine that reads the websocket, for this attempt
  held,     \* the message it hands to the executor
  late,     \* the messages that readers of earlier attempts still hand over
  exec,     \* where the executor is
  doing,    \* the message it executes
  was,      \* the current server it read
  wire,     \* what the server sent on this connection and is not read yet
  greeted,  \* whether the server has sent its list on this connection
  untold,   \* the servers whose change it has yet to announce on this connection
  missed,   \* history: those it announced before the agent was there, and did not list
  cluster,  \* the servers that are in the cluster
  spreading, \* those whose change has not reached every server's table
  ghosts,   \* those that are gone, and that some tables list as alive for good
  news, drops, prints,  \* how many there were
  cut,      \* the servers whose address it cannot reach
  lost      \* history: a pump of an earlier attempt took a request to reconnect

mvars == <<main, target, row, current>>
cvars == <<conn, pump, latePump, reader, held, late>>
xvars == <<exec, doing, was>>
tvars == <<greeted, untold, missed>>
nvars == <<cluster, spreading, ghosts, news>>
fvars == <<cut, lost>>
evars == <<wire, tvars, nvars, drops, prints, fvars>>
avars == <<mvars, cvars, xvars, evars>>

List(S)   == [sub |-> "list",  of |-> S]
Join(s)   == [sub |-> "join",  of |-> {s}]
Leave(s)  == [sub |-> "leave", of |-> {s}]
News      == {List(S) : S \in SUBSET Servers} \cup {Join(s) : s \in Servers}
               \cup {Leave(s) : s \in Servers}

\* The events that nothing forces to happen are bounded in number.
Quota == news + drops + prints < MaxEvents

With(status) == {s \in Keys : row[s] = status}
All == {s \in Keys : row[s] # "none"}

-----------------------------------------------------------------------------
(* main: one attempt after the other.                                      *)

\* The table is read three times, while the executor may write it: for the servers
\* that are alive, those that are unknown, and all.
FindLive ==
  /\ main \in {"start", "retry"}
  /\ IF With("alive") # {}
     THEN main' = "dial" /\ target' \in Top(With("alive"), AgentId)
     ELSE main' = "unknown" /\ UNCHANGED target
  /\ UNCHANGED <<row, current, cvars, xvars, evars>>

FindUnknown ==
  /\ main = "unknown"
  /\ IF With("unknown") # {}
     THEN main' = "dial" /\ target' \in Top(With("unknown"), AgentId)
     ELSE main' = "any" /\ UNCHANGED target
  /\ UNCHANGED <<row, current, cvars, xvars, evars>>

\* A variant: the seeds are only for an agent without a server it may try.
WithoutSeeds == All

\* The last resort, whatever the status; the seeds for an empty table.
Candidates == IF All # {} THEN All ELSE Seeds

FindAny ==
  /\ main = "any"
  /\ target' \in Top(Candidates, AgentId)
  /\ main' = IF All # {} THEN "mark" ELSE "dial"
  /\ UNCHANGED <<row, current, cvars, xvars, evars>>

\* MarkServersUnknown, also of what was saved meanwhile.
MarkUnknown ==
  /\ main = "mark"
  /\ main' = "dial"
  /\ row' = [k \in Keys |-> IF row[k] = "none" THEN "none" ELSE "unknown"]
  /\ UNCHANGED <<target, current, cvars, xvars, evars>>

\* The server the agent is connected to, or dials.
Peer == ServerAt[target]

\* The servers its table may be behind on; one that has just joined has yet to learn
\* of the others.
Behind == (spreading \cup (IF Peer \in spreading THEN cluster ELSE {})) \ {Peer}

\* What the server announced before the agent is registered, the agent is not told.
Connect ==
  /\ main = "dial" /\ Peer \in cluster \ cut
  /\ main' = "up"
  /\ current' = target
  /\ conn' = "open" /\ pump' = "running" /\ reader' = "reading"
  /\ untold' \in SUBSET Behind /\ missed' = Behind \ untold'
  /\ UNCHANGED <<target, row, latePump, held, late, xvars, wire, greeted, nvars, drops, prints,
                 fvars>>

\* A variant: the server that could not be reached keeps its status.
DialFailsSilently ==
  /\ main = "dial" /\ Peer \notin cluster \ cut
  /\ main' = "retry" /\ target' = None
  /\ UNCHANGED <<row, current, cvars, xvars, evars>>

DialFails ==
  /\ main = "dial" /\ Peer \notin cluster \ cut
  /\ main' = "retry"
  /\ row' = [row EXCEPT ![target] = "degraded"]
  /\ target' = None
  /\ UNCHANGED <<current, cvars, xvars, evars>>

\* The server does no more for a connection that is broken.
Break ==
  /\ conn' = "broken"
  /\ greeted' = FALSE /\ untold' = {} /\ missed' = {}

\* A variant: the pump reports on a channel main does not receive from.
TakeReadError ==
  /\ main = "up" /\ reader = "failing"
  /\ main' = "closing" /\ reader' = "none"
  /\ Break
  /\ UNCHANGED <<target, row, current, pump, latePump, held, late, xvars, wire, nvars,
                 drops, prints, fvars>>

\* main receives from errors, and starts to close the websocket.  A goroutine
\* that has yet to send its error never will, so it has no further effect.
TakeError ==
  /\ main = "up"
  /\ \/ /\ pump = "failing"
        /\ main' = "closing" /\ pump' = "none"
        /\ UNCHANGED reader
     \/ /\ reader = "failing"
        /\ main' = "closing" /\ reader' = "none"
        /\ UNCHANGED pump
     \/ /\ reader = "succeeding"           \* nil: RetryNotify has succeeded
        /\ main' = "exited" /\ reader' = "none"
        /\ UNCHANGED pump
  /\ Break
  /\ UNCHANGED <<target, row, current, latePump, held, late, xvars, wire, nvars, drops,
                 prints, fvars>>

\* The websocket is closed, then the attempt's context is cancelled.  A pump that waits
\* at its select returns; one that is busy gets there later.
Closed ==
  /\ main = "closing"
  /\ main' = "retry" /\ target' = None
  /\ conn' = "none" /\ wire' = <<>>
  /\ latePump' \in {latePump, pump = "running" \/ latePump}
  /\ late' = IF held = None THEN late ELSE late \cup {held}
  /\ pump' = "none" /\ reader' = "none" /\ held' = None
  /\ UNCHANGED <<row, current, xvars, tvars, nvars, drops, prints, fvars>>

\* NewExponentialBackOff stops 15 minutes after the first attempt began.
GiveUp ==
  /\ main = "retry"
  /\ main' = "exited"
  /\ UNCHANGED <<target, row, current, cvars, xvars, evars>>

Choose == FindLive \/ FindUnknown \/ FindAny \/ MarkUnknown
Main == Choose \/ Connect \/ DialFails \/ TakeError \/ Closed

-----------------------------------------------------------------------------
(* The goroutine that reads.                                               *)

\* What came before the connection broke may still be read.
Read ==
  /\ reader = "reading" /\ wire # <<>> /\ Cardinality(late) < MaxLate
  /\ held' = Head(wire) /\ wire' = Tail(wire)
  /\ reader' = "handing"
  /\ UNCHANGED <<mvars, conn, pump, latePump, late, xvars, tvars, nvars, drops, prints,
                 fvars>>

ReadFails ==
  /\ reader = "reading" /\ conn = "broken"
  /\ reader' = "failed"
  /\ UNCHANGED <<mvars, conn, pump, latePump, held, late, xvars, evars>>

\* The error it sends is what is in err when it sends it.
ReportRead ==
  /\ reader = "failed"
  /\ reader' = "failing"
  /\ UNCHANGED <<mvars, conn, pump, latePump, held, late, xvars, evars>>

Reader == Read \/ ReadFails \/ ReportRead

-----------------------------------------------------------------------------
(* output: the executor or a script meets a pump.                         *)

\* The request to reconnect becomes an error of the attempt.
Reconnect ==
  /\ exec = "asking" /\ pump = "running"
  /\ exec' = "idle" /\ was' = None
  /\ pump' = "failing"
  /\ UNCHANGED <<mvars, conn, latePump, reader, held, late, doing, evars>>

\* What a script prints is written to the websocket; a write may still succeed
\* when the connection is broken.  It sets err, which the reader is about to send.
Write ==
  /\ prints < MaxPrints /\ Quota /\ pump = "running"
  /\ prints' = prints + 1
  /\ \/ /\ pump' = "running"
        /\ reader' = IF reader = "failed" THEN "succeeding" ELSE reader
     \/ /\ conn = "broken"
        /\ pump' = "failing" /\ UNCHANGED reader
  /\ UNCHANGED <<mvars, conn, latePump, held, late, xvars, wire, tvars, nvars, drops,
                 fvars>>

\* A pump that gets to its select when its context is cancelled may still take
\* what is there on output; then it is stuck on errors for good.
LateTake ==
  /\ latePump /\ latePump' = FALSE
  /\ \/ /\ exec = "asking"
        /\ exec' = "idle" /\ was' = None
        /\ lost' = TRUE
        /\ UNCHANGED <<doing, prints>>
     \/ /\ prints < MaxPrints /\ Quota
        /\ prints' = prints + 1
        /\ UNCHANGED <<xvars, lost>>
  /\ UNCHANGED <<mvars, conn, pump, reader, held, late, wire, tvars, nvars, drops, cut>>

LateReturn ==
  /\ latePump /\ latePump' = FALSE
  /\ UNCHANGED <<mvars, conn, pump, reader, held, late, xvars, evars>>

-----------------------------------------------------------------------------
(* The executor: Execute and maybeReconnect.                               *)

Receive ==
  /\ exec = "idle"
  /\ \/ /\ reader = "handing"
        /\ doing' = held /\ held' = None /\ reader' = "reading"
        /\ UNCHANGED late
     \/ \E m \in late :
          /\ doing' = m /\ late' = late \ {m}
          /\ UNCHANGED <<held, reader>>
  /\ exec' = "saving"
  /\ UNCHANGED <<mvars, conn, pump, latePump, was, evars>>

RawStatusIn(m) == m.sub   \* a variant: the subtype is taken for the status

\* The status the servers in a message have.
StatusIn(m) == IF m.sub = "leave" THEN "offline" ELSE "alive"

SaveNews ==
  /\ exec = "saving"
  /\ row' = [k \in Keys |-> IF k \in doing.of THEN StatusIn(doing) ELSE row[k]]
  /\ exec' = "reading" /\ doing' = None
  /\ UNCHANGED <<main, target, current, cvars, was, evars>>

\* GetCurrentServer: no server when server_node names one that is not in the table.
ReadCurrent ==
  /\ exec = "reading"
  /\ was' = IF current = None \/ current \notin All THEN None ELSE current
  /\ exec' = "comparing"
  /\ UNCHANGED <<mvars, cvars, doing, evars>>

\* The best server the agent knows of.
Best == Top(IF With("alive") # {} THEN With("alive") ELSE All, AgentId)

\* A variant: an agent that is already connected to a live server stays there.
ComparedAlive == was \in With("alive")

\* The best server is the current one.
Compared == Best = {was}

Compare ==
  /\ exec = "comparing"
  /\ IF Compared THEN exec' = "idle" /\ was' = None
                 ELSE exec' = "asking" /\ UNCHANGED was
  /\ UNCHANGED <<mvars, cvars, doing, evars>>

Executor == Receive \/ SaveNews \/ ReadCurrent \/ Compare \/ Reconnect

-----------------------------------------------------------------------------
(* The servers.                                                            *)

\* The servers that are alive in a table that is behind on X, and lists G for good.
Listed(X, G) == (cluster \ X) \cup (X \ cluster) \cup G

\* HandleEvent reads the list for an agent that has connected, and sends it; what it is
\* behind on may have been announced meanwhile.
Greet ==
  /\ conn = "open" /\ ~greeted
  /\ greeted' = TRUE
  /\ \E X \in SUBSET (Behind \cup untold), G \in SUBSET ghosts :
       /\ wire' = Append(wire, List(Listed(X, G)))
       /\ missed' = missed \cap X \cap cluster
  /\ UNCHANGED <<mvars, cvars, xvars, untold, nvars, drops, prints, fvars>>

\* The server's callback about t has been called, and tells its agents.
Announce(t) ==
  /\ conn = "open" /\ t \in untold
  /\ untold' = untold \ {t} /\ missed' = missed \ {t}
  /\ wire' = Append(wire, IF t \in cluster THEN Join(t) ELSE Leave(t))
  /\ UNCHANGED <<mvars, cvars, xvars, greeted, nvars, drops, prints, fvars>>

Serve == Greet \/ \E t \in Servers : Announce(t)

\* Every table has the last change of t.
Spread(t) ==
  /\ t \in spreading
  /\ spreading' = spreading \ {t}
  /\ UNCHANGED <<mvars, cvars, xvars, wire, tvars, cluster, ghosts, news, drops, prints, fvars>>

\* Something happens to t, which the tables do not have yet, ...
Changes(t) ==
  /\ news < MaxNews /\ Quota
  /\ news' = news + 1
  /\ spreading' = spreading \cup {t}

\* ... and of which the agents will be told.
Heard(t) == untold' = IF conn = "open" THEN untold \cup {t} ELSE untold

ServerJoins(s) ==
  /\ s \notin cluster
  /\ Changes(s) /\ Heard(s)
  /\ cluster' = cluster \cup {s} /\ ghosts' = ghosts \ {s}
  /\ UNCHANGED <<mvars, cvars, xvars, wire, greeted, missed, drops, prints, fvars>>

\* A server that leaves takes its websockets with it; the last one stays.  A table
\* that is merged late has it as alive for good.
ServerLeaves(s) ==
  /\ s \in cluster /\ cluster # {s}
  /\ Changes(s)
  /\ cluster' = cluster \ {s} /\ ghosts' \in {ghosts, ghosts \cup {s}}
  /\ IF conn = "open" /\ Peer = s
     THEN Break
     ELSE Heard(s) /\ UNCHANGED <<conn, greeted, missed>>
  /\ UNCHANGED <<mvars, pump, latePump, reader, held, late, xvars, wire, drops, prints,
                 fvars>>

\* The server the agent is connected to takes another for failed, and will find that
\* it is alive.
Mistake(s) ==
  /\ conn = "open" /\ s \in cluster \ {Peer}
  /\ Changes(s) /\ Heard(s)
  /\ wire' = Append(wire, Leave(s))
  /\ UNCHANGED <<mvars, cvars, xvars, greeted, missed, cluster, ghosts, drops,
                 prints, fvars>>

Drop ==
  /\ conn = "open" /\ drops < MaxDrops /\ Quota
  /\ drops' = drops + 1
  /\ Break
  /\ UNCHANGED <<mvars, pump, latePump, reader, held, late, xvars, wire, nvars, prints,
                 fvars>>

Environment == Drop \/ \E s \in Servers : ServerJoins(s) \/ ServerLeaves(s) \/ Mistake(s)

-----------------------------------------------------------------------------
\* MarkServersUnknown has run.  Servers may just have joined, and the tables may list some
\* that are gone.
AInit ==
  /\ main = "start" /\ target = None
  /\ \E K \in Tables : row = [k \in Keys |-> IF k \in K THEN "unknown" ELSE "none"]
  /\ current = None
  /\ conn = "none" /\ pump = "none" /\ latePump = FALSE
  /\ reader = "none" /\ held = None /\ late = {}
  /\ exec = "idle" /\ doing = None /\ was = None
  /\ wire = <<>> /\ greeted = FALSE /\ untold = {} /\ missed = {}
  /\ cluster \in Clusters /\ spreading \in SUBSET cluster /\ ghosts \in SUBSET (Servers \ cluster)
  /\ news = Cardinality(spreading) /\ news \in 0..MaxNews /\ news <= MaxEvents
  /\ drops = 0 /\ prints = 0
  /\ cut \in SUBSET Unreachable /\ lost = FALSE

\* When main returns or calls log.Fatal, the process is gone.
Running == main # "exited"

ANext ==
  /\ Running
  /\ \/ Main \/ GiveUp \/ Reader \/ Write \/ LateTake \/ LateReturn
     \/ Executor \/ Serve \/ (\E t \in Servers : Spread(t)) \/ Environment

\* Every goroutine that can go on does; the server answers and announces what it hears
\* of; the tables of servers get what happened.  Nothing makes the cluster change, a
\* connection break, or a script print.
AFairness ==
  /\ WF_avars(Running /\ Main) /\ WF_avars(Running /\ Reader)
  /\ WF_avars(Running /\ Executor)
  /\ WF_avars(Running /\ LateReturn) /\ WF_avars(Running /\ Serve)
  /\ WF_avars(Running /\ \E t \in Servers : Spread(t))

ASafety == AInit /\ [][ANext]_avars
ASpec == ASafety /\ AFairness

-----------------------------------------------------------------------------
ATypeOK ==
  /\ main \in {"start", "retry", "unknown", "any", "mark", "dial", "up", "closing", "exited"}
  /\ target \in Keys \cup {None} /\ current \in Keys \cup {None}
  /\ row \in [Keys -> {"none", "unknown", "alive", "degraded", "offline"}]
  /\ conn \in {"none", "open", "broken"}
  /\ pump \in {"none", "running", "failing"} /\ latePump \in BOOLEAN
  /\ reader \in {"none", "reading", "handing", "failed", "failing", "succeeding"}
  /\ held \in News \cup {None} /\ late \subseteq News
  /\ exec \in {"idle", "saving", "reading", "comparing", "asking"}
  /\ doing \in News \cup {None} /\ was \in Keys \cup {None}
  /\ wire \in Seq(News) /\ greeted \in BOOLEAN
  /\ untold \subseteq Servers /\ missed \subseteq Servers
  /\ cluster \subseteq Servers /\ spreading \subseteq Servers /\ ghosts \subseteq Servers
  /\ news \in 0..MaxNews /\ drops \in 0..MaxDrops /\ prints \in 0..MaxPrints
  /\ cut \subseteq Unreachable /\ lost \in BOOLEAN

\* Get is never asked about an empty set, where it panics, nor ever has a choice:
\* neither when an attempt picks its server, nor when the executor, whatever it has
\* been told and saved until then, looks for the best one.
GetIsAnswered ==
  /\ main = "any" => \E k \in Keys : Top(Candidates, AgentId) = {k}
  /\ exec = "comparing" => \E k \in Keys : Best = {k}

\* In the end no server is left that it can reach and knows of; once its table has an
\* entry, what agent.seed_nodes names is of no help.
CutOff == <>[]({ServerAt[k] : k \in Candidates} \cap cluster \subseteq cut)

\* What the executor saves as alive, an attempt that had looked before marks as unknown.
Overwritten == main = "mark" /\ With("alive") # {}

\* The server that comes first among those in the cluster and those listed for good.
First == Top(cluster \cup ghosts, AgentId)

\* Once the cluster and the network are quiet, the agent comes to rest on the server
\* that rendezvous hashing assigns to it among those in the cluster, whatever its table
\* said, however late, stale or mistaken the lists and news were, and whatever it missed
\* while it was not connected; unless it ended or is cut off, or one of these:
\*   - the server that comes first for it can be dialed by nobody or not by it, but is
\*     listed as alive: then it drops a connection again and again to try that one;
\*   - it was never told of the server that comes first: that was announced before the
\*     agent was registered, and not yet in the table when the list was read;
\*   - a pump of an attempt that was over took a request to reconnect;
\*   - again and again an attempt marks as unknown what the executor saved as alive
\*     since the attempt looked.
Settles ==
  \/ <>lost \/ []<>Overwritten \/ <>[](main = "exited") \/ CutOff
  \/ <>[](First \cap (cluster \ cut) = {})
  \/ <>[](First \cap missed # {})
  \/ <>[](main = "up" /\ {target} = Top(cluster, AgentId))

\* As long as it runs and is not cut off, the agent gets through to a server again
\* and again, however many it cannot reach come before it.
KeepsConnecting == CutOff \/ <>[](main = "exited") \/ []<>(main = "up")

\* The executor, which can do nothing else while it waits, is rid of each request
\* to reconnect, unless the agent is cut off: it, the reader and main never wait
\* for one another for good, in this attempt or in a later one.
RequestsTaken ==
  CutOff \/ (exec = "asking" ~> exec # "asking" \/ main = "exited")
=============================================================================
