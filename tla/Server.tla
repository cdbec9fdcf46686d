------------------------------- MODULE Server -------------------------------
(***************************************************************************)
(* One jabberwocky server process: cmd/server.go, processing/handlers.go   *)
(* and the memberlist delegate of cluster/gossip.go, around the router.    *)
(*                                                                         *)
(* Every step that touches the router is an action of module Router, taken *)
(* by the goroutine that takes it in the program: the handler goroutine of *)
(* a websocket session (melody runs its connect, message and disconnect    *)
(* callbacks one after the other), the memberlist callback for a peer      *)
(* (NotifyJoin, NotifyLeave), the goroutines that hand frames of other     *)
(* servers to NotifyMsg, main, and the event and storage loops.            *)
(*                                                                         *)
(* A session and a period of a peer's membership go through the same life  *)
(* (pc): register a channel, announce it, be open, unregister, announce    *)
(* that.  An agent's record is made when its websocket is opened and never *)
(* changes, so a record is named by the session it was made for.           *)
(***************************************************************************)
EXTENDS Router, Delegate, FiniteSets

CONSTANTS
  RemoteSessions,  \* websocket sessions of agents with other servers
  HomeOf,          \* the server each remote session is with
  Self,            \* the id of this server (nodeId)
  MaxFrames,       \* bound: frames a websocket sends while it is open
  Ending,          \* bound: the sessions that may end by themselves
  Exchanges,       \* bound: the peers a push/pull exchange is held with
  MaxArrivals,     \* bound: how often frames of other servers arrive
  EarlyDial        \* bound: if FALSE, websockets wait until main is done starting

Records == AgentSessions \cup RemoteSessions

\* What the processing loops and the gossip look at in a transport.Message.
Msg(type, sub, of)  == [type |-> type, sub |-> sub, of |-> of, servers |-> {}]
AgentMsg(sub, r)    == Msg("agent", sub, r)
ClientMsg(sub, c)   == Msg("client", sub, c)
ServerMsg(sub, n)   == Msg("server", sub, n)
ScriptMsg(c)        == Msg("script", "create", c)
OutputMsg(a)        == Msg("output", "frame", a)
ListMsg(S)          == [type |-> "server", sub |-> "list", of |-> None, servers |-> S]

AllMessages ==
  {AgentMsg(sub, r) : sub \in {"connect", "contact", "disconnect", "sync"}, r \in Records}
    \cup {ClientMsg(sub, c) : sub \in {"connect", "disconnect"}, c \in ClientSessions}
    \cup {ServerMsg(sub, n) : sub \in {"join", "leave"}, n \in Nodes}
    \cup {ScriptMsg(c) : c \in ClientSessions}
    \cup {OutputMsg(a) : a \in AgentSessions}
    \cup {ListMsg(S) : S \in SUBSET Nodes}

\* What other servers send about their agents: sync messages are broadcast, what
\* an agent itself sends goes to each peer directly (here: that it connected).
AllFrames    == {AgentMsg(sub, r) : sub \in {"connect", "sync"}, r \in RemoteSessions}
FrameOrigin  == [f \in AllFrames |-> HomeOf[f.of]]
Copies(f)    == IF f.sub = "sync" THEN MaxArrivals ELSE 1

ASSUME ServerAssumption ==
  /\ Threads = {"main", "event", "storage"} \cup Receivers
  /\ \A r \in RemoteSessions : CodeOf[r] \in Codes
  /\ RemoteSessions \cap Sessions = {} /\ None \notin RemoteSessions
  /\ Self \in Codes
  /\ \A p \in PeerSessions : CodeOf[p] # Self
  \* The id of an admin client is made when its websocket opens.
  /\ \A c, d \in ClientSessions : CodeOf[c] = CodeOf[d] => c = d
  /\ Messages = AllMessages /\ None \notin AllMessages
  /\ Nodes \subseteq Codes /\ Self \in Nodes
  /\ \A p \in PeerSessions : CodeOf[p] \in Nodes
  /\ \A r \in RemoteSessions : HomeOf[r] \in Nodes
  \* memberlist handles packets, by which broadcasts come, in one goroutine, and each
  \* connection, by which the other frames come, in one of its own.
  /\ "udp" \in Receivers /\ Receivers \cap (Queues \cup {"main"}) = {}
  /\ MaxArrivals \in Nat /\ Frames = AllFrames /\ Origin = FrameOrigin
  /\ \A f \in AllFrames : Carrier[f] = "udp" <=> f.sub = "sync"
  /\ {"LOCAL_CLIENT", "LOCAL_AGENT", "LOCAL_SERVER", "PEER_AGENT", "PEER_SERVER"}
        \subseteq Emitters
  /\ MaxFrames \in Nat /\ Ending \subseteq Sessions /\ Exchanges \subseteq PeerSessions
  /\ EarlyDial \in BOOLEAN

VARIABLES
  boot,       \* how far main is
  pc,         \* pc[s]: where the life of session s is
  frames,     \* frames[s]: how many frames its websocket sent
  cur,        \* cur[q]: the message the loop on q received and has to act on
  agentRow,   \* agentRow[c]: the record the table of agents has for c
  serverRow,  \* serverRow[n]: the status the table of servers has for n
  cast,       \* the messages handed to memberlist's broadcast queue
  relayed,    \* the messages sent to a peer directly
  gossip,     \* the gossip tick: "idle", or inside GetBroadcasts ("counting")
  merge,      \* merge[p]: the push/pull exchange with p
  heard,      \* <<f, i>> when frame f of another server came in for the i-th time
  view,       \* view[c][a]: the record of a that admin client c was last sent in
              \* a sync message, the one kind the UI takes agents from
  belief      \* belief[a][n]: the status agent a was last told for server n

svars == <<boot, pc, frames, cur, agentRow, serverRow, cast, relayed, gossip,
           merge, heard, view, belief>>
vars  == <<rvars, dvars, svars>>

-----------------------------------------------------------------------------
(* main.                                                                   *)

\* The listener is up before anything else is; then main saves its own row.
SaveSelf ==
  /\ boot = "http"
  /\ boot' = "saved"
  /\ serverRow' = [serverRow EXCEPT ![Self] = "alive"]
  /\ UNCHANGED <<rvars, dvars, pc, frames, cur, agentRow, cast, relayed,
                 gossip, merge, heard, view, belief>>

\* StartCluster: Router = NewRouter(ctx).
MakeRouter ==
  /\ boot = "saved"
  /\ boot' = "router"
  /\ UNCHANGED <<rvars, dvars, pc, frames, cur, agentRow, serverRow, cast,
                 relayed, gossip, merge, heard, view, belief>>

\* memberlist.Create calls NotifyJoin for the server itself, in main.
JoinSelf ==
  /\ boot = "router"
  /\ boot' = "joining"
  /\ Renew(Self)
  /\ Emit("main", "PEER_SERVER", ServerMsg("join", Self))
  /\ UNCHANGED <<pc, frames, cur, agentRow, serverRow, cast, relayed, gossip,
                 merge, heard, view, belief>>

\* Create returns, and startGossip starts the broadcast loop.
StartBroadcasts ==
  /\ boot = "joining" /\ Idle("main")
  /\ boot' = "clustered"
  /\ UNCHANGED <<rvars, dvars, pc, frames, cur, agentRow, serverRow, cast,
                 relayed, gossip, merge, heard, view, belief>>

\* StartCluster returns; only now are the processing loops started.
StartLoops ==
  /\ boot = "clustered"
  /\ boot' = "running"
  /\ UNCHANGED <<rvars, dvars, pc, frames, cur, agentRow, serverRow, cast,
                 relayed, gossip, merge, heard, view, belief>>

Main == SaveSelf \/ MakeRouter \/ JoinSelf \/ StartBroadcasts \/ StartLoops

Clustered == boot \in {"clustered", "running"}

\* memberlist holds its node lock while it runs NotifyJoin or NotifyLeave, so
\* these callbacks are serial.
BriefCallback(p) ==  \* a variant: the callback leaves its Emit to a goroutine
  pc[p] \in {"register", "hello", "unregister", "bye"}

InCallback(p) == \/ pc[p] \in {"register", "hello", "unregister", "bye"}
                 \/ pc[p] \in {"open", "done"} /\ ~Idle(p)
NodeLocked == boot = "joining" \/ \E p \in PeerSessions : InCallback(p)

-----------------------------------------------------------------------------
(* The handlers of a session; NotifyJoin and NotifyLeave of a peer.        *)

\* Members come once main has a cluster; websockets from the moment there is a
\* router, or (bound: EarlyDial is FALSE) once the loops run.
MayStart(s) ==
  IF s \in PeerSessions
  THEN /\ Clustered /\ ~NodeLocked
       /\ \A p \in PeerSessions \ {s} :
            CodeOf[p] = CodeOf[s] => pc[p] \in {"new", "done"}
  ELSE IF EarlyDial THEN boot \notin {"http", "saved"} ELSE boot = "running"

\* A websocket is accepted, a peer is found alive; RegisterX waits for its lock.
Start(s) ==
  /\ pc[s] = "new" /\ MayStart(s)
  /\ AwaitLock(s)
  /\ pc' = [pc EXCEPT ![s] = "register"]
  /\ UNCHANGED <<dvars, boot, frames, cur, agentRow, serverRow, cast, relayed,
                 gossip, merge, heard, view, belief>>

Registered(s) ==
  /\ pc[s] = "register"
  /\ Register(s)
  /\ pc' = [pc EXCEPT ![s] = "hello"]
  /\ UNCHANGED <<dvars, boot, frames, cur, agentRow, serverRow, cast, relayed,
                 gossip, merge, heard, view, belief>>

\* What a session emits about itself, as whom.
Role(s) == CASE s \in AgentSessions  -> "LOCAL_AGENT"
             [] s \in ClientSessions -> "LOCAL_CLIENT"
             [] OTHER                -> "PEER_SERVER"
HelloMsg(s) == CASE s \in AgentSessions  -> AgentMsg("connect", s)
                 [] s \in ClientSessions -> ClientMsg("connect", s)
                 [] OTHER                -> ServerMsg("join", CodeOf[s])
ByeMsg(s) == CASE s \in AgentSessions  -> AgentMsg("disconnect", s)
               [] s \in ClientSessions -> ClientMsg("disconnect", s)
               [] OTHER                -> ServerMsg("leave", CodeOf[s])

Announce(s, from, to, m) ==
  /\ pc[s] = from
  /\ Emit(s, Role(s), m)
  /\ pc' = [pc EXCEPT ![s] = to]
  /\ UNCHANGED <<boot, frames, cur, agentRow, serverRow, cast, relayed, gossip,
                 merge, heard, view, belief>>

\* NotifyJoin has also made a new map for the peer's frames by then.
Hello(s) ==
  /\ Announce(s, "hello", "open", HelloMsg(s))
  /\ IF s \in PeerSessions THEN Renew(CodeOf[s]) ELSE UNCHANGED dvars

\* A frame of an admin client; a frame of an agent, which first counts as a
\* sign of life.  The handlers emit what they decode, of whatever type: here it is
\* what this program's agents and admin pages send, the output of scripts and scripts
\* to be created.
Frame(s) ==
  /\ pc[s] = "open" /\ s \notin PeerSessions
  /\ frames[s] < MaxFrames
  /\ frames' = [frames EXCEPT ![s] = @ + 1]
  /\ IF s \in AgentSessions
     THEN Emit(s, "LOCAL_AGENT", AgentMsg("contact", s))
          /\ pc' = [pc EXCEPT ![s] = "body"]
     ELSE Emit(s, "LOCAL_CLIENT", ScriptMsg(s)) /\ UNCHANGED pc
  /\ UNCHANGED <<dvars, boot, cur, agentRow, serverRow, cast, relayed, gossip,
                 merge, heard, view, belief>>

Body(s) ==
  s \in AgentSessions /\ Announce(s, "body", "open", OutputMsg(s)) /\ UNCHANGED dvars

\* The websocket ends (at either end), the peer is found dead or leaves, and the
\* map of its frames is dropped; UnregisterX waits for its lock.
End(s) ==
  /\ pc[s] = "open"
  /\ s \in Ending \/ writer[s] = "exited"
  /\ s \in PeerSessions => ~NodeLocked
  /\ AwaitLock(s)
  /\ pc' = [pc EXCEPT ![s] = "unregister"]
  /\ IF s \in PeerSessions THEN Forget(CodeOf[s]) ELSE UNCHANGED dvars
  /\ UNCHANGED <<boot, frames, cur, agentRow, serverRow, cast, relayed, gossip,
                 merge, heard, view, belief>>

Unregistered(s) ==
  /\ pc[s] = "unregister"
  /\ Unregister(s)
  /\ pc' = [pc EXCEPT ![s] = "bye"]
  /\ UNCHANGED <<dvars, boot, frames, cur, agentRow, serverRow, cast, relayed,
                 gossip, merge, heard, view, belief>>

Bye(s) == Announce(s, "bye", "done", ByeMsg(s)) /\ UNCHANGED dvars

\* A variant: the writer goroutine also returns when a write to its websocket
\* fails.
HangupEarly(s) == WriterGivesUp(s) /\ UNCHANGED <<dvars, svars>>

\* The writer goroutine closes the websocket when its channel is closed.
Hangup(s) == WriterExit(s) /\ UNCHANGED <<dvars, svars>>

-----------------------------------------------------------------------------
(* Delivery to the goroutine that writes to a websocket or to a peer.      *)

Told(b, m) ==
  CASE m.type = "server" /\ m.sub = "list"  ->
         [n \in Nodes |-> IF n \in m.servers THEN "alive" ELSE b[n]]
    [] m.type = "server" /\ m.sub = "join"  -> [b EXCEPT ![m.of] = "alive"]
    [] m.type = "server" /\ m.sub = "leave" -> [b EXCEPT ![m.of] = "offline"]
    [] OTHER                                -> b

Deliver(g, s) ==
  /\ HandOff(g, s)
  /\ LET m == Now(g).msg IN
       /\ view' = IF s \in ClientSessions /\ m.type = "agent" /\ m.sub = "sync"
                  THEN [view EXCEPT ![s][CodeOf[m.of]] = m.of]
                  ELSE view
       /\ belief' = IF s \in AgentSessions
                    THEN [belief EXCEPT ![s] = Told(@, m)] ELSE belief
       /\ relayed' = IF s \in PeerSessions THEN relayed \cup {m} ELSE relayed
  /\ UNCHANGED <<dvars, boot, pc, frames, cur, agentRow, serverRow, cast,
                 gossip, merge, heard>>

Proceed(g) ==
  \/ (QueueSend(g) \/ BeginFanout(g)) /\ UNCHANGED <<dvars, svars>>
  \/ \E s \in Sessions : Deliver(g, s)

-----------------------------------------------------------------------------
(* The loops on the buffered channels.                                     *)

Running(q) == boot = "running" \/ (q = "cluster" /\ Clustered)

\* The messages a loop does more with than log them.
Minds(q, m) == \/ q = "cluster"
               \/ q = "storage" /\ m.type \in {"server", "agent"}
               \/ q = "event" /\ m.type = "agent" /\ m.sub = "connect"

Take(q) ==
  /\ Running(q) /\ cur[q] = None
  /\ q \in Threads => Idle(q)
  /\ Receive(q)
  /\ cur' = [cur EXCEPT ![q] = IF Minds(q, Head(queue[q])) THEN Head(queue[q])
                                                           ELSE None]
  /\ UNCHANGED <<dvars, boot, pc, frames, agentRow, serverRow, cast, relayed,
                 gossip, merge, heard, view, belief>>

UnknownServers == {n \in Nodes : serverRow[n] = "unknown"}  \* a variant

\* ListLiveServers.
LiveServers == {n \in Nodes : serverRow[n] = "alive"}

\* HandleEvent: an agent that connects is sent the live servers.
AnswerConnect ==
  /\ cur["event"] # None
  /\ Send("event", "agent", CodeOf[cur["event"].of], ListMsg(LiveServers))
  /\ cur' = [cur EXCEPT !["event"] = None]
  /\ UNCHANGED <<dvars, boot, pc, frames, agentRow, serverRow, cast, relayed,
                 gossip, merge, heard, view, belief>>

RawStatus(sub) == sub   \* a variant: the subtype is taken for the status

\* The status NotifyJoin and NotifyLeave put into the row they emit.
StatusOf(sub) == IF sub = "leave" THEN "offline" ELSE "alive"

\* HandleStorage, case "server".
StoreServer ==
  LET m == cur["storage"] IN
  /\ m # None /\ m.type = "server"
  /\ serverRow' = [serverRow EXCEPT ![m.of] = StatusOf(m.sub)]
  /\ cur' = [cur EXCEPT !["storage"] = None]
  /\ UNCHANGED <<rvars, dvars, boot, pc, frames, agentRow, cast, relayed,
                 gossip, merge, heard, view, belief>>

\* Variants: everything is announced; only what was announced before is.
AlwaysNews(m) == TRUE
OldNews(m)    == m.sub = "sync"

\* What a sync message says has been announced already.
IsNews(m) == m.sub # "sync"

FirstSaved(r) ==  \* a variant: INSERT without the ON CONFLICT clause
  IF agentRow[CodeOf[r]] = None THEN r ELSE agentRow[CodeOf[r]]

\* SaveAgent: the row becomes the record, whether it was there or not.
Saved(r) == r

\* A variant: the announcement comes first, the row is saved after it.
StoreAgentLate ==
  LET m == cur["storage"] IN
  /\ m # None /\ m.type = "agent"
  /\ IF IsNews(m)
     THEN /\ Emit("storage", "LOCAL_SERVER", AgentMsg("sync", m.of))
          /\ cur' = [cur EXCEPT !["storage"] = AgentMsg("sync", m.of)]
          /\ UNCHANGED agentRow
     ELSE /\ Idle("storage")
          /\ agentRow' = [agentRow EXCEPT ![CodeOf[m.of]] = m.of]
          /\ cur' = [cur EXCEPT !["storage"] = None]
          /\ UNCHANGED rvars
  /\ UNCHANGED <<dvars, boot, pc, frames, serverRow, cast, relayed, gossip,
                 merge, heard, view, belief>>

\* HandleStorage, case "agent".
StoreAgent ==
  LET m == cur["storage"] IN
  /\ m # None /\ m.type = "agent"
  /\ agentRow' = [agentRow EXCEPT ![CodeOf[m.of]] = Saved(m.of)]
  /\ IF IsNews(m) THEN Emit("storage", "LOCAL_SERVER", AgentMsg("sync", m.of))
                  ELSE UNCHANGED rvars
  /\ cur' = [cur EXCEPT !["storage"] = None]
  /\ UNCHANGED <<dvars, boot, pc, frames, serverRow, cast, relayed, gossip,
                 merge, heard, view, belief>>

\* The broadcast loop: QueueBroadcast needs the queue's lock.
QueueBroadcast ==
  /\ cur["cluster"] # None
  /\ gossip = "idle"
  /\ cast' = cast \cup {cur["cluster"]}
  /\ cur' = [cur EXCEPT !["cluster"] = None]
  /\ UNCHANGED <<rvars, dvars, boot, pc, frames, agentRow, serverRow, relayed,
                 gossip, merge, heard, view, belief>>

-----------------------------------------------------------------------------
(* memberlist: gossip, push/pull, frames of other servers.                 *)

Members == {p \in PeerSessions : pc[p] = "open"}

\* GetBroadcasts takes the queue's lock, and then calls NumNodes, which startGossip
\* made of mlist.NumMembers: that needs the node lock.
GossipTick ==
  /\ gossip = "idle" /\ Members # {} /\ cast # {}
  /\ gossip' = "counting"
  /\ UNCHANGED <<rvars, dvars, boot, pc, frames, cur, agentRow, serverRow,
                 cast, relayed, merge, heard, view, belief>>

GossipDone ==
  /\ gossip = "counting" /\ ~NodeLocked
  /\ gossip' = "idle"
  /\ UNCHANGED <<rvars, dvars, boot, pc, frames, cur, agentRow, serverRow,
                 cast, relayed, merge, heard, view, belief>>

\* A push/pull exchange with a member: memberlist merges its own state first,
\* and hands the member's own row to MergeRemoteState later.
PushPull(p) ==
  /\ p \in Exchanges /\ merge[p] = "none" /\ p \in Members /\ ~NodeLocked
  /\ merge' = [merge EXCEPT ![p] = "begun"]
  /\ UNCHANGED <<rvars, dvars, boot, pc, frames, cur, agentRow, serverRow,
                 cast, relayed, gossip, heard, view, belief>>

MergeRemoteState(p) ==
  /\ merge[p] = "begun"
  /\ merge' = [merge EXCEPT ![p] = "saved"]
  /\ Renew(CodeOf[p])
  /\ serverRow' = [serverRow EXCEPT ![CodeOf[p]] = "alive"]
  /\ UNCHANGED <<rvars, boot, pc, frames, cur, agentRow, cast, relayed, gossip,
                 heard, view, belief>>

\* NotifyMsg: a frame comes in, a broadcast several times.
Arrive(g, f) ==
  /\ Clustered /\ Idle(g)
  /\ LookUp(g, f)
  /\ Cardinality(heard) < MaxArrivals
  /\ \E i \in 1..Copies(f) : /\ heard \cap {<<f, j>> : j \in i..Copies(f)} = {}
                             /\ \A j \in 1..(i - 1) : <<f, j>> \in heard
                             /\ heard' = heard \cup {<<f, i>>}
  /\ UNCHANGED <<rvars, boot, pc, frames, cur, agentRow, serverRow, cast,
                 relayed, gossip, merge, view, belief>>

Recall(g) == (Install(g) \/ Check(g)) /\ UNCHANGED <<rvars, svars>>

\* The frame is emitted as its sender's emitter, converted to that of a peer.
Relay(g) ==
  /\ Mark(g)
  /\ Emit(g, IF arg[g].sub = "sync" THEN "PEER_SERVER" ELSE "PEER_AGENT", arg[g])
  /\ UNCHANGED svars

NotifyMsg(g) == (\E f \in Frames : Arrive(g, f)) \/ Recall(g) \/ Relay(g)

-----------------------------------------------------------------------------
Init ==
  /\ RInit /\ DInit
  /\ boot = "http"
  /\ pc = [s \in Sessions |-> "new"]
  /\ frames = [s \in Sessions |-> 0]
  /\ cur = [q \in Queues |-> None]
  /\ agentRow = [c \in Codes |-> None]
  /\ serverRow = [n \in Nodes |-> "unknown"]
  /\ cast = {} /\ relayed = {} /\ gossip = "idle"
  /\ heard = {}
  /\ merge = [p \in PeerSessions |-> "none"]
  /\ view = [c \in ClientSessions |-> [a \in Codes |-> None]]
  /\ belief = [a \in AgentSessions |-> [n \in Nodes |-> "unknown"]]

\* What session s's own goroutine does once it is under way.
Handler(s) == \/ Registered(s) \/ Hello(s) \/ Body(s) \/ Unregistered(s) \/ Bye(s)

Loops == \/ \E q \in Queues : Take(q)
         \/ AnswerConnect \/ StoreServer \/ StoreAgent \/ QueueBroadcast

Memberlist == \/ GossipTick \/ GossipDone
              \/ \E p \in PeerSessions : PushPull(p) \/ MergeRemoteState(p)
              \/ \E g \in Receivers : NotifyMsg(g)

Next ==
  \/ Main
  \/ \E s \in Sessions : Start(s) \/ Handler(s) \/ Frame(s) \/ End(s) \/ Hangup(s)
  \/ \E g \in Goroutines : Proceed(g)
  \/ Loops
  \/ Memberlist

Safety == Init /\ [][Next]_vars

\* A goroutine that can go on does.  Nothing makes a websocket open, speak or
\* end, except that the server ends one whose writer goroutine returned.
Fairness ==
  /\ WF_vars(Main)
  /\ \A s \in Sessions :
       /\ WF_vars(Handler(s))
       /\ WF_vars(Hangup(s))
       /\ WF_vars(writer[s] = "exited" /\ End(s))
  /\ \A g \in Goroutines : WF_vars(Proceed(g))
  /\ \A q \in Queues : WF_vars(Take(q))
  /\ WF_vars(AnswerConnect) /\ WF_vars(StoreServer \/ StoreAgent)
  /\ WF_vars(QueueBroadcast) /\ WF_vars(GossipDone)
  /\ \A p \in PeerSessions : WF_vars(MergeRemoteState(p))
  /\ \A g \in Receivers : WF_vars(Recall(g) \/ Relay(g))

Spec == Safety /\ Fairness

-----------------------------------------------------------------------------
(* Safety.                                                                 *)

STypeOK ==
  /\ boot \in {"http", "saved", "router", "joining", "clustered", "running"}
  /\ pc \in [Sessions -> {"new", "register", "hello", "open", "body",
                          "unregister", "bye", "done"}]
  /\ frames \in [Sessions -> 0..MaxFrames]
  /\ cur \in [Queues -> AllMessages \cup {None}]
  /\ agentRow \in [Codes -> Records \cup {None}]
  /\ serverRow \in [Nodes -> {"unknown", "alive", "offline"}]
  /\ cast \subseteq AllMessages /\ relayed \subseteq AllMessages
  /\ gossip \in {"idle", "counting"}
  /\ merge \in [PeerSessions -> {"none", "begun", "saved"}]
  /\ heard \subseteq Frames \X (1..MaxArrivals)
  /\ view \in [ClientSessions -> [Codes -> Records \cup {None}]]
  /\ belief \in [AgentSessions -> [Nodes -> {"unknown", "alive", "offline"}]]

Connected(s) == pc[s] \in {"open", "body"}

\* A session that has announced itself can be reached until it ends: the channel
\* it drains is the one the router sends to for its code, and is open.
OwnChannel ==
  \A s \in Sessions : pc[s] \in {"hello", "open", "body"} =>
    /\ outbound[Kind(s)][CodeOf[s]] = chan[s]
    /\ writer[s] = "running"

\* The storage loop has yet to hand on the sync message about a.
Announcing(a) ==
  \E i \in DOMAIN todo["storage"] : todo["storage"][i].msg = AgentMsg("sync", a)

\* A sync message, from which admin clients and the other servers take what they know
\* about an agent, goes out after the row was written: as long as it is under way the
\* table has that very record, and where it has arrived the table has one.  (The frame
\* an agent's handler emits, as opposed to the sync, is routed while the row waits in
\* the storage queue.)
SavedBeforeSynced ==
  \A a \in AgentSessions :
    /\ Announcing(a) => agentRow[CodeOf[a]] = a
    /\ \/ AgentMsg("sync", a) \in cast
       \/ \E c \in ClientSessions : view[c][CodeOf[a]] = a
       => agentRow[CodeOf[a]] # None

\* Frames about an agent go out from the server the agent is connected to, and
\* no other: what a server hears from the cluster is never sent on.
NoEcho ==
  \A m \in cast \cup relayed : m.type = "agent" => m.of \in AgentSessions

Owed(g, k) == \E i \in DOMAIN todo[g] : todo[g][i].to = k

\* Nothing is on its way to the tables, or from them to the admin clients.
StorageQuiet ==
  /\ queue["storage"] = <<>> /\ cur["storage"] = None
  /\ Idle("storage") /\ Idle("udp")
  /\ \A g \in Goroutines : ~Owed(g, "storage")

\* Once things are quiet, an admin client that was told of an agent was last
\* told what the table says.
SyncConsistency ==
  StorageQuiet => \A c \in ClientSessions, a \in Codes :
    Connected(c) => view[c][a] \in {None, agentRow[a]}

\* The table lists a member of the cluster as alive as soon as what was queued
\* for the table has been written, even when it left and came back, and with
\* push/pull exchanges under way.
MemberRowAlive ==
  queue["storage"] = <<>> /\ cur["storage"] = None =>
    \A p \in PeerSessions :
      pc[p] = "open" /\ Idle(p) => serverRow[CodeOf[p]] = "alive"

\* The server uses the router as any program may: what is proved of the router
\* holds in the server.
RouterContract == RSpec

\* And it uses the table of seen frames as module Delegate says.
DelegateContract == DSpec

-----------------------------------------------------------------------------
(* Liveness.                                                               *)

\* Every call to Emit or Send returns: the sessions and frames of an instance
\* are bounded, so in the end none is under way.
EmitsReturn == <>[](\A g \in Goroutines : todo[g] = <<>>)

\* An agent that connects is told which servers are alive.
TellsAgents ==
  \A a \in AgentSessions :
    Connected(a) ~> (belief[a][Self] = "alive" \/ ~Connected(a))

\* An admin client that is there when an agent connects hears of that agent.
ClientsHear ==
  \A a \in AgentSessions, c \in ClientSessions :
    Connected(c) /\ pc[a] = "register"
      ~> (~Connected(c) \/ view[c][CodeOf[a]] = a)

\* The cluster hears of every agent that connects.
ClusterHears ==
  \A a \in AgentSessions : Connected(a) ~> AgentMsg("sync", a) \in cast

\* A goroutine that served a session that is over returns.
WritersReturn ==
  \A s \in Sessions : pc[s] = "done" ~> writer[s] = "exited"
=============================================================================
