---------------------------- MODULE ServerProofs ----------------------------
(***************************************************************************)
(* Proofs about Server: it implements Router and Delegate, so what         *)
(* RouterProofs and DelegateProofs show of them holds in the server,       *)
(* whatever sessions, peers and frames there are.  Then the safety of the  *)
(* server's traffic: what it tells admin clients and the cluster of its    *)
(* agents was saved before, and what it heard from the cluster it does not *)
(* send back.  Both follow from what may be under way to which destination *)
(* (Fits), wherever a message is: owed by a goroutine, in a buffered       *)
(* channel, in the hands of a loop, or delivered.                          *)
(***************************************************************************)
EXTENDS Server, RouterProofs, DelegateProofs, FiniteSetTheorems

USE RouterAssumption, ServerAssumption

\* What the fields of a message say of each other.
LEMMA MessageFields ==
  ASSUME NEW m \in AllMessages
  PROVE  /\ m.type = "agent" => m.of \in Records /\ CodeOf[m.of] \in Codes
         /\ m.type = "server" /\ m.sub \in {"join", "leave"} => m.of \in Nodes
<1> USE DEF AgentMsg, ClientMsg, ServerMsg, ScriptMsg, OutputMsg, ListMsg, Msg
<1>1. \A r \in Records : CodeOf[r] \in Codes
  BY DEF Records, Sessions
<1>2. CASE \E sub \in {"connect", "contact", "disconnect", "sync"}, r \in Records :
              m = AgentMsg(sub, r)
  BY <1>1, <1>2
<1>3. CASE \E sub \in {"join", "leave"}, n \in Nodes : m = ServerMsg(sub, n)
  BY <1>3
<1>4. CASE \/ \E sub \in {"connect", "disconnect"}, c \in ClientSessions :
                m = ClientMsg(sub, c)
           \/ \E c \in ClientSessions : m = ScriptMsg(c)
           \/ \E a \in AgentSessions : m = OutputMsg(a)
           \/ \E S \in SUBSET Nodes : m = ListMsg(S)
  BY <1>4
<1> QED BY <1>2, <1>3, <1>4 DEF AllMessages

\* What the server emits is a message the router knows.
LEMMA MessageTypes ==
  /\ \A r \in Records, sub \in {"connect", "contact", "disconnect", "sync"} :
       AgentMsg(sub, r) \in Messages
  /\ \A n \in Nodes, sub \in {"join", "leave"} : ServerMsg(sub, n) \in Messages
  /\ \A c \in ClientSessions, sub \in {"connect", "disconnect"} :
       ClientMsg(sub, c) \in Messages
  /\ \A c \in ClientSessions : ScriptMsg(c) \in Messages
  /\ \A a \in AgentSessions : OutputMsg(a) \in Messages
  /\ \A S \in SUBSET Nodes : ListMsg(S) \in Messages
<1>1. ASSUME NEW r \in Records,
             NEW sub \in {"connect", "contact", "disconnect", "sync"}
      PROVE  AgentMsg(sub, r) \in Messages
  <2>1. AgentMsg(sub, r) \in {AgentMsg(x, y) :
          x \in {"connect", "contact", "disconnect", "sync"}, y \in Records}
    OBVIOUS
  <2> QED BY <2>1 DEF AllMessages
<1>2. ASSUME NEW n \in Nodes, NEW sub \in {"join", "leave"}
      PROVE  ServerMsg(sub, n) \in Messages
  <2>1. ServerMsg(sub, n) \in {ServerMsg(x, y) : x \in {"join", "leave"}, y \in Nodes}
    OBVIOUS
  <2> QED BY <2>1 DEF AllMessages
<1>3. ASSUME NEW c \in ClientSessions, NEW sub \in {"connect", "disconnect"}
      PROVE  ClientMsg(sub, c) \in Messages
  <2>1. ClientMsg(sub, c) \in
          {ClientMsg(x, y) : x \in {"connect", "disconnect"}, y \in ClientSessions}
    OBVIOUS
  <2> QED BY <2>1 DEF AllMessages
<1>4. ASSUME NEW c \in ClientSessions PROVE ScriptMsg(c) \in Messages
  <2>1. ScriptMsg(c) \in {ScriptMsg(y) : y \in ClientSessions}
    OBVIOUS
  <2> QED BY <2>1 DEF AllMessages
<1>5. ASSUME NEW a \in AgentSessions PROVE OutputMsg(a) \in Messages
  <2>1. OutputMsg(a) \in {OutputMsg(y) : y \in AgentSessions}
    OBVIOUS
  <2> QED BY <2>1 DEF AllMessages
<1>6. ASSUME NEW S \in SUBSET Nodes PROVE ListMsg(S) \in Messages
  <2>1. ListMsg(S) \in {ListMsg(y) : y \in SUBSET Nodes}
    OBVIOUS
  <2> QED BY <2>1 DEF AllMessages
<1> QED BY <1>1, <1>2, <1>3, <1>4, <1>5, <1>6

\* What a session's handlers emit is a message, and its role an emitter.
LEMMA HandlerMessages ==
  ASSUME NEW s \in Sessions
  PROVE  /\ HelloMsg(s) \in Messages /\ ByeMsg(s) \in Messages
         /\ Role(s) \in Emitters /\ s \in Goroutines
<1>1. CASE s \in AgentSessions
  BY <1>1, MessageTypes DEF HelloMsg, ByeMsg, Role, Records, Goroutines, Sessions
<1>2. CASE s \in ClientSessions
  BY <1>2, MessageTypes DEF HelloMsg, ByeMsg, Role, Goroutines, Sessions
<1>3. CASE s \in PeerSessions
  BY <1>3, MessageTypes DEF HelloMsg, ByeMsg, Role, Goroutines, Sessions
<1> QED BY <1>1, <1>2, <1>3 DEF Sessions

\* What the event loop keeps is the connection of an agent, what the storage loop
\* keeps is about an agent or a server.
Minded == \A q \in Queues : cur[q] # None => cur[q] \in Messages /\ Minds(q, cur[q])

SInv == RInv /\ DInv /\ Minded

\* What other servers sent is a message the router knows.
LEMMA ForeignFrames == Frames \subseteq Messages
<1>1. \A sub \in {"connect", "sync"}, r \in RemoteSessions :
        AgentMsg(sub, r) \in Messages
  BY MessageTypes DEF Records
<1> QED BY <1>1 DEF AllFrames

-----------------------------------------------------------------------------
\* Every step of the server is a step of the router, or one the router does not
\* see.
LEMMA StepIsRouterStep ==
  ASSUME SInv, [Next]_vars PROVE [RNext]_rvars
<1> USE DEF SInv
<1>0. \A g \in Threads : g \in Goroutines
  BY DEF Goroutines
<1>1. CASE Main
  <2>1. CASE JoinSelf
    BY <2>1, <1>0, MessageTypes DEF JoinSelf, RNext
  <2>2. CASE SaveSelf \/ MakeRouter \/ StartBroadcasts \/ StartLoops
    BY <2>2 DEF SaveSelf, MakeRouter, StartBroadcasts, StartLoops
  <2> QED BY <1>1, <2>1, <2>2 DEF Main
<1>2. ASSUME NEW s \in Sessions, Start(s) \/ End(s) \/ Hangup(s)
      PROVE  RNext
  BY <1>2 DEF Start, End, Hangup, RNext
<1>3. ASSUME NEW s \in Sessions, Handler(s) PROVE RNext
  <2>1. CASE Registered(s) \/ Unregistered(s)
    BY <2>1 DEF Registered, Unregistered, RNext
  <2>2. CASE Hello(s) \/ Bye(s)
    BY <2>2, HandlerMessages DEF Hello, Bye, Announce, RNext
  <2>3. CASE Body(s)
    BY <2>3, HandlerMessages, MessageTypes DEF Body, Announce, RNext
  <2> QED BY <1>3, <2>1, <2>2, <2>3 DEF Handler
<1>4. ASSUME NEW s \in Sessions, Frame(s) PROVE RNext
  <2>1. s \in Goroutines /\ s \in AgentSessions \cup ClientSessions
    BY <1>4 DEF Frame, Goroutines, Sessions
  <2>2. CASE s \in AgentSessions
    BY <1>4, <2>1, <2>2, MessageTypes DEF Frame, RNext, Records
  <2>3. CASE s \notin AgentSessions
    BY <1>4, <2>1, <2>3, MessageTypes DEF Frame, RNext
  <2> QED BY <2>2, <2>3
<1>5. ASSUME NEW g \in Goroutines, Proceed(g) PROVE RNext
  BY <1>5 DEF Proceed, Deliver, SendStep, RNext
<1>6. ASSUME NEW q \in Queues, Take(q) PROVE RNext
  BY <1>6 DEF Take, RNext
<1>7. CASE AnswerConnect
  <2>1. "event" \in Queues /\ "agent" \in Kinds /\ "event" \in Goroutines
    BY <1>0 DEF Queues, Kinds
  <2>2. CodeOf[cur["event"].of] \in Codes
    BY <1>7, <2>1, MessageFields DEF AnswerConnect, Minded, Minds
  <2>3. ListMsg(LiveServers) \in Messages
    BY MessageTypes DEF LiveServers
  <2> QED BY <1>7, <2>1, <2>2, <2>3 DEF AnswerConnect, RNext
<1>8. CASE StoreServer \/ QueueBroadcast
  BY <1>8 DEF StoreServer, QueueBroadcast
<1>9. CASE StoreAgent
  <2>1. "storage" \in Queues /\ "storage" \in Goroutines
    BY <1>0 DEF Queues
  <2>2. AgentMsg("sync", cur["storage"].of) \in Messages
    BY <1>9, <2>1, MessageFields, MessageTypes DEF StoreAgent, Minded
  <2> QED BY <1>9, <2>1, <2>2 DEF StoreAgent, IsNews, RNext
<1>10. CASE Memberlist
  <2>1. ASSUME NEW g \in Receivers, NotifyMsg(g) PROVE [RNext]_rvars
    <3>1. CASE Relay(g)
      <4>1. arg[g] \in Messages /\ g \in Goroutines
        BY <1>0, <3>1, ForeignFrames DEF Relay, Mark, DInv, Handling
      <4> QED BY <3>1, <4>1 DEF Relay, RNext
    <3>2. CASE (\E f \in Frames : Arrive(g, f)) \/ Recall(g)
      BY <3>2 DEF Arrive, Recall
    <3> QED BY <2>1, <3>1, <3>2 DEF NotifyMsg
  <2>2. CASE GossipTick \/ GossipDone
    BY <2>2 DEF GossipTick, GossipDone
  <2>3. ASSUME NEW p \in PeerSessions, PushPull(p) \/ MergeRemoteState(p)
        PROVE  UNCHANGED rvars
    BY <2>3 DEF PushPull, MergeRemoteState
  <2> QED BY <1>10, <2>1, <2>2, <2>3 DEF Memberlist
<1>11. CASE UNCHANGED vars
  BY <1>11 DEF vars
<1> QED BY <1>1, <1>2, <1>3, <1>4, <1>5, <1>6, <1>7, <1>8, <1>9, <1>10, <1>11
        DEF Next, Loops

\* Every step of the server is a step of the delegate, or one it does not see.
LEMMA StepIsDelegateStep ==
  ASSUME [Next]_vars PROVE [DNext]_dvars
<1>1. CASE Main
  BY <1>1 DEF Main, SaveSelf, MakeRouter, JoinSelf, StartBroadcasts, StartLoops, DNext
<1>2. ASSUME NEW s \in Sessions, Start(s) \/ Frame(s) \/ Hangup(s)
      PROVE  UNCHANGED dvars
  BY <1>2 DEF Start, Frame, Hangup
<1>3. ASSUME NEW s \in Sessions, Handler(s) \/ End(s) PROVE [DNext]_dvars
  <2>1. CASE Registered(s) \/ Body(s) \/ Unregistered(s) \/ Bye(s)
    BY <2>1 DEF Registered, Body, Unregistered, Bye
  <2>2. CASE Hello(s)
    BY <2>2 DEF Hello, DNext
  <2>3. CASE End(s)
    BY <2>3 DEF End, DNext
  <2> QED BY <1>3, <2>1, <2>2, <2>3 DEF Handler
<1>4. ASSUME NEW g \in Goroutines, Proceed(g) PROVE UNCHANGED dvars
  BY <1>4 DEF Proceed, Deliver
<1>5. CASE Loops
  BY <1>5 DEF Loops, Take, AnswerConnect, StoreServer, StoreAgent, QueueBroadcast
<1>6. CASE Memberlist
  <2>1. ASSUME NEW g \in Receivers, NotifyMsg(g) PROVE DNext
    BY <2>1 DEF NotifyMsg, Arrive, Recall, Relay, DNext
  <2>2. CASE GossipTick \/ GossipDone
    BY <2>2 DEF GossipTick, GossipDone
  <2>3. ASSUME NEW p \in PeerSessions, PushPull(p) PROVE UNCHANGED dvars
    BY <2>3 DEF PushPull
  <2>4. ASSUME NEW p \in PeerSessions, MergeRemoteState(p) PROVE DNext
    BY <2>4 DEF MergeRemoteState, DNext
  <2> QED BY <1>6, <2>1, <2>2, <2>3, <2>4 DEF Memberlist
<1>7. CASE UNCHANGED vars
  BY <1>7 DEF vars
<1> QED BY <1>1, <1>2, <1>3, <1>4, <1>5, <1>6, <1>7 DEF Next

\* The loops keep only messages they know how to handle.
LEMMA MindedStep ==
  ASSUME SInv, [Next]_vars PROVE Minded'
<1> USE DEF SInv
<1>1. ASSUME NEW q \in Queues, Take(q) PROVE Minded'
  <2>1. queue[q] # <<>> /\ Head(queue[q]) \in Messages
    BY <1>1 DEF Take, Receive, RInv, RTypeOK
  <2>2. cur' = [cur EXCEPT ![q] = IF Minds(q, Head(queue[q])) THEN Head(queue[q])
                                                              ELSE None]
    BY <1>1 DEF Take
  <2> QED BY <2>1, <2>2 DEF Minded, Minds
<1>2. CASE AnswerConnect \/ StoreServer \/ StoreAgent \/ QueueBroadcast
  <2>1. \E q \in Queues : cur' = [cur EXCEPT ![q] = None]
    BY <1>2 DEF AnswerConnect, StoreServer, StoreAgent, QueueBroadcast, Queues
  <2> QED BY <2>1 DEF Minded, Minds
<1>3. CASE UNCHANGED cur
  BY <1>3 DEF Minded, Minds
<1>4. CASE Main \/ Memberlist
  BY <1>3, <1>4 DEF Main, SaveSelf, MakeRouter, JoinSelf, StartBroadcasts, StartLoops,
     Memberlist, GossipTick, GossipDone, PushPull, MergeRemoteState, NotifyMsg,
     Arrive, Recall, Relay, svars
<1>5. ASSUME NEW s \in Sessions,
             Start(s) \/ Handler(s) \/ Frame(s) \/ End(s) \/ Hangup(s)
      PROVE  Minded'
  BY <1>3, <1>5 DEF Start, Handler, Registered, Hello, Body, Unregistered, Bye,
     Announce, Frame, End, Hangup, svars
<1>6. ASSUME NEW g \in Goroutines, Proceed(g) PROVE Minded'
  BY <1>3, <1>6 DEF Proceed, Deliver, svars
<1>7. CASE UNCHANGED vars
  BY <1>3, <1>7 DEF vars, svars
<1> QED BY <1>1, <1>2, <1>4, <1>5, <1>6, <1>7 DEF Next, Loops

\* What is queued or in hand is a message, in every behaviour of the server.
LEMMA ServerInvariant == Safety => []SInv
<1>1. Init => SInv
  BY InitInvariant, DInitInvariant DEF Init, SInv, Minded
<1>2. SInv /\ [Next]_vars => SInv'
  BY StepIsRouterStep, StepIsDelegateStep, MindedStep, RouterStep, DStep DEF SInv
<1> QED BY <1>1, <1>2, PTL DEF Safety

\* The server implements the router.
THEOREM ServerImplementsRouter == Safety => RouterContract
<1>1. Init => RInit
  BY DEF Init
<1>2. SInv /\ [Next]_vars => [RNext]_rvars
  BY StepIsRouterStep
<1> QED BY <1>1, <1>2, ServerInvariant, PTL DEF Safety, RouterContract, RSpec

\* The server implements the delegate.
THEOREM ServerImplementsDelegate == Safety => DelegateContract
<1>1. Init => DInit
  BY DEF Init
<1>2. [Next]_vars => [DNext]_dvars
  BY StepIsDelegateStep
<1> QED BY <1>1, <1>2, PTL DEF Safety, DelegateContract, DSpec

\* No goroutine of the server sends on a closed channel, closes one twice, or waits
\* in a fan-out for a channel that nobody drains any more.
THEOREM ServerChannelsSafe == Safety => [](NoSendOnClosed /\ FanoutServed /\ NoOrphanChannel)
<1>1. Safety => RSpec
  BY ServerImplementsRouter DEF RouterContract
<1> QED BY <1>1, SendsOnOpenChannels, FanoutsAreServed, ChannelsNotOrphaned, PTL

\* The server emits no frame of another server twice through one map, whatever
\* the peers, the receivers and the push/pull exchanges do.
THEOREM ServerFramesOncePerMap == Safety => OncePerMap
<1>1. Safety => DSpec
  BY ServerImplementsDelegate DEF DelegateContract
<1> QED BY <1>1, FramesOncePerMap

-----------------------------------------------------------------------------
(* The invariant of the traffic.                                           *)

\* Agents of this server only.
Own(m) == m.type = "agent" => m.of \in AgentSessions

\* A sync message about an agent of this server comes after its row.
SavedFirst(rows, m) ==
  m.type = "agent" /\ m.sub = "sync" /\ m.of \in AgentSessions
    => rows[CodeOf[m.of]] # None

\* The message m may be under way to d when the table of agents is rows.
Fits(rows, d, m) ==
  /\ SavedFirst(rows, m)
  /\ d \in {"cluster", "peer"} => Own(m)
  /\ d = "storage" /\ m.sub # "sync" => Own(m)

OwedFit ==
  \A g \in Goroutines : \A i \in 1..Len(todo[g]) :
    Fits(agentRow, todo[g][i].to, todo[g][i].msg)

QueuedFit ==
  \A q \in Queues : \A i \in 1..Len(queue[q]) : Fits(agentRow, q, queue[q][i])

HeldFit == \A q \in Queues : cur[q] # None => Fits(agentRow, q, cur[q])

SentFit == \A m \in cast \cup relayed : Fits(agentRow, "cluster", m)

ShownFit ==
  \A c \in ClientSessions, x \in Codes :
    view[c][x] \in AgentSessions => agentRow[x] # None

Traffic == OwedFit /\ QueuedFit /\ HeldFit /\ SentFit /\ ShownFit

TInv == SInv /\ STypeOK /\ IsFiniteSet(heard) /\ Traffic
-----------------------------------------------------------------------------
(* Lemmas about what is under way.                                         *)

\* No row of the old table is gone from the new one.
Grown(old, new) == \A c \in Codes : old[c] # None => new[c] # None

\* A row that was written stays written, so what fits goes on to fit.
LEMMA FitsStay ==
  ASSUME NEW old, NEW new, Grown(old, new), NEW d, NEW m, Fits(old, d, m)
  PROVE  Fits(new, d, m)
<1>1. \A a \in AgentSessions : CodeOf[a] \in Codes
  BY DEF Sessions
<1> QED BY <1>1 DEF Fits, SavedFirst, Own, Grown

\* What may be emitted as e: a message about an agent that is not a sync message
\* is about one of the server's own, unless it goes to admin clients only.
MayEmit(rows, e, m) ==
  /\ SavedFirst(rows, m)
  /\ e # "PEER_AGENT" /\ m.sub # "sync" => Own(m)
  /\ e \in {"LOCAL_AGENT", "LOCAL_SERVER"} => Own(m)

\* What may be emitted as e fits every destination of the plan of e.
LEMMA PlanFits ==
  ASSUME NEW rows, NEW e \in Emitters, NEW m, MayEmit(rows, e, m)
  PROVE  \A i \in 1..Len(Plan(e, m)) :
           Fits(rows, Plan(e, m)[i].to, Plan(e, m)[i].msg)
<1> USE DEF MayEmit, Fits, ToQueue, ToAll
<1>1. CASE e = "LOCAL_CLIENT"
  BY <1>1 DEF Plan, LocalClientEmit
<1>2. CASE e = "LOCAL_AGENT"
  BY <1>2 DEF Plan, LocalAgentEmit
<1>3. CASE e = "LOCAL_SERVER"
  BY <1>3 DEF Plan, LocalServerEmit
<1>4. CASE e = "PEER_CLIENT"
  BY <1>4 DEF Plan, PeerClientEmit
<1>5. CASE e = "PEER_AGENT"
  BY <1>5 DEF Plan, PeerAgentEmit
<1>6. CASE e = "PEER_SERVER"
  BY <1>6 DEF Plan, PeerServerEmit
<1> QED BY <1>1, <1>2, <1>3, <1>4, <1>5, <1>6

\* Nothing moves, but a row may be written and a message be put down.
LEMMA StayTraffic ==
  ASSUME Traffic, Grown(agentRow, agentRow'),
         UNCHANGED <<todo, queue, cast, relayed, view>>,
         \A q \in Queues : cur'[q] \in {cur[q], None}
  PROVE  Traffic'
<1>1. OwedFit' /\ QueuedFit'
  BY FitsStay DEF Traffic, OwedFit, QueuedFit
<1>2. HeldFit'
  BY FitsStay DEF Traffic, HeldFit
<1>3. SentFit' /\ ShownFit'
  BY FitsStay DEF Traffic, SentFit, ShownFit, Grown
<1> QED BY <1>1, <1>2, <1>3 DEF Traffic

\* A call of Emit or Send.
LEMMA CallTraffic ==
  ASSUME Traffic, RTypeOK, Grown(agentRow, agentRow'),
         NEW g \in Goroutines, NEW plan,
         \A i \in 1..Len(plan) : Fits(agentRow', plan[i].to, plan[i].msg),
         todo' = [todo EXCEPT ![g] = plan],
         UNCHANGED <<queue, cast, relayed, view>>,
         \A q \in Queues : cur'[q] \in {cur[q], None}
  PROVE  Traffic'
<1>1. OwedFit'
  <2>1. \A h \in Goroutines : todo'[h] = IF h = g THEN plan ELSE todo[h]
    BY DEF RTypeOK
  <2>2. ASSUME NEW h \in Goroutines, NEW i \in 1..Len(todo'[h])
        PROVE  Fits(agentRow', todo'[h][i].to, todo'[h][i].msg)
    BY <2>1, <2>2, FitsStay DEF Traffic, OwedFit
  <2> QED BY <2>2 DEF OwedFit
<1>2. QueuedFit'
  BY FitsStay DEF Traffic, QueuedFit
<1>3. HeldFit'
  BY FitsStay DEF Traffic, HeldFit
<1>4. SentFit' /\ ShownFit'
  BY FitsStay DEF Traffic, SentFit, ShownFit, Grown
<1> QED BY <1>1, <1>2, <1>3, <1>4 DEF Traffic

\* A send that is done with, and what it leaves in a buffered channel.
LEMMA PopTraffic ==
  ASSUME Traffic, RTypeOK, NEW g \in Goroutines, todo[g] # <<>>,
         todo' = [todo EXCEPT ![g] = Tail(@)]
  PROVE  \A h \in Goroutines : \A i \in 1..Len(todo'[h]) :
           Fits(agentRow, todo'[h][i].to, todo'[h][i].msg)
<1>1. todo[g] \in Seq(Stages)
  BY DEF RTypeOK
<1>2. \A i \in 1..Len(Tail(todo[g])) :
        i + 1 \in 1..Len(todo[g]) /\ Tail(todo[g])[i] = todo[g][i + 1]
  BY <1>1
<1>3. \A h \in Goroutines : todo'[h] = IF h = g THEN Tail(todo[g]) ELSE todo[h]
  BY DEF RTypeOK
<1> QED BY <1>2, <1>3 DEF Traffic, OwedFit

\* The send a goroutine is at fits its destination.
LEMMA NowFits ==
  ASSUME Traffic, RTypeOK, NEW g \in Goroutines, todo[g] # <<>>
  PROVE  Fits(agentRow, Now(g).to, Now(g).msg) /\ Now(g) \in Stages
BY DEF Traffic, OwedFit, Now, RTypeOK

\* A step of the sends a goroutine owes, the delivery of a message left aside.
LEMMA OwedStepTraffic ==
  ASSUME Traffic, RTypeOK, NEW g \in Goroutines,
         QueueSend(g) \/ BeginFanout(g),
         UNCHANGED <<agentRow, cur, cast, relayed, view>>
  PROVE  Traffic'
<1>1. todo[g] # <<>>
  BY DEF QueueSend, BeginFanout
<1>2. HeldFit' /\ SentFit' /\ ShownFit'
  BY DEF Traffic, HeldFit, SentFit, ShownFit
<1>3. CASE QueueSend(g)
  <2>1. OwedFit'
    BY <1>1, <1>3, PopTraffic DEF QueueSend, OwedFit
  <2>2. QueuedFit'
    <3>1. Fits(agentRow, Now(g).to, Now(g).msg)
      BY <1>1, NowFits
    <3>2. \A q \in Queues : queue[q] \in Seq(Messages)
      BY DEF RTypeOK
    <3>3. Now(g).msg \in Messages
      BY <1>1, NowFits DEF Stages
    <3>4. ASSUME NEW q \in Queues, NEW i \in 1..Len(queue'[q])
          PROVE  Fits(agentRow', q, queue'[q][i])
      <4>1. CASE q = Now(g).to
        <5>1. queue'[q] = Append(queue[q], Now(g).msg)
          BY <1>3, <4>1 DEF QueueSend, RTypeOK
        <5>2. queue'[q][i] = Now(g).msg \/ (i \in 1..Len(queue[q]) /\ queue'[q][i] = queue[q][i])
          BY <3>2, <3>3, <3>4, <5>1
        <5> QED BY <3>1, <4>1, <5>2 DEF Traffic, QueuedFit
      <4>2. CASE q # Now(g).to
        <5>1. queue'[q] = queue[q]
          BY <1>3, <4>2 DEF QueueSend, RTypeOK
        <5> QED BY <3>4, <5>1 DEF Traffic, QueuedFit
      <4> QED BY <4>1, <4>2
    <3> QED BY <3>4 DEF QueuedFit
  <2> QED BY <1>2, <2>1, <2>2 DEF Traffic
<1>4. CASE BeginFanout(g)
  <2>1. QueuedFit'
    BY <1>4 DEF BeginFanout, Traffic, QueuedFit
  <2>2. CASE todo' = [todo EXCEPT ![g] = Tail(@)]
    BY <1>1, <1>2, <2>1, <2>2, PopTraffic DEF Traffic, OwedFit
  <2>3. CASE todo' = [todo EXCEPT ![g] = todo[g]]
    <3>1. todo' = todo
      BY <2>3 DEF RTypeOK
    <3> QED BY <1>2, <2>1, <3>1 DEF Traffic, OwedFit
  <2>4. todo' = [todo EXCEPT ![g] = IF Targets(Now(g)) = {} THEN Tail(@) ELSE @]
    BY <1>4 DEF BeginFanout
  <2> QED BY <2>2, <2>3, <2>4
<1> QED BY <1>3, <1>4

\* A message is delivered to the kind of session it is owed to.
LEMMA HandOffKind ==
  ASSUME RInv, NEW g \in Goroutines, NEW s \in Sessions, HandOff(g, s)
  PROVE  todo[g] # <<>> /\ Now(g).to = Kind(s)
<1>1. /\ chan[s] \in Sessions /\ chan[s] \notin closed
  BY OwedIsRegistered DEF HandOff
<1>2. PICK c \in Codes : chan[s] = outbound[Now(g).to][c]
  BY DEF HandOff, RInv, FanoutCoherent
<1>3. todo[g] # <<>> /\ Now(g).to \in Kinds
  BY DEF HandOff, RInv, FanoutCoherent
<1>4. chan[s] # None
  BY <1>1 DEF Goroutines
<1>5. Kind(chan[s]) = Now(g).to
  BY <1>2, <1>3, <1>4 DEF RInv, RegistryCoherent
<1>6. outbound[Kind(s)][CodeOf[s]] = chan[s]
  BY <1>1, <1>4 DEF RInv, NoOrphanChannel
<1>7. Kind(s) \in Kinds /\ CodeOf[s] \in Codes
  BY KindType
<1>8. Kind(chan[s]) = Kind(s)
  BY <1>4, <1>6, <1>7 DEF RInv, RegistryCoherent
<1> QED BY <1>3, <1>5, <1>8

\* A message handed to a session is shown to a client or relayed to a peer.
LEMMA DeliverTraffic ==
  ASSUME TInv, NEW g \in Goroutines, NEW s \in Sessions, Deliver(g, s)
  PROVE  Traffic'
<1> DEFINE m == Now(g).msg
<1> USE DEF TInv, SInv
<1>1. HandOff(g, s) /\ UNCHANGED <<queue, agentRow, cur, cast>>
  BY DEF Deliver, HandOff
<1>2. todo[g] # <<>> /\ Now(g).to = Kind(s)
  BY <1>1, HandOffKind
<1>3. RTypeOK
  BY DEF RInv
<1>4. Fits(agentRow, Kind(s), m) /\ m \in AllMessages
  BY <1>2, <1>3, NowFits DEF Stages
<1>5. OwedFit'
  <2>1. CASE todo' = [todo EXCEPT ![g] = Tail(@)]
    BY <1>1, <1>2, <1>3, <2>1, PopTraffic DEF OwedFit
  <2>2. CASE todo' = [todo EXCEPT ![g] = todo[g]]
    <3>1. todo' = todo
      BY <1>3, <2>2 DEF RTypeOK
    <3> QED BY <1>1, <3>1 DEF Traffic, OwedFit
  <2>3. todo' = [todo EXCEPT ![g] = IF left[g] = {chan[s]} THEN Tail(@) ELSE @]
    BY <1>1 DEF HandOff
  <2> QED BY <2>1, <2>2, <2>3
<1>6. QueuedFit' /\ HeldFit'
  BY <1>1 DEF Traffic, QueuedFit, HeldFit
<1>7. SentFit'
  <2>1. relayed' = IF s \in PeerSessions THEN relayed \cup {m} ELSE relayed
    BY DEF Deliver
  <2>2. s \in PeerSessions => Fits(agentRow, "cluster", m)
    BY <1>4 DEF Kind, Fits
  <2> QED BY <1>1, <2>1, <2>2 DEF Traffic, SentFit
<1>8. ShownFit'
  <2>1. view' = IF s \in ClientSessions /\ m.type = "agent" /\ m.sub = "sync"
                THEN [view EXCEPT ![s][CodeOf[m.of]] = m.of] ELSE view
    BY DEF Deliver
  <2>2. CASE view' = view
    BY <1>1, <2>2 DEF Traffic, ShownFit
  <2>3. CASE /\ s \in ClientSessions /\ m.type = "agent" /\ m.sub = "sync"
             /\ view' = [view EXCEPT ![s][CodeOf[m.of]] = m.of]
    <3>1. m.of \in AgentSessions => agentRow[CodeOf[m.of]] # None
      BY <1>4, <2>3 DEF Fits, SavedFirst
    <3>2. \A c \in ClientSessions, x \in Codes :
            view'[c][x] = IF c = s /\ x = CodeOf[m.of] THEN m.of ELSE view[c][x]
      BY <2>3 DEF STypeOK
    <3> QED BY <1>1, <3>1, <3>2 DEF Traffic, ShownFit
  <2> QED BY <2>1, <2>2, <2>3
<1> QED BY <1>5, <1>6, <1>7, <1>8 DEF Traffic

-----------------------------------------------------------------------------
(* The loops.                                                              *)

\* What a loop takes off its queue fits that queue.
LEMMA TakeTraffic ==
  ASSUME TInv, NEW q \in Queues, Take(q) PROVE Traffic'
<1> USE DEF TInv, SInv
<1>1. /\ queue[q] # <<>> /\ queue[q] \in Seq(Messages)
      /\ queue' = [queue EXCEPT ![q] = Tail(@)]
      /\ UNCHANGED <<todo, agentRow, cast, relayed, view>>
  BY DEF Take, Receive, RInv, RTypeOK
<1>2. QueuedFit'
  <2>1. \A i \in 1..Len(Tail(queue[q])) :
          i + 1 \in 1..Len(queue[q]) /\ Tail(queue[q])[i] = queue[q][i + 1]
    BY <1>1
  <2>2. \A p \in Queues : queue'[p] = IF p = q THEN Tail(queue[q]) ELSE queue[p]
    BY <1>1 DEF RInv, RTypeOK
  <2> QED BY <1>1, <2>1, <2>2 DEF Traffic, QueuedFit
<1>3. HeldFit'
  <2>1. Fits(agentRow, q, Head(queue[q]))
    BY <1>1 DEF Traffic, QueuedFit
  <2>2. \A p \in Queues : cur'[p] \in IF p = q THEN {Head(queue[q]), None} ELSE {cur[p]}
    BY DEF Take, STypeOK
  <2> QED BY <1>1, <2>1, <2>2 DEF Traffic, HeldFit
<1>4. OwedFit' /\ SentFit' /\ ShownFit'
  BY <1>1 DEF Traffic, OwedFit, SentFit, ShownFit
<1> QED BY <1>2, <1>3, <1>4 DEF Traffic

\* What is held is put down.
LEMMA PutDown ==
  ASSUME STypeOK, NEW p \in Queues, cur' = [cur EXCEPT ![p] = None]
  PROVE  \A q \in Queues : cur'[q] \in {cur[q], None}
BY DEF STypeOK

\* The list of servers that answers a connecting agent names no agent.
LEMMA AnswerTraffic == ASSUME TInv, AnswerConnect PROVE Traffic'
<1> USE DEF TInv, SInv
<1> DEFINE st == ToOne("agent", CodeOf[cur["event"].of], ListMsg(LiveServers))
<1>1. /\ todo' = [todo EXCEPT !["event"] = <<st>>]
      /\ cur' = [cur EXCEPT !["event"] = None]
      /\ UNCHANGED <<queue, agentRow, cast, relayed, view>>
  BY DEF AnswerConnect, Send
<1>2. "event" \in Queues /\ "event" \in Goroutines
  BY DEF Queues, Goroutines
<1>3. Fits(agentRow', st.to, st.msg)
  BY DEF ToOne, ListMsg, Fits, SavedFirst, Own
<1>4. \A i \in 1..Len(<<st>>) : Fits(agentRow', <<st>>[i].to, <<st>>[i].msg)
  BY <1>3
<1>5. \A q \in Queues : cur'[q] \in {cur[q], None}
  BY <1>1, <1>2, PutDown
<1> QED BY <1>1, <1>2, <1>4, <1>5, CallTraffic DEF Grown, RInv

\* A change of the table of servers moves nothing.
LEMMA StoreServerTraffic == ASSUME TInv, StoreServer PROVE Traffic'
<1> USE DEF TInv
<1>1. /\ cur' = [cur EXCEPT !["storage"] = None]
      /\ UNCHANGED <<todo, queue, agentRow, cast, relayed, view>>
  BY DEF StoreServer, rvars
<1>2. \A q \in Queues : cur'[q] \in {cur[q], None}
  BY <1>1, PutDown DEF Queues
<1> QED BY <1>1, <1>2, StayTraffic DEF Grown

\* What is queued for the cluster fits the cluster.
LEMMA QueueBroadcastTraffic == ASSUME TInv, QueueBroadcast PROVE Traffic'
<1> USE DEF TInv
<1>1. /\ cur["cluster"] # None
      /\ cur' = [cur EXCEPT !["cluster"] = None]
      /\ cast' = cast \cup {cur["cluster"]}
      /\ UNCHANGED <<todo, queue, agentRow, relayed, view>>
  BY DEF QueueBroadcast, rvars
<1>2. \A q \in Queues : cur'[q] \in {cur[q], None}
  BY <1>1, PutDown DEF Queues
<1>3. Fits(agentRow, "cluster", cur["cluster"])
  BY <1>1 DEF Traffic, HeldFit, Queues
<1> QED BY <1>1, <1>2, <1>3 DEF Traffic, OwedFit, QueuedFit, HeldFit, SentFit, ShownFit

\* The row is saved before the sync message is emitted.
LEMMA StoreAgentTraffic == ASSUME TInv, StoreAgent PROVE Traffic'
<1> USE DEF TInv, SInv
<1> DEFINE m    == cur["storage"]
           sync == AgentMsg("sync", m.of)
<1>1. /\ m # None /\ m.type = "agent"
      /\ agentRow' = [agentRow EXCEPT ![CodeOf[m.of]] = m.of]
      /\ cur' = [cur EXCEPT !["storage"] = None]
      /\ UNCHANGED <<queue, cast, relayed, view>>
  BY DEF StoreAgent, Saved, Emit, rvars
<1>2. "storage" \in Queues /\ "storage" \in Goroutines
  BY DEF Queues, Goroutines
<1>3. m.of \in Records /\ CodeOf[m.of] \in Codes
  BY <1>1, <1>2, MessageFields DEF Minded
<1>4. m.of # None
  BY <1>3 DEF Records, Goroutines, Sessions
<1>5. Grown(agentRow, agentRow')
  BY <1>1, <1>3, <1>4 DEF Grown, STypeOK
<1>6. \A q \in Queues : cur'[q] \in {cur[q], None}
  BY <1>1, <1>2, PutDown
<1>7. CASE IsNews(m)
  <2>1. todo' = [todo EXCEPT !["storage"] = Plan("LOCAL_SERVER", sync)]
    BY <1>7 DEF StoreAgent, Emit
  <2>2. m.of \in AgentSessions
    BY <1>1, <1>2, <1>7 DEF Traffic, HeldFit, Fits, Own, IsNews
  <2>3. agentRow'[CodeOf[m.of]] # None
    BY <1>1, <1>3, <1>4 DEF STypeOK
  <2>4. MayEmit(agentRow', "LOCAL_SERVER", sync)
    BY <2>2, <2>3 DEF MayEmit, SavedFirst, Own, AgentMsg, Msg
  <2>5. \A i \in 1..Len(Plan("LOCAL_SERVER", sync)) :
          Fits(agentRow', Plan("LOCAL_SERVER", sync)[i].to, Plan("LOCAL_SERVER", sync)[i].msg)
    BY <2>4, PlanFits
  <2> QED BY <1>1, <1>2, <1>5, <1>6, <2>1, <2>5, CallTraffic DEF RInv
<1>8. CASE ~IsNews(m)
  <2>1. UNCHANGED todo
    BY <1>8 DEF StoreAgent, rvars
  <2> QED BY <1>1, <1>5, <1>6, <2>1, StayTraffic
<1> QED BY <1>7, <1>8

-----------------------------------------------------------------------------
(* Sessions, main and NotifyMsg emit what they may.                        *)

\* An Emit of what may be emitted keeps the traffic fitting.
LEMMA EmitTraffic ==
  ASSUME TInv, NEW g \in Goroutines, NEW e \in Emitters, NEW m,
         Emit(g, e, m), MayEmit(agentRow, e, m),
         UNCHANGED <<agentRow, cur, cast, relayed, view>>
  PROVE  Traffic'
<1>1. \A i \in 1..Len(Plan(e, m)) :
        Fits(agentRow', Plan(e, m)[i].to, Plan(e, m)[i].msg)
  BY PlanFits
<1> QED BY <1>1, CallTraffic DEF TInv, SInv, RInv, Emit, Grown

\* What a session says of itself is no sync message, and an agent's is its own.
LEMMA SessionMayEmit ==
  ASSUME NEW rows, NEW s \in Sessions
  PROVE  /\ MayEmit(rows, Role(s), HelloMsg(s)) /\ MayEmit(rows, Role(s), ByeMsg(s))
         /\ s \in AgentSessions => /\ MayEmit(rows, "LOCAL_AGENT", AgentMsg("contact", s))
                                   /\ MayEmit(rows, "LOCAL_AGENT", OutputMsg(s))
         /\ MayEmit(rows, "LOCAL_CLIENT", ScriptMsg(s))
<1> USE DEF MayEmit, SavedFirst, Own, AgentMsg, ClientMsg, ServerMsg, ScriptMsg,
            OutputMsg, Msg
<1>1. CASE s \in AgentSessions
  BY <1>1 DEF HelloMsg, ByeMsg, Role
<1>2. CASE s \in ClientSessions
  BY <1>2 DEF HelloMsg, ByeMsg, Role
<1>3. CASE s \in PeerSessions
  BY <1>3 DEF HelloMsg, ByeMsg, Role
<1> QED BY <1>1, <1>2, <1>3 DEF Sessions

\* The handlers of a session keep the traffic fitting.
LEMMA SessionTraffic ==
  ASSUME TInv, NEW s \in Sessions,
         Start(s) \/ Handler(s) \/ Frame(s) \/ End(s) \/ Hangup(s)
  PROVE  Traffic'
<1>1. s \in Goroutines
  BY DEF Goroutines
<1>2. CASE Start(s) \/ End(s) \/ Hangup(s) \/ Registered(s) \/ Unregistered(s)
  <2>1. UNCHANGED <<agentRow, todo, queue, cast, relayed, view, cur>>
    BY <1>2 DEF Start, End, Hangup, Registered, Unregistered, AwaitLock, WriterExit,
       Register, Unregister, svars
  <2> QED BY <2>1, StayTraffic DEF TInv, Grown
<1>3. CASE Hello(s) \/ Bye(s)
  <2>1. UNCHANGED <<agentRow, cur, cast, relayed, view>>
    BY <1>3 DEF Hello, Bye, Announce
  <2>2. Emit(s, Role(s), HelloMsg(s)) \/ Emit(s, Role(s), ByeMsg(s))
    BY <1>3 DEF Hello, Bye, Announce
  <2> QED BY <1>1, <2>1, <2>2, HandlerMessages, SessionMayEmit, EmitTraffic
<1>4. CASE Body(s)
  BY <1>1, <1>4, SessionMayEmit, EmitTraffic, HandlerMessages DEF Body, Announce, Role
<1>5. CASE Frame(s)
  BY <1>1, <1>5, SessionMayEmit, EmitTraffic DEF Frame
<1> QED BY <1>2, <1>3, <1>4, <1>5 DEF Handler

\* The startup keeps the traffic fitting: main announces a server only.
LEMMA MainTraffic == ASSUME TInv, Main PROVE Traffic'
<1>1. CASE JoinSelf
  <2>1. MayEmit(agentRow, "PEER_SERVER", ServerMsg("join", Self))
    BY DEF MayEmit, SavedFirst, Own, ServerMsg, Msg
  <2>2. "main" \in Goroutines
    BY DEF Goroutines
  <2> QED BY <1>1, <2>1, <2>2, EmitTraffic DEF JoinSelf
<1>2. CASE SaveSelf \/ MakeRouter \/ StartBroadcasts \/ StartLoops
  <2>1. UNCHANGED <<agentRow, todo, queue, cast, relayed, view, cur>>
    BY <1>2 DEF SaveSelf, MakeRouter, StartBroadcasts, StartLoops, rvars
  <2> QED BY <2>1, StayTraffic DEF TInv, Grown
<1> QED BY <1>1, <1>2 DEF Main

\* A frame of another server is about one of that server's agents.
LEMMA MemberlistTraffic == ASSUME TInv, Memberlist PROVE Traffic'
<1>1. ASSUME NEW g \in Receivers, Relay(g) PROVE Traffic'
  <2> DEFINE f == arg[g]
             e == IF f.sub = "sync" THEN "PEER_SERVER" ELSE "PEER_AGENT"
  <2>1. f \in Frames
    BY <1>1 DEF Relay, Mark, TInv, SInv, DInv, Handling
  <2>2. PICK sub \in {"connect", "sync"}, r \in RemoteSessions : f = AgentMsg(sub, r)
    BY <2>1 DEF AllFrames
  <2>3. f.sub = sub /\ f.of = r /\ r \notin AgentSessions
    BY <2>2 DEF AgentMsg, Msg, Sessions
  <2>4. MayEmit(agentRow, e, f)
    BY <2>2, <2>3 DEF MayEmit, SavedFirst
  <2>5. g \in Goroutines /\ e \in Emitters
    BY DEF Goroutines
  <2>6. Emit(g, e, f) /\ UNCHANGED <<agentRow, cur, cast, relayed, view>>
    BY <1>1 DEF Relay, svars
  <2> QED BY <2>4, <2>5, <2>6, EmitTraffic
<1>2. CASE \/ GossipTick \/ GossipDone
           \/ \E p \in PeerSessions : PushPull(p) \/ MergeRemoteState(p)
           \/ \E g \in Receivers : (\E f \in Frames : Arrive(g, f)) \/ Recall(g)
  <2>1. UNCHANGED <<agentRow, todo, queue, cast, relayed, view, cur>>
    BY <1>2 DEF GossipTick, GossipDone, PushPull, MergeRemoteState, Arrive, Recall,
       rvars, svars
  <2> QED BY <2>1, StayTraffic DEF TInv, Grown
<1> QED BY <1>1, <1>2 DEF Memberlist, NotifyMsg

\* Every step keeps the traffic fitting.
LEMMA TrafficStep == ASSUME TInv, [Next]_vars PROVE Traffic'
<1>1. ASSUME NEW g \in Goroutines, Proceed(g) PROVE Traffic'
  <2>1. CASE (QueueSend(g) \/ BeginFanout(g)) /\ UNCHANGED svars
    <3>1. UNCHANGED <<agentRow, cur, cast, relayed, view>>
      BY <2>1 DEF svars
    <3> QED BY <2>1, <3>1, OwedStepTraffic DEF TInv, SInv, RInv
  <2> QED BY <1>1, <2>1, DeliverTraffic DEF Proceed
<1>2. CASE UNCHANGED vars
  <2>1. UNCHANGED <<agentRow, todo, queue, cast, relayed, view, cur>>
    BY <1>2 DEF vars, rvars, svars
  <2> QED BY <2>1, StayTraffic DEF TInv, Grown
<1> QED BY <1>1, <1>2, MainTraffic, SessionTraffic, MemberlistTraffic, TakeTraffic,
           AnswerTraffic, StoreServerTraffic, StoreAgentTraffic, QueueBroadcastTraffic
        DEF Next, Loops

-----------------------------------------------------------------------------
(* Types.                                                                  *)

\* The type invariant and the finiteness MaxArrivals is counted with.
Counted == STypeOK /\ IsFiniteSet(heard)

\* A loop that takes a message holds a message.
LEMMA TakeType ==
  ASSUME TInv, NEW q \in Queues, Take(q) PROVE Counted'
<1> USE DEF TInv, SInv
<1>1. Head(queue[q]) \in AllMessages
  BY DEF Take, Receive, RInv, RTypeOK
<1> QED BY <1>1 DEF Take, Counted, STypeOK

\* The handlers of a session keep the types.
LEMMA SessionType ==
  ASSUME TInv, NEW s \in Sessions,
         Start(s) \/ Handler(s) \/ Frame(s) \/ End(s) \/ Hangup(s)
  PROVE  Counted'
<1> USE DEF TInv, Counted
<1>1. CASE Start(s) \/ End(s) \/ Registered(s) \/ Unregistered(s)
  BY <1>1 DEF Start, End, Registered, Unregistered, STypeOK
<1>2. CASE Hello(s) \/ Bye(s) \/ Body(s)
  BY <1>2 DEF Hello, Bye, Body, Announce, STypeOK
<1>3. CASE Frame(s)
  BY <1>3 DEF Frame, STypeOK
<1>4. CASE Hangup(s)
  BY <1>4 DEF Hangup, svars, STypeOK
<1> QED BY <1>1, <1>2, <1>3, <1>4 DEF Handler

\* What an agent is told about servers keeps the type of what it believes.
LEMMA ToldType ==
  ASSUME NEW b \in [Nodes -> {"unknown", "alive", "offline"}], NEW m \in AllMessages
  PROVE  Told(b, m) \in [Nodes -> {"unknown", "alive", "offline"}]
BY DEF Told

\* The delivery of a message keeps the types.
LEMMA ProceedType ==
  ASSUME TInv, NEW g \in Goroutines, Proceed(g) PROVE Counted'
<1> USE DEF TInv, SInv, Counted
<1>1. CASE (QueueSend(g) \/ BeginFanout(g)) /\ UNCHANGED <<dvars, svars>>
  BY <1>1 DEF svars, STypeOK
<1>2. ASSUME NEW s \in Sessions, Deliver(g, s) PROVE Counted'
  <2> DEFINE m == Now(g).msg
  <2>1. todo[g] # <<>> /\ m \in AllMessages
    <3>1. todo[g] # <<>>
      BY <1>2, HandOffKind DEF Deliver
    <3> QED BY <3>1, NowFits DEF RInv, Stages
  <2>2. view' \in [ClientSessions -> [Codes -> Records \cup {None}]]
    <3>1. CASE s \in ClientSessions /\ m.type = "agent" /\ m.sub = "sync"
      <4>1. m.of \in Records
        BY <2>1, <3>1, MessageFields
      <4>2. view' = [view EXCEPT ![s][CodeOf[m.of]] = m.of]
        BY <1>2, <3>1 DEF Deliver
      <4> QED BY <4>1, <4>2 DEF STypeOK
    <3>2. CASE ~(s \in ClientSessions /\ m.type = "agent" /\ m.sub = "sync")
      BY <1>2, <3>2 DEF Deliver, STypeOK
    <3> QED BY <3>1, <3>2
  <2>3. belief' \in [AgentSessions -> [Nodes -> {"unknown", "alive", "offline"}]]
    <3>1. CASE s \in AgentSessions
      <4>1. belief' = [belief EXCEPT ![s] = Told(belief[s], m)]
        BY <1>2, <3>1 DEF Deliver
      <4>2. Told(belief[s], m) \in [Nodes -> {"unknown", "alive", "offline"}]
        BY <2>1, <3>1, ToldType DEF STypeOK
      <4> QED BY <4>1, <4>2 DEF STypeOK
    <3>2. CASE s \notin AgentSessions
      BY <1>2, <3>2 DEF Deliver, STypeOK
    <3> QED BY <3>1, <3>2
  <2>4. relayed' \subseteq AllMessages
    BY <1>2, <2>1 DEF Deliver, STypeOK
  <2> QED BY <1>2, <2>2, <2>3, <2>4 DEF Deliver, STypeOK
<1> QED BY <1>1, <1>2 DEF Proceed

\* The loops keep the types.
LEMMA LoopType ==
  ASSUME TInv, AnswerConnect \/ StoreServer \/ StoreAgent \/ QueueBroadcast
  PROVE  Counted'
<1> USE DEF TInv, SInv, Counted
<1>1. "storage" \in Queues /\ "cluster" \in Queues
  BY DEF Queues
<1>2. CASE AnswerConnect
  BY <1>2 DEF AnswerConnect, STypeOK
<1>3. CASE StoreServer
  BY <1>3 DEF StoreServer, StatusOf, STypeOK
<1>4. CASE StoreAgent
  <2>1. cur["storage"].of \in Records
    BY <1>1, <1>4, MessageFields DEF StoreAgent, Minded
  <2> QED BY <1>4, <2>1 DEF StoreAgent, Saved, STypeOK
<1>5. CASE QueueBroadcast
  <2>1. cur["cluster"] \in AllMessages
    BY <1>1, <1>5 DEF QueueBroadcast, STypeOK
  <2> QED BY <1>5, <2>1 DEF QueueBroadcast, STypeOK
<1> QED BY <1>2, <1>3, <1>4, <1>5

\* The startup keeps the types.
LEMMA MainType == ASSUME TInv, Main PROVE Counted'
BY DEF Main, SaveSelf, MakeRouter, JoinSelf, StartBroadcasts, StartLoops, TInv, STypeOK,
   Counted

\* memberlist and the delegate keep the types; what was heard stays finite.
LEMMA MemberlistType == ASSUME TInv, Memberlist PROVE Counted'
<1> USE DEF TInv, Counted
<1>1. CASE GossipTick \/ GossipDone
  BY <1>1 DEF GossipTick, GossipDone, STypeOK
<1>2. ASSUME NEW p \in PeerSessions, PushPull(p) \/ MergeRemoteState(p) PROVE Counted'
  BY <1>2 DEF PushPull, MergeRemoteState, STypeOK
<1>3. ASSUME NEW g \in Receivers, Recall(g) \/ Relay(g) PROVE Counted'
  BY <1>3 DEF Recall, Relay, svars, STypeOK
<1>4. ASSUME NEW g \in Receivers, NEW f \in Frames, Arrive(g, f) PROVE Counted'
  <2>1. PICK i \in 1..Copies(f) : heard' = heard \cup {<<f, i>>}
    BY <1>4 DEF Arrive
  <2>2. Cardinality(heard) \in Nat
    BY FS_CardinalityType
  <2>3. MaxArrivals \in Nat /\ 1 <= MaxArrivals
    BY <1>4, <2>2 DEF Arrive
  <2>4. i \in 1..MaxArrivals
    BY <2>3 DEF Copies
  <2>5. IsFiniteSet(heard')
    BY <2>1, FS_AddElement
  <2> QED BY <1>4, <2>1, <2>4, <2>5 DEF Arrive, STypeOK
<1> QED BY <1>1, <1>2, <1>3, <1>4 DEF Memberlist, NotifyMsg

\* Every step keeps the types.
LEMMA TypeStep == ASSUME TInv, [Next]_vars PROVE Counted'
<1>1. CASE UNCHANGED vars
  BY <1>1 DEF vars, svars, TInv, Counted, STypeOK
<1> QED BY <1>1, MainType, SessionType, ProceedType, TakeType, LoopType, MemberlistType
        DEF Next, Loops

-----------------------------------------------------------------------------
\* A server starts with empty tables and nothing under way.
LEMMA InitTraffic == Init => STypeOK /\ IsFiniteSet(heard) /\ Traffic
<1> SUFFICES ASSUME Init PROVE STypeOK /\ IsFiniteSet(heard) /\ Traffic
  OBVIOUS
<1>1. STypeOK
  BY DEF Init, STypeOK
<1>2. IsFiniteSet(heard)
  BY FS_EmptySet DEF Init
<1>3. OwedFit /\ QueuedFit
  BY DEF Init, RInit, OwedFit, QueuedFit
<1>4. HeldFit /\ SentFit
  BY DEF Init, HeldFit, SentFit
<1>5. ShownFit
  BY DEF Init, ShownFit, Goroutines, Sessions
<1> QED BY <1>1, <1>2, <1>3, <1>4, <1>5 DEF Traffic

\* The inductive invariant of the server's traffic, for any sessions, peers, frames
\* and bounds.
THEOREM TrafficInvariant == Safety => []TInv
<1>1. TInv /\ [Next]_vars => (STypeOK /\ IsFiniteSet(heard) /\ Traffic)'
  BY TrafficStep, TypeStep DEF Counted
<1>2. Init => STypeOK /\ IsFiniteSet(heard) /\ Traffic
  BY InitTraffic
<1>3. SInv /\ STypeOK /\ IsFiniteSet(heard) /\ Traffic <=> TInv
  BY DEF TInv
<1> QED BY <1>1, <1>2, <1>3, ServerInvariant, PTL DEF Safety

\* The state of the server keeps its type.
THEOREM ServerTypeCorrect == Safety => []STypeOK
<1>1. TInv => STypeOK
  BY DEF TInv
<1> QED BY <1>1, TrafficInvariant, PTL

\* What has arrived of sync messages about an agent finds its row there.
LEMMA ToldFindsRow ==
  ASSUME TInv, NEW a \in AgentSessions,
         AgentMsg("sync", a) \in cast \/ \E c \in ClientSessions : view[c][CodeOf[a]] = a
  PROVE  agentRow[CodeOf[a]] # None
<1>1. CASE AgentMsg("sync", a) \in cast
  BY <1>1 DEF TInv, Traffic, SentFit, Fits, SavedFirst, AgentMsg, Msg
<1>2. CASE \E c \in ClientSessions : view[c][CodeOf[a]] = a
  BY <1>2 DEF TInv, Traffic, ShownFit, Sessions
<1> QED BY <1>1, <1>2

\* What came from the cluster never goes back to it, by broadcast or directly.
THEOREM NothingIsEchoed == Safety => []NoEcho
<1>1. ASSUME TInv PROVE NoEcho
  BY <1>1 DEF TInv, Traffic, SentFit, Fits, Own, NoEcho
<1> QED BY <1>1, TrafficInvariant, PTL
=============================================================================
