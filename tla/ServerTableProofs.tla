-------------------------- MODULE ServerTableProofs --------------------------
(***************************************************************************)
(* What the server keeps of agents and servers, and whom it can reach: a   *)
(* session has its own channel as long as no other with its code overlaps  *)
(* it, the table lists every member as alive, and admin clients are told   *)
(* what the table says.  Each is the tail of an invariant that follows the *)
(* message from the goroutine that owes it through the storage queue and   *)
(* the storage loop to the table.                                          *)
(***************************************************************************)
EXTENDS ServerProofs

USE RouterAssumption, ServerAssumption

-----------------------------------------------------------------------------
(* The life of a session and of its channel.                               *)

Unborn(s)  == pc[s] \in {"new", "register"}
Present(s) == pc[s] \in {"hello", "open", "body", "unregister"}

\* While s is under way, no other session with its code is.
LivesAlone(s) ==
  \A t \in Sessions \ {s} :
    Kind(t) = Kind(s) /\ CodeOf[t] = CodeOf[s] /\ pc[s] \notin {"new", "done"}
      => pc[t] \in {"new", "done"}

\* A session owes no send while it waits for a lock or is about to announce itself.
Quiet ==
  \A s \in Sessions :
    /\ pc[s] \in {"new", "register", "hello", "unregister", "bye"} => todo[s] = <<>>
    /\ pc[s] = "body" => s \in AgentSessions

\* memberlist calls NotifyJoin for a peer when it is done with NotifyLeave for it.
OnePeer ==
  \A p, q \in PeerSessions :
    p # q /\ CodeOf[p] = CodeOf[q] /\ pc[p] \notin {"new", "done"}
      => pc[q] \in {"new", "done"} /\ todo[q] = <<>>

\* The session that made a channel is there as long as the registry names it.
MakersPresent ==
  /\ \A s \in Sessions : Unborn(s) => chan[s] = None
  /\ \A k \in Kinds, c \in Codes : outbound[k][c] # None => Present(outbound[k][c])

Life == Quiet /\ OnePeer /\ MakersPresent

\* s drains the channel the router sends to for its code.
Reached(s) == Present(s) => chan[s] = s /\ outbound[Kind(s)][CodeOf[s]] = s

\* A step of the sessions' goroutines moves one of them on; no other step moves any,
\* or touches the registry.
SessionStep(s) == Start(s) \/ Handler(s) \/ Frame(s) \/ End(s)

\* The steps of the writer goroutines, of pending emits, of main, the loops and memberlist
\* leave the phases of the sessions, their channels and the registry alone.
LEMMA OnlySessionsMove ==
  ASSUME [Next]_vars, ~ \E s \in Sessions : SessionStep(s)
  PROVE  UNCHANGED <<pc, chan, outbound>>
<1>1. CASE \E s \in Sessions : Hangup(s)
  BY <1>1 DEF Hangup, WriterExit, svars
<1>2. CASE \E g \in Goroutines : Proceed(g)
  BY <1>2 DEF Proceed, QueueSend, BeginFanout, Deliver, HandOff, svars
<1>3. CASE Main
  BY <1>3 DEF Main, SaveSelf, MakeRouter, JoinSelf, StartBroadcasts, StartLoops, Emit, rvars
<1>4. CASE Loops
  BY <1>4 DEF Loops, Take, Receive, AnswerConnect, Send, StoreServer, StoreAgent, Emit,
     QueueBroadcast, rvars
<1>5. CASE Memberlist
  BY <1>5 DEF Memberlist, GossipTick, GossipDone, PushPull, MergeRemoteState, NotifyMsg,
     Arrive, Recall, Relay, Emit, rvars, svars
<1>6. CASE UNCHANGED vars
  BY <1>6 DEF vars, rvars, svars
<1> QED BY <1>1, <1>2, <1>3, <1>4, <1>5, <1>6 DEF Next, SessionStep

-----------------------------------------------------------------------------
(* What a goroutine takes up, and what it does with it.                    *)

IsSync(m) == m.type = "agent" /\ m.sub = "sync"

\* g puts a message on the storage queue.
Stores(g) == QueueSend(g) /\ Now(g).to = "storage" /\ UNCHANGED <<dvars, svars>>

\* A session says what it is, or what came in on its websocket.
SessionTakesUp(g) ==
  /\ g \in Sessions /\ SessionStep(g)
  /\ g \in PeerSessions =>
       \/ Hello(g) /\ todo'[g] = PeerServerEmit(ServerMsg("join", CodeOf[g]))
       \/ Bye(g) /\ todo'[g] = PeerServerEmit(ServerMsg("leave", CodeOf[g]))
  /\ g \notin PeerSessions =>
       \E m : /\ m.type # "server" /\ ~IsSync(m)
              /\ todo'[g] \in {LocalClientEmit(m), LocalAgentEmit(m)}

\* main announces the server, the loops answer an agent or announce one, and what
\* other servers sent is passed on.
ThreadTakesUp(g) ==
  \/ g = "main" /\ todo'[g] = PeerServerEmit(ServerMsg("join", Self))
  \/ g = "event" /\ \E c, S : todo'[g] = <<ToOne("agent", c, ListMsg(S))>>
  \/ /\ g = "storage" /\ StoreAgent /\ IsNews(cur["storage"])
     /\ todo'[g] = LocalServerEmit(AgentMsg("sync", cur["storage"].of))
  \/ g = "udp" /\ \E r \in RemoteSessions : todo'[g] = PeerServerEmit(AgentMsg("sync", r))
  \/ g \in Receivers \ {"udp"}
     /\ \E r \in RemoteSessions : todo'[g] = PeerAgentEmit(AgentMsg("connect", r))

\* What g owes stays, or loses its first send, or is taken up.
OwesOn(g) ==
  \/ todo'[g] = todo[g]
  \/ /\ todo[g] # <<>> /\ todo'[g] = Tail(todo[g])
     /\ Now(g).to = "storage" => Stores(g)
  \/ todo[g] = <<>> /\ (SessionTakesUp(g) \/ ThreadTakesUp(g))

\* A session's goroutine takes up a plan of its own, and changes nobody else's.
LEMMA SessionOwes ==
  ASSUME TInv, NEW s \in Sessions, SessionStep(s), NEW g \in Goroutines
  PROVE  OwesOn(g)
<1> USE DEF TInv, SInv
<1>0. RTypeOK /\ s \in Goroutines
  BY DEF RInv, Goroutines
<1>1. ASSUME NEW e, NEW m, Emit(s, e, m)
      PROVE  /\ g # s => todo'[g] = todo[g]
             /\ g = s => todo[g] = <<>> /\ todo'[g] = Plan(e, m)
  BY <1>0, <1>1 DEF Emit, Idle, RTypeOK
<1>2. CASE Start(s) \/ End(s) \/ Registered(s) \/ Unregistered(s)
  BY <1>2 DEF Start, End, Registered, Unregistered, AwaitLock, Register, Unregister, OwesOn
<1>3. CASE g # s
  BY <1>1, <1>2, <1>3 DEF SessionStep, Handler, Hello, Bye, Body, Frame, Announce, OwesOn
<1>4. CASE g = s /\ s \in PeerSessions /\ (Hello(s) \/ Bye(s))
  <2>1. Role(s) = "PEER_SERVER" /\ HelloMsg(s) = ServerMsg("join", CodeOf[s])
          /\ ByeMsg(s) = ServerMsg("leave", CodeOf[s])
    BY <1>4 DEF Role, HelloMsg, ByeMsg
  <2> QED BY <1>1, <1>4, <2>1 DEF Hello, Bye, Announce, Plan, OwesOn, SessionTakesUp
<1>5. CASE g = s /\ s \notin PeerSessions /\ (Hello(s) \/ Bye(s))
  <2> DEFINE m == IF Hello(s) THEN HelloMsg(s) ELSE ByeMsg(s)
  <2>1. s \in AgentSessions \/ (s \in ClientSessions /\ s \notin AgentSessions)
    BY <1>5 DEF Sessions
  <2>2. m.type # "server" /\ ~IsSync(m)
    BY <2>1 DEF HelloMsg, ByeMsg, AgentMsg, ClientMsg, Msg, IsSync
  <2>3. Emit(s, Role(s), m)
    BY <1>5 DEF Hello, Bye, Announce
  <2>4. Plan(Role(s), m) \in {LocalClientEmit(m), LocalAgentEmit(m)}
    BY <2>1 DEF Role, Plan
  <2> HIDE DEF m
  <2> QED BY <1>1, <1>5, <2>2, <2>3, <2>4 DEF OwesOn, SessionTakesUp
<1>6. CASE g = s /\ (Body(s) \/ (Frame(s) /\ s \in AgentSessions))
  <2>1. PICK m \in {OutputMsg(s), AgentMsg("contact", s)} : Emit(s, "LOCAL_AGENT", m)
    BY <1>6 DEF Body, Announce, Role, Frame
  <2>2. m.type # "server" /\ ~IsSync(m)
    BY DEF OutputMsg, AgentMsg, Msg, IsSync
  <2>3. s \notin PeerSessions
    BY <1>6 DEF Body
  <2> QED BY <1>1, <1>6, <2>1, <2>2, <2>3 DEF OwesOn, SessionTakesUp, Plan
<1>7. CASE g = s /\ Frame(s) /\ s \notin AgentSessions
  <2>1. ScriptMsg(s).type # "server" /\ ~IsSync(ScriptMsg(s))
    BY DEF ScriptMsg, Msg, IsSync
  <2>2. s \notin PeerSessions /\ Emit(s, "LOCAL_CLIENT", ScriptMsg(s))
    BY <1>7 DEF Frame
  <2> QED BY <1>1, <1>7, <2>1, <2>2 DEF OwesOn, SessionTakesUp, Plan
<1> QED BY <1>2, <1>3, <1>4, <1>5, <1>6, <1>7 DEF SessionStep, Handler, Body

\* A pending emit loses its first send; only a send to the queue reaches storage.
LEMMA ProceedOwes ==
  ASSUME TInv, NEW h \in Goroutines, Proceed(h), NEW g \in Goroutines
  PROVE  OwesOn(g)
<1> USE DEF TInv, SInv
<1>1. RTypeOK
  BY DEF RInv
<1>2. CASE QueueSend(h) /\ UNCHANGED <<dvars, svars>>
  BY <1>1, <1>2 DEF QueueSend, RTypeOK, OwesOn, Stores
<1>3. CASE BeginFanout(h)
  <2>1. Now(h).to # "storage"
    BY <1>3 DEF BeginFanout, Kinds
  <2> QED BY <1>1, <1>3, <2>1 DEF BeginFanout, RTypeOK, OwesOn
<1>4. ASSUME NEW s \in Sessions, HandOff(h, s) PROVE OwesOn(g)
  <2>1. todo[h] # <<>> /\ Now(h).to # "storage"
    BY <1>4, HandOffKind, KindType DEF Kinds
  <2> QED BY <1>1, <1>4, <2>1 DEF HandOff, RTypeOK, OwesOn
<1> QED BY <1>2, <1>3, <1>4 DEF Proceed, Deliver

\* main, the loops and memberlist's goroutines take up the plans of their calls.
LEMMA ThreadOwes ==
  ASSUME TInv, Main \/ Loops \/ Memberlist, NEW g \in Goroutines
  PROVE  OwesOn(g)
<1> USE DEF TInv, SInv
<1>0. RTypeOK /\ Threads \subseteq Goroutines
  BY DEF RInv, Goroutines
<1>1. ASSUME NEW h \in Threads, NEW plan, Idle(h), todo' = [todo EXCEPT ![h] = plan]
      PROVE  /\ g # h => todo'[g] = todo[g]
             /\ g = h => todo[g] = <<>> /\ todo'[g] = plan
  BY <1>0, <1>1 DEF Idle, RTypeOK
<1>2. CASE todo' = todo
  BY <1>2 DEF OwesOn
<1>3. CASE JoinSelf
  BY <1>1, <1>3 DEF JoinSelf, Emit, Plan, OwesOn, ThreadTakesUp
<1>4. CASE AnswerConnect
  <2> DEFINE plan == <<ToOne("agent", CodeOf[cur["event"].of], ListMsg(LiveServers))>>
  <2>1. Idle("event") /\ "event" \in Threads /\ todo' = [todo EXCEPT !["event"] = plan]
    BY <1>4 DEF AnswerConnect, Send
  <2> HIDE DEF plan
  <2>2. /\ g # "event" => todo'[g] = todo[g]
        /\ g = "event" => todo[g] = <<>> /\ todo'[g] = plan
    BY <1>1, <2>1
  <2> USE DEF plan
  <2> QED BY <2>2 DEF OwesOn, ThreadTakesUp
<1>5. CASE StoreAgent
  <2>1. CASE IsNews(cur["storage"])
    BY <1>1, <1>5, <2>1 DEF StoreAgent, Emit, Plan, OwesOn, ThreadTakesUp
  <2>2. CASE ~IsNews(cur["storage"])
    BY <1>2, <1>5, <2>2 DEF StoreAgent, rvars
  <2> QED BY <2>1, <2>2
<1>6. ASSUME NEW h \in Receivers, Relay(h) PROVE OwesOn(g)
  <2>1. arg[h] \in Frames /\ Carrier[arg[h]] = h
    BY <1>6 DEF Relay, Mark, DInv, Handling
  <2>2. PICK sub \in {"connect", "sync"}, r \in RemoteSessions : arg[h] = AgentMsg(sub, r)
    BY <2>1 DEF AllFrames
  <2>3. arg[h].sub = sub
    BY <2>2 DEF AgentMsg, Msg
  <2>4. h = "udp" <=> sub = "sync"
    BY <2>1, <2>3
  <2>5. CASE sub = "sync"
    <3>1. Emit(h, "PEER_SERVER", AgentMsg("sync", r))
      BY <1>6, <2>2, <2>3, <2>5 DEF Relay
    <3>2. /\ g # h => todo'[g] = todo[g]
          /\ g = h => todo[g] = <<>> /\ todo'[g] = PeerServerEmit(AgentMsg("sync", r))
      BY <1>1, <3>1 DEF Emit, Plan
    <3> QED BY <2>4, <2>5, <3>2 DEF OwesOn, ThreadTakesUp
  <2>6. CASE sub = "connect"
    <3>1. Emit(h, "PEER_AGENT", AgentMsg("connect", r))
      BY <1>6, <2>2, <2>3, <2>6 DEF Relay
    <3>2. /\ g # h => todo'[g] = todo[g]
          /\ g = h => todo[g] = <<>> /\ todo'[g] = PeerAgentEmit(AgentMsg("connect", r))
      BY <1>1, <3>1 DEF Emit, Plan
    <3> QED BY <2>4, <2>6, <3>2 DEF OwesOn, ThreadTakesUp
  <2> QED BY <2>5, <2>6
<1>7. CASE SaveSelf \/ MakeRouter \/ StartBroadcasts \/ StartLoops
  BY <1>2, <1>7 DEF SaveSelf, MakeRouter, StartBroadcasts, StartLoops, rvars
<1>8. CASE (\E q \in Queues : Take(q)) \/ StoreServer \/ QueueBroadcast
  BY <1>2, <1>8 DEF Take, Receive, StoreServer, QueueBroadcast, rvars
<1>9. CASE \/ GossipTick \/ GossipDone
           \/ \E p \in PeerSessions : PushPull(p) \/ MergeRemoteState(p)
           \/ \E h \in Receivers : (\E f \in Frames : Arrive(h, f)) \/ Recall(h)
  BY <1>2, <1>9 DEF GossipTick, GossipDone, PushPull, MergeRemoteState, Arrive, Recall, rvars
<1> QED BY <1>3, <1>4, <1>5, <1>6, <1>7, <1>8, <1>9 DEF Main, Loops, Memberlist, NotifyMsg

\* So every step of the server has each goroutine's debt go on in this way.
LEMMA OwedStep ==
  ASSUME TInv, [Next]_vars, NEW g \in Goroutines PROVE OwesOn(g)
<1>1. CASE \E s \in Sessions : Hangup(s)
  BY <1>1 DEF Hangup, WriterExit, OwesOn
<1>2. CASE UNCHANGED vars
  BY <1>2 DEF vars, rvars, OwesOn
<1> QED BY <1>1, <1>2, SessionOwes, ProceedOwes, ThreadOwes DEF Next, SessionStep

\* A session's goroutine takes up sends only in a step of its own.
LEMMA SessionsEmitThemselves ==
  ASSUME TInv, [Next]_vars, NEW s \in Sessions, ~SessionStep(s), todo[s] = <<>>
  PROVE  todo'[s] = <<>>
<1>1. s \in Goroutines /\ s \notin Threads
  BY DEF Goroutines
<1>2. OwesOn(s)
  BY <1>1, OwedStep
<1> QED BY <1>1, <1>2 DEF OwesOn, SessionTakesUp, ThreadTakesUp

-----------------------------------------------------------------------------
(* The life of a session.                                                  *)

\* No session moves, and none takes up a send.
LEMMA LifeKept ==
  ASSUME Life, UNCHANGED <<pc, chan, outbound>>,
         \A s \in Sessions : todo[s] = <<>> => todo'[s] = <<>>
  PROVE  Life'
BY DEF Life, Quiet, OnePeer, MakersPresent, Unborn, Present, Sessions

\* One session moves on, and only it may take up a send, on its way into or out of
\* the time it is open.
LEMMA MoveStep ==
  ASSUME Life, NEW s \in Sessions,
         \A t \in Sessions \ {s} :
            pc'[t] = pc[t] /\ (todo[t] = <<>> => todo'[t] = <<>>),
         pc'[s] \in {"register", "hello", "unregister", "bye"} => todo'[s] = <<>>,
         pc'[s] = "body" => s \in AgentSessions,
         pc[s] # "done" /\ pc'[s] # "new",
         pc[s] = "new" => pc'[s] = "register",
         pc[s] = "new" /\ s \in PeerSessions =>
            \A p \in PeerSessions \ {s} :
              CodeOf[p] = CodeOf[s] => pc[p] \in {"new", "done"} /\ todo[p] = <<>>
  PROVE  Quiet' /\ OnePeer'
<1>1. Quiet'
  BY DEF Life, Quiet
<1>2. OnePeer'
  <2> SUFFICES ASSUME NEW p \in PeerSessions, NEW q \in PeerSessions, p # q,
                      CodeOf[p] = CodeOf[q], pc'[p] \notin {"new", "done"}
               PROVE  pc'[q] \in {"new", "done"} /\ todo'[q] = <<>>
    BY DEF OnePeer
  <2>1. p \in Sessions /\ q \in Sessions
    BY DEF Sessions
  <2>2. CASE q = s
    <3>1. pc[p] \notin {"new", "done"}
      BY <2>1, <2>2
    <3>2. pc[q] = "new"
      BY <2>2, <3>1 DEF Life, OnePeer
    <3> QED BY <2>2, <3>1, <3>2
  <2>3. CASE q # s /\ (p # s \/ pc[s] # "new")
    BY <2>1, <2>3 DEF Life, OnePeer
  <2>4. CASE p = s /\ pc[s] = "new"
    BY <2>1, <2>4
  <2> QED BY <2>2, <2>3, <2>4
<1> QED BY <1>1, <1>2

\* The life of a session goes on as it should.
LEMMA StartLife == ASSUME TInv, Life, NEW s \in Sessions, Start(s) PROVE Life'
<1> USE DEF TInv, SInv
<1>1. /\ pc[s] = "new" /\ todo[s] = <<>> /\ pc' = [pc EXCEPT ![s] = "register"]
      /\ UNCHANGED <<todo, chan, outbound>>
  BY DEF Start, AwaitLock, Idle
<1>2. ASSUME s \in PeerSessions, NEW p \in PeerSessions \ {s}, CodeOf[p] = CodeOf[s]
      PROVE  pc[p] \in {"new", "done"} /\ todo[p] = <<>>
  <2>1. pc[p] \in {"new", "done"} /\ ~InCallback(p)
    BY <1>2 DEF Start, MayStart, NodeLocked
  <2> QED BY <2>1 DEF InCallback, Idle, Life, Quiet, Sessions
<1>3. \A t \in Sessions : pc'[t] = IF t = s THEN "register" ELSE pc[t]
  BY <1>1 DEF STypeOK
<1>4. Quiet' /\ OnePeer'
  BY <1>1, <1>2, <1>3, MoveStep
<1>5. MakersPresent'
  <2>1. \A k \in Kinds, c \in Codes : outbound[k][c] \in Sessions \cup {None}
    BY DEF RInv, RTypeOK
  <2> QED BY <1>1, <1>3, <2>1 DEF Life, MakersPresent, Unborn, Present
<1> QED BY <1>4, <1>5 DEF Life

\* A session that registers gets its own channel when no other has its code.
LEMMA RegisteredLife == ASSUME TInv, Life, NEW s \in Sessions, Registered(s) PROVE Life'
<1> USE DEF TInv, SInv
<1>1. /\ pc[s] = "register" /\ pc' = [pc EXCEPT ![s] = "hello"]
      /\ outbound' = [outbound EXCEPT ![Kind(s)][CodeOf[s]] = HandedOut(s)]
      /\ chan' = [chan EXCEPT ![s] = HandedOut(s)]
      /\ UNCHANGED todo
  BY DEF Registered, Register
<1>2. \A t \in Sessions : pc'[t] = IF t = s THEN "hello" ELSE pc[t]
  BY <1>1 DEF STypeOK
<1>3. Quiet' /\ OnePeer'
  BY <1>1, <1>2, MoveStep DEF Life, Quiet
<1>4. MakersPresent'
  <2>2. \A k \in Kinds, c \in Codes : outbound[k][c] \in Sessions \cup {None}
    BY DEF RInv, RTypeOK
  <2>3. \A k \in Kinds, c \in Codes : outbound'[k][c] \in {outbound[k][c], s}
    <3>1. HandedOut(s) \in {outbound[Kind(s)][CodeOf[s]], s}
      BY DEF HandedOut, Filed
    <3> QED BY <1>1, <3>1 DEF RInv, RTypeOK
  <2>4. \A t \in Sessions : t # s => chan'[t] = chan[t]
    BY <1>1 DEF RInv, RTypeOK
  <2> QED BY <1>2, <2>2, <2>3, <2>4 DEF Life, MakersPresent, Unborn, Present
<1> QED BY <1>3, <1>4 DEF Life

\* A session that unregisters takes its own code out of the registry.
LEMMA UnregisteredLife == ASSUME TInv, Life, NEW s \in Sessions, Unregistered(s) PROVE Life'
<1> USE DEF TInv, SInv
<1>1. /\ pc[s] = "unregister" /\ pc' = [pc EXCEPT ![s] = "bye"]
      /\ outbound' = [outbound EXCEPT ![Kind(s)][CodeOf[s]] = None]
      /\ UNCHANGED <<todo, chan>>
  BY DEF Unregistered, Unregister, Forgetting
<1>2. \A t \in Sessions : pc'[t] = IF t = s THEN "bye" ELSE pc[t]
  BY <1>1 DEF STypeOK
<1>3. Quiet' /\ OnePeer'
  BY <1>1, <1>2, MoveStep DEF Life, Quiet
<1>4. MakersPresent'
  <2>2. \A k \in Kinds, c \in Codes :
          outbound[k][c] # None => /\ outbound[k][c] \in Sessions
                                   /\ Kind(outbound[k][c]) = k /\ CodeOf[outbound[k][c]] = c
    BY DEF RInv, RTypeOK, RegistryCoherent
  <2>3. \A k \in Kinds, c \in Codes :
          outbound'[k][c] = IF k = Kind(s) /\ c = CodeOf[s] THEN None ELSE outbound[k][c]
    BY <1>1 DEF RInv, RTypeOK
  <2> QED BY <1>1, <1>2, <2>2, <2>3 DEF Life, MakersPresent, Unborn, Present
<1> QED BY <1>3, <1>4 DEF Life

\* The steps that leave the registry alone.
LEMMA HandlerLife ==
  ASSUME TInv, Life, NEW s \in Sessions,
         Hello(s) \/ Body(s) \/ Bye(s) \/ Frame(s) \/ End(s)
  PROVE  Life'
<1> USE DEF TInv, SInv
<1>0. s \in Goroutines /\ RTypeOK
  BY DEF Goroutines, RInv
<1>1. PICK to \in {"open", "body", "unregister", "done"} :
        /\ pc' = [pc EXCEPT ![s] = to]
        /\ pc[s] \in IF to = "done" THEN {"bye"} ELSE {"hello", "open", "body"}
        /\ to = "body" => s \in AgentSessions
        /\ to = "unregister" => todo' = todo /\ todo[s] = <<>>
        /\ \A t \in Sessions \ {s} : todo'[t] = todo[t]
  <2>1. ASSUME NEW e, NEW m, Emit(s, e, m) PROVE \A t \in Sessions \ {s} : todo'[t] = todo[t]
    BY <1>0, <2>1 DEF Emit, RTypeOK, Goroutines
  <2>2. CASE Hello(s) \/ Body(s) \/ Bye(s)
    BY <2>1, <2>2 DEF Hello, Body, Bye, Announce
  <2>3. CASE Frame(s) /\ s \in AgentSessions
    BY <2>1, <2>3 DEF Frame
  <2>4. CASE Frame(s) /\ s \notin AgentSessions
    <3>1. pc' = [pc EXCEPT ![s] = "open"] /\ pc[s] = "open"
      BY <2>4 DEF Frame, STypeOK
    <3> QED BY <2>1, <2>4, <3>1 DEF Frame
  <2>5. CASE End(s)
    BY <2>5 DEF End, AwaitLock, Idle
  <2> QED BY <2>2, <2>3, <2>4, <2>5
<1>2. UNCHANGED <<chan, outbound>>
  BY DEF Hello, Body, Bye, Announce, Frame, End, AwaitLock, Emit
<1>3. \A t \in Sessions : pc'[t] = IF t = s THEN to ELSE pc[t]
  BY <1>1 DEF STypeOK
<1>4. Quiet' /\ OnePeer'
  BY <1>1, <1>3, MoveStep
<1>5. MakersPresent'
  <2>2. \A k \in Kinds, c \in Codes : outbound[k][c] \in Sessions \cup {None}
    BY DEF RInv, RTypeOK
  <2> QED BY <1>1, <1>2, <1>3, <2>2 DEF Life, MakersPresent, Unborn, Present
<1> QED BY <1>4, <1>5 DEF Life

\* Each step keeps Life.
LEMMA LifeStep == ASSUME TInv, Life, [Next]_vars PROVE Life'
<1>1. CASE \E s \in Sessions : SessionStep(s)
  BY <1>1, StartLife, RegisteredLife, UnregisteredLife, HandlerLife DEF SessionStep, Handler
<1>2. CASE ~ \E s \in Sessions : SessionStep(s)
  BY <1>2, OnlySessionsMove, SessionsEmitThemselves, LifeKept
<1> QED BY <1>1, <1>2

\* Life holds of every behaviour of the server.
LEMMA LifeInvariant == Safety => []Life
<1>1. Init => Life
  BY DEF Init, RInit, Life, Quiet, OnePeer, MakersPresent, Unborn, Present, Sessions,
     Goroutines
<1>2. TInv /\ Life /\ [Next]_vars => Life'
  BY LifeStep
<1> QED BY <1>1, <1>2, TrafficInvariant, PTL DEF Safety

-----------------------------------------------------------------------------
(* Channels.                                                               *)

\* A session that comes in finds no channel under its code, and nobody takes its
\* own away, as long as no other session with its code overlaps it.
LEMMA ReachedStep ==
  ASSUME TInv, Life, [Next]_vars, NEW s \in Sessions, LivesAlone(s), Reached(s)
  PROVE  Reached(s)'
<1> USE DEF TInv, SInv
<1>0. RTypeOK /\ Kind(s) \in Kinds /\ CodeOf[s] \in Codes
  BY KindType DEF RInv
<1>1. CASE Registered(s)
  <2>1. pc[s] = "register" /\ chan[s] = None
    BY <1>1 DEF Registered, Register
  <2>2. Filed(s) = None
    <3> SUFFICES ASSUME Filed(s) # None PROVE FALSE
      OBVIOUS
    <3> DEFINE t == Filed(s)
    <3>1. t \in Sessions /\ Kind(t) = Kind(s) /\ CodeOf[t] = CodeOf[s] /\ chan[t] = t
      BY <1>0 DEF Filed, RTypeOK, RInv, RegistryCoherent
    <3>2. Present(t)
      BY <1>0 DEF Filed, Life, MakersPresent
    <3> QED BY <2>1, <3>1, <3>2 DEF LivesAlone, Present
  <2> QED BY <1>0, <1>1, <2>2 DEF Registered, Register, HandedOut, Filed, RTypeOK, Reached
<1>2. ASSUME NEW t \in Sessions \ {s}, Registered(t) \/ Unregistered(t)
      PROVE  Reached(s)'
  <2>1. pc'[s] = pc[s] /\ chan'[s] = chan[s]
    BY <1>0, <1>2 DEF Registered, Register, Unregistered, Unregister, STypeOK, RTypeOK
  <2>2. CASE Kind(t) = Kind(s) /\ CodeOf[t] = CodeOf[s]
    BY <1>2, <2>1, <2>2 DEF Registered, Unregistered, LivesAlone, Reached, Present
  <2>3. CASE ~(Kind(t) = Kind(s) /\ CodeOf[t] = CodeOf[s])
    <3>1. outbound'[Kind(s)][CodeOf[s]] = outbound[Kind(s)][CodeOf[s]]
      BY <1>0, <1>2, <2>3 DEF Registered, Register, Unregistered, Unregister, Forgetting,
         RTypeOK
    <3> QED BY <2>1, <3>1 DEF Reached, Present
  <2> QED BY <2>2, <2>3
<1>3. CASE Unregistered(s)
  BY <1>3 DEF Unregistered, Reached, Present, STypeOK
<1>4. ASSUME NEW t \in Sessions, Start(t) \/ Hello(t) \/ Body(t) \/ Bye(t) \/ Frame(t) \/ End(t)
      PROVE  Reached(s)'
  <2>1. UNCHANGED <<chan, outbound>>
    BY <1>4 DEF Start, Hello, Body, Bye, Announce, Frame, End, AwaitLock, Emit
  <2>2. Present(s)' => Present(s)
    BY <1>4 DEF Start, Hello, Body, Bye, Announce, Frame, End, Present, STypeOK
  <2> QED BY <2>1, <2>2 DEF Reached
<1>5. CASE ~ \E t \in Sessions : SessionStep(t)
  BY <1>5, OnlySessionsMove DEF Reached, Present
<1> QED BY <1>1, <1>2, <1>3, <1>4, <1>5 DEF SessionStep, Handler

\* A session is reached until it ends, and by what is sent to its code, if no other
\* session with that code is ever under way together with it.
THEOREM ReachedWhenAlone ==
  ASSUME NEW s \in Sessions
  PROVE  Safety /\ []LivesAlone(s) => []Reached(s)
<1>1. Init => Reached(s)
  BY DEF Init, Reached, Present
<1>2. TInv /\ Life /\ LivesAlone(s) /\ Reached(s) /\ [Next]_vars => Reached(s)'
  BY ReachedStep
<1> QED BY <1>1, <1>2, TrafficInvariant, LifeInvariant, PTL DEF Safety

\* The same of all sessions together, with the goroutine that drains the channel:
\* what ServerSharedChannel shows to fail when sessions of one agent overlap.
THEOREM OwnChannelWhenAlone ==
  Safety /\ [](\A s \in Sessions : LivesAlone(s)) => []OwnChannel
<1> DEFINE Alone   == \A s \in Sessions : LivesAlone(s)
           Reaches == \A s \in Sessions : Reached(s)
<1>1. Init => Reaches
  BY DEF Init, Reached, Present
<1>2. TInv /\ Life /\ Alone /\ Reaches /\ [Next]_vars => Reaches'
  BY ReachedStep
<1>3. TInv /\ Reaches => OwnChannel
  <2> SUFFICES ASSUME TInv, Reaches, NEW s \in Sessions, pc[s] \in {"hello", "open", "body"}
               PROVE  /\ outbound[Kind(s)][CodeOf[s]] = chan[s]
                      /\ writer[s] = "running"
    BY DEF OwnChannel
  <2>1. outbound[Kind(s)][CodeOf[s]] = s /\ chan[s] = s
    BY DEF Reached, Present
  <2>2. Kind(s) \in Kinds /\ CodeOf[s] \in Codes /\ s # None
    BY KindType DEF Goroutines
  <2> QED BY <2>1, <2>2 DEF TInv, SInv, RInv, RegistryCoherent
<1> QED BY <1>1, <1>2, <1>3, TrafficInvariant, LifeInvariant, PTL DEF Safety

\* Peers never overlap, since memberlist's callbacks are serial, and no two admin
\* clients have the same id; so these are always reached.
LEMMA PeersAndClientsAlone ==
  ASSUME Life, NEW s \in PeerSessions \cup ClientSessions PROVE LivesAlone(s)
<1> SUFFICES ASSUME NEW t \in Sessions \ {s}, Kind(t) = Kind(s), CodeOf[t] = CodeOf[s],
                    pc[s] \notin {"new", "done"}
             PROVE  pc[t] \in {"new", "done"}
  BY DEF LivesAlone
<1>1. CASE s \in PeerSessions
  <2>1. t \in PeerSessions
    BY <1>1 DEF Kind, Sessions
  <2> QED BY <1>1, <2>1 DEF Life, OnePeer
<1>2. CASE s \in ClientSessions
  <2>1. t \in ClientSessions
    BY <1>2 DEF Kind, Sessions
  <2> QED BY <1>2, <2>1
<1> QED BY <1>1, <1>2

\* A peer that was announced, and an admin client, is reached by what is sent to it,
\* however often it leaves and comes back and whatever other sessions do.
THEOREM PeersAndClientsReached ==
  Safety => [](\A s \in PeerSessions \cup ClientSessions : Reached(s))
<1> DEFINE Reaches == \A s \in PeerSessions \cup ClientSessions : Reached(s)
<1>1. Init => Reaches
  BY DEF Init, Reached, Present, Sessions
<1>2. TInv /\ Life /\ Reaches /\ [Next]_vars => Reaches'
  BY ReachedStep, PeersAndClientsAlone DEF Sessions
<1> QED BY <1>1, <1>2, TrafficInvariant, LifeInvariant, PTL DEF Safety

-----------------------------------------------------------------------------
(* The storage queue, the storage loop and the two tables.                 *)

Waiting == queue["storage"]

\* Nothing but the storage loop and the sends to it moves what is on its way to the
\* tables; the table of servers is also written by main and by push/pull.
TablesKept ==
  /\ UNCHANGED <<Waiting, cur["storage"], agentRow>>
  /\ \A n \in Nodes : serverRow'[n] \in {serverRow[n], "alive"}

\* What neither stores, takes from the storage queue nor saves keeps the tables.
LEMMA OthersKeepTables ==
  ASSUME TInv, [Next]_vars, ~ \E g \in Goroutines : Stores(g),
         ~Take("storage"), ~StoreServer, ~StoreAgent
  PROVE  TablesKept
<1> USE DEF TInv, SInv, TablesKept, Waiting
<1>0. RTypeOK /\ "storage" \in Queues
  BY DEF RInv, Queues
<1>1. CASE UNCHANGED <<queue, cur, agentRow, serverRow>>
  BY <1>1
<1>2. ASSUME NEW s \in Sessions, SessionStep(s) \/ Hangup(s) PROVE TablesKept
  BY <1>1, <1>2 DEF SessionStep, Start, Handler, Registered, Hello, Body, Unregistered,
     Bye, Announce, Frame, End, Hangup, AwaitLock, Register, Unregister, Emit, WriterExit,
     svars
<1>3. ASSUME NEW g \in Goroutines, Proceed(g) PROVE TablesKept
  <2>1. CASE QueueSend(g) /\ UNCHANGED <<dvars, svars>>
    <3>1. Now(g).to # "storage"
      BY <2>1 DEF Stores
    <3>2. queue'["storage"] = queue["storage"]
      BY <1>0, <2>1, <3>1 DEF QueueSend, RTypeOK
    <3> QED BY <2>1, <3>2 DEF svars
  <2>2. CASE BeginFanout(g) /\ UNCHANGED <<dvars, svars>>
    BY <1>1, <2>2 DEF BeginFanout, svars
  <2>3. ASSUME NEW s \in Sessions, Deliver(g, s) PROVE TablesKept
    BY <1>1, <2>3 DEF Deliver, HandOff
  <2> QED BY <1>3, <2>1, <2>2, <2>3 DEF Proceed
<1>4. CASE Main
  <2>1. CASE SaveSelf
    BY <2>1 DEF SaveSelf, rvars, STypeOK
  <2>2. CASE ~SaveSelf
    BY <1>1, <1>4, <2>2 DEF Main, MakeRouter, JoinSelf, StartBroadcasts, StartLoops, Emit, rvars
  <2> QED BY <2>1, <2>2
<1>5. CASE Loops
  <2>1. ASSUME NEW q \in Queues, Take(q), q # "storage" PROVE TablesKept
    BY <1>0, <2>1 DEF Take, Receive, STypeOK, RTypeOK
  <2>2. CASE AnswerConnect \/ QueueBroadcast
    BY <1>0, <2>2 DEF AnswerConnect, Send, QueueBroadcast, rvars, STypeOK
  <2> QED BY <1>5, <2>1, <2>2 DEF Loops
<1>6. CASE Memberlist
  <2>1. ASSUME NEW p \in PeerSessions, MergeRemoteState(p) PROVE TablesKept
    BY <2>1 DEF MergeRemoteState, rvars, STypeOK
  <2>2. CASE ~ \E p \in PeerSessions : MergeRemoteState(p)
    BY <1>1, <1>6, <2>2 DEF Memberlist, GossipTick, GossipDone, PushPull, NotifyMsg,
       Arrive, Recall, Relay, Emit, rvars, svars
  <2> QED BY <2>1, <2>2
<1>7. CASE UNCHANGED vars
  BY <1>1, <1>7 DEF vars, rvars, svars
<1> QED BY <1>2, <1>3, <1>4, <1>5, <1>6, <1>7 DEF Next, SessionStep

\* A message goes onto the storage queue when that is empty, since it holds one.
LEMMA StoresOne ==
  ASSUME TInv, NEW g \in Goroutines, Stores(g)
  PROVE  /\ Waiting = <<>> /\ Waiting' # <<>> /\ Head(Waiting') = Now(g).msg
         /\ Waiting' \in Seq(AllMessages) /\ Len(Waiting') = 1 /\ Now(g).msg \in AllMessages
         /\ todo[g] # <<>> /\ todo' = [todo EXCEPT ![g] = Tail(@)]
         /\ UNCHANGED <<cur, agentRow, serverRow, pc, view, left, chan, outbound>>
<1>1. RTypeOK /\ "storage" \in Queues
  BY DEF TInv, SInv, RInv, Queues
<1>2. Waiting \in Seq(AllMessages) /\ Len(Waiting) = 0
  BY <1>1 DEF Stores, QueueSend, Capacity, RTypeOK, Waiting
<1>3. Now(g).msg \in AllMessages /\ todo[g] # <<>>
  BY <1>1, NowFits DEF Stores, QueueSend, TInv, Stages
<1>4. Waiting' = Append(Waiting, Now(g).msg)
  BY <1>1 DEF Stores, QueueSend, RTypeOK, Waiting
<1>5. /\ Waiting = <<>> /\ Waiting' # <<>> /\ Head(Waiting') = Now(g).msg
      /\ Waiting' \in Seq(AllMessages) /\ Len(Waiting') = 1
  <2>1. Waiting = <<>>
    BY <1>2
  <2>2. Append(Waiting, Now(g).msg) \in Seq(AllMessages)
    BY <1>2, <1>3
  <2>3. Len(Append(Waiting, Now(g).msg)) = 1
    BY <1>2, <1>3
  <2>4. Head(Append(Waiting, Now(g).msg)) = Now(g).msg
    BY <1>2, <1>3
  <2>5. Append(Waiting, Now(g).msg) # <<>>
    BY <2>2, <2>3
  <2> QED BY <1>4, <2>1, <2>2, <2>3, <2>4, <2>5
<1>6. /\ todo' = [todo EXCEPT ![g] = Tail(@)]
      /\ UNCHANGED <<cur, agentRow, serverRow, pc, view, left, chan, outbound>>
  BY DEF Stores, QueueSend, svars
<1> QED BY <1>3, <1>5, <1>6

\* The storage loop takes the one message there is, and keeps it if it is about a
\* server or an agent.
LEMMA TakesOne ==
  ASSUME TInv, Take("storage")
  PROVE  /\ Waiting # <<>> /\ Waiting' = <<>> /\ cur["storage"] = None
         /\ Head(Waiting) \in AllMessages /\ Head(Waiting) # None
         /\ cur'["storage"] = IF Head(Waiting).type \in {"server", "agent"}
                              THEN Head(Waiting) ELSE None
         /\ UNCHANGED <<todo, agentRow, serverRow, pc, view, left, chan, outbound>>
<1>1. RTypeOK /\ QueuesBounded /\ "storage" \in Queues
  BY DEF TInv, SInv, RInv, Queues
<1>2. Waiting \in Seq(AllMessages) /\ Len(Waiting) <= 1 /\ Waiting # <<>>
  BY <1>1 DEF Take, Receive, QueuesBounded, Capacity, RTypeOK, Waiting
<1>3. Tail(Waiting) = <<>> /\ Head(Waiting) \in AllMessages
  BY <1>2
<1>4. Waiting' = Tail(Waiting)
  BY <1>1 DEF Take, Receive, RTypeOK, Waiting
<1>5. cur'["storage"] = IF Minds("storage", Head(Waiting)) THEN Head(Waiting) ELSE None
  BY <1>1 DEF Take, STypeOK, TInv, Waiting
<1> QED BY <1>2, <1>3, <1>4, <1>5 DEF Take, Receive, Minds

-----------------------------------------------------------------------------
(* The table of servers.                                                   *)

About(m, n) == m.type = "server" /\ m.of = n

\* The status the table has for n once all that is on its way to it is written.
Status(n) ==
  IF Waiting # <<>> /\ About(Head(Waiting), n) THEN StatusOf(Head(Waiting).sub)
  ELSE IF cur["storage"] # None /\ About(cur["storage"], n)
       THEN StatusOf(cur["storage"].sub)
       ELSE serverRow[n]

\* What a peer owes to the table is that it joined, as long as it is there, or that
\* it left; what others owe to it about a server is that this one has started.
ServerNews ==
  \A g \in Goroutines : \A i \in 1..Len(todo[g]) :
    LET m == todo[g][i].msg IN
    todo[g][i].to = "storage" =>
      /\ g \in PeerSessions => /\ About(m, CodeOf[g])
                               /\ pc[g] = "open" => m.sub = "join"
      /\ g \notin PeerSessions /\ m.type = "server" => m.of = Self

\* A member whose join has been queued will be listed as alive.
AliveToCome ==
  \A p \in PeerSessions :
    pc[p] = "open" /\ ~Owed(p, "storage") => Status(CodeOf[p]) = "alive"

\* The status to come changes to what is put on the queue, or to alive.
LEMMA StatusStep ==
  ASSUME TInv, [Next]_vars, NEW n \in Nodes
  PROVE  \/ Status(n)' \in {Status(n), "alive"}
         \/ \E g \in Goroutines : /\ Stores(g) /\ About(Now(g).msg, n)
                                  /\ Status(n)' = StatusOf(Now(g).msg.sub)
<1> USE DEF Status
<1>1. ASSUME NEW g \in Goroutines, Stores(g)
      PROVE  Status(n)' = IF About(Now(g).msg, n) THEN StatusOf(Now(g).msg.sub)
                                                  ELSE Status(n)
  <2>1. /\ Waiting = <<>> /\ Waiting' # <<>> /\ Head(Waiting') = Now(g).msg
        /\ cur' = cur /\ serverRow' = serverRow
    BY <1>1, StoresOne
  <2>2. Head(Waiting)' = Now(g).msg
    BY <2>1
  <2> QED BY <2>1, <2>2
<1>2. CASE Take("storage")
  <2>1. /\ Waiting # <<>> /\ Waiting' = <<>> /\ cur["storage"] = None
        /\ Head(Waiting) # None /\ serverRow' = serverRow
        /\ cur'["storage"] = IF Head(Waiting).type \in {"server", "agent"}
                             THEN Head(Waiting) ELSE None
    BY <1>2, TakesOne
  <2> QED BY <2>1 DEF About
<1>3. CASE StoreServer
  <2>1. /\ cur["storage"] # None /\ cur["storage"].type = "server"
        /\ serverRow' = [serverRow EXCEPT ![cur["storage"].of] = StatusOf(cur["storage"].sub)]
        /\ cur'["storage"] = None /\ Waiting' = Waiting
    BY <1>3 DEF StoreServer, TInv, STypeOK, Queues, rvars, Waiting
  <2> QED BY <2>1 DEF TInv, STypeOK, About
<1>4. CASE StoreAgent
  <2>1. /\ cur["storage"].type = "agent" /\ serverRow' = serverRow
        /\ cur'["storage"] = None /\ Waiting' = Waiting
    BY <1>4 DEF StoreAgent, Emit, TInv, STypeOK, Queues, rvars, Waiting
  <2> QED BY <2>1 DEF About
<1>5. CASE TablesKept
  BY <1>5 DEF TablesKept
<1> QED BY <1>1, <1>2, <1>3, <1>4, <1>5, OthersKeepTables

\* What the handlers of Emit owe to the storage queue is the message itself.
LEMMA PlanMessage ==
  ASSUME NEW m
  PROVE  /\ \A i \in 1..Len(PeerServerEmit(m)) : PeerServerEmit(m)[i].msg = m
         /\ \A i \in 1..Len(LocalClientEmit(m)) : LocalClientEmit(m)[i].msg = m
         /\ \A i \in 1..Len(LocalAgentEmit(m)) : LocalAgentEmit(m)[i].msg = m
         /\ \A i \in 1..Len(LocalServerEmit(m)) : LocalServerEmit(m)[i].msg = m
         /\ \A i \in 1..Len(PeerAgentEmit(m)) : PeerAgentEmit(m)[i].msg = m
BY DEF PeerServerEmit, LocalClientEmit, LocalAgentEmit, LocalServerEmit, PeerAgentEmit,
   ToQueue, ToAll

\* A peer is open when it was or has just been announced.
LEMMA OpenPeer ==
  ASSUME TInv, [Next]_vars, NEW p \in PeerSessions, pc'[p] = "open"
  PROVE  pc[p] = "open" \/ (pc[p] = "hello" /\ Hello(p))
<1>1. p \in Sessions /\ p \notin AgentSessions
  BY DEF Sessions
<1>2. ASSUME NEW s \in Sessions, SessionStep(s), s # p PROVE pc'[p] = pc[p]
  BY <1>1, <1>2 DEF SessionStep, Start, Handler, Registered, Hello, Body, Unregistered, Bye,
     Announce, Frame, End, TInv, STypeOK
<1>3. CASE SessionStep(p)
  BY <1>1, <1>3 DEF SessionStep, Start, Handler, Registered, Hello, Body, Unregistered, Bye,
     Announce, Frame, End, TInv, STypeOK
<1> QED BY <1>1, <1>2, <1>3, OnlySessionsMove

\* What is owed to the storage queue about a peer comes from that peer's session, and is
\* of a join while the session is open.
LEMMA ServerNewsStep ==
  ASSUME TInv, Life, ServerNews, [Next]_vars PROVE ServerNews'
<1> DEFINE Right(g, m) ==
      /\ g \in PeerSessions => /\ About(m, CodeOf[g])
                               /\ pc'[g] = "open" => m.sub = "join"
      /\ g \notin PeerSessions /\ m.type = "server" => m.of = Self
<1> SUFFICES ASSUME NEW g \in Goroutines, NEW i \in 1..Len(todo'[g]),
                    todo'[g][i].to = "storage"
             PROVE  Right(g, todo'[g][i].msg)
  BY DEF ServerNews, About
<1> USE DEF About
<1>1. OwesOn(g)
  BY OwedStep
<1>2. CASE \E j \in 1..Len(todo[g]) : todo[g][j] = todo'[g][i]
  <2>1. PICK j \in 1..Len(todo[g]) : todo[g][j] = todo'[g][i]
    BY <1>2
  <2>2. CASE g \in PeerSessions
    <3>1. pc'[g] = "open" => pc[g] = "open"
      <4>1. pc[g] = "hello" => todo[g] = <<>>
        BY <2>2 DEF Life, Quiet, Sessions
      <4> QED BY <2>1, <2>2, <4>1, OpenPeer
    <3> QED BY <2>1, <2>2, <3>1 DEF ServerNews
  <2>3. CASE g \notin PeerSessions
    BY <2>1, <2>3 DEF ServerNews
  <2> QED BY <2>2, <2>3
<1>3. CASE todo'[g] = todo[g]
  BY <1>2, <1>3
<1>4. CASE todo[g] # <<>> /\ todo'[g] = Tail(todo[g])
  <2>1. todo[g] \in Seq(Stages)
    BY DEF TInv, SInv, RInv, RTypeOK
  <2>2. i + 1 \in 1..Len(todo[g]) /\ todo[g][i + 1] = todo'[g][i]
    BY <1>4, <2>1
  <2> QED BY <1>2, <2>2
<1>5. CASE SessionTakesUp(g)
  <2>1. CASE g \in PeerSessions
    <3>1. CASE Hello(g) /\ todo'[g] = PeerServerEmit(ServerMsg("join", CodeOf[g]))
      BY <2>1, <3>1, PlanMessage DEF ServerMsg, Msg
    <3>2. CASE Bye(g) /\ todo'[g] = PeerServerEmit(ServerMsg("leave", CodeOf[g]))
      <4>1. pc'[g] = "done"
        BY <1>5, <3>2 DEF Bye, Announce, TInv, STypeOK, SessionTakesUp
      <4> QED BY <2>1, <3>2, <4>1, PlanMessage DEF ServerMsg, Msg
    <3> QED BY <1>5, <2>1, <3>1, <3>2 DEF SessionTakesUp
  <2>2. CASE g \notin PeerSessions
    BY <1>5, <2>2, PlanMessage DEF SessionTakesUp
  <2> QED BY <2>1, <2>2
<1>6. CASE ThreadTakesUp(g)
  <2>0. g \notin PeerSessions
    BY <1>6 DEF ThreadTakesUp, Sessions
  <2>1. CASE g = "main" /\ todo'[g] = PeerServerEmit(ServerMsg("join", Self))
    BY <2>0, <2>1, PlanMessage DEF ServerMsg, Msg
  <2>2. CASE \E c, S : todo'[g] = <<ToOne("agent", c, ListMsg(S))>>
    BY <2>2 DEF ToOne
  <2>3. CASE \E r, sub : \/ todo'[g] = LocalServerEmit(AgentMsg(sub, r))
                         \/ todo'[g] = PeerServerEmit(AgentMsg(sub, r))
                         \/ todo'[g] = PeerAgentEmit(AgentMsg(sub, r))
    BY <2>0, <2>3, PlanMessage DEF AgentMsg, Msg
  <2> QED BY <1>6, <2>1, <2>2, <2>3 DEF ThreadTakesUp
<1> QED BY <1>1, <1>3, <1>4, <1>5, <1>6 DEF OwesOn

\* A peer whose join is no longer owed is, or is about to be, alive in the table.
LEMMA AliveStep ==
  ASSUME TInv, Life, ServerNews, AliveToCome, [Next]_vars PROVE AliveToCome'
<1> SUFFICES ASSUME NEW p \in PeerSessions, pc'[p] = "open", ~Owed(p, "storage")'
             PROVE  Status(CodeOf[p])' = "alive"
  BY DEF AliveToCome
<1>0. p \in Goroutines /\ p \in Sessions /\ CodeOf[p] \in Nodes /\ OwesOn(p)
  BY OwedStep DEF Goroutines, Sessions
<1>1. ~SessionTakesUp(p)
  <2>1. CASE Hello(p) /\ todo'[p] = PeerServerEmit(ServerMsg("join", CodeOf[p]))
    <3>1. todo'[p][2].to = "storage" /\ 2 \in DOMAIN todo'[p]
      BY <2>1 DEF PeerServerEmit, ServerMsg, Msg, ToQueue, ToAll
    <3> QED BY <3>1 DEF Owed
  <2>2. CASE Bye(p)
    BY <1>0, <2>2 DEF Bye, Announce, TInv, STypeOK
  <2> QED BY <2>1, <2>2 DEF SessionTakesUp
<1>2. ~ThreadTakesUp(p)
  BY <1>0 DEF ThreadTakesUp
<1>3. pc[p] = "open"
  <2>1. ASSUME pc[p] = "hello", Hello(p) PROVE FALSE
    <3>1. todo[p] = <<>>
      BY <1>0, <2>1 DEF Life, Quiet
    <3>2. todo'[p] = <<>>
      BY <1>0, <1>1, <1>2, <3>1 DEF OwesOn
    <3>3. todo'[p] = Plan("PEER_SERVER", ServerMsg("join", CodeOf[p]))
      BY <1>0, <2>1 DEF Hello, Announce, Emit, Role, HelloMsg, TInv, SInv, RInv, RTypeOK
    <3> QED BY <3>2, <3>3 DEF Plan, PeerServerEmit, ServerMsg, Msg
  <2> QED BY <2>1, OpenPeer
<1>4. CASE Owed(p, "storage")
  <2>1. todo[p] # <<>> /\ todo'[p] = Tail(todo[p]) /\ (Now(p).to = "storage" => Stores(p))
    BY <1>0, <1>1, <1>2, <1>4 DEF OwesOn, Owed
  <2>2. todo[p] \in Seq(Stages)
    BY <1>0 DEF TInv, SInv, RInv, RTypeOK
  <2>3. PICK i \in 1..Len(todo[p]) : todo[p][i].to = "storage"
    BY <1>4, <2>2 DEF Owed
  <2>4. i = 1
    <3> SUFFICES ASSUME i # 1 PROVE FALSE
      OBVIOUS
    <3>1. i - 1 \in 1..Len(todo'[p]) /\ todo'[p][i - 1] = todo[p][i]
      BY <2>1, <2>2, <2>3
    <3>2. i - 1 \in DOMAIN todo'[p]
      BY <2>1, <2>2, <3>1
    <3> QED BY <2>3, <3>1, <3>2 DEF Owed
  <2>5. Stores(p) /\ Now(p) = todo[p][1]
    BY <2>1, <2>2, <2>3, <2>4 DEF Now
  <2>6. /\ Waiting' # <<>> /\ Head(Waiting)' = Now(p).msg
    BY <1>0, <2>5, StoresOne
  <2>7. Now(p).msg.type = "server" /\ Now(p).msg.of = CodeOf[p] /\ Now(p).msg.sub = "join"
    <3>1. 1 \in 1..Len(todo[p]) /\ todo[p][1].to = "storage"
      BY <2>3, <2>4
    <3> QED BY <1>0, <1>3, <2>5, <3>1 DEF ServerNews, About
  <2> QED BY <2>6, <2>7 DEF Status, About, StatusOf
<1>5. CASE ~Owed(p, "storage")
  <2>1. Status(CodeOf[p]) = "alive"
    BY <1>3, <1>5 DEF AliveToCome
  <2>2. ASSUME NEW g \in Goroutines, Stores(g), About(Now(g).msg, CodeOf[p])
        PROVE  FALSE
    <3>1. todo[g] # <<>> /\ todo[g] \in Seq(Stages) /\ Now(g) = todo[g][1]
      BY <2>2 DEF Stores, QueueSend, Now, TInv, SInv, RInv, RTypeOK
    <3>2. 1 \in 1..Len(todo[g]) /\ todo[g][1].to = "storage" /\ todo[g][1].msg.type = "server"
      BY <2>2, <3>1 DEF Stores, About
    <3>3. CASE g = p
      BY <1>5, <3>1, <3>2, <3>3 DEF Owed
    <3>4. CASE g # p
      <4>1. g \in PeerSessions
        BY <2>2, <3>1, <3>2 DEF ServerNews, About
      <4>2. CodeOf[g] = CodeOf[p]
        BY <2>2, <3>1, <3>2, <4>1 DEF ServerNews, About
      <4> QED BY <1>3, <3>1, <3>4, <4>1, <4>2 DEF Life, OnePeer
    <3> QED BY <3>3, <3>4
  <2> QED BY <1>0, <2>1, <2>2, StatusStep
<1> QED BY <1>4, <1>5

\* The server never lists a member as anything but alive for good: what is queued
\* about it comes to that.
LEMMA TableInvariant == Safety => [](ServerNews /\ AliveToCome)
<1>1. Init => ServerNews /\ AliveToCome
  BY DEF Init, RInit, ServerNews, AliveToCome, Sessions
<1>2. TInv /\ Life /\ ServerNews /\ AliveToCome /\ [Next]_vars => (ServerNews /\ AliveToCome)'
  BY ServerNewsStep, AliveStep
<1> QED BY <1>1, <1>2, TrafficInvariant, LifeInvariant, PTL DEF Safety

\* A member of the cluster is listed as alive as soon as what was queued for the table
\* has been written, however often it left and came back, whatever the other peers and
\* the push/pull exchanges do.
THEOREM MembersListedAlive == Safety => []MemberRowAlive
<1>1. ASSUME TInv, AliveToCome PROVE MemberRowAlive
  <2> SUFFICES ASSUME queue["storage"] = <<>>, cur["storage"] = None,
                      NEW p \in PeerSessions, pc[p] = "open", Idle(p)
               PROVE  serverRow[CodeOf[p]] = "alive"
    BY DEF MemberRowAlive
  <2>1. ~Owed(p, "storage")
    BY DEF Idle, Owed
  <2> QED BY <1>1, <2>1 DEF AliveToCome, Status, Waiting
<1> QED BY <1>1, TrafficInvariant, TableInvariant, PTL

-----------------------------------------------------------------------------
(* The table of agents, and what admin clients are told of it.             *)

\* The agents with code x are all with this server, or all with others.
OneSided(x) ==
  ~ \E a \in AgentSessions, r \in RemoteSessions : CodeOf[a] = x /\ CodeOf[r] = x

SyncAbout(m, x) == IsSync(m) /\ CodeOf[m.of] = x

\* The record the table has for x once the sync messages on their way to it are
\* written.
Coming(x) ==
  IF Waiting # <<>> /\ SyncAbout(Head(Waiting), x) THEN Head(Waiting).of
  ELSE IF cur["storage"] # None /\ SyncAbout(cur["storage"], x) THEN cur["storage"].of
       ELSE agentRow[x]

\* The goroutines that tell admin clients about agents: the storage loop about those
\* of this server, and the one that handles packets about those of others.
Tellers == {"storage", "udp"}

Sync(r) == AgentMsg("sync", r)

SyncOwed ==
  /\ \/ todo["storage"] = <<>>
     \/ \E a \in AgentSessions :
          todo["storage"] \in {<<ToAll("client", Sync(a)), ToQueue("cluster", Sync(a))>>,
                               <<ToQueue("cluster", Sync(a))>>}
  /\ \/ todo["udp"] = <<>>
     \/ \E r \in RemoteSessions :
          todo["udp"] \in {<<ToQueue("event", Sync(r)), ToQueue("storage", Sync(r)),
                             ToAll("client", Sync(r))>>,
                           <<ToQueue("storage", Sync(r)), ToAll("client", Sync(r))>>,
                           <<ToAll("client", Sync(r))>>}
  /\ \A g \in Goroutines \ Tellers : \A i \in 1..Len(todo[g]) : ~IsSync(todo[g][i].msg)

\* The sync messages on their way to the table are about agents of other servers.
SyncStored ==
  /\ Waiting # <<>> /\ IsSync(Head(Waiting)) => Head(Waiting).of \in RemoteSessions
  /\ cur["storage"] # None /\ IsSync(cur["storage"])
       => cur["storage"].of \in RemoteSessions

Telling(g) == todo[g] # <<>> /\ Now(g).to = "client" /\ IsSync(Now(g).msg)

\* What clients are being told is what the table comes to have.
TellsComing ==
  \A g \in Tellers :
    Telling(g) /\ OneSided(CodeOf[Now(g).msg.of])
      => Coming(CodeOf[Now(g).msg.of]) = Now(g).msg.of

\* g is about to tell c of the agent with code x.
TellsSoon(g, c, x) ==
  Telling(g) /\ CodeOf[Now(g).msg.of] = x /\ (left[g] = {} \/ c \in left[g])

\* A client that is there knows what the table comes to have, unless it was told
\* nothing yet or is about to be told.
Fresh(c, x) ==
  /\ Unborn(c) => view[c][x] = None
  /\ Present(c) => \/ view[c][x] \in {None, Coming(x)}
                   \/ \E g \in Tellers : TellsSoon(g, c, x)

ClientsFresh == \A c \in ClientSessions, x \in Codes : OneSided(x) => Fresh(c, x)

SyncInv == SyncOwed /\ SyncStored /\ TellsComing /\ ClientsFresh

\* The fields of a sync message.
LEMMA SyncFields ==
  ASSUME NEW r PROVE Sync(r).of = r /\ IsSync(Sync(r))
BY DEF Sync, AgentMsg, Msg, IsSync

\* The plans of the two tellers, send by send.
LEMMA LocalPlan ==
  ASSUME NEW a
  PROVE  LocalServerEmit(Sync(a)) = <<ToAll("client", Sync(a)), ToQueue("cluster", Sync(a))>>
BY DEF LocalServerEmit, Sync, AgentMsg, Msg

\* The plan for a sync message of another server, which goes to the clients last.
LEMMA RemotePlan ==
  ASSUME NEW r
  PROVE  PeerServerEmit(Sync(r)) = <<ToQueue("event", Sync(r)), ToQueue("storage", Sync(r)),
                                     ToAll("client", Sync(r))>>
BY DEF PeerServerEmit, Sync, AgentMsg, Msg

\* Short plans, send by send.
LEMMA Tails ==
  ASSUME NEW a, NEW b, NEW c
  PROVE  /\ Tail(<<a>>) = <<>> /\ Tail(<<a, b>>) = <<b>> /\ Tail(<<a, b, c>>) = <<b, c>>
         /\ Head(<<a>>) = a /\ Head(<<a, b>>) = a /\ Head(<<a, b, c>>) = a
         /\ <<a>> # <<>> /\ <<a, b>> # <<>> /\ <<a, b, c>> # <<>>
OBVIOUS

\* What the storage loop and a receiver of frames owe stays within their plans.
LEMMA SyncOwedStep ==
  ASSUME TInv, SyncOwed, [Next]_vars PROVE SyncOwed'
<1>0. Tellers \subseteq Goroutines /\ Tellers \cap Sessions = {}
  BY DEF Tellers, Goroutines
<1>1. \/ todo'["storage"] = <<>>
      \/ \E a \in AgentSessions :
           todo'["storage"] \in {<<ToAll("client", Sync(a)), ToQueue("cluster", Sync(a))>>,
                                 <<ToQueue("cluster", Sync(a))>>}
  <2>1. OwesOn("storage")
    BY <1>0, OwedStep DEF Tellers
  <2>2. CASE todo'["storage"] = todo["storage"]
    BY <2>2 DEF SyncOwed
  <2>3. CASE todo["storage"] # <<>> /\ todo'["storage"] = Tail(todo["storage"])
    <3>1. PICK a \in AgentSessions :
            \/ todo["storage"] = <<ToAll("client", Sync(a)), ToQueue("cluster", Sync(a))>>
            \/ todo["storage"] = <<ToQueue("cluster", Sync(a))>>
      BY <2>3 DEF SyncOwed
    <3> DEFINE x == ToAll("client", Sync(a))
               y == ToQueue("cluster", Sync(a))
    <3>2. Tail(<<x, y>>) = <<y>> /\ Tail(<<y>>) = <<>>
      BY Tails
    <3>3. todo'["storage"] = <<y>> \/ todo'["storage"] = <<>>
      BY <2>3, <3>1, <3>2, Zenon
    <3> QED BY <3>3
  <2>4. CASE StoreAgent /\ IsNews(cur["storage"])
               /\ todo'["storage"] = LocalServerEmit(Sync(cur["storage"].of))
    <3>1. cur["storage"].of \in AgentSessions
      BY <2>4 DEF StoreAgent, IsNews, TInv, Traffic, HeldFit, Fits, Own, Queues
    <3> QED BY <2>4, <3>1, LocalPlan
  <2>5. ~SessionTakesUp("storage")
    BY <1>0 DEF SessionTakesUp, Tellers
  <2>6. ASSUME ThreadTakesUp("storage")
        PROVE  StoreAgent /\ IsNews(cur["storage"])
               /\ todo'["storage"] = LocalServerEmit(Sync(cur["storage"].of))
    BY <2>6 DEF ThreadTakesUp, Sync, Queues
  <2> QED BY <2>1, <2>2, <2>3, <2>4, <2>5, <2>6 DEF OwesOn
<1>2. \/ todo'["udp"] = <<>>
      \/ \E r \in RemoteSessions :
           todo'["udp"] \in {<<ToQueue("event", Sync(r)), ToQueue("storage", Sync(r)),
                               ToAll("client", Sync(r))>>,
                             <<ToQueue("storage", Sync(r)), ToAll("client", Sync(r))>>,
                             <<ToAll("client", Sync(r))>>}
  <2>1. OwesOn("udp")
    BY <1>0, OwedStep DEF Tellers
  <2>2. CASE todo'["udp"] = todo["udp"]
    BY <2>2 DEF SyncOwed
  <2>3. CASE todo["udp"] # <<>> /\ todo'["udp"] = Tail(todo["udp"])
    <3>1. PICK r \in RemoteSessions :
            \/ todo["udp"] = <<ToQueue("event", Sync(r)), ToQueue("storage", Sync(r)),
                              ToAll("client", Sync(r))>>
            \/ todo["udp"] = <<ToQueue("storage", Sync(r)), ToAll("client", Sync(r))>>
            \/ todo["udp"] = <<ToAll("client", Sync(r))>>
      BY <2>3 DEF SyncOwed
    <3> DEFINE x == ToQueue("event", Sync(r))
               y == ToQueue("storage", Sync(r))
               z == ToAll("client", Sync(r))
    <3>2. Tail(<<x, y, z>>) = <<y, z>> /\ Tail(<<y, z>>) = <<z>> /\ Tail(<<z>>) = <<>>
      BY Tails
    <3>3. todo'["udp"] = <<y, z>> \/ todo'["udp"] = <<z>> \/ todo'["udp"] = <<>>
      BY <2>3, <3>1, <3>2, Zenon
    <3> QED BY <3>3
  <2>4. CASE \E r \in RemoteSessions : todo'["udp"] = PeerServerEmit(Sync(r))
    BY <2>4, RemotePlan
  <2>5. ~SessionTakesUp("udp")
    BY <1>0 DEF SessionTakesUp, Tellers
  <2>6. ASSUME ThreadTakesUp("udp")
        PROVE  \E r \in RemoteSessions : todo'["udp"] = PeerServerEmit(Sync(r))
    BY <2>6 DEF ThreadTakesUp, Sync
  <2> QED BY <2>1, <2>2, <2>3, <2>4, <2>5, <2>6 DEF OwesOn
<1>3. ASSUME NEW g \in Goroutines \ Tellers, NEW i \in 1..Len(todo'[g])
      PROVE  ~IsSync(todo'[g][i].msg)
  <2>1. OwesOn(g)
    BY OwedStep
  <2>2. CASE todo'[g] = todo[g]
    BY <1>3, <2>2 DEF SyncOwed
  <2>3. CASE todo[g] # <<>> /\ todo'[g] = Tail(todo[g])
    <3>1. todo[g] \in Seq(Stages)
      BY DEF TInv, SInv, RInv, RTypeOK
    <3>2. i + 1 \in 1..Len(todo[g]) /\ todo[g][i + 1] = todo'[g][i]
      BY <1>3, <2>3, <3>1
    <3> QED BY <1>3, <3>2 DEF SyncOwed
  <2>4. CASE SessionTakesUp(g)
    BY <1>3, <2>4, PlanMessage DEF SessionTakesUp, ServerMsg, Msg, IsSync
  <2>5. CASE ThreadTakesUp(g)
    <3>1. CASE todo'[g] = PeerServerEmit(ServerMsg("join", Self))
      BY <1>3, <3>1, PlanMessage DEF ServerMsg, Msg, IsSync
    <3>2. CASE \E c, S : todo'[g] = <<ToOne("agent", c, ListMsg(S))>>
      BY <1>3, <3>2 DEF ToOne, ListMsg, IsSync
    <3>3. CASE \E r \in RemoteSessions : todo'[g] = PeerAgentEmit(AgentMsg("connect", r))
      BY <1>3, <3>3, PlanMessage DEF AgentMsg, Msg, IsSync
    <3> QED BY <1>3, <2>5, <3>1, <3>2, <3>3 DEF ThreadTakesUp, Tellers
  <2> QED BY <2>1, <2>2, <2>3, <2>4, <2>5 DEF OwesOn
<1> QED BY <1>1, <1>2, <1>3 DEF SyncOwed

\* Who sends what as a sync message, and where to.
LEMMA SyncSender ==
  ASSUME TInv, SyncOwed, NEW g \in Goroutines, todo[g] # <<>>, IsSync(Now(g).msg)
  PROVE  /\ Now(g).only = None
         /\ \/ /\ g = "storage" /\ Now(g).msg.of \in AgentSessions
               /\ Now(g).to \in {"client", "cluster"}
            \/ /\ g = "udp" /\ Now(g).msg.of \in RemoteSessions
               /\ Now(g).to \in {"event", "storage", "client"}
               /\ Now(g).to = "storage" => Tail(todo[g]) = <<ToAll("client", Now(g).msg)>>
<1> USE DEF Now
<1>1. CASE g = "storage"
  <2>1. PICK a \in AgentSessions :
          \/ todo["storage"] = <<ToAll("client", Sync(a)), ToQueue("cluster", Sync(a))>>
          \/ todo["storage"] = <<ToQueue("cluster", Sync(a))>>
    BY <1>1 DEF SyncOwed
  <2> DEFINE x == ToAll("client", Sync(a))
             y == ToQueue("cluster", Sync(a))
  <2>2. Head(<<x, y>>) = x /\ Head(<<y>>) = y
    BY Tails
  <2>3. Now(g) = x \/ Now(g) = y
    BY <1>1, <2>1, <2>2, Zenon
  <2> QED BY <1>1, <2>3, SyncFields DEF ToAll, ToQueue
<1>2. CASE g = "udp"
  <2>1. PICK r \in RemoteSessions :
          \/ todo["udp"] = <<ToQueue("event", Sync(r)), ToQueue("storage", Sync(r)),
                            ToAll("client", Sync(r))>>
          \/ todo["udp"] = <<ToQueue("storage", Sync(r)), ToAll("client", Sync(r))>>
          \/ todo["udp"] = <<ToAll("client", Sync(r))>>
    BY <1>2 DEF SyncOwed
  <2> DEFINE x == ToQueue("event", Sync(r))
             y == ToQueue("storage", Sync(r))
             z == ToAll("client", Sync(r))
  <2>2. /\ Head(<<x, y, z>>) = x /\ Head(<<y, z>>) = y /\ Head(<<z>>) = z
        /\ Tail(<<y, z>>) = <<z>>
    BY Tails
  <2>3. Now(g) = x \/ (Now(g) = y /\ Tail(todo[g]) = <<z>>) \/ Now(g) = z
    BY <1>2, <2>1, <2>2, Zenon
  <2>4. x.msg = Sync(r) /\ y.msg = Sync(r) /\ z.msg = Sync(r)
        /\ x.to = "event" /\ y.to = "storage" /\ z.to = "client"
        /\ x.only = None /\ y.only = None /\ z.only = None
    BY DEF ToAll, ToQueue
  <2> QED BY <1>2, <2>3, <2>4, SyncFields
<1>3. CASE g \notin Tellers
  <2>1. todo[g] \in Seq(Stages)
    BY DEF TInv, SInv, RInv, RTypeOK
  <2>2. 1 \in 1..Len(todo[g]) /\ Now(g) = todo[g][1]
    BY <2>1
  <2> QED BY <1>3, <2>2 DEF SyncOwed
<1> QED BY <1>1, <1>2, <1>3 DEF Tellers

\* The storage loop and the sends to it keep what is under way to the table about
\* agents of others.
LEMMA SyncStoredStep ==
  ASSUME TInv, SyncOwed, SyncStored, [Next]_vars PROVE SyncStored'
<1>1. ASSUME NEW g \in Goroutines, Stores(g) PROVE SyncStored'
  <2>1. /\ todo[g] # <<>> /\ Waiting' # <<>> /\ Head(Waiting') = Now(g).msg /\ cur' = cur
        /\ Now(g).to = "storage"
    BY <1>1, StoresOne DEF Stores
  <2>2. IsSync(Now(g).msg) => Now(g).msg.of \in RemoteSessions
    BY <2>1, SyncSender
  <2> QED BY <2>1, <2>2 DEF SyncStored
<1>2. CASE Take("storage")
  BY <1>2, TakesOne DEF SyncStored
<1>3. CASE StoreServer \/ StoreAgent
  <2>1. cur'["storage"] = None /\ Waiting' = Waiting
    BY <1>3 DEF StoreServer, StoreAgent, Emit, TInv, STypeOK, Queues, rvars, Waiting
  <2> QED BY <2>1 DEF SyncStored
<1>4. CASE TablesKept
  BY <1>4 DEF TablesKept, SyncStored
<1> QED BY <1>1, <1>2, <1>3, <1>4, OthersKeepTables

\* A message that is put on the queue decides what the table comes to have.
LEMMA StoresComing ==
  ASSUME TInv, NEW g \in Goroutines, Stores(g), NEW x \in Codes
  PROVE  Coming(x)' = IF SyncAbout(Now(g).msg, x) THEN Now(g).msg.of ELSE Coming(x)
<1>1. /\ Waiting = <<>> /\ Waiting' # <<>> /\ Head(Waiting') = Now(g).msg
      /\ cur' = cur /\ agentRow' = agentRow
  BY StoresOne
<1>2. Head(Waiting)' = Now(g).msg
  BY <1>1
<1> QED BY <1>1, <1>2 DEF Coming

\* So does the record of an agent of this server, if no other server has the agent.
LEMMA NewsComing ==
  ASSUME TInv, SyncStored, StoreAgent, NEW x \in Codes, OneSided(x)
  PROVE  Coming(x)' = IF IsNews(cur["storage"]) /\ CodeOf[cur["storage"].of] = x
                      THEN cur["storage"].of ELSE Coming(x)
<1> DEFINE m == cur["storage"]
<1>1. /\ m # None /\ m.type = "agent" /\ Waiting' = Waiting /\ cur'["storage"] = None
      /\ agentRow' = [agentRow EXCEPT ![CodeOf[m.of]] = m.of]
  BY DEF StoreAgent, Emit, Saved, TInv, STypeOK, Queues, rvars, Waiting
<1>2. m \in AllMessages /\ m.of \in Records /\ CodeOf[m.of] \in Codes
  BY <1>1, MessageFields DEF TInv, STypeOK, Queues
<1>3. agentRow'[x] = IF CodeOf[m.of] = x THEN m.of ELSE agentRow[x]
  BY <1>1, <1>2 DEF TInv, STypeOK
<1>4. Head(Waiting)' = Head(Waiting)
  BY <1>1
<1>5. CASE IsNews(m)
  <2>1. m.of \in AgentSessions /\ ~IsSync(m)
    BY <1>1, <1>5 DEF IsNews, IsSync, TInv, Traffic, HeldFit, Fits, Own, Queues
  <2>2. CodeOf[m.of] = x => ~(Waiting # <<>> /\ SyncAbout(Head(Waiting), x))
    BY <2>1 DEF SyncStored, SyncAbout, OneSided
  <2> QED BY <1>1, <1>3, <1>4, <1>5, <2>1, <2>2 DEF Coming, SyncAbout
<1>6. CASE ~IsNews(m)
  <2>1. IsSync(m)
    BY <1>1, <1>6 DEF IsNews, IsSync
  <2> QED BY <1>1, <1>3, <1>4, <1>6, <2>1 DEF Coming, SyncAbout
<1> QED BY <1>5, <1>6

\* Nothing else does.
LEMMA OthersComing ==
  ASSUME TInv, [Next]_vars, ~ \E g \in Goroutines : Stores(g), ~StoreAgent, NEW x \in Codes
  PROVE  Coming(x)' = Coming(x)
<1>1. CASE Take("storage")
  <2>1. /\ Waiting # <<>> /\ Waiting' = <<>> /\ cur["storage"] = None
        /\ Head(Waiting) # None /\ agentRow' = agentRow
        /\ cur'["storage"] = IF Head(Waiting).type \in {"server", "agent"}
                             THEN Head(Waiting) ELSE None
    BY <1>1, TakesOne
  <2> QED BY <2>1 DEF Coming, SyncAbout, IsSync
<1>2. CASE StoreServer
  <2>1. /\ cur["storage"].type = "server" /\ agentRow' = agentRow
        /\ cur'["storage"] = None /\ Waiting' = Waiting
    BY <1>2 DEF StoreServer, TInv, STypeOK, Queues, rvars, Waiting
  <2> QED BY <2>1 DEF Coming, SyncAbout, IsSync
<1>3. CASE TablesKept
  BY <1>3 DEF TablesKept, Coming
<1> QED BY <1>1, <1>2, <1>3, OthersKeepTables

\* g has just started to tell clients of an agent with code x, and of the record the
\* table comes to have for it.
TakesUpTale(g, x) ==
  /\ Telling(g)' /\ left'[g] = {}
  /\ CodeOf[Now(g)'.msg.of] = x /\ Coming(x)' = Now(g)'.msg.of
  /\ \/ g = "udp" /\ Now(g)'.msg.of \in RemoteSessions
     \/ g = "storage" /\ Now(g)'.msg.of \in AgentSessions

\* What the table comes to have changes only together with the news of it.
LEMMA ComingStep ==
  ASSUME TInv, SyncOwed, SyncStored, [Next]_vars, NEW x \in Codes, OneSided(x)
  PROVE  Coming(x)' = Coming(x) \/ \E g \in Tellers : TakesUpTale(g, x)
<1>0. RTypeOK /\ FanoutCoherent /\ Tellers \subseteq Goroutines
  BY DEF TInv, SInv, RInv, Tellers, Goroutines
<1>1. ASSUME NEW g \in Goroutines, Stores(g), SyncAbout(Now(g).msg, x)
      PROVE  TakesUpTale(g, x) /\ g \in Tellers
  <2> DEFINE m == Now(g).msg
             z == ToAll("client", m)
  <2>1. /\ todo[g] # <<>> /\ Now(g).to = "storage" /\ IsSync(m) /\ CodeOf[m.of] = x
        /\ todo' = [todo EXCEPT ![g] = Tail(@)] /\ left' = left
    BY <1>1, StoresOne DEF Stores, SyncAbout
  <2>2. /\ g = "udp" /\ m.of \in RemoteSessions
        /\ Tail(todo[g]) = <<ToAll("client", Now(g).msg)>>
    BY <2>1, SyncSender
  <2>3. todo'[g] = <<z>>
    BY <1>0, <2>1, <2>2 DEF RTypeOK
  <2>4. Head(<<z>>) = z /\ <<z>> # <<>>
    BY Tails
  <2>5. todo'[g] # <<>> /\ Now(g)' = z
    BY <2>3, <2>4, Zenon DEF Now
  <2>6. z.msg = m /\ z.to = "client"
    BY DEF ToAll
  <2>7. left'[g] = {}
    BY <1>0, <2>1 DEF FanoutCoherent, Kinds
  <2>8. Coming(x)' = m.of
    BY <1>1, StoresComing
  <2> QED BY <2>1, <2>2, <2>5, <2>6, <2>7, <2>8 DEF TakesUpTale, Telling, Tellers
<1>2. CASE StoreAgent /\ IsNews(cur["storage"]) /\ CodeOf[cur["storage"].of] = x
  <2> DEFINE a == cur["storage"].of
             g == "storage"
             u == ToAll("client", Sync(a))
             v == ToQueue("cluster", Sync(a))
  <2>1. a \in AgentSessions
    BY <1>2 DEF StoreAgent, IsNews, TInv, Traffic, HeldFit, Fits, Own, Queues
  <2>2. todo[g] = <<>> /\ left' = left /\ todo'[g] = LocalServerEmit(Sync(a))
    BY <1>0, <1>2 DEF StoreAgent, Emit, Idle, Plan, Sync, RTypeOK, Tellers
  <2>3. todo'[g] = <<u, v>>
    BY <2>2, LocalPlan
  <2>4. Head(<<u, v>>) = u /\ <<u, v>> # <<>>
    BY Tails
  <2>5. todo'[g] # <<>> /\ Now(g)' = u
    BY <2>3, <2>4, Zenon DEF Now
  <2>6. u.msg = Sync(a) /\ u.to = "client" /\ Sync(a).of = a /\ IsSync(Sync(a))
    BY SyncFields DEF ToAll
  <2>7. left'[g] = {}
    BY <1>0, <2>2 DEF FanoutCoherent, Tellers
  <2>8. Coming(x)' = a
    BY <1>2, NewsComing
  <2>9. TakesUpTale(g, x)
    BY <1>2, <2>1, <2>5, <2>6, <2>7, <2>8 DEF TakesUpTale, Telling
  <2> QED BY <2>9 DEF Tellers
<1>3. CASE StoreAgent /\ ~(IsNews(cur["storage"]) /\ CodeOf[cur["storage"].of] = x)
  BY <1>3, NewsComing
<1>4. ASSUME NEW g \in Goroutines, Stores(g), ~SyncAbout(Now(g).msg, x)
      PROVE  Coming(x)' = Coming(x)
  BY <1>4, StoresComing
<1> QED BY <1>1, <1>2, <1>3, <1>4, OthersComing

\* Who starts to tell clients of an agent, and of whom.
LEMMA TellingAnew ==
  ASSUME TInv, SyncOwed, [Next]_vars, NEW g \in Tellers, Telling(g)', todo'[g] # todo[g]
  PROVE  \/ g = "udp" /\ Stores(g) /\ IsSync(Now(g).msg) /\ Now(g)'.msg = Now(g).msg
         \/ /\ g = "storage" /\ StoreAgent /\ IsNews(cur["storage"])
            /\ Now(g)'.msg = Sync(cur["storage"].of)
<1>0. g \in Goroutines /\ g \notin Sessions /\ OwesOn(g)
  BY OwedStep DEF Tellers, Goroutines
<1>1. todo'[g] # <<>> /\ Now(g)' = Head(todo'[g]) /\ Now(g)'.to = "client"
  BY DEF Telling, Now
<1>2. CASE g = "storage" /\ todo[g] # <<>> /\ todo'[g] = Tail(todo[g])
  <2>1. PICK a \in AgentSessions :
          \/ todo["storage"] = <<ToAll("client", Sync(a)), ToQueue("cluster", Sync(a))>>
          \/ todo["storage"] = <<ToQueue("cluster", Sync(a))>>
    BY <1>2 DEF SyncOwed
  <2> DEFINE x == ToAll("client", Sync(a))
             y == ToQueue("cluster", Sync(a))
  <2>2. Tail(<<x, y>>) = <<y>> /\ Tail(<<y>>) = <<>> /\ Head(<<y>>) = y
    BY Tails
  <2>3. Now(g)' = y
    BY <1>1, <1>2, <2>1, <2>2, Zenon
  <2> QED BY <1>1, <2>3 DEF ToQueue
<1>3. CASE g = "udp" /\ todo[g] # <<>> /\ todo'[g] = Tail(todo[g])
  <2>1. PICK r \in RemoteSessions :
          \/ todo["udp"] = <<ToQueue("event", Sync(r)), ToQueue("storage", Sync(r)),
                            ToAll("client", Sync(r))>>
          \/ todo["udp"] = <<ToQueue("storage", Sync(r)), ToAll("client", Sync(r))>>
          \/ todo["udp"] = <<ToAll("client", Sync(r))>>
    BY <1>3 DEF SyncOwed
  <2> DEFINE x == ToQueue("event", Sync(r))
             y == ToQueue("storage", Sync(r))
             z == ToAll("client", Sync(r))
  <2>2. /\ Tail(<<x, y, z>>) = <<y, z>> /\ Tail(<<y, z>>) = <<z>> /\ Tail(<<z>>) = <<>>
        /\ Head(<<y, z>>) = y /\ Head(<<z>>) = z
    BY Tails
  <2>3. Now(g)' = y \/ (Now(g)' = z /\ Now(g) = y)
    BY <1>1, <1>3, <2>1, <2>2, Zenon DEF Now
  <2>4. y.to = "storage" /\ y.msg = Sync(r) /\ z.msg = Sync(r)
    BY DEF ToQueue, ToAll
  <2>5. Now(g)' = z /\ Now(g) = y
    BY <1>1, <2>3, <2>4
  <2>6. Stores(g)
    BY <1>0, <1>3, <2>4, <2>5, Tails DEF OwesOn
  <2> QED BY <1>3, <2>4, <2>5, <2>6, SyncFields
<1>4. CASE todo[g] = <<>> /\ (SessionTakesUp(g) \/ ThreadTakesUp(g))
  <2>0. ThreadTakesUp(g)
    BY <1>0, <1>4 DEF SessionTakesUp
  <2>1. CASE g = "storage"
    <3> DEFINE u == ToAll("client", Sync(cur["storage"].of))
               v == ToQueue("cluster", Sync(cur["storage"].of))
    <3>1. /\ StoreAgent /\ IsNews(cur["storage"])
          /\ todo'[g] = LocalServerEmit(Sync(cur["storage"].of))
      BY <2>0, <2>1 DEF ThreadTakesUp, Sync, Queues
    <3>2. todo'[g] = <<u, v>>
      BY <3>1, LocalPlan
    <3>3. Head(<<u, v>>) = u
      BY Tails
    <3>4. Now(g)' = u
      BY <1>1, <3>2, <3>3, Zenon
    <3> QED BY <2>1, <3>1, <3>4 DEF ToAll
  <2>2. CASE g = "udp"
    <3>1. PICK r \in RemoteSessions : todo'[g] = PeerServerEmit(Sync(r))
      BY <2>0, <2>2 DEF ThreadTakesUp, Sync
    <3> DEFINE x == ToQueue("event", Sync(r))
               y == ToQueue("storage", Sync(r))
               z == ToAll("client", Sync(r))
    <3>2. todo'[g] = <<x, y, z>>
      BY <3>1, RemotePlan
    <3>3. Head(<<x, y, z>>) = x
      BY Tails
    <3>4. Now(g)' = x
      BY <1>1, <3>2, <3>3, Zenon
    <3> QED BY <1>1, <3>4 DEF ToQueue
  <2> QED BY <2>1, <2>2 DEF Tellers
<1>5. (todo[g] # <<>> /\ todo'[g] = Tail(todo[g]))
        \/ (todo[g] = <<>> /\ (SessionTakesUp(g) \/ ThreadTakesUp(g)))
  BY <1>0 DEF OwesOn
<1> QED BY <1>2, <1>3, <1>4, <1>5 DEF Tellers

\* What clients are told goes on to be what the table comes to have.
LEMMA TellsComingStep ==
  ASSUME TInv, SyncOwed, SyncStored, TellsComing, [Next]_vars PROVE TellsComing'
<1> SUFFICES ASSUME NEW g \in Tellers, NEW x, x = CodeOf[Now(g)'.msg.of],
                    Telling(g)', OneSided(x)
             PROVE  Coming(x)' = Now(g)'.msg.of
  BY DEF TellsComing, Tellers
<1>0. g \in Goroutines
  BY DEF Tellers, Goroutines
<1>1. CASE todo'[g] = todo[g]
  <2>1. Now(g)' = Now(g) /\ Telling(g)
    BY <1>1 DEF Now, Telling
  <2>2. /\ todo[g] # <<>> /\ IsSync(Now(g).msg) /\ Coming(x) = Now(g).msg.of
    BY <2>1 DEF Telling, TellsComing
  <2>3. \/ g = "storage" /\ Now(g).msg.of \in AgentSessions
        \/ g = "udp" /\ Now(g).msg.of \in RemoteSessions
    BY <1>0, <2>2, SyncSender
  <2>4. x \in Codes
    BY <2>1, <2>3 DEF Sessions
  <2>5. Coming(x)' = Coming(x) \/ \E h \in Tellers : TakesUpTale(h, x)
    BY <2>4, ComingStep
  <2>6. ASSUME NEW h \in Tellers, TakesUpTale(h, x) PROVE h = g
    <3>1. CodeOf[Now(h)'.msg.of] = x /\ CodeOf[Now(g).msg.of] = x
      BY <2>1, <2>6 DEF TakesUpTale
    <3> QED BY <2>3, <2>6, <3>1 DEF TakesUpTale, OneSided
  <2> QED BY <2>1, <2>2, <2>5, <2>6 DEF TakesUpTale
<1>2. CASE g = "udp" /\ Stores(g) /\ IsSync(Now(g).msg) /\ Now(g)'.msg = Now(g).msg
  <2>1. todo[g] # <<>>
    BY <1>0, <1>2, StoresOne
  <2>2. Now(g).msg.of \in RemoteSessions
    BY <1>0, <1>2, <2>1, SyncSender
  <2>3. x \in Codes
    BY <1>2, <2>2
  <2>4. Coming(x)' = IF SyncAbout(Now(g).msg, x) THEN Now(g).msg.of ELSE Coming(x)
    BY <1>0, <1>2, <2>3, StoresComing
  <2> QED BY <1>2, <2>4 DEF SyncAbout
<1>3. CASE /\ g = "storage" /\ StoreAgent /\ IsNews(cur["storage"])
           /\ Now(g)'.msg = Sync(cur["storage"].of)
  <2>1. Now(g)'.msg.of = cur["storage"].of
    BY <1>3, SyncFields
  <2>2. cur["storage"].of \in AgentSessions
    BY <1>3 DEF StoreAgent, IsNews, TInv, Traffic, HeldFit, Fits, Own, Queues
  <2>3. x \in Codes
    BY <2>1, <2>2 DEF Sessions
  <2> QED BY <1>3, <2>1, <2>3, NewsComing
<1> QED BY <1>1, <1>2, <1>3, TellingAnew

\* The send a goroutine is at, and whom that still has to reach, changes only when the
\* goroutine goes on with it.
LEMMA FanoutStep ==
  ASSUME TInv, [Next]_vars, NEW g \in Goroutines, todo[g] # <<>>, ~Proceed(g)
  PROVE  UNCHANGED <<todo[g], left[g]>>
<1>0. RTypeOK /\ Threads \subseteq Goroutines /\ Sessions \subseteq Goroutines
  BY DEF TInv, SInv, RInv, Goroutines
<1>1. ASSUME NEW h, Idle(h), NEW plan, todo' = [todo EXCEPT ![h] = plan], left' = left
      PROVE  UNCHANGED <<todo[g], left[g]>>
  BY <1>0, <1>1 DEF Idle, RTypeOK
<1>2. ASSUME NEW h, NEW e, NEW m, Emit(h, e, m) PROVE UNCHANGED <<todo[g], left[g]>>
  BY <1>1, <1>2 DEF Emit
<1>3. CASE UNCHANGED <<todo, left>>
  BY <1>3
<1>4. ASSUME NEW s \in Sessions, SessionStep(s) \/ Hangup(s)
      PROVE  UNCHANGED <<todo[g], left[g]>>
  <2>1. CASE Hello(s) \/ Body(s) \/ Bye(s)
    BY <1>2, <2>1 DEF Hello, Body, Bye, Announce
  <2>2. CASE Frame(s)
    BY <1>2, <2>2 DEF Frame
  <2>3. CASE Start(s) \/ Registered(s) \/ Unregistered(s) \/ End(s) \/ Hangup(s)
    BY <1>3, <2>3 DEF Start, Registered, Unregistered, End, Hangup, AwaitLock, Register,
       Unregister, WriterExit
  <2> QED BY <1>4, <2>1, <2>2, <2>3 DEF SessionStep, Handler
<1>5. ASSUME NEW h \in Goroutines, h # g, Proceed(h) PROVE UNCHANGED <<todo[g], left[g]>>
  BY <1>0, <1>5 DEF Proceed, QueueSend, BeginFanout, Deliver, HandOff, RTypeOK
<1>6. CASE JoinSelf
  BY <1>2, <1>6 DEF JoinSelf
<1>7. CASE AnswerConnect
  BY <1>1, <1>7 DEF AnswerConnect, Send
<1>8. CASE StoreAgent
  BY <1>2, <1>3, <1>8 DEF StoreAgent, rvars
<1>9. ASSUME NEW h \in Receivers, Relay(h) PROVE UNCHANGED <<todo[g], left[g]>>
  BY <1>2, <1>9 DEF Relay
<1>10. CASE SaveSelf \/ MakeRouter \/ StartBroadcasts \/ StartLoops
  BY <1>3, <1>10 DEF SaveSelf, MakeRouter, StartBroadcasts, StartLoops, rvars
<1>11. CASE (\E q \in Queues : Take(q)) \/ StoreServer \/ QueueBroadcast
  BY <1>3, <1>11 DEF Take, Receive, StoreServer, QueueBroadcast, rvars
<1>12. CASE \/ GossipTick \/ GossipDone
            \/ \E p \in PeerSessions : PushPull(p) \/ MergeRemoteState(p)
            \/ \E h \in Receivers : (\E f \in Frames : Arrive(h, f)) \/ Recall(h)
  BY <1>3, <1>12 DEF GossipTick, GossipDone, PushPull, MergeRemoteState, Arrive, Recall, rvars
<1>13. CASE UNCHANGED vars
  BY <1>3, <1>13 DEF vars, rvars
<1> QED BY <1>4, <1>5, <1>6, <1>7, <1>8, <1>9, <1>10, <1>11, <1>12, <1>13
        DEF Next, SessionStep, Main, Loops, Memberlist, NotifyMsg

\* What a client is told of, it is told by a delivery.
LEMMA ViewStep ==
  ASSUME TInv, [Next]_vars, NEW c \in ClientSessions
  PROVE  \/ view'[c] = view[c]
         \/ \E g \in Goroutines :
              /\ Deliver(g, c) /\ IsSync(Now(g).msg)
              /\ view'[c] = [view[c] EXCEPT ![CodeOf[Now(g).msg.of]] = Now(g).msg.of]
<1>1. CASE view' = view
  BY <1>1
<1>2. ASSUME NEW g \in Goroutines, Proceed(g), view' # view
      PROVE  \/ view'[c] = view[c]
             \/ /\ Deliver(g, c) /\ IsSync(Now(g).msg)
                /\ view'[c] = [view[c] EXCEPT ![CodeOf[Now(g).msg.of]] = Now(g).msg.of]
  <2>1. PICK s \in Sessions : Deliver(g, s)
    BY <1>2 DEF Proceed, svars
  <2>2. /\ s \in ClientSessions /\ IsSync(Now(g).msg)
        /\ view' = [view EXCEPT ![s][CodeOf[Now(g).msg.of]] = Now(g).msg.of]
    BY <1>2, <2>1 DEF Deliver, IsSync
  <2> QED BY <2>1, <2>2 DEF TInv, STypeOK
<1>3. ASSUME NEW s \in Sessions, SessionStep(s) \/ Hangup(s) PROVE view' = view
  BY <1>3 DEF SessionStep, Start, Handler, Registered, Hello, Body, Unregistered, Bye,
     Announce, Frame, End, Hangup, svars
<1>4. CASE Main
  BY <1>4 DEF Main, SaveSelf, MakeRouter, JoinSelf, StartBroadcasts, StartLoops
<1>5. CASE Loops
  BY <1>5 DEF Loops, Take, AnswerConnect, StoreServer, StoreAgent, QueueBroadcast
<1>6. CASE Memberlist
  BY <1>6 DEF Memberlist, GossipTick, GossipDone, PushPull, MergeRemoteState, NotifyMsg,
     Arrive, Recall, Relay, svars
<1>7. CASE UNCHANGED vars
  BY <1>7 DEF vars, svars
<1> QED BY <1>1, <1>2, <1>3, <1>4, <1>5, <1>6, <1>7 DEF Next, SessionStep

\* A session that is over is not there again.
LEMMA PresentStep ==
  ASSUME TInv, [Next]_vars, NEW s \in Sessions
  PROVE  (Unborn(s)' => Unborn(s)) /\ (Present(s)' => Present(s) \/ Unborn(s))
<1> USE DEF Unborn, Present
<1>1. ASSUME NEW t \in Sessions, SessionStep(t), t # s PROVE pc'[s] = pc[s]
  BY <1>1 DEF SessionStep, Start, Handler, Registered, Hello, Body, Unregistered, Bye,
     Announce, Frame, End, TInv, STypeOK
<1>2. CASE SessionStep(s)
  BY <1>2 DEF SessionStep, Start, Handler, Registered, Hello, Body, Unregistered, Bye,
     Announce, Frame, End, TInv, STypeOK
<1> QED BY <1>1, <1>2, OnlySessionsMove

\* The channel of a client that is there is drained for that client alone.
LEMMA ClientChannel ==
  ASSUME TInv, NEW c \in ClientSessions, Present(c), Reached(c),
         NEW g \in Goroutines, NEW s \in Sessions, HandOff(g, s), chan[s] = c
  PROVE  s = c
<1>1. chan[s] \in left[g] /\ chan[s] # None /\ Now(g).to \in Kinds
  <2>1. c \in Sessions /\ RInv
    BY DEF Sessions, TInv, SInv
  <2>2. Now(g).to = Kind(s)
    BY <2>1, HandOffKind
  <2> QED BY <2>1, <2>2, KindType DEF HandOff, Goroutines
<1>2. chan[s] \in {outbound[Now(g).to][d] : d \in Codes} \ {None}
  BY <1>1 DEF TInv, SInv, RInv, FanoutCoherent
<1>3. chan[s] \notin closed
  BY <1>1, <1>2 DEF TInv, SInv, RInv, RegistryCoherent
<1>4. outbound[Kind(s)][CodeOf[s]] = c
  BY <1>1, <1>3 DEF TInv, SInv, RInv, NoOrphanChannel
<1>5. Kind(s) \in Kinds /\ CodeOf[s] \in Codes /\ c # None
  BY <1>1, KindType
<1>6. Kind(c) = Kind(s) /\ CodeOf[c] = CodeOf[s]
  BY <1>4, <1>5 DEF TInv, SInv, RInv, RegistryCoherent
<1>7. s \in ClientSessions
  BY <1>6 DEF Kind, Sessions
<1> QED BY <1>6, <1>7

\* A client that is about to be told of an agent is told, or goes on being about to.
LEMMA TellsOn ==
  ASSUME TInv, SyncOwed, [Next]_vars, NEW c \in ClientSessions, Present(c), Reached(c),
         NEW g \in Goroutines, ~Deliver(g, c), NEW x, TellsSoon(g, c, x)
  PROVE  TellsSoon(g, c, x)'
<1> USE DEF TellsSoon, Telling
<1>0. /\ RTypeOK /\ c \in Sessions /\ Kind(c) = "client" /\ CodeOf[c] \in Codes
      /\ c # None /\ todo[g] # <<>>
  BY DEF TInv, SInv, RInv, Sessions, Kind, Goroutines
<1>1. CASE UNCHANGED <<todo[g], left[g]>>
  BY <1>1 DEF Now
<1>2. CASE QueueSend(g)
  BY <1>2 DEF QueueSend, Queues
<1>3. CASE BeginFanout(g)
  <2>1. c \in Targets(Now(g))
    <3>1. outbound["client"][CodeOf[c]] = c
      BY <1>0 DEF Reached
    <3>2. Now(g).only = None
      BY <1>0, SyncSender
    <3> QED BY <1>0, <3>1, <3>2 DEF Targets
  <2>2. todo'[g] = todo[g] /\ left'[g] = Targets(Now(g))
    BY <1>0, <1>3, <2>1 DEF BeginFanout, RTypeOK
  <2> QED BY <2>1, <2>2 DEF Now
<1>4. ASSUME NEW s \in Sessions, Deliver(g, s) PROVE TellsSoon(g, c, x)'
  <2>1. HandOff(g, s) /\ s # c
    BY <1>4 DEF Deliver
  <2>2. chan[s] # c
    BY <2>1, ClientChannel
  <2>3. chan[s] \in left[g] /\ c \in left[g] /\ left[g] # {chan[s]}
    BY <2>1, <2>2 DEF HandOff
  <2>4. todo'[g] = todo[g] /\ left'[g] = left[g] \ {chan[s]}
    BY <1>0, <2>1, <2>3 DEF HandOff, RTypeOK
  <2> QED BY <2>2, <2>3, <2>4 DEF Now
<1> QED BY <1>0, <1>1, <1>2, <1>3, <1>4, FanoutStep DEF Proceed

\* What a client knows of an agent stays what the table comes to have, or is about to
\* be brought up to date.
LEMMA FreshStep ==
  ASSUME TInv, Life, SyncOwed, SyncStored, TellsComing, [Next]_vars,
         NEW c \in ClientSessions, Reached(c),
         NEW x \in Codes, OneSided(x), Fresh(c, x)
  PROVE  Fresh(c, x)'
<1>0. c \in Sessions /\ RInv /\ None \notin Goroutines
  BY DEF TInv, SInv, Sessions
<1>1. (Unborn(c)' => Unborn(c)) /\ (Present(c)' => Present(c) \/ Unborn(c))
  BY <1>0, PresentStep
<1>2. CASE Unborn(c)
  <2>1. chan[c] = None
    BY <1>0, <1>2 DEF Life, MakersPresent
  <2>2. ASSUME NEW g \in Goroutines, Deliver(g, c) PROVE FALSE
    <3>1. chan[c] \in left[g] /\ left[g] \subseteq Sessions
      BY <1>0, <2>2 DEF Deliver, HandOff, RInv, RTypeOK
    <3> QED BY <1>0, <2>1, <3>1 DEF Goroutines
  <2>3. view'[c] = view[c]
    BY <2>2, ViewStep
  <2> QED BY <1>2, <2>3 DEF Fresh
<1>3. CASE ~Unborn(c)
  <2> SUFFICES ASSUME Present(c)'
               PROVE  \/ view'[c][x] \in {None, Coming(x)'}
                      \/ \E g \in Tellers : TellsSoon(g, c, x)'
    BY <1>1, <1>3 DEF Fresh
  <2>0. Present(c) /\ Tellers \subseteq Goroutines
    BY <1>1, <1>3 DEF Tellers, Goroutines
  <2>1. Coming(x)' = Coming(x) \/ \E g \in Tellers : TakesUpTale(g, x)
    BY ComingStep
  <2>2. ASSUME NEW g \in Tellers, TakesUpTale(g, x) PROVE TellsSoon(g, c, x)'
    BY <2>2 DEF TakesUpTale, TellsSoon
  <2>3. ASSUME NEW g \in Goroutines, Deliver(g, c), SyncAbout(Now(g).msg, x)
        PROVE  view'[c][x] = Coming(x)'
    <3>1. todo[g] # <<>> /\ Now(g).to = "client"
      BY <1>0, <2>3, HandOffKind DEF Deliver, Kind
    <3>2. g \in Tellers
      BY <2>3, <3>1, SyncSender DEF SyncAbout, Tellers
    <3>3. Coming(x) = Now(g).msg.of
      BY <2>3, <3>1, <3>2 DEF SyncAbout, Telling, TellsComing
    <3>4. view'[c][x] = Now(g).msg.of
      <4>1. view' = [view EXCEPT ![c][CodeOf[Now(g).msg.of]] = Now(g).msg.of]
        BY <2>3 DEF Deliver, SyncAbout, IsSync
      <4> QED BY <2>3, <4>1 DEF SyncAbout, TInv, STypeOK
    <3>5. UNCHANGED <<agentRow, cur>> /\ queue' = queue
      BY <2>3 DEF Deliver, HandOff
    <3> QED BY <3>3, <3>4, <3>5 DEF Coming, Waiting
  <2>4. CASE ~ \E g \in Goroutines : Deliver(g, c) /\ SyncAbout(Now(g).msg, x)
    <3>1. view'[c][x] = view[c][x]
      <4>1. ASSUME NEW g \in Goroutines, ~SyncAbout(Now(g).msg, x), IsSync(Now(g).msg),
                   view'[c] = [view[c] EXCEPT ![CodeOf[Now(g).msg.of]] = Now(g).msg.of]
            PROVE  view'[c][x] = view[c][x]
        BY <4>1 DEF SyncAbout, TInv, STypeOK
      <4> QED BY <2>4, <4>1, ViewStep
    <3>2. CASE view[c][x] \in {None, Coming(x)}
      BY <2>1, <2>2, <3>1, <3>2
    <3>3. ASSUME NEW g \in Tellers, TellsSoon(g, c, x) PROVE TellsSoon(g, c, x)'
      <4>1. ~Deliver(g, c)
        BY <2>0, <2>4, <3>3 DEF TellsSoon, Telling, SyncAbout
      <4> QED BY <2>0, <3>3, <4>1, TellsOn
    <3> QED BY <2>0, <3>2, <3>3 DEF Fresh
  <2> QED BY <2>3, <2>4
<1> QED BY <1>2, <1>3

\* What is owed, stored, told and known of agents hangs together.
LEMMA SyncInvariant == Safety => []SyncInv
<1> DEFINE Reaches == \A s \in PeerSessions \cup ClientSessions : Reached(s)
<1>1. Init => SyncInv
  <2> SUFFICES ASSUME Init PROVE SyncInv
    OBVIOUS
  <2>1. \A g \in Goroutines : todo[g] = <<>>
    BY DEF Init, RInit
  <2>2. Tellers \subseteq Goroutines /\ "storage" \in Queues
    BY DEF Tellers, Goroutines, Queues
  <2>3. SyncOwed /\ TellsComing
    BY <2>1, <2>2 DEF SyncOwed, TellsComing, Telling, Tellers
  <2>4. SyncStored
    BY <2>2 DEF Init, RInit, SyncStored, Waiting
  <2>5. ClientsFresh
    BY DEF Init, ClientsFresh, Fresh
  <2> QED BY <2>3, <2>4, <2>5 DEF SyncInv
<1>2. TInv /\ Life /\ Reaches /\ SyncInv /\ [Next]_vars => SyncInv'
  <2> SUFFICES ASSUME TInv, Life, Reaches, SyncInv, [Next]_vars PROVE SyncInv'
    OBVIOUS
  <2>1. SyncOwed' /\ SyncStored' /\ TellsComing'
    BY SyncOwedStep, SyncStoredStep, TellsComingStep DEF SyncInv
  <2>2. ClientsFresh'
    <3> SUFFICES ASSUME NEW c \in ClientSessions, NEW x \in Codes, OneSided(x)
                 PROVE  Fresh(c, x)'
      BY DEF ClientsFresh, OneSided
    <3> QED BY FreshStep DEF SyncInv, ClientsFresh
  <2> QED BY <2>1, <2>2 DEF SyncInv
<1> QED BY <1>1, <1>2, TrafficInvariant, LifeInvariant, PeersAndClientsReached, PTL
        DEF Safety

\* When nothing is on its way, what an admin client was last told of an agent is the
\* record the table has, for every agent that does not move between servers; whatever
\* overtakes what in the queues, in the fan-outs and in the packets of other servers.
THEOREM ClientsAgreeWithTable ==
  Safety => [](StorageQuiet =>
    \A c \in ClientSessions, x \in Codes :
      OneSided(x) /\ Connected(c) => view[c][x] \in {None, agentRow[x]})
<1> DEFINE Agree == StorageQuiet =>
      \A c \in ClientSessions, x \in Codes :
        OneSided(x) /\ Connected(c) => view[c][x] \in {None, agentRow[x]}
<1>1. SyncInv => Agree
  <2> SUFFICES ASSUME SyncInv, StorageQuiet,
                      NEW c \in ClientSessions, NEW x \in Codes, OneSided(x), Connected(c)
               PROVE  view[c][x] \in {None, agentRow[x]}
    OBVIOUS
  <2>1. Present(c) /\ Fresh(c, x)
    BY DEF SyncInv, ClientsFresh, Connected, Present
  <2>2. \A g \in Tellers : ~TellsSoon(g, c, x)
    BY DEF StorageQuiet, Idle, Tellers, TellsSoon, Telling
  <2>3. Coming(x) = agentRow[x]
    BY DEF StorageQuiet, Coming, Waiting
  <2> QED BY <2>1, <2>2, <2>3 DEF Fresh
<1> QED BY <1>1, SyncInvariant, PTL

\* So admin clients and the table agree on every agent when none moves.
THEOREM ClientsAgreeWhenNoneMoves ==
  ASSUME \A x \in Codes : OneSided(x)
  PROVE  Safety => []SyncConsistency
<1> DEFINE Agree == StorageQuiet =>
      \A c \in ClientSessions, x \in Codes :
        OneSided(x) /\ Connected(c) => view[c][x] \in {None, agentRow[x]}
<1>1. Agree => SyncConsistency
  BY DEF SyncConsistency
<1> QED BY <1>1, ClientsAgreeWithTable, PTL

-----------------------------------------------------------------------------
(* An agent is saved before it is announced.                               *)

\* The storage loop announces what it has just written, and holds no message then.
Saving ==
  todo["storage"] # <<>> =>
    /\ cur["storage"] = None
    /\ \A a \in AgentSessions :
         todo["storage"] \in {<<ToAll("client", Sync(a)), ToQueue("cluster", Sync(a))>>,
                              <<ToQueue("cluster", Sync(a))>>}
           => agentRow[CodeOf[a]] = a

\* The storage loop's message and the table of agents change only in the loop's steps.
LEMMA HandStays ==
  ASSUME [Next]_vars, ~Take("storage"), ~StoreServer, ~StoreAgent, cur["storage"] = None, TInv
  PROVE  cur'["storage"] = None /\ agentRow' = agentRow
<1>0. cur \in [Queues -> AllMessages \cup {None}] /\ "storage" \in Queues
  BY DEF TInv, STypeOK, Queues
<1>1. CASE Main
  BY <1>1 DEF Main, SaveSelf, MakeRouter, JoinSelf, StartBroadcasts, StartLoops
<1>2. CASE \E s \in Sessions : Start(s) \/ Handler(s) \/ Frame(s) \/ End(s) \/ Hangup(s)
  BY <1>2 DEF Start, Handler, Registered, Hello, Body, Unregistered, Bye, Announce, Frame, End,
     Hangup, svars
<1>3. CASE \E g \in Goroutines : Proceed(g)
  BY <1>3 DEF Proceed, Deliver, svars
<1>4. CASE Loops
  BY <1>0, <1>4 DEF Loops, Take, AnswerConnect, QueueBroadcast
<1>5. CASE Memberlist
  BY <1>5 DEF Memberlist, GossipTick, GossipDone, PushPull, MergeRemoteState, NotifyMsg, Arrive,
     Recall, Relay, svars
<1>6. CASE UNCHANGED vars
  BY <1>6 DEF vars, svars
<1> QED BY <1>1, <1>2, <1>3, <1>4, <1>5, <1>6 DEF Next

\* While it announces, it takes and writes nothing.
LEMMA SavingStep ==
  ASSUME TInv, SyncOwed, Saving, [Next]_vars PROVE Saving'
<1>0. "storage" \in Goroutines /\ "storage" \in Queues /\ "storage" \in Threads
  BY DEF Goroutines, Queues
<1>1. CASE StoreAgent /\ IsNews(cur["storage"])
  <2> DEFINE r == cur["storage"].of
  <2>1. r \in AgentSessions /\ CodeOf[r] \in Codes
    BY <1>1 DEF StoreAgent, IsNews, TInv, Traffic, HeldFit, Fits, Own, Queues, Sessions
  <2>2. /\ todo'["storage"] = LocalServerEmit(Sync(r)) /\ cur'["storage"] = None
        /\ agentRow'[CodeOf[r]] = r
    BY <1>0, <1>1, <2>1 DEF StoreAgent, Emit, Plan, Saved, Sync, TInv, SInv, RInv, RTypeOK,
       STypeOK
  <2>3. ASSUME NEW a \in AgentSessions,
               todo'["storage"] \in {<<ToAll("client", Sync(a)), ToQueue("cluster", Sync(a))>>,
                                    <<ToQueue("cluster", Sync(a))>>}
        PROVE  a = r
    <3>1. todo'["storage"] = <<ToAll("client", Sync(r)), ToQueue("cluster", Sync(r))>>
      BY <2>2, LocalPlan
    <3>2. ToAll("client", Sync(a)) = ToAll("client", Sync(r))
      BY <2>3, <3>1
    <3>3. Sync(a) = Sync(r)
      BY <3>2 DEF ToAll
    <3> QED BY <3>3, SyncFields
  <2> QED BY <2>2, <2>3 DEF Saving
<1>2. CASE ~(StoreAgent /\ IsNews(cur["storage"]))
  <2>1. \/ todo'["storage"] = todo["storage"]
        \/ todo["storage"] # <<>> /\ todo'["storage"] = Tail(todo["storage"])
    BY <1>0, <1>2, OwedStep DEF OwesOn, SessionTakesUp, ThreadTakesUp, Goroutines
  <2> SUFFICES ASSUME todo'["storage"] # <<>> PROVE Saving'
    BY DEF Saving
  <2>2. todo["storage"] # <<>> /\ cur["storage"] = None
    BY <2>1 DEF Saving
  <2>3. ~Take("storage") /\ ~StoreServer /\ ~StoreAgent
    BY <1>0, <2>2 DEF Take, StoreServer, StoreAgent, Idle
  <2>4. cur'["storage"] = None /\ agentRow' = agentRow
    BY <1>0, <2>2, <2>3, HandStays
  <2>5. PICK b \in AgentSessions :
          todo["storage"] \in {<<ToAll("client", Sync(b)), ToQueue("cluster", Sync(b))>>,
                               <<ToQueue("cluster", Sync(b))>>}
    BY <2>2 DEF SyncOwed
  <2>6. agentRow[CodeOf[b]] = b
    BY <2>2, <2>5 DEF Saving
  <2>7. ASSUME NEW a \in AgentSessions,
               todo'["storage"] \in {<<ToAll("client", Sync(a)), ToQueue("cluster", Sync(a))>>,
                                    <<ToQueue("cluster", Sync(a))>>}
        PROVE  a = b
    <3> DEFINE x(r) == ToAll("client", Sync(r))
               y(r) == ToQueue("cluster", Sync(r))
    <3>1. todo'["storage"] = <<x(b), y(b)>> \/ todo'["storage"] = <<y(b)>>
      <4>1. Tail(<<x(b), y(b)>>) = <<y(b)>> /\ Tail(<<y(b)>>) = <<>>
        BY Tails
      <4> HIDE DEF x, y
      <4> QED BY <2>1, <2>5, <4>1 DEF x, y
    <3>2. x(a) = x(b) \/ y(a) = y(b)
      BY <2>7, <3>1
    <3>3. Sync(a) = Sync(b)
      BY <3>2 DEF ToAll, ToQueue
    <3> QED BY <3>3, SyncFields
  <2> QED BY <2>4, <2>6, <2>7 DEF Saving
<1> QED BY <1>1, <1>2

\* Whatever sessions overlap and however messages overtake one another: as long as the
\* sync message about an agent is under way, the table has the record it is about, and
\* where one has arrived, with an admin client or with the cluster, the table has a row.
THEOREM AgentsSavedBeforeSynced == Safety => []SavedBeforeSynced
<1>1. Init => Saving
  BY DEF Init, RInit, Saving, Goroutines, Queues
<1>2. TInv /\ SyncInv /\ Saving /\ [Next]_vars => Saving'
  BY SavingStep DEF SyncInv
<1>3. ASSUME TInv, SyncInv, Saving PROVE SavedBeforeSynced
  <2>1. ASSUME NEW a \in AgentSessions, Announcing(a) PROVE agentRow[CodeOf[a]] = a
    <3>1. todo["storage"] # <<>>
      BY <2>1 DEF Announcing
    <3>2. PICK b \in AgentSessions :
            todo["storage"] \in {<<ToAll("client", Sync(b)), ToQueue("cluster", Sync(b))>>,
                                 <<ToQueue("cluster", Sync(b))>>}
      BY <1>3, <3>1 DEF SyncInv, SyncOwed
    <3>3. \A i \in DOMAIN todo["storage"] : todo["storage"][i].msg = Sync(b)
      BY <3>2 DEF ToAll, ToQueue
    <3>4. Sync(a) = Sync(b)
      BY <2>1, <3>3 DEF Announcing, Sync
    <3>5. a = b
      BY <3>4, SyncFields
    <3> QED BY <1>3, <3>1, <3>2, <3>5 DEF Saving
  <2> QED BY <1>3, <2>1, ToldFindsRow DEF SavedBeforeSynced
<1> QED BY <1>1, <1>2, <1>3, TrafficInvariant, SyncInvariant, PTL DEF Safety
=============================================================================
