------------------------------- MODULE Router -------------------------------
(***************************************************************************)
(* The message router of one jabberwocky server: cluster/router.go.        *)
(*                                                                         *)
(* The router owns three maps from a code to an unbuffered Go channel (one *)
(* map for agents, one for admin clients, one for peer servers), each map  *)
(* under its own sync.RWMutex, and four channels of capacity 1 that feed   *)
(* the processing loops and the gossip broadcaster.  Any goroutine may     *)
(* call it: the handler of a websocket session, a memberlist callback, a   *)
(* processing loop, main.  This module leaves the callers arbitrary, so    *)
(* what it promises holds whatever the rest of the server does; module     *)
(* Server supplies the real callers.                                       *)
(*                                                                         *)
(* An Emit is a fixed list of blocking sends.  A goroutine in the middle   *)
(* of one is represented by the sends it still owes (todo); a fan-out over *)
(* a map holds the map's read lock while it sends, so "left" names the     *)
(* channels the loop has not served yet.  Receiving from an unbuffered     *)
(* channel is the writer goroutine of a session: the rendezvous is one     *)
(* step (HandOff).  Go visits a map in no particular order, so the loop    *)
(* may serve the remaining channels in any order.                          *)
(***************************************************************************)
EXTENDS Naturals, Sequences

CONSTANTS
  AgentSessions,   \* websocket sessions opened on /ws/agent
  ClientSessions,  \* websocket sessions opened on /ws/admin
  PeerSessions,    \* periods of membership of other servers in the cluster
  Threads,         \* the goroutines that are not a session's own
  Codes,           \* agent ids, client ids and server ids
  CodeOf,          \* the code each session registers under
  Messages,        \* the transport.Message values in play
  Emitters,        \* the Emitter values in play
  None             \* absence: no channel, no code, no goroutine

Sessions   == AgentSessions \cup ClientSessions \cup PeerSessions
Goroutines == Sessions \cup Threads

ASSUME RouterAssumption ==
  /\ Sessions \cap Threads = {}
  /\ AgentSessions \cap ClientSessions = {}
  /\ (AgentSessions \cup ClientSessions) \cap PeerSessions = {}
  /\ \A s \in Sessions : CodeOf[s] \in Codes
  /\ None \notin Goroutines \cup Codes
  /\ Emitters \subseteq {"LOCAL_CLIENT", "LOCAL_AGENT", "LOCAL_SERVER",
                         "PEER_CLIENT", "PEER_AGENT", "PEER_SERVER"}

Kinds  == {"agent", "client", "peer"}                       \* the three maps
Queues == {"event", "processing", "storage", "cluster"}     \* the four channels
Capacity == 1                                               \* make(chan ..., 1)

Kind(s) == CASE s \in AgentSessions  -> "agent"
             [] s \in ClientSessions -> "client"
             [] OTHER                -> "peer"

VARIABLES
  outbound,   \* outbound[k][c]: the channel registered for c, or None; a
              \* channel is named by the session whose Register made it
  closed,     \* the channels that were closed
  readers,    \* readers[k]: the goroutines that hold k's read lock
  pending,    \* pending[k]: the goroutine inside k's Lock(), or None
  queue,      \* queue[q]: what the buffered channel q holds
  todo,       \* todo[g]: the sends g's Emit still owes, in order
  left,       \* left[g]: the channels g's current fan-out still owes
  chan,       \* chan[s]: the channel Register returned to s, or None
  writer      \* writer[s]: the goroutine that drains chan[s]

rvars == <<outbound, closed, readers, pending, queue, todo, left, chan, writer>>

-----------------------------------------------------------------------------
(* What a message passes through: the six handleXxxEmit functions.         *)

ToQueue(q, m)  == [to |-> q, only |-> None, msg |-> m]
ToAll(k, m)    == [to |-> k, only |-> None, msg |-> m]   \* broadcast, route
ToOne(k, c, m) == [to |-> k, only |-> c,    msg |-> m]   \* Send

LocalClientEmit(m) ==
  <<ToQueue("event", m), ToQueue("storage", m), ToAll("agent", m)>>

LocalAgentEmit(m) ==
  <<ToQueue("event", m), ToQueue("processing", m), ToQueue("storage", m),
    ToAll("peer", m), ToAll("client", m)>>

\* Variants: a sync message goes to the storage loop too; it does not go to the
\* admin clients.
LocalServerEmitToAll(m) ==
  <<ToAll("client", m), ToQueue("cluster", m), ToQueue("storage", m)>>
LocalServerEmitToPeers(m) == <<ToQueue("cluster", m)>>

LocalServerEmit(m) ==
  IF m.sub = "sync" THEN <<ToAll("client", m), ToQueue("cluster", m)>>
                    ELSE <<ToQueue("storage", m)>>

PeerClientEmit(m) == <<ToQueue("storage", m), ToAll("agent", m)>>

PeerAgentEmit(m) == <<ToAll("client", m)>>

PeerServerEmit(m) ==
  IF m.type = "server"
  THEN <<ToQueue("event", m), ToQueue("storage", m), ToAll("client", m),
         ToAll("agent", m)>>
  ELSE <<ToQueue("event", m), ToQueue("storage", m), ToAll("client", m)>>

Plan(e, m) == CASE e = "LOCAL_CLIENT" -> LocalClientEmit(m)
                [] e = "LOCAL_AGENT"  -> LocalAgentEmit(m)
                [] e = "LOCAL_SERVER" -> LocalServerEmit(m)
                [] e = "PEER_CLIENT"  -> PeerClientEmit(m)
                [] e = "PEER_AGENT"   -> PeerAgentEmit(m)
                [] e = "PEER_SERVER"  -> PeerServerEmit(m)

\* g is neither inside an Emit or a Send, nor inside Lock().
Idle(g) == todo[g] = <<>> /\ \A k \in Kinds : pending[k] # g

\* The send g is at.
Now(g) == Head(todo[g])

\* The channels a fan-out or a Send finds in the map it iterates over.
Targets(st) ==
  {outbound[st.to][c] : c \in {d \in Codes : /\ outbound[st.to][d] # None
                                            /\ st.only \in {None, d}}}

-----------------------------------------------------------------------------
(* Calls made by goroutines.                                               *)

\* Emit: the caller now owes every send of the handler for its emitter.
Emit(g, e, m) ==
  /\ Idle(g)
  /\ todo' = [todo EXCEPT ![g] = Plan(e, m)]
  /\ UNCHANGED <<outbound, closed, readers, pending, queue, left, chan, writer>>

\* Send: one message to the one channel of a code, if the code is registered.
\* Only agents and clients are sent to.
Send(g, k, c, m) ==
  /\ Idle(g)
  /\ k # "peer"
  /\ todo' = [todo EXCEPT ![g] = <<ToOne(k, c, m)>>]
  /\ UNCHANGED <<outbound, closed, readers, pending, queue, left, chan, writer>>

\* A send on a buffered channel blocks while the channel is full.
QueueSend(g) ==
  /\ todo[g] # <<>> /\ Now(g).to \in Queues
  /\ LET q == Now(g).to IN
       /\ Len(queue[q]) < Capacity
       /\ queue' = [queue EXCEPT ![q] = Append(@, Now(g).msg)]
  /\ todo' = [todo EXCEPT ![g] = Tail(@)]
  /\ UNCHANGED <<outbound, closed, readers, pending, left, chan, writer>>

\* RLock, which a goroutine inside Lock() holds back; over a map with nothing
\* to serve, RUnlock follows at once.
BeginFanout(g) ==
  /\ todo[g] # <<>> /\ Now(g).to \in Kinds
  /\ LET k == Now(g).to
         T == Targets(Now(g))
     IN /\ g \notin readers[k]
        /\ pending[k] = None
        /\ left' = [left EXCEPT ![g] = T]
        /\ readers' = [readers EXCEPT ![k] = IF T = {} THEN @ ELSE @ \cup {g}]
        /\ todo' = [todo EXCEPT ![g] = IF T = {} THEN Tail(@) ELSE @]
  /\ UNCHANGED <<outbound, closed, pending, queue, chan, writer>>

\* "channel <- msg" meets the receive of the writer goroutine of session s.
\* After the last one come RUnlock and the next send.
HandOff(g, s) ==
  /\ writer[s] = "running"
  /\ chan[s] \in left[g]
  /\ LET k    == Now(g).to
         last == left[g] = {chan[s]}
     IN /\ left' = [left EXCEPT ![g] = @ \ {chan[s]}]
        /\ readers' = [readers EXCEPT ![k] = IF last THEN @ \ {g} ELSE @]
        /\ todo' = [todo EXCEPT ![g] = IF last THEN Tail(@) ELSE @]
  /\ UNCHANGED <<outbound, closed, pending, queue, chan, writer>>

\* Lock(): announces the writer, so that no new reader gets in, and waits.
AwaitLock(s) ==
  /\ Idle(s)
  /\ pending[Kind(s)] = None
  /\ pending' = [pending EXCEPT ![Kind(s)] = s]
  /\ UNCHANGED <<outbound, closed, readers, queue, todo, left, chan, writer>>

\* A variant: the lock is had while goroutines still fan out over the map.
LockAtOnce(s) == pending[Kind(s)] = s

HasLock(s) == pending[Kind(s)] = s /\ readers[Kind(s)] = {}

\* The channel the registry has for the code of s.
Filed(s) == outbound[Kind(s)][CodeOf[s]]

\* A variant: a new channel replaces the one that is there.
AlwaysNew(s) == s

\* An existing channel is handed out again, else a new one is made.
HandedOut(s) == IF Filed(s) = None THEN s ELSE Filed(s)

\* RegisterAgent, RegisterClient, RegisterPeer.  The caller starts the goroutine
\* that drains the channel right away.
Register(s) ==
  /\ HasLock(s)
  /\ chan[s] = None
  /\ outbound' = [outbound EXCEPT ![Kind(s)][CodeOf[s]] = HandedOut(s)]
  /\ chan' = [chan EXCEPT ![s] = HandedOut(s)]
  /\ writer' = [writer EXCEPT ![s] = "running"]
  /\ pending' = [pending EXCEPT ![Kind(s)] = None]
  /\ UNCHANGED <<closed, readers, queue, todo, left>>

\* Variants: the nil channel of a code that is not there is closed as well;
\* nothing is closed; the code stays in the map.
ClosingAnything(s) == {Filed(s)}
ClosingNothing(s) == {}
Remembering(s) == outbound

\* What Unregister closes: the channel the code is filed with, whoever made it.
Closing(s) == {Filed(s)} \ {None}

\* The registry without the code of s.
Forgetting(s) == [outbound EXCEPT ![Kind(s)][CodeOf[s]] = None]

\* UnregisterAgent, UnregisterClient, UnregisterPeer.
Unregister(s) ==
  /\ HasLock(s)
  /\ chan[s] # None
  /\ closed' = closed \cup Closing(s)
  /\ outbound' = Forgetting(s)
  /\ pending' = [pending EXCEPT ![Kind(s)] = None]
  /\ UNCHANGED <<readers, queue, todo, left, chan, writer>>

\* A variant: the writer goroutine also returns when a write to its websocket
\* fails.
WriterGivesUp(s) ==
  /\ writer[s] = "running"
  /\ writer' = [writer EXCEPT ![s] = "exited"]
  /\ UNCHANGED <<outbound, closed, readers, pending, queue, todo, left, chan>>

\* The writer goroutine finds its channel closed, and returns.
WriterExit(s) ==
  /\ writer[s] = "running"
  /\ chan[s] \in closed
  /\ writer' = [writer EXCEPT ![s] = "exited"]
  /\ UNCHANGED <<outbound, closed, readers, pending, queue, todo, left, chan>>

\* The loop that ranges over a buffered channel takes its next message.
Receive(q) ==
  /\ queue[q] # <<>>
  /\ queue' = [queue EXCEPT ![q] = Tail(@)]
  /\ UNCHANGED <<outbound, closed, readers, pending, todo, left, chan, writer>>

-----------------------------------------------------------------------------
RInit ==
  /\ outbound = [k \in Kinds |-> [c \in Codes |-> None]]
  /\ closed   = {}
  /\ readers  = [k \in Kinds |-> {}]
  /\ pending  = [k \in Kinds |-> None]
  /\ queue    = [q \in Queues |-> <<>>]
  /\ todo     = [g \in Goroutines |-> <<>>]
  /\ left     = [g \in Goroutines |-> {}]
  /\ chan     = [s \in Sessions |-> None]
  /\ writer   = [s \in Sessions |-> "none"]

\* One step of the sends goroutine g owes.
SendStep(g) ==
  \/ QueueSend(g)
  \/ BeginFanout(g)
  \/ \E s \in Sessions : HandOff(g, s)

RNext ==
  \/ \E g \in Goroutines : SendStep(g)
  \/ \E s \in Sessions : AwaitLock(s) \/ Register(s) \/ Unregister(s)
  \/ \E s \in Sessions : WriterExit(s)
  \/ \E q \in Queues : Receive(q)
  \/ \E g \in Goroutines, e \in Emitters, m \in Messages : Emit(g, e, m)
  \/ \E g \in Goroutines, k \in Kinds, c \in Codes, m \in Messages :
       Send(g, k, c, m)

RSpec == RInit /\ [][RNext]_rvars

-----------------------------------------------------------------------------
(* What the router promises its callers.                                   *)

Stages == [to : Queues \cup Kinds, only : Codes \cup {None}, msg : Messages]

RTypeOK ==
  /\ outbound \in [Kinds -> [Codes -> Sessions \cup {None}]]
  /\ closed \subseteq Sessions
  /\ readers \in [Kinds -> SUBSET Goroutines]
  /\ pending \in [Kinds -> Sessions \cup {None}]
  /\ queue \in [Queues -> Seq(Messages)]
  /\ todo \in [Goroutines -> Seq(Stages)]
  /\ left \in [Goroutines -> SUBSET Sessions]
  /\ chan \in [Sessions -> Sessions \cup {None}]
  /\ writer \in [Sessions -> {"none", "running", "exited"}]

\* A channel the registry names is open, has the kind and the code it is filed
\* under, and the goroutine of the session that made it drains it.
RegistryCoherent ==
  \A k \in Kinds, c \in Codes :
    LET ch == outbound[k][c] IN
      ch # None => /\ ch \notin closed
                   /\ Kind(ch) = k /\ CodeOf[ch] = c
                   /\ chan[ch] = ch /\ writer[ch] = "running"

\* A goroutine holds a read lock only while it fans out over that map, and a
\* channel it still owes is filed in the map it holds.
FanoutCoherent ==
  \A g \in Goroutines :
    /\ \A k \in Kinds : g \in readers[k] =>
         todo[g] # <<>> /\ Now(g).to = k /\ left[g] # {}
    /\ left[g] # {} =>
         /\ todo[g] # <<>> /\ Now(g).to \in Kinds
         /\ g \in readers[Now(g).to]
         /\ \A ch \in left[g] :
              ch \in {outbound[Now(g).to][c] : c \in Codes} \ {None}

\* No goroutine is about to send on a closed channel (Go panics when one does),
\* although sessions close their channels while others fan out over the map:
\* Unregister closes under the write lock, a fan-out sends under the read lock.
NoSendOnClosed == \A g \in Goroutines : left[g] \cap closed = {}

\* A goroutine that holds a read lock and sends on an unbuffered channel is
\* always met: some writer goroutine still drains that channel.  A session that
\* is gone never leaves a broadcast hanging with the lock held.
FanoutServed ==
  \A g \in Goroutines : \A ch \in left[g] :
    \E s \in Sessions : chan[s] = ch /\ writer[s] = "running"

\* A channel that was handed out is open exactly as long as the registry names
\* it: none is orphaned, which would leave its writer goroutine waiting for
\* ever, and none is closed twice (Go panics), since Unregister closes only
\* what the registry names.
NoOrphanChannel ==
  \A s \in Sessions : chan[s] # None =>
    (chan[s] \notin closed <=> outbound[Kind(s)][CodeOf[s]] = chan[s])

\* A goroutine inside Lock() holds no read lock and owes no send, so the router
\* by itself has no cycle of goroutines that wait for each other's locks.
NoLockCycle ==
  \A k \in Kinds : pending[k] # None =>
    /\ todo[pending[k]] = <<>>
    /\ \A j \in Kinds : pending[k] \notin readers[j]

\* The buffered channels never hold more than they were made for.
QueuesBounded == \A q \in Queues : Len(queue[q]) <= Capacity

Board == INSTANCE Switchboard WITH
  line <- outbound, dead <- closed, owes <- left,
  Channels <- Sessions, Callers <- Goroutines, KindOf <- [s \in Sessions |-> Kind(s)]

\* Locks, queues and fan-outs that take many steps behave like a board on which
\* whom a call reaches is settled in one instant: exactly the channels filed when
\* it began, each once, none of which is closed and beside which none is filed
\* until the last one is served.
BoardContract == Board!BSpec

\* What makes the promises above inductive.
RInv ==
  /\ RTypeOK
  /\ QueuesBounded
  /\ RegistryCoherent
  /\ FanoutCoherent
  /\ NoOrphanChannel
  /\ NoLockCycle
  /\ \A s \in Sessions : chan[s] = None => writer[s] = "none" /\ s \notin closed
=============================================================================
