---------------------------- MODULE RouterProofs ----------------------------
(***************************************************************************)
(* Proofs about Router, for every set of sessions, goroutines, codes and   *)
(* messages: the invariant RInv, and what follows from it.                 *)
(***************************************************************************)
EXTENDS Router, TLAPS

USE RouterAssumption

\* The part of RInv that has no name of its own: a session that was handed no
\* channel has no writer goroutine, and made no channel that could be closed.
Untouched(s) == chan[s] = None => writer[s] = "none" /\ s \notin closed

\* A goroutine that may call Emit, Send or Lock holds no read lock.
LEMMA IdleHoldsNothing ==
  ASSUME RInv, NEW g \in Goroutines, todo[g] = <<>>
  PROVE  left[g] = {} /\ \A k \in Kinds : g \notin readers[k]
  BY DEF RInv, FanoutCoherent

\* The handlers of Emit are lists of well-formed sends.
LEMMA PlanType ==
  ASSUME NEW e \in Emitters, NEW m \in Messages
  PROVE  Plan(e, m) \in Seq(Stages)
<1> DEFINE Q(q) == ToQueue(q, m)
           A(k) == ToAll(k, m)
<1>1. \A q \in Queues : ToQueue(q, m) \in Stages
  BY DEF ToQueue, Stages
<1>2. \A k \in Kinds : ToAll(k, m) \in Stages
  BY DEF ToAll, Stages
<1>3. /\ ToQueue("event", m) \in Stages /\ ToQueue("processing", m) \in Stages
      /\ ToQueue("storage", m) \in Stages /\ ToQueue("cluster", m) \in Stages
      /\ ToAll("agent", m) \in Stages /\ ToAll("client", m) \in Stages
      /\ ToAll("peer", m) \in Stages
  BY <1>1, <1>2 DEF Queues, Kinds
<1>4. /\ LocalClientEmit(m) \in Seq(Stages) /\ LocalAgentEmit(m) \in Seq(Stages)
      /\ LocalServerEmit(m) \in Seq(Stages) /\ PeerClientEmit(m) \in Seq(Stages)
      /\ PeerAgentEmit(m) \in Seq(Stages) /\ PeerServerEmit(m) \in Seq(Stages)
  BY <1>3 DEF LocalClientEmit, LocalAgentEmit, LocalServerEmit, PeerClientEmit,
              PeerAgentEmit, PeerServerEmit
<1>5. e \in {"LOCAL_CLIENT", "LOCAL_AGENT", "LOCAL_SERVER",
             "PEER_CLIENT", "PEER_AGENT", "PEER_SERVER"}
  OBVIOUS
<1> QED BY <1>4, <1>5 DEF Plan

-----------------------------------------------------------------------------
\* Nothing is registered, closed, held or owed when the router is made.
LEMMA InitInvariant == RInit => RInv
<1> SUFFICES ASSUME RInit PROVE RInv
  OBVIOUS
<1> USE DEF RInit
<1>1. RTypeOK
  BY DEF RTypeOK, Queues
<1>2. QueuesBounded
  BY DEF QueuesBounded, Capacity
<1>3. RegistryCoherent /\ FanoutCoherent
  BY DEF RegistryCoherent, FanoutCoherent
<1>4. NoOrphanChannel /\ NoLockCycle
  BY DEF NoOrphanChannel, NoLockCycle
<1> QED BY <1>1, <1>2, <1>3, <1>4 DEF RInv

\* A goroutine that takes up new sends: Emit and Send have this in common.
LEMMA CallInvariant ==
  ASSUME RInv, NEW g \in Goroutines, Idle(g), NEW plan \in Seq(Stages),
         todo' = [todo EXCEPT ![g] = plan],
         UNCHANGED <<outbound, closed, readers, pending, queue, left, chan, writer>>
  PROVE  RInv'
<1>1. left[g] = {} /\ \A k \in Kinds : g \notin readers[k]
  BY IdleHoldsNothing DEF Idle
<1>2. RTypeOK'
  BY DEF RInv, RTypeOK
<1>3. QueuesBounded' /\ RegistryCoherent' /\ NoOrphanChannel'
  BY DEF RInv, QueuesBounded, RegistryCoherent, NoOrphanChannel
<1>4. FanoutCoherent'
  BY <1>1 DEF RInv, RTypeOK, FanoutCoherent, Now
<1>5. NoLockCycle'
  BY DEF RInv, RTypeOK, NoLockCycle, Idle
<1> QED BY <1>2, <1>3, <1>4, <1>5 DEF RInv

LEMMA QueueSendInvariant ==
  ASSUME RInv, NEW g \in Goroutines, QueueSend(g) PROVE RInv'
<1> USE DEF QueueSend
<1>1. /\ todo[g] \in Seq(Stages) /\ todo[g] # <<>> /\ Now(g) \in Stages
      /\ Tail(todo[g]) \in Seq(Stages)
  BY DEF RInv, RTypeOK, Now
<1>2. RTypeOK'
  <2>1. todo' \in [Goroutines -> Seq(Stages)]
    BY <1>1 DEF RInv, RTypeOK
  <2>2. queue' \in [Queues -> Seq(Messages)]
    BY <1>1 DEF RInv, RTypeOK, Stages
  <2> QED BY <2>1, <2>2 DEF RInv, RTypeOK
<1>3. QueuesBounded'
  BY <1>1 DEF RInv, RTypeOK, QueuesBounded, Capacity, Stages
<1>4. RegistryCoherent' /\ NoOrphanChannel'
  BY DEF RInv, RegistryCoherent, NoOrphanChannel
<1>5. Now(g).to \notin Kinds
  BY DEF Kinds, Queues
<1>6. left[g] = {} /\ \A k \in Kinds : g \notin readers[k]
  BY <1>5 DEF RInv, FanoutCoherent
<1>7. FanoutCoherent'
  BY <1>6 DEF RInv, RTypeOK, FanoutCoherent, Now
<1>8. NoLockCycle'
  BY <1>1 DEF RInv, RTypeOK, NoLockCycle
<1> QED BY <1>2, <1>3, <1>4, <1>7, <1>8 DEF RInv

LEMMA BeginFanoutInvariant ==
  ASSUME RInv, NEW g \in Goroutines, BeginFanout(g) PROVE RInv'
<1> DEFINE k == Now(g).to
           T == Targets(Now(g))
<1> USE DEF BeginFanout
<1>1. T \subseteq {outbound[k][c] : c \in Codes} \ {None}
  BY DEF Targets
<1>2. Tail(todo[g]) \in Seq(Stages)
  BY DEF RInv, RTypeOK
<1>3. left[g] = {} /\ \A j \in Kinds : g \notin readers[j]
  BY DEF RInv, FanoutCoherent
<1>4. RTypeOK'
  BY <1>1, <1>2 DEF RInv, RTypeOK
<1>5. QueuesBounded' /\ RegistryCoherent' /\ NoOrphanChannel'
  BY DEF RInv, QueuesBounded, RegistryCoherent, NoOrphanChannel
<1>6. FanoutCoherent'
  BY <1>1, <1>3 DEF RInv, RTypeOK, FanoutCoherent, Now
<1>7. NoLockCycle'
  BY DEF RInv, RTypeOK, NoLockCycle
<1> QED BY <1>4, <1>5, <1>6, <1>7 DEF RInv

LEMMA HandOffInvariant ==
  ASSUME RInv, NEW g \in Goroutines, NEW s \in Sessions, HandOff(g, s)
  PROVE  RInv'
<1> DEFINE k == Now(g).to
<1> USE DEF HandOff
<1>1. /\ todo[g] # <<>> /\ k \in Kinds /\ g \in readers[k]
      /\ Tail(todo[g]) \in Seq(Stages)
      /\ \A j \in Kinds : g \in readers[j] => j = k
  BY DEF RInv, RTypeOK, FanoutCoherent
<1>2. RTypeOK'
  BY <1>1 DEF RInv, RTypeOK
<1>3. QueuesBounded' /\ RegistryCoherent' /\ NoOrphanChannel'
  BY DEF RInv, QueuesBounded, RegistryCoherent, NoOrphanChannel
<1>4. FanoutCoherent'
  <2> SUFFICES ASSUME NEW h \in Goroutines
               PROVE  /\ \A j \in Kinds : h \in readers'[j] =>
                           /\ todo'[h] # <<>> /\ Head(todo'[h]).to = j
                           /\ left'[h] # {}
                      /\ left'[h] # {} =>
                           /\ todo'[h] # <<>> /\ Head(todo'[h]).to \in Kinds
                           /\ h \in readers'[Head(todo'[h]).to]
                           /\ \A ch \in left'[h] :
                                ch \in {outbound[Head(todo'[h]).to][c] : c \in Codes}
                                         \ {None}
    BY DEF FanoutCoherent, Now
  <2>1. CASE h # g
    BY <1>1, <2>1 DEF RInv, RTypeOK, FanoutCoherent, Now
  <2>2. CASE h = g /\ left[g] = {chan[s]}
    <3>1. left'[g] = {} /\ \A j \in Kinds : g \notin readers'[j]
      BY <1>1, <2>2 DEF RInv, RTypeOK
    <3> QED BY <2>2, <3>1
  <2>3. CASE h = g /\ left[g] # {chan[s]}
    <3>1. left'[g] = left[g] \ {chan[s]} /\ left'[g] # {}
      BY <2>3 DEF RInv, RTypeOK
    <3>2. todo'[g] = todo[g] /\ readers' = readers
      BY <1>1, <2>3 DEF RInv, RTypeOK
    <3> QED BY <1>1, <2>3, <3>1, <3>2 DEF RInv, FanoutCoherent, Now
  <2> QED BY <2>1, <2>2, <2>3
<1>5. NoLockCycle'
  BY <1>1 DEF RInv, RTypeOK, NoLockCycle
<1> QED BY <1>2, <1>3, <1>4, <1>5 DEF RInv

-----------------------------------------------------------------------------
LEMMA KindType == ASSUME NEW s \in Sessions PROVE Kind(s) \in Kinds
  BY DEF Kind, Kinds

LEMMA AwaitLockInvariant ==
  ASSUME RInv, NEW s \in Sessions, AwaitLock(s) PROVE RInv'
<1> USE DEF AwaitLock
<1>1. Kind(s) \in Kinds /\ s \in Goroutines
  BY KindType DEF Goroutines
<1>2. \A k \in Kinds : s \notin readers[k]
  BY <1>1, IdleHoldsNothing DEF Idle
<1>3. RTypeOK'
  BY <1>1 DEF RInv, RTypeOK
<1>4. QueuesBounded' /\ RegistryCoherent' /\ NoOrphanChannel' /\ FanoutCoherent'
  BY DEF RInv, QueuesBounded, RegistryCoherent, NoOrphanChannel, FanoutCoherent, Now
<1>5. NoLockCycle'
  BY <1>1, <1>2 DEF RInv, RTypeOK, NoLockCycle, Idle
<1> QED BY <1>3, <1>4, <1>5 DEF RInv

\* While a session holds the write lock, no fan-out is under way over its map.
LEMMA LockExcludesFanout ==
  ASSUME RInv, NEW s \in Sessions, HasLock(s), NEW g \in Goroutines, left[g] # {}
  PROVE  Now(g).to \in Kinds /\ Now(g).to # Kind(s)
  BY DEF RInv, FanoutCoherent, HasLock

LEMMA RegisterInvariant ==
  ASSUME RInv, NEW s \in Sessions, Register(s) PROVE RInv'
<1> DEFINE k == Kind(s)
           c == CodeOf[s]
           ch == IF outbound[k][c] = None THEN s ELSE outbound[k][c]
<1>1. /\ k \in Kinds /\ c \in Codes /\ s # None
      /\ outbound' = [outbound EXCEPT ![k][c] = ch]
      /\ chan' = [chan EXCEPT ![s] = ch]
      /\ writer' = [writer EXCEPT ![s] = "running"]
      /\ pending' = [pending EXCEPT ![k] = None]
      /\ UNCHANGED <<closed, readers, queue, todo, left>>
      /\ chan[s] = None /\ s \notin closed
  BY KindType DEF Register, HandedOut, Filed, RInv, Goroutines
<1>2. ch \in Sessions /\ ch # None /\ ch \notin closed
  BY <1>1 DEF RInv, RTypeOK, RegistryCoherent, Goroutines
<1> HIDE DEF ch
<1>3. RTypeOK'
  BY <1>1, <1>2 DEF RInv, RTypeOK
<1>4. RegistryCoherent'
  <2> SUFFICES ASSUME NEW j \in Kinds, NEW d \in Codes, outbound'[j][d] # None
               PROVE  /\ outbound'[j][d] \notin closed
                      /\ Kind(outbound'[j][d]) = j
                      /\ CodeOf[outbound'[j][d]] = d
                      /\ chan'[outbound'[j][d]] = outbound'[j][d]
                      /\ writer'[outbound'[j][d]] = "running"
    BY <1>1 DEF RegistryCoherent, Kind
  <2>1. CASE outbound[j][d] # None
    <3>1. outbound'[j][d] = outbound[j][d]
      BY <1>1, <2>1 DEF RInv, RTypeOK, ch
    <3>2. outbound[j][d] # s /\ outbound[j][d] \in Sessions
      BY <1>1, <2>1 DEF RInv, RTypeOK, RegistryCoherent
    <3> QED BY <1>1, <2>1, <3>1, <3>2 DEF RInv, RTypeOK, RegistryCoherent
  <2>2. CASE outbound[j][d] = None
    <3>1. j = k /\ d = c /\ outbound'[j][d] = s /\ ch = s
      BY <1>1, <2>2 DEF RInv, RTypeOK, ch
    <3> QED BY <1>1, <3>1 DEF RInv, RTypeOK
  <2> QED BY <2>1, <2>2
<1>5. FanoutCoherent'
  BY <1>1, LockExcludesFanout DEF Register, RInv, RTypeOK, FanoutCoherent, Now
<1>6. NoOrphanChannel'
  <2> SUFFICES ASSUME NEW t \in Sessions, chan'[t] # None
               PROVE  chan'[t] \notin closed
                        <=> outbound'[Kind(t)][CodeOf[t]] = chan'[t]
    BY <1>1 DEF NoOrphanChannel, Kind
  <2>0. Kind(t) \in Kinds /\ CodeOf[t] \in Codes
    BY KindType
  <2>1. CASE t = s
    BY <1>1, <1>2, <2>1 DEF RInv, RTypeOK
  <2>2. CASE t # s
    <3>1. chan'[t] = chan[t] /\ chan[t] # s
      BY <1>1, <2>0, <2>2 DEF RInv, RTypeOK, NoOrphanChannel, RegistryCoherent
    <3>2. outbound[Kind(t)][CodeOf[t]] # None =>
             outbound'[Kind(t)][CodeOf[t]] = outbound[Kind(t)][CodeOf[t]]
      BY <1>1, <2>0 DEF RInv, RTypeOK, ch
    <3>3. outbound[Kind(t)][CodeOf[t]] = None =>
             outbound'[Kind(t)][CodeOf[t]] \in {None, s}
      BY <1>1, <2>0 DEF RInv, RTypeOK, ch
    <3> QED BY <1>1, <3>1, <3>2, <3>3 DEF RInv, NoOrphanChannel
  <2> QED BY <2>1, <2>2
<1>7. NoLockCycle' /\ QueuesBounded'
  BY <1>1 DEF RInv, RTypeOK, NoLockCycle, QueuesBounded
<1>8. \A t \in Sessions : chan'[t] = None => writer'[t] = "none" /\ t \notin closed'
  BY <1>1, <1>2 DEF RInv, RTypeOK
<1> QED BY <1>3, <1>4, <1>5, <1>6, <1>7, <1>8 DEF RInv

LEMMA UnregisterInvariant ==
  ASSUME RInv, NEW s \in Sessions, Unregister(s) PROVE RInv'
<1> DEFINE k == Kind(s)
           c == CodeOf[s]
           ch == outbound[k][c]
<1>1. /\ k \in Kinds /\ c \in Codes
      /\ closed' = closed \cup ({ch} \ {None})
      /\ outbound' = [outbound EXCEPT ![k][c] = None]
      /\ pending' = [pending EXCEPT ![k] = None]
      /\ UNCHANGED <<readers, queue, todo, left, chan, writer>>
  BY KindType DEF Unregister, Closing, Forgetting, Filed
<1>2. ch # None => /\ ch \in Sessions /\ Kind(ch) = k /\ CodeOf[ch] = c
                   /\ chan[ch] = ch
  BY <1>1 DEF RInv, RTypeOK, RegistryCoherent
<1>3. outbound'[k][c] = None
  BY <1>1 DEF RInv, RTypeOK
<1>4. \A j \in Kinds, d \in Codes :
         j # k \/ d # c => outbound'[j][d] = outbound[j][d]
  BY <1>1 DEF RInv, RTypeOK
<1> HIDE DEF ch
<1>5. RTypeOK'
  BY <1>1, <1>2 DEF RInv, RTypeOK, Goroutines
<1>6. RegistryCoherent'
  <2> SUFFICES ASSUME NEW j \in Kinds, NEW d \in Codes, outbound'[j][d] # None
               PROVE  /\ outbound'[j][d] \notin closed'
                      /\ Kind(outbound'[j][d]) = j
                      /\ CodeOf[outbound'[j][d]] = d
                      /\ chan[outbound'[j][d]] = outbound'[j][d]
                      /\ writer[outbound'[j][d]] = "running"
    BY <1>1 DEF RegistryCoherent, Kind
  <2>1. (j # k \/ d # c) /\ outbound'[j][d] = outbound[j][d]
    BY <1>3, <1>4
  <2>2. outbound[j][d] # ch
    BY <1>2, <2>1 DEF RInv, RegistryCoherent
  <2> QED BY <1>1, <2>1, <2>2 DEF RInv, RegistryCoherent
<1>7. FanoutCoherent'
  BY <1>1, <1>4, LockExcludesFanout DEF Unregister, Forgetting, RInv, RTypeOK, FanoutCoherent, Now
<1>8. NoOrphanChannel'
  <2> SUFFICES ASSUME NEW t \in Sessions, chan[t] # None
               PROVE  chan[t] \notin closed'
                        <=> outbound'[Kind(t)][CodeOf[t]] = chan[t]
    BY <1>1 DEF NoOrphanChannel, Kind
  <2>0. Kind(t) \in Kinds /\ CodeOf[t] \in Codes
    BY KindType
  <2>1. chan[t] \notin closed <=> outbound[Kind(t)][CodeOf[t]] = chan[t]
    BY DEF RInv, NoOrphanChannel
  <2>2. CASE Kind(t) = k /\ CodeOf[t] = c
    BY <1>1, <1>3, <2>1, <2>2 DEF ch
  <2>3. CASE ~(Kind(t) = k /\ CodeOf[t] = c)
    <3>1. outbound'[Kind(t)][CodeOf[t]] = outbound[Kind(t)][CodeOf[t]]
      BY <1>4, <2>0, <2>3
    <3>2. outbound[Kind(t)][CodeOf[t]] = chan[t] => chan[t] # ch
      BY <1>2, <2>0, <2>3 DEF RInv, RegistryCoherent
    <3> QED BY <1>1, <2>1, <3>1, <3>2
  <2> QED BY <2>2, <2>3
<1>9. NoLockCycle' /\ QueuesBounded'
  BY <1>1 DEF RInv, RTypeOK, NoLockCycle, QueuesBounded
<1>10. \A t \in Sessions : chan'[t] = None => writer'[t] = "none" /\ t \notin closed'
  BY <1>1, <1>2 DEF RInv
<1> QED BY <1>5, <1>6, <1>7, <1>8, <1>9, <1>10 DEF RInv

LEMMA WriterExitInvariant ==
  ASSUME RInv, NEW s \in Sessions, WriterExit(s) PROVE RInv'
<1> USE DEF WriterExit
<1>1. RTypeOK'
  BY DEF RInv, RTypeOK
<1>2. QueuesBounded' /\ FanoutCoherent' /\ NoOrphanChannel' /\ NoLockCycle'
  BY DEF RInv, QueuesBounded, FanoutCoherent, NoOrphanChannel, NoLockCycle, Now
<1>3. RegistryCoherent'
  BY DEF RInv, RTypeOK, RegistryCoherent
<1>4. \A t \in Sessions : chan'[t] = None => writer'[t] = "none" /\ t \notin closed'
  BY DEF RInv, RTypeOK, Goroutines
<1> QED BY <1>1, <1>2, <1>3, <1>4 DEF RInv

LEMMA ReceiveInvariant ==
  ASSUME RInv, NEW q \in Queues, Receive(q) PROVE RInv'
<1> USE DEF Receive
<1>1. RTypeOK'
  BY DEF RInv, RTypeOK
<1>2. QueuesBounded'
  BY DEF RInv, RTypeOK, QueuesBounded, Capacity
<1>3. RegistryCoherent' /\ FanoutCoherent' /\ NoOrphanChannel' /\ NoLockCycle'
  BY DEF RInv, RegistryCoherent, FanoutCoherent, NoOrphanChannel, NoLockCycle, Now
<1> QED BY <1>1, <1>2, <1>3 DEF RInv

-----------------------------------------------------------------------------
\* Every step of every goroutine preserves the invariant.
LEMMA RouterStep == RInv /\ [RNext]_rvars => RInv'
<1> SUFFICES ASSUME RInv, [RNext]_rvars PROVE RInv'
  OBVIOUS
<1>1. ASSUME NEW g \in Goroutines, NEW e \in Emitters, NEW m \in Messages,
             Emit(g, e, m)
      PROVE  RInv'
  BY <1>1, PlanType, CallInvariant DEF Emit
<1>2. ASSUME NEW g \in Goroutines, NEW k \in Kinds, NEW c \in Codes,
             NEW m \in Messages, Send(g, k, c, m)
      PROVE  RInv'
  <2>1. <<ToOne(k, c, m)>> \in Seq(Stages)
    BY DEF ToOne, Stages
  <2> QED BY <1>2, <2>1, CallInvariant DEF Send
<1>3. ASSUME NEW g \in Goroutines, SendStep(g) PROVE RInv'
  BY <1>3, QueueSendInvariant, BeginFanoutInvariant, HandOffInvariant
     DEF SendStep
<1>4. ASSUME NEW s \in Sessions,
             AwaitLock(s) \/ Register(s) \/ Unregister(s) \/ WriterExit(s)
      PROVE  RInv'
  BY <1>4, AwaitLockInvariant, RegisterInvariant, UnregisterInvariant,
     WriterExitInvariant
<1>5. ASSUME NEW q \in Queues, Receive(q) PROVE RInv'
  BY <1>5, ReceiveInvariant
<1>6. CASE UNCHANGED rvars
  BY <1>6 DEF rvars, RInv, RTypeOK, QueuesBounded, RegistryCoherent,
              FanoutCoherent, NoOrphanChannel, NoLockCycle, Now
<1> QED BY <1>1, <1>2, <1>3, <1>4, <1>5, <1>6 DEF RNext

\* Whatever any goroutine does, the registry, the locks and the fan-outs of the
\* router stay coherent.
THEOREM RouterInvariant == RSpec => []RInv
  BY InitInvariant, RouterStep, PTL DEF RSpec

\* The state of the router keeps its type.
THEOREM RouterTypeCorrect == RSpec => []RTypeOK
<1>1. RInv => RTypeOK
  BY DEF RInv
<1> QED BY <1>1, RouterInvariant, PTL

\* A channel some fan-out still owes is filed in the registry, hence open.
LEMMA OwedIsRegistered ==
  ASSUME RInv, NEW g \in Goroutines, NEW ch \in left[g]
  PROVE  /\ ch \in Sessions /\ ch \notin closed
         /\ chan[ch] = ch /\ writer[ch] = "running"
<1>1. PICK c \in Codes : ch = outbound[Now(g).to][c] /\ ch # None
  BY DEF RInv, FanoutCoherent
<1>2. Now(g).to \in Kinds
  BY DEF RInv, FanoutCoherent
<1> QED BY <1>1, <1>2 DEF RInv, RTypeOK, RegistryCoherent

\* No goroutine ever sends on a closed channel.
THEOREM SendsOnOpenChannels == RSpec => []NoSendOnClosed
<1>1. RInv => NoSendOnClosed
  BY OwedIsRegistered DEF NoSendOnClosed
<1> QED BY <1>1, RouterInvariant, PTL

\* A fan-out never waits for a channel nobody drains any more.
THEOREM FanoutsAreServed == RSpec => []FanoutServed
<1>1. RInv => FanoutServed
  BY OwedIsRegistered DEF FanoutServed
<1> QED BY <1>1, RouterInvariant, PTL

\* A channel is open exactly as long as the registry names it.
THEOREM ChannelsNotOrphaned == RSpec => []NoOrphanChannel
<1>1. RInv => NoOrphanChannel
  BY DEF RInv
<1> QED BY <1>1, RouterInvariant, PTL

-----------------------------------------------------------------------------
\* The router implements the board: a fan-out is a call, a hand-off reaches a
\* channel, and only the holder of the write lock connects or disconnects.
LEMMA LockIsQuiet ==
  ASSUME RInv, NEW s \in Sessions, HasLock(s)
  PROVE  Board!Quiet(Kind(s))
<1> SUFFICES ASSUME NEW g \in Goroutines, NEW ch \in left[g]
             PROVE  ch \in Sessions /\ Kind(ch) # Kind(s)
  BY DEF Board!Quiet
<1>1. Now(g).to \in Kinds /\ Now(g).to # Kind(s)
  BY LockExcludesFanout
<1>2. PICK c \in Codes : ch = outbound[Now(g).to][c] /\ ch # None
  BY <1>1 DEF RInv, FanoutCoherent
<1> QED BY <1>1, <1>2 DEF RInv, RTypeOK, RegistryCoherent

LEMMA RegisterConnects ==
  ASSUME RInv, NEW s \in Sessions, Register(s)
  PROVE  Board!Connect(s) \/ UNCHANGED Board!bvars
<1> USE DEF Register, HandedOut, Filed
<1>1. Board!Quiet(Kind(s)) /\ Kind(s) \in Kinds /\ s \notin closed
  BY LockIsQuiet, KindType DEF RInv
<1>2. CASE outbound[Kind(s)][CodeOf[s]] = None
  BY <1>1, <1>2 DEF Board!Connect
<1>3. CASE outbound[Kind(s)][CodeOf[s]] # None
  <2>1. outbound' = outbound
    BY <1>1, <1>3 DEF RInv, RTypeOK
  <2> QED BY <2>1 DEF Board!bvars
<1> QED BY <1>2, <1>3

LEMMA UnregisterDisconnects ==
  ASSUME RInv, NEW s \in Sessions, Unregister(s)
  PROVE  Board!Disconnect(Kind(s), CodeOf[s]) \/ UNCHANGED Board!bvars
<1> USE DEF Unregister, Closing, Forgetting, Filed
<1>1. Board!Quiet(Kind(s)) /\ Kind(s) \in Kinds
  BY LockIsQuiet, KindType
<1>2. CASE outbound[Kind(s)][CodeOf[s]] # None
  BY <1>1, <1>2 DEF Board!Disconnect
<1>3. CASE outbound[Kind(s)][CodeOf[s]] = None
  <2>1. outbound' = outbound /\ closed' = closed
    BY <1>1, <1>3 DEF RInv, RTypeOK
  <2> QED BY <2>1 DEF Board!bvars
<1> QED BY <1>2, <1>3

LEMMA FanoutCalls ==
  ASSUME RInv, NEW g \in Goroutines, BeginFanout(g)
  PROVE  \E k \in Kinds : \/ Board!Call(g, k, Codes)
                          \/ \E c \in Codes : Board!Call(g, k, {c})
<1> DEFINE k == Now(g).to
           T == Targets(Now(g))
<1> USE DEF BeginFanout
<1>1. left[g] = {}
  BY DEF RInv, FanoutCoherent
<1>2. Now(g) \in Stages
  BY DEF RInv, RTypeOK, Now
<1>3. CASE Now(g).only = None
  <2>1. T = {outbound[k][c] : c \in Codes} \ {None}
    BY <1>3 DEF Targets
  <2> QED BY <1>1, <2>1 DEF Board!Call
<1>4. CASE Now(g).only \in Codes
  <2>1. Now(g).only # None
    BY <1>4
  <2>2. T = {outbound[k][c] : c \in {Now(g).only}} \ {None}
    BY <1>4, <2>1 DEF Targets
  <2> QED BY <1>1, <1>4, <2>2 DEF Board!Call
<1> QED BY <1>2, <1>3, <1>4 DEF Stages

LEMMA HandOffReaches ==
  ASSUME RInv, NEW g \in Goroutines, NEW s \in Sessions, HandOff(g, s)
  PROVE  \E ch \in Sessions : Board!Reach(g, ch)
  BY DEF HandOff, Board!Reach, RInv, RTypeOK

\* Each step of the router is one of the board or leaves it alone.
LEMMA BoardStep == RInv /\ [RNext]_rvars => [Board!BNext]_(Board!bvars)
<1> SUFFICES ASSUME RInv, [RNext]_rvars PROVE [Board!BNext]_(Board!bvars)
  OBVIOUS
<1>1. ASSUME NEW g \in Goroutines, SendStep(g)
      PROVE  [Board!BNext]_(Board!bvars)
  <2>1. CASE QueueSend(g)
    BY <2>1 DEF QueueSend, Board!bvars
  <2>2. CASE BeginFanout(g)
    BY <2>2, FanoutCalls DEF Board!BNext
  <2>3. CASE \E s \in Sessions : HandOff(g, s)
    BY <2>3, HandOffReaches DEF Board!BNext
  <2> QED BY <1>1, <2>1, <2>2, <2>3 DEF SendStep
<1>2. ASSUME NEW s \in Sessions, Register(s) PROVE [Board!BNext]_(Board!bvars)
  BY <1>2, RegisterConnects DEF Board!BNext
<1>3. ASSUME NEW s \in Sessions, Unregister(s) PROVE [Board!BNext]_(Board!bvars)
  BY <1>3, UnregisterDisconnects, KindType DEF Board!BNext
<1>4. ASSUME NEW s \in Sessions, AwaitLock(s) \/ WriterExit(s)
      PROVE  UNCHANGED Board!bvars
  BY <1>4 DEF AwaitLock, WriterExit, Board!bvars
<1>5. ASSUME NEW q \in Queues, Receive(q) PROVE UNCHANGED Board!bvars
  BY <1>5 DEF Receive, Board!bvars
<1>6. ASSUME NEW g \in Goroutines, NEW e, NEW m, Emit(g, e, m)
      PROVE  UNCHANGED Board!bvars
  BY <1>6 DEF Emit, Board!bvars
<1>7. ASSUME NEW g \in Goroutines, NEW k, NEW c, NEW m, Send(g, k, c, m)
      PROVE  UNCHANGED Board!bvars
  BY <1>7 DEF Send, Board!bvars
<1>8. CASE UNCHANGED rvars
  BY <1>8 DEF rvars, Board!bvars
<1> QED BY <1>1, <1>2, <1>3, <1>4, <1>5, <1>6, <1>7, <1>8 DEF RNext

\* The router, with its locks and its fan-outs of many steps, behaves like the
\* board, on which whom a call reaches is settled in one instant.
THEOREM RouterImplementsBoard == RSpec => BoardContract
<1>1. RInit => Board!BInit
  BY DEF RInit, Board!BInit
<1> QED BY <1>1, BoardStep, RouterInvariant, PTL
    DEF RSpec, BoardContract, Board!BSpec
=============================================================================
