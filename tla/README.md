# jabberwocky: a TLA+ model, its checks and its proofs

jabberwocky runs *agents* on machines, *servers* that hold a websocket to each
agent and to each *admin client*, and a gossip layer (hashicorp/memberlist)
between the servers.  This directory models the program's own concurrent core:
how messages move through one server, how servers find and follow one another,
how an agent picks a server, loses it and comes back, and how it runs a script.

Paths below are relative to the repository; `router.go:128` and the like name
`src/cluster/router.go` etc.

## 1. Inventory

| part | state | operations | called by / calls |
|---|---|---|---|
| **message router** (`cluster/router.go`) | three maps code -> unbuffered channel (agents, clients, peers), a RWMutex each; four channels of capacity 1 (event, processing, storage, cluster) | `RegisterX`, `UnregisterX`, `Emit` (six plans), `Send` | websocket handlers, memberlist callbacks, `NotifyMsg`, the processing loops |
| **server process** (`cmd/server.go`) | websocket sessions, a writer goroutine each; the agent record made when a websocket opens | startup; connect, message, disconnect of agents and clients | the router; storage |
| **processing loops** (`processing/handlers.go`) | the message in hand | `HandleEvent` (answers an agent that connects), `HandleStorage` (saves, then announces), `HandleOutput` | drain the router's queues; `HandleStorage` emits into the router, `HandleEvent` sends to an agent |
| **gossip delegate** (`cluster/gossip.go`) | memberlist, its broadcast queue, `nodeMap` (frames seen per server) | `NotifyJoin`, `NotifyLeave`, `NotifyMsg`, `LocalState`, `MergeRemoteState`, `GetBroadcasts`, broadcast loop | memberlist; the router; storage |
| **discovery** (`cluster/discover.go`) | the servers found and not yet joined | search while alone, `Join` | SSDP; memberlist |
| **storage** (`storage/`) | tables of agents, servers, scripts; properties `node_id`, `server_node` (sqlite) | single SQL statements | everything |
| **agent process** (`cmd/agent.go`, `payload/interface.go`) | a table of servers, the current server, one websocket, goroutines main / pump / reader / executor, four unbuffered channels | choose, dial, read, write, reconnect; `Execute`, `maybeReconnect` | a server |
| **script runtime** (`payload/script.go`) | a JS VM, a channel of callbacks, a `quit` channel, the tailed files, a listener goroutine each | `runScript`, `print`, `tail`, `quit`, the callback loop, cleanup | the agent's `output` channel; a file-tailing package |
| **rendezvous hashing** (`util/hash.go`) | a set of nodes | `AddNode`, `RemoveNode`, `Get` | the agent |
| **subset router** (`cluster/subset_router.go`) | a trie of tag bindings | `AddBind`, `Route`, `ListLocalBinding` | `AddClientBinding` |
| framing, superset router, command line, UI | - | - | not modelled, see section 9 |

What is hard here: blocking sends from many goroutines through queues of
capacity one, with read locks held while sending on unbuffered channels; a loop
that feeds the router it drains; sessions of the same agent that overlap;
memberlist callbacks that run under memberlist's lock; tables written by two
paths; a lock given up between a look-up, a check and a mark; servers that
crash, restart and take one another for failed; values read and used after they
changed; an agent whose four goroutines talk over unbuffered channels that
outlive an attempt; a script whose cleanup waits for goroutines that wait for
it.  `PROJECT.json` lists each hazard at its line with the property that would
catch it.

What makes each part correct: the router never sends on a closed channel, never
leaves a broadcast hanging, never orphans a channel, and every `Emit` returns;
a server saves an agent before the sync about it goes out, never echoes what it hears, emits a frame
once per map, tells agents, clients and cluster of what happens, and its tables
say what is the case; servers that run end up in one cluster; an agent ends up
on the server the hash assigns it and never stops trying; a script's lines reach
its callback in order, none lost, and the script comes to an end; the hash moves
agents only when it must; the subset router finds exactly the destinations whose
binding is included in the tags.

## 2. Modules

| module | models | theorems |
|---|---|---|
| `Switchboard` | what the router promises: a board of lines, abstractly | |
| `Router` | the router, with arbitrary callers | `RouterProofs` |
| `Delegate` | the table of seen frames, with arbitrary receivers and callbacks | `DelegateProofs` |
| `Server` (EXTENDS `Router`, `Delegate`) | one server process: startup, sessions, loops, memberlist delegate | `ServerProofs`, `ServerTableProofs` |
| `Cluster` | several servers: discovery, push/pull, crash, restart, mistaken failure | `ClusterProofs` |
| `Hrw` | `Get` as an operator, `Top` | |
| `Homes` (EXTENDS `Hrw`) | nodes that change while values look up their node | `AgentProofs` |
| `Agent` (EXTENDS `Hrw`) | one agent process | `AgentProofs` |
| `ScriptRuntime` | the run of one script | `ScriptProofs` |
| `SubsetRouter` | the subset router, its search one step per node | `SubsetRouterProofs` |
| `MCRouter`, `MCServer`, `MCCluster`, `MCHomes`, `MCAgent`, `MCScript` | instances for TLC | |

The modules form chains of implementation:

    Switchboard  <-  Router    <-  Server
                     Delegate  <-  Server

`Router` is the specification a caller may rely on: it lets any goroutine call
anything at any time.  `Server` supplies the real callers by conjoining the
router's actions with its own state, and `RouterContract == RSpec` states that
it implements `Router` (the refinement mapping is the identity on the router's
variables; steps of the server that leave the router alone stutter).
`Delegate` is used in the same way.  `Board` in `Router` instantiates
`Switchboard` WITH `line <- outbound`, `dead <- closed`, `owes <- left`, and
`BoardContract` states that the router implements it: locks, queues and fan-outs
of many steps behave like a board on which whom a call reaches is settled in one
instant.  `RouterContract` and `BoardContract` are checked by TLC and proved, and
carry the theorems of `Router` and `Delegate` over to the server.

`Cluster` stands beside `Server`: it has several servers and reduces each to its
rows for servers and its view of the cluster, so a callback's message is saved at
once; the delay between callback and row is what `Server` models.

### Router and Switchboard: state and actions

| model | code |
|---|---|
| `outbound[k][c]` | `agentOutbound`, `clientOutbound`, `peerOutbound`; a channel is named by the session whose `Register` made it |
| `closed` | channels `close`d |
| `readers[k]`, `pending[k]` | the RWMutex: who holds `RLock`, who is inside `Lock` (and so holds back new readers) |
| `queue[q]` | the channels of capacity 1 |
| `todo[g]`, `left[g]` | the sends goroutine g still owes in its `Emit` or `Send`; the channels the current fan-out has not served |
| `chan[s]`, `writer[s]` | the channel `Register` returned to s; the goroutine that drains it |
| `Emit`, `Send` | the call: from then on the goroutine owes the plan's sends |
| `QueueSend`, `BeginFanout`, `HandOff` | a send on a queue; `RLock`; a rendezvous with a writer goroutine (the last one also unlocks) |
| `AwaitLock`, `Register`, `Unregister` | `Lock()` called; lock had, body, unlock |
| `WriterExit`, `Receive` | a writer goroutine sees its channel closed; a loop receives |

`Switchboard` has a line per code and kind, `Connect`, `Disconnect` (for good),
`Call` (to one line or to all lines of a kind) and `Reach`; while a call is under
way nobody of that kind comes or goes.

### Delegate: state and actions

| model | code |
|---|---|
| `marks[m]` | the Go maps of frame ids, numbered in the order in which they were made |
| `nodeMap[n]` | the map that is filed for server n, or 0 |
| `at[g]`, `arg[g]`, `held[g]` | where a receiving goroutine is in `NotifyMsg`, its frame, the map it looked up |
| `given` | history: what was emitted, with the map it was looked up in |
| `LookUp`, `Install`, `Check`, `Mark` | the critical sections of `NotifyMsg` (gossip.go:129-145), the lock given up between them |
| `Renew`, `Forget` | the new map of `NotifyJoin` and `MergeRemoteState`; the deletion of `NotifyLeave` |

A goroutine keeps the map it looked up.  When a callback replaces that map
meanwhile, the frame is marked in a map nobody looks at again, and comes through
once more: what holds is *once per map* (`OncePerMap`), not once.
`Carrier` gives each frame the goroutine that handles it.  The code sends a frame
one way only: what goes through the broadcast queue (gossip.go:59) is carried by
packets, which memberlist handles in one goroutine, so its copies come one after
the other; what goes to each peer directly (router.go:278, gossip.go:203) is sent
once over a connection, which has a goroutine of its own.  Without that, two
goroutines could both find a frame unmarked in the same map.

### Server: state and actions

`pc[s]` is where a session, or a period of membership of a peer, is: `new`,
`register`, `hello`, `open`, (`body`,) `unregister`, `bye`, `done`.  `boot` is
how far `main` is.  `agentRow` and `serverRow` are the two tables, `cur[q]` the
message in the hands of the loop on q, `cast` and `relayed` what went to the
cluster by broadcast and directly, `heard` the copies of frames that arrived,
`gossip` and `merge` memberlist's own activity, `view` and `belief` what clients
and agents were told.  `Start .. Bye` are the halves of `HandleConnect`,
`HandleMessage`, `HandleDisconnect`, `NotifyJoin` and `NotifyLeave` between the
points where another goroutine can interfere; `AnswerConnect`, `StoreServer`,
`StoreAgent`, `QueueBroadcast` are the loops; `GossipTick`, `GossipDone`,
`PushPull`, `MergeRemoteState` and `NotifyMsg` (`Arrive`, `Recall`, `Relay`, on
`Delegate`'s actions) the delegate.  An agent's record never changes after the
websocket was accepted, so a record is the name of its session.

memberlist is external and modelled by what the code relies on and its version
(0.2.3) does: callbacks run under the node lock, one at a time; `NumMembers`
takes that lock; `GetBroadcasts` calls `NumNodes` under the queue's lock;
broadcasts arrive by UDP in one goroutine, direct messages by TCP in a goroutine
per connection (`Receivers`; the runs have one remote agent, hence one such frame
and one such goroutine).

`view` is what clients know from sync messages.  They are also handed the
`connect` record of an agent, and the frames of agents, as the router gets them
(router.go:280); those are sends like the others, with their locks and their
waiting, but they change neither `view` nor the properties about it.  `Frame`
lets clients and agents send the types their own programs send.

### Cluster: state and actions

`up` are the servers that run, `members[s]` whom memberlist lists at s, `row[s][t]`
the status of t in s's table, which survives a crash.  `joinList[s]` is what a
search found, `merging` the states push/pull brought that `MergeRemoteState` has
yet to save, `late` a history: the states merged when their server had left.
`Start` marks every row unknown and saves its own (server.go:70 on), `Crash`
loses everything but the rows, `Detect` and `Mistake` call `NotifyLeave` for a
server that failed or only seemed to, `Search` runs while the server is alone
(discover.go:47), `Join` and `PushPull` exchange members (`NotifyJoin`) and queue
both servers' states, `Merge` saves one.  What a server learns in an exchange
(`Learned`) may include a member that crashed and that the other has not missed
yet, unless it has found that out itself (`Buried`).

### Agent: state and actions

`main` goes `retry` (FindLive) -> `unknown` (FindUnknown) -> `any` (FindAny) ->
`mark` (MarkUnknown) -> `dial` (Connect, DialFails) -> `up` (TakeError) -> `closing`
(Closed) -> `retry`, leaving the search where it finds a server; each reading of the
table is a step of its own, for the executor may write between them.  The code reads
all three lists before it looks at the first; when an earlier one is not empty, the
later ones are not used.  `pump` and `reader` are the goroutines of the current
attempt; `latePump` and `late` are what remains of those of earlier attempts (a pump
not yet at its select; messages a reader still hands over).  `exec` is the executor:
`saving`, `reading`, `comparing`, `asking`.  `row` is the agent's table, `current`
the property `server_node`.  `GiveUp` is the backoff that stops; `Write` sets the
`err` that the reader is about to report; `LateTake` is a pump that takes a request
meant for the next attempt (history: `lost`).

An entry of the table is not a server: `ServerAt` says whom one dials at an entry's
address.  `Seeds` are the entries `ServerFromString` makes.  Without a fragment in
the URL the entry has the empty id, which is an id of its own to the table and the
hash, whatever server answers there; the entry of a URL with an explicit port
leads nowhere (section 4), and `ServerAt` is `None`.

The servers are modelled from the outside, by what their code may send.  `cluster`
are those that are there, `cut` those this agent cannot reach.  What happens
(`ServerJoins`, `ServerLeaves`, and `Mistake`: the agent's server takes another for
failed, says so, and finds out) is in `spreading` until every server's table has it:
the row waits in the storage queue while the agents are already told
(router.go:312-318), or the callback has yet to run.  `ghosts` are servers that are
gone and that some tables list for good (gossip.go:185).  On a connection the server
sends (`Greet`) the list its table gives when it is read, which is behind on any of
`spreading` and may have any of the ghosts, and announces (`Announce`) what is
`untold`, before or after the list.  That the list is sent some time after it was
read is no step of its own: a list that was read before a change is one that is
behind on it.  What was announced before the agent was registered it is not told;
if the list lacks it too, it has `missed` it.  `Heard` collapses a change that is
undone before it is announced into the last state.

### ScriptRuntime: state and actions

`pc` is where `runScript` is: in the `script` or in a `callback` (or waiting in
`print`), at its `select`, in `cleanup` (stopping `tails[position]`, or in the
`wait` for its reader), `returned` or `died`.  `flags` are `stopped`, `cancelled` and
`failed`; `closed` counts the closings of `quit`.  `reader[t]` is the goroutine of
the tail package (external), `listener[t]` the goroutine of `tail` that offers
each line as a callback; `read`, `line` and `called` number the lines read, passed
to the listener and called back.  One action per operation: `PrintLine`,
`OutputRead`, `AddTail`, `Quit`, `Return`, `Throw`; `SeesQuit`, `SeesDone`,
`Callback` are the cases of the select; `Stop`, `Stopped`, `Finish` the cleanup.

### Hrw, Homes, SubsetRouter

`Top(S, v)` is the set of nodes `Get` may return: sort.Slice is unstable and Go
map order arbitrary, so any maximum.  `HashInjective` rules ties out, as the
32-bit hash nearly does.  `Homes` runs lookups against a set that changes.
`SubsetRouter` names a trie node by its path and takes one step per turn of
`Route`'s loop.

## 3. Runs

Passing runs.  Deadlock is not checked where sessions, frames, events or a
script are bounded and the system rightly stops when they are used up; it is in
`MCCluster`, `Homes` and `SubsetRouter`.

| run | question | instance and bounds |
|---|---|---|
| `MCRouter` | do the router's promises hold whatever its callers do, and does it implement the board? | two sessions of one agent, one client, all under one code, emitting as `PEER_SERVER` (two queues, two fan-outs) |
| `ServerLive` | does every `Emit` return, is an agent answered, do cluster and clients hear of it, do writer goroutines return? | an agent that ends, a client |
| `ServerReconnect` | do overlapping sessions of one agent leave table and clients agreed? does a sync go out only after the row it speaks of, and before that row is overwritten? | two sessions of one code (symmetric), a client |
| `ServerMembers` | is a member alive in the table, is nothing echoed, does each session keep its channel, is a frame emitted once per map? | a peer that leaves and returns (`p1`, `p2`), a push/pull in its first period, a remote agent heard by UDP and TCP, two arrivals |
| `ServerCluster` | does the server implement the router? | an agent that sends a frame, a peer, gossip ticks |
| `MCCluster` | do tables list the members and nobody else, do servers find one another? | three servers, two troubles: two mistaken failures between `s1` and `s2`, either way or both, or one and the crash of `s1` or `s3`; two states to be merged at a time |
| `Homes` | are moves minimal, do lookups agree? | three nodes, two values that rank them oppositely |
| `MCAgent` | does the agent end up where the hash says, does it get past servers it cannot reach, is the executor ever stuck, is `Get` ever asked about an empty set (where it panics)? | two servers, the first perhaps absent, a ghost, just joined, or out of reach; a table that is empty or lists both; a seed that leads to the other, whose entry ranks first; one event among a change of the cluster, a mistake, a broken connection and a printed message; all races admitted |
| `MCScript` | do lines reach the callback in order, is each heard, does the script come to an end? | two files of two lines, one print |
| `SubsetRouter` | does the search find exactly the subsets? | three keys, two destinations (local, remote), two bindings |

Runs that find a violation, a disagreement between the code and what the
repository says of it (quoted in `PROJECT.json` under `findings`):

| run | what happens |
|---|---|
| `ServerEarlyDial` | an agent that connects while main still starts the cluster fills the queues; main blocks in the announcement of its own join and never starts the loops |
| `ServerSharedChannel` | the end of an old session closes the channel of the new session of the same agent |

### Bounds and why they are enough

The bounds are constants and guards:

* `Server`: `MaxFrames`, `Ending`, `Exchanges`, `MaxArrivals`, `EarlyDial`.  Two
  sessions of one code are the smallest overlap; with queues of capacity 1, two
  agents that connect together already fill every queue; one departure and return
  of a peer covers each order of its callbacks with push/pull and with a frame
  between its look-up and its mark; two arrivals are a broadcast and its copy, or
  a broadcast and a direct frame.
* `Cluster`: `MaxCrashes`, `MaxMistakes`, `MaxTroubles` (both together), `Mistakable`,
  `Crashable`, `MaxMerging`.  Two mistakes let `s1` and `s2` take each other for
  failed, which leaves each alone, or with `s3`, until one of them searches; one
  crash and one mistake in either order cover a server that returns to peers that
  took it for failed.  That it is `s1` and `s2`, and that `s2` does not crash, costs no
  generality: the servers start in any order, and a crash of `s2` is one of `s1` with
  the names exchanged.  An exchange brings two states, so two at a time is one
  exchange under way, overtaken by crashes, mistakes and searches.
* `Agent`: `MaxNews`, `MaxDrops`, `MaxPrints`, and `MaxEvents` for all of them, where a
  server that has just joined when the agent starts counts as one; `MaxLate`.  An agent
  changes connections by itself, from the seed or an old table to the server it is told of,
  from one that fails to the next, so one event is enough to have it happen
  between two connections, during one, or before a list that is behind on it; each
  exception of `Settles` is needed already then.  `MaxLate` lets a reader go on only
  when the executor has taken what readers of earlier attempts held.
* `ScriptRuntime`: `MaxLines`, `MaxPrints`.  Two lines make one overtake the
  other, or be held by the reader while the listener offers the first; two files
  make them compete for the loop.
* `SubsetRouter`: `MaxBinds`.

`EarlyDial` separates a known fault (section 4) from the properties that hold
without it: `TellsAgents` holds with it off.  `ServerLive` has no peer, because
with one the circular wait of section 4 stops the server.

### Fairness

`Server`'s `Spec` is weakly fair for every goroutine's next step: main, each
session's handler and writer goroutine, each pending `Emit`, each loop, each
receiver of frames, the merge of a push/pull, the end of a gossip tick.  The Go
scheduler runs every runnable goroutine, a blocked sender or receiver of a
channel is queued in order, and a waiting `Lock` holds back new readers, so a
step that stays possible is taken.  Nothing forces a websocket to open, speak or
end, a peer to join or leave, or a gossip tick, except that the server ends a
session whose writer goroutine closed it.

`ASpec` is fair for main, reader, executor, a leftover pump, what the server sends on a
connection and what reaches the tables of servers, and not for scripts, changes of
the cluster, broken connections and the end of the backoff.

`Cluster` is fair for the search timer, memberlist's failure detector, merges,
joins and the exchanges by which a server learns of another.  Joins and exchanges
are strongly fair because they wait while the bound on states to be merged is met,
which the code has not got, and because a member that is picked at random is
picked sooner or later.  Nothing makes a server start, crash or be mistaken.

`ScriptRuntime` is fair for the goroutines, the end of the script's own code (a
script that loops for ever is not the runtime's fault) and, until the script is
cancelled, the agent that reads its output: the same cancellation ends the pump
(agent.go:179), so after it the output may be read or not.  It is strongly fair for the cases of the select, which chooses
at random among those that are ready, and for the offers of a listener, which
queue at the channel.

## 4. Faults the models reach

Besides the two runs above, writing the models from the code turned up these
behaviours.  The modules admit each of them; no run is kept for them.

* *A circular wait* (gossip.go:53).  A membership callback holds memberlist's
  node lock and waits for room in the storage queue; the storage loop waits for
  room in the cluster queue; the broadcast loop waits for the broadcast queue's
  lock; the gossip tick holds that lock and, in `NumNodes`, waits for the node
  lock.  Reached with one agent that sends three frames and one peer that leaves.
* *A broadcast queue that is not there* (gossip.go:52).  `broadcasts` is assigned
  after `memberlist.Create` returned, and a gossip tick in between finds nil.
* *A stale list* (handlers.go:28).  The list of live servers is read before a
  server left and sent after the news of it, so the agent believes it alive, until
  it has tried it.  `Settles` holds nevertheless.
* *News nobody tells an agent* (router.go:312-318).  A join is broadcast to the agents
  that are registered, while the row waits in the storage queue.  An agent that
  registers in between is sent a list without it, and stays where it is until some
  other news.  `Settles` excepts it (`missed`).
* *Told before saved* (router.go:276-280).  The `connect` frame of an agent goes to
  peers and clients while the record waits in the storage queue.  `SavedBeforeSynced`
  is therefore about the sync message that follows the save.
* *Sync frames of other servers* (handlers.go:63, router.go:304).  They change the
  table, and clients are told in an order of its own, so a client may be left with
  another record than the table has.
* *Tables of agents that differ for good* (gossip.go:68).  The broadcast queue sends
  first what it sent least, so a connect and a disconnect may arrive in either
  order, and nothing in a record says which is newer (TODO.txt:21 asks for it).
  Nor does push/pull help: `LocalState` carries no agents (gossip.go:164), so a
  server that starts or comes back learns nothing of agents that connected before.
* *Broadcasts that do not reach everybody* (gossip.go:56).  A broadcast is sent
  about 3*ceil(log10(n+1)) times and nobody who hears it sends it on.
* *Ghosts* (gossip.go:185).  `MergeRemoteState` runs after memberlist merged its own
  state; when `NotifyLeave` came in between, the server that left is saved alive
  and stays so.  `NoGhosts` admits exactly this (`late`).
* *Two halves that never meet* (discover.go:47).  A server searches only while it
  is alone.  With four servers, two pairs that took each other for failed never
  search again.  With three, which is what `OneCluster` is checked for, one half
  is always alone, and the run has both splits of a mutual mistake: two servers
  that are each alone, and one alone with the other two together.
* *A gone agent stays connected* (server.go:196).  The record sent on
  disconnect still has the status `connected`, and is saved as it is.
* *Frames of clients* (router.go:261) never leave the server, although
  router.go:459 says they should be broadcast to peer servers.
* *Flapping* (payload/interface.go:105).  When the best server for an agent cannot be
  dialed, because the agent cannot reach it or because it is a ghost, but is alive
  in the tables of the others, the next best tells the agent so on every
  connection: it drops the connection, fails to dial the best, connects to the next
  best, for ever.  `Settles` therefore excepts an agent whose first server, among the
  cluster and the ghosts, cannot be dialed; `KeepsConnecting` does not.
* *The last resort undoes news* (agent.go:131).  An attempt that found no server alive
  or unknown marks all as unknown, also one that the executor saved as alive since.
  When that happens on every attempt the agent changes connections for ever.
  `Settles` excepts it (`Overwritten`).
* *A seed with a port* (storage/interface.go:173, storage/common.go:28).  The host
  keeps the port of the URL and `Url` appends it again, so a seed whose port is not
  443 cannot be dialed.  (`ServerAt` may be `None`.)
* *A seed without an id* (storage/interface.go:175).  Without a fragment its id is
  empty; all such seeds are one entry, of which the hash keeps the last.
* *No server to start from* (agent.go:154).  An agent with an empty table and no seed
  that parses asks `Get` about an empty set, and panics.  `AgentAssumption` excludes it.
* *Seeds that are forgotten* (agent.go:135).  Once the table has a server, even a
  seed that could not be reached, the seeds are never looked at again.  `CutOff`
  says when this leaves the agent alone for good.
* *A request taken by an old pump* (agent.go:179).  When an attempt ends, its pump
  may find both `ctx.Done` and `output` ready, take the request to reconnect that
  is meant for the next attempt, and block for good.  `Settles` excepts it (`lost`).
* *A shared `err`* (agent.go:201, 213).  A write that succeeds between the reader's
  failed read and its report makes it report nil; the process exits.
* *The backoff expires* (agent.go:94): 15 minutes from the start of the
  process, whatever was connected in between; the next disconnection is fatal.
* *A cleanup that hangs* (payload/script.go:117).  `Stop` waits for the reader of
  the file; the reader holds a line for the listener; the listener offers the line
  before it to a loop that has ended.  The same happens in the deferred cleanup of a
  script that throws, so that the panic never surfaces.  `Stops` excepts exactly
  this state (`Jammed`).
* *Output nobody reads* (payload/script.go:74).  The agent's pump ends with the context
  whose end also cancels the script (agent.go:180), and `print` does not look at that
  context, so a script that prints then waits for good.  `Stops` excepts it
  (`Muted`).

## 5. Properties

*Router*: `NoSendOnClosed`, `FanoutServed`, `NoOrphanChannel`, `BoardContract`,
with the type invariant and `RInv`.  *Delegate, in the server*: `OncePerMap`,
`DInv`.  *Server safety*: `OwnChannel`, `SavedBeforeSynced`, `NoEcho`,
`SyncConsistency`, `MemberRowAlive`, `RouterContract`.  *Server liveness*:
`EmitsReturn`, `TellsAgents`, `ClientsHear`, `ClusterHears`, `WritersReturn`.
*Cluster*: `MembersListed`, `NoGhosts`, `OneCluster`.  *Agent*: `GetIsAnswered`,
`Settles`, `KeepsConnecting`, `RequestsTaken`.  *Script*: `LinesInOrder`, `LinesHeard`,
`Stops`.  *Hashing*: `LookupsAgree`, `MovesOnlyWhenNeeded`.  *Subset router*:
`RoutesToSubsets`, `ListsLocalBindings`.  Every one has a mutant: a plausible bug
in a definition that models the code, defined beside it as a "variant", that
makes TLC find the property violated.

## 6. Proofs

`tlapm` checks every leaf of the eight proof modules.

*Router.*  `RInv` is inductive.  `NoSendOnClosed` alone is not: a fan-out must
be known to hold its map's read lock and to owe only channels that are filed in
that map (`FanoutCoherent`), the registry to name only open channels that their
maker drains (`RegistryCoherent`), and a goroutine inside `Lock` to be idle
(`NoLockCycle`).  There is one lemma per action; the step everything hangs on is
`LockExcludesFanout`: whoever has the write lock excludes every fan-out over
that map, so `Unregister` never closes a channel that somebody owes.
`SendsOnOpenChannels`, `FanoutsAreServed` and `ChannelsNotOrphaned` follow.  The
only assumption is `RouterAssumption`: kinds of sessions are disjoint, codes are
codes, emitters are the six of the code.

`RouterImplementsBoard` proves the refinement: `BeginFanout` is the board's
`Call`, `HandOff` its `Reach`, `Register` and `Unregister` its `Connect` and
`Disconnect`, and all else stutters.  That the board is quiet when a session comes
or goes is again `LockExcludesFanout`.

*Delegate.*  `DInv`: a receiver past its look-up handles a frame of its own in a
map that exists; what was emitted is marked in its map; a frame about to be marked
is not.  The last holds because only one goroutine handles copies of a frame, so
nobody marks it in the window between `Check` and `Mark`.  `FramesOncePerMap`
follows.

*Server.*  `ServerImplementsRouter` and `ServerImplementsDelegate`: each action of
the server is an action of the router and of the delegate or a stutter.  The first needs a
small invariant, that what a loop holds or a queue contains is a message of the
server, so that what the server emits is in `Messages`.  `ServerChannelsSafe` and
`ServerFramesOncePerMap` then instantiate the theorems of the two: no send on a
closed channel in any server with any number of sessions and peers.

*The server's traffic.*  `NoEcho` speaks of what has arrived, and holds because of
what is under way.  `Fits` says what that may be: a sync
message about an agent of this server only once its row is there, and nothing
about a stranger to the cluster.  `TInv` says that whatever a goroutine owes, a
queue contains, a loop holds, or was delivered, fits its destination.  It is
inductive because rows are never erased (`FitsStay`), because of the plans of
`Emit` (`PlanFits`), and because a message reaches only sessions of the kind it is
owed to (`HandOffKind`, from `RInv`).  `NothingIsEchoed` and `ServerTypeCorrect`
follow, and that what is told of an agent finds a row (`ToldFindsRow`).  That the
row is still the very one the sync speaks of while the sync is under way, although
another session of the agent may be saved any time, is `AgentsSavedBeforeSynced`
(in `ServerTableProofs`): only the storage loop writes the table and only it
owes syncs of this server's agents, so it writes none while it hands one on.

*Lives of sessions.*  `Life` (in `ServerTableProofs`): a session on its way in or
out owes no send (`Quiet`); memberlist joins a peer again only when it is done
with its leave (`OnePeer`); the registry names a channel only while the session
that made it is there (`MakersPresent`).  A session that overlaps no other of its
kind and code (`LivesAlone`) therefore drains the channel the router has for that
code: `ReachedWhenAlone`.  The hypothesis is needed: without it this is what
`ServerSharedChannel` refutes.  It holds of every peer and of every admin client,
whose ids are made when the websocket opens, so `PeersAndClientsReached` has no
hypothesis; and `OwnChannelWhenAlone` is the property `OwnChannel` for a server
whose agents' sessions do not overlap.

*The table of servers.*  `MemberRowAlive` speaks of the moment when nothing is on
its way, so its invariant says what is.  `ServerNews`: a message of type `server`
that a goroutine owes is its own session's join or leave, or main's news of this
server, and a session that is `open` owes no leave.  `AliveToCome`: for each peer that is `open` and has handed
its join over, the last word about its node, be it in the storage queue, in the
loop's hands, or in the table if neither is about it, is `alive`.  One case per way
that word can change: a goroutine puts a message on the queue, the loop takes it,
the loop writes it (`StoresOne`, `TakesOne`, `StatusStep`).  `OnePeer` excludes an
older leave that comes after the join.  `MembersListedAlive` follows.

*What admin clients are told.*  `SyncInv`, again about what is on its way: sync
messages are owed only by the storage loop, about this server's agents, after
their row is written, and by the goroutine that handles packets, about those of
others, which it puts on the storage queue before it tells clients (`SyncOwed`,
`SyncStored`); what clients are being told is what the table will have
(`TellsComing`); and a client that is there knows that, or was told nothing, or
is among those the current fan-out has yet to serve (`ClientsFresh`).  It needs
`PeersAndClientsReached`: what the router hands over for a client's code reaches
that client.  All of it is about an agent whose sessions are all at this
server or all at others (`OneSided`): for one that moves, the two tellers race
and the claim is false (section 4, *Sync frames of other servers*).
`ClientsAgreeWithTable` states it for each such agent; `SyncConsistency` follows
when no agent moves (`ClientsAgreeWhenNoneMoves`), which is what the runs that
check it instantiate.

*Cluster.*  `CInv`: what is to be merged is the row of a server for itself, and
that is always `alive`, since `Start` saves it last; a server is its own member
exactly while it runs.  `MembersAreListed` and `OthersAreNotListed` follow for any
number of servers, crashes and mistakes.

*Script.*  `ScriptInv`: the flag tells whether `quit` is closed, `Stop` waits for a
tail, a file has a listener when it has a reader.  `ScriptTypeCorrect` (in
particular: `quit` is closed at most once) and `LinesStayInOrder` follow for any
number of files and lines.

*Hashing.*  `Get` on a finite set that is not empty returns one node
(`GetReturnsOne`).  That some node is at the top is proved by a smallest
counterexample: the strict subsets of a finite set are well founded
(`TopExists`).  `HomesInvariant`: what a value was given is the top of what it
saw; from it follow `MinimalDisruption` and `AgreementOnHomes`.

*Agent.*  `AInv`: types; whatever the messages on their way name (on the wire, in a
reader's hands, left over from an earlier attempt, being saved) are servers, and
each names one (`OnTheWay`); a server that is connected is in the cluster and is not
behind on itself, so that its list is not empty, however late (`Served`); there are
seeds or the table has an entry, and it has one once the executor has saved a
message (`Answerable`).  This is what `Get` needs: `AgentGetsAnswers` states that
neither an attempt nor the executor asks about no servers, where `Get` would panic,
for any finite table, and any lists, news, mistakes, failures and delays.

*Subset router.*  `TrieInv` has two parts.  The trie: the paths are closed under
beginnings, and each node keeps, as often as it was bound, the destinations of
just the bindings whose sorted tags spell its path (`AddBindKeepsTrie`).  The
search: what was found is what the nodes keep that fit the routed tags and are
not yet to be visited, and each node still to be visited lies below exactly one item of the
search space, so none is missed and none counted twice (`VisitIsSound`).  Since
the sorted tags of a binding fit exactly when they are included
(`FitsIncluded`), `SubsetsAreFound` follows.  Sorting itself is `LinearizeSorts`:
a finite set of numbers has one ascending enumeration.

Assumptions on constants, and why the code justifies them:

| assumption | says | because |
|---|---|---|
| `RouterAssumption` | kinds of sessions are disjoint, codes are codes, emitters are the six | three maps, six cases |
| `DelegateAssumption` | each frame has one carrier | a frame is sent one way only: by packets, handled in one goroutine, or once over a connection |
| `ServerAssumption` | admin clients have ids of their own; no peer has this server's id; the constants of `Router` and `Delegate` are what the server sends; sync frames, and no others, are carried by packets; any number of goroutines handles the others | `cmd/server.go` makes the id when the websocket opens; memberlist names; the definitions of `AllMessages`, `AllFrames` |
| `HashInjective` | two nodes never tie for a value | hashes of 32 bits seldom do; a tie would be resolved either way |
| `AgentAssumption` | there is a seed, or an entry in every table the process may start with; the entry of a server leads to that server | without either the first attempt asks `Get` about nobody and panics (agent.go:135-154), so there is no run to speak of; a server's entry has its own host and port (server.go:254-270) |
| `SubsetRouterAssumption` | keys are ordered (numbers) | strings are |

Only model-checked: liveness, which is outside the prover's reach (the server's
five properties, `OneCluster`, the agent's three, `LinesHeard`, `Stops`).
`OwnChannel` and `SyncConsistency` are proved under the hypotheses above, and false
without them.  Every other property a run checks is the subject of a theorem.

## 7. Mapping

`PROJECT.json` maps every definition that models code to its lines.  Definitions
called variants are never used by a specification; properties and the
definitions they are built from model no code.

## 8. Plan

1. *(done)* `Router`, `Server`, `Hrw`, `Homes`, `Agent`, `SubsetRouter`, and the
   proofs of the router, the server's use of it, and the hash.
2. *(done)* `Delegate`, `Switchboard`, `Cluster`, `ScriptRuntime` and their proofs;
   the safety of the server's traffic.
3. *(done)* The proofs about the server's tables and channels, the agent's types and
   its use of `Get`, and the subset router's trie and search.
4. Proofs of the safety facts on which the liveness properties rest: that only a
   goroutine that waits in the write lock can hold back readers, that the agent's
   executor asks only when an attempt can answer (but for `lost`), that a script
   that cannot stop is `Jammed`.
5. Tables of agents of several servers, once records carry an order (TODO.txt:21);
   today nothing holds of them that is worth stating.

## 9. Not modelled, and why

* `transport/frame.go`: decoding has no state; a message is the record of what
  the handlers look at.  Errors of decoding are logged and ignored.
* The command line, the UI and static files, the advertisement of a server:
  I/O and libraries.
* `superset_router.go` is empty but for its package clause.
* `ReplaceBind` (subset_router.go:34): its body is prose, and the package does not
  compile with it.
* `NotifyUpdate` and `externHttpReq`: the one only logs, the other is an empty type.
* Routing by tags: `routeClient` and `routeAgent` do not filter (router.go:355), so
  every frame goes to every agent or client.
* Frames of other types from a client or an agent: the server emits whatever type
  it decodes (server.go:158, 237); `Server.Frame` takes the types that the
  repository's own UI and agent send.
* Admin clients are not told of agents that connected before them (server.go:108
  is a TODO).
* Shutdown: the router's is commented out, the server exits after a second.
* The `shutdown` control message of the agent: nothing sends it.
* SQL errors: the code logs and goes on; a table is a function.
* What becomes of scripts, output and jobs on a server: stubs in the code
  (`case "script"` logs, handlers.go:67).  Which script an agent runs is a constant
  in the code; `ScriptRuntime` models any.
