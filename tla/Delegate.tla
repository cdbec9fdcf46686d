------------------------------ MODULE Delegate ------------------------------
(***************************************************************************)
(* What a server remembers of the frames other servers sent it: the table  *)
(* nodeMap of the memberlist delegate (cluster/gossip.go), which keeps a   *)
(* Go map of frame ids for each server, so that a broadcast that arrives   *)
(* several times is emitted into the router once.                          *)
(*                                                                         *)
(* NotifyMsg looks the map up, makes one if there is none, checks the      *)
(* frame and marks it, each under the lock but with the lock given up in   *)
(* between, so other receivers and the membership callbacks interleave     *)
(* with it.  A goroutine keeps the map it looked up: when that map is      *)
(* replaced meanwhile, it marks a map nobody will look at again.  Maps are *)
(* numbered in the order in which they were made.                          *)
(*                                                                         *)
(* The goroutines that call NotifyMsg are memberlist's: one handles every  *)
(* packet, so the copies of a broadcast are handled one after the other,   *)
(* and each frame sent over a connection, which arrives once, has the      *)
(* connection's goroutine.  Carrier says which goroutine handles a frame.  *)
(***************************************************************************)
EXTENDS Naturals, Sequences

CONSTANTS
  Nodes,      \* the ids of servers
  Frames,     \* the clusterEnvelopes other servers made
  Origin,     \* Origin[f]: the server that made f
  Receivers,  \* the goroutines that call NotifyMsg
  Carrier,    \* Carrier[f]: the one that handles the copies of f
  NoFrame

ASSUME DelegateAssumption ==
  /\ \A f \in Frames : Origin[f] \in Nodes /\ Carrier[f] \in Receivers
  /\ NoFrame \notin Frames

VARIABLES
  marks,    \* marks[m]: the frames marked in map m
  nodeMap,  \* nodeMap[n]: the map for the frames of n, or 0
  at,       \* at[g]: where g is in NotifyMsg
  arg,      \* arg[g]: the frame it handles
  held,     \* held[g]: the map it looked up
  given     \* history: the frames emitted, with the map they were looked up in

dvars == <<marks, nodeMap, at, arg, held, given>>

Maps == DOMAIN marks

-----------------------------------------------------------------------------
(* NotifyMsg, up to its call of Emit.                                      *)

LookUp(g, f) ==
  /\ at[g] = "idle" /\ Carrier[f] = g
  /\ LET m == nodeMap[Origin[f]] IN
       /\ held' = [held EXCEPT ![g] = m]
       /\ at' = [at EXCEPT ![g] = IF m = 0 THEN "making" ELSE "checking"]
  /\ arg' = [arg EXCEPT ![g] = f]
  /\ UNCHANGED <<marks, nodeMap, given>>

\* The map that was made is filed, whatever is filed there by now.
Install(g) ==
  /\ at[g] = "making"
  /\ marks' = Append(marks, {})
  /\ nodeMap' = [nodeMap EXCEPT ![Origin[arg[g]]] = Len(marks) + 1]
  /\ held' = [held EXCEPT ![g] = Len(marks) + 1]
  /\ at' = [at EXCEPT ![g] = "checking"]
  /\ UNCHANGED <<arg, given>>

\* g is done with its frame.
Finish(g) ==
  /\ at' = [at EXCEPT ![g] = "idle"]
  /\ arg' = [arg EXCEPT ![g] = NoFrame]
  /\ held' = [held EXCEPT ![g] = 0]

Check(g) ==
  /\ at[g] = "checking"
  /\ IF arg[g] \in marks[held[g]]
     THEN Finish(g)
     ELSE at' = [at EXCEPT ![g] = "marking"] /\ UNCHANGED <<arg, held>>
  /\ UNCHANGED <<marks, nodeMap, given>>

\* Variants: the frame is marked in no map; in the map that is filed now.
Unmarked(g)      == marks
MarkedInFiled(g) == IF nodeMap[Origin[arg[g]]] = 0 THEN marks
                    ELSE [marks EXCEPT ![nodeMap[Origin[arg[g]]]] = @ \cup {arg[g]}]

\* msgMap[frame.Id] = true
Marked(g) == [marks EXCEPT ![held[g]] = @ \cup {arg[g]}]

\* g marks its frame and calls Emit.
Mark(g) ==
  /\ at[g] = "marking"
  /\ marks' = Marked(g)
  /\ given' = given \cup {<<held[g], arg[g]>>}
  /\ Finish(g)
  /\ UNCHANGED nodeMap

-----------------------------------------------------------------------------
(* The membership callbacks.                                               *)

\* NotifyJoin, MergeRemoteState: what was seen of n is forgotten.
Renew(n) ==
  /\ marks' = Append(marks, {})
  /\ nodeMap' = [nodeMap EXCEPT ![n] = Len(marks) + 1]
  /\ UNCHANGED <<at, arg, held, given>>

\* NotifyLeave.
Forget(n) ==
  /\ nodeMap' = [nodeMap EXCEPT ![n] = 0]
  /\ UNCHANGED <<marks, at, arg, held, given>>

-----------------------------------------------------------------------------
DInit ==
  /\ marks = <<>>
  /\ nodeMap = [n \in Nodes |-> 0]
  /\ at = [g \in Receivers |-> "idle"]
  /\ arg = [g \in Receivers |-> NoFrame]
  /\ held = [g \in Receivers |-> 0]
  /\ given = {}

DNext ==
  \/ \E g \in Receivers :
       (\E f \in Frames : LookUp(g, f)) \/ Install(g) \/ Check(g) \/ Mark(g)
  \/ \E n \in Nodes : Renew(n) \/ Forget(n)

DSpec == DInit /\ [][DNext]_dvars

-----------------------------------------------------------------------------
DTypeOK ==
  /\ marks \in Seq(SUBSET Frames)
  /\ nodeMap \in [Nodes -> Nat]
  /\ at \in [Receivers -> {"idle", "making", "checking", "marking"}]
  /\ arg \in [Receivers -> Frames \cup {NoFrame}]
  /\ held \in [Receivers -> Nat]
  /\ given \subseteq Nat \X Frames

\* A frame is emitted at most once for each map of its server, although check
\* and mark are separate critical sections: it comes back only when NotifyJoin,
\* NotifyLeave or MergeRemoteState, or another receiver that also found no map,
\* replaced the map in which it was marked.
OncePerMap ==
  [][\A g \in Receivers :
       at[g] = "marking" /\ at'[g] = "idle" => <<held[g], arg[g]>> \notin given]_dvars

-----------------------------------------------------------------------------
(* The invariant behind it.                                                *)

\* A goroutine past its look-up handles a frame of its own, in a map that exists.
Handling ==
  \A g \in Receivers :
    /\ at[g] # "idle" => arg[g] \in Frames /\ Carrier[arg[g]] = g
    /\ at[g] \in {"checking", "marking"} => held[g] \in Maps

\* The maps that are filed exist.
MapsExist == \A n \in Nodes : nodeMap[n] \in Maps \cup {0}

\* What was emitted is marked in the map it was looked up in, and a frame about
\* to be marked is not.
MarksTell ==
  /\ \A p \in given : p[1] \in Maps /\ p[2] \in marks[p[1]]
  /\ \A g \in Receivers : at[g] = "marking" => arg[g] \notin marks[held[g]]

DInv == DTypeOK /\ Handling /\ MapsExist /\ MarksTell
=============================================================================
