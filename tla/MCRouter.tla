------------------------------ MODULE MCRouter ------------------------------
(***************************************************************************)
(* Instances of Router for TLC: which code each session registers under,   *)
(* and the messages in play.                                               *)
(***************************************************************************)
EXTENDS Router

CONSTANTS a1, a2, c1, u

\* Two sessions of one agent (it reconnects before its old session is gone);
\* the admin client is filed in a map of its own, so its code may be the same.
MCCodeOf == [s \in Sessions |-> u]

\* Emitted as PEER_SERVER, it fills two queues and fans out over the clients
\* and then over the agents.
MCMessages == {[type |-> "server", sub |-> "leave"]}
=============================================================================
