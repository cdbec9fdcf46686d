------------------------------ MODULE MCServer ------------------------------
(***************************************************************************)
(* Instances of Server for TLC.                                            *)
(***************************************************************************)
EXTENDS Server, TLC

CONSTANTS a1, a2, c1, p1, p2, r1, u, v, w, n1, n2

MCThreads  == {"main", "event", "storage", "udp", "tcp"}
MCEmitters == {"LOCAL_CLIENT", "LOCAL_AGENT", "LOCAL_SERVER",
               "PEER_AGENT", "PEER_SERVER"}

\* Every session has a code of its own, but for the peer, which leaves and
\* comes back, and the remote session, which has the code of a2.
Apart == [s \in Sessions \cup RemoteSessions |->
            CASE s = a1 -> u [] s \in {a2, r1} -> v [] s = c1 -> w
              [] s \in {p1, p2} -> n2]

\* An agent opens a second websocket before its first has ended.
Shared == [s \in Sessions \cup RemoteSessions |-> IF s = a2 THEN u ELSE Apart[s]]

\* Remote agents are with the one peer.
Elsewhere == [r \in RemoteSessions |-> n2]

\* One goroutine handles packets, one the connection a frame comes by: with one
\* remote agent there is one such frame.
Carriers == [f \in AllFrames |-> IF f.sub = "sync" THEN "udp" ELSE "tcp"]

\* Two sessions of one agent can be told apart by nothing but their names.
Twins == Permutations({a1, a2})
=============================================================================
