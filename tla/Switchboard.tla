----------------------------- MODULE Switchboard -----------------------------
(***************************************************************************)
(* What the router is for, without its locks, its queues and the order of  *)
(* its sends: a board of lines, one for each code of each kind, on which   *)
(* callers send to one line or to all lines of a kind.  Whom a call        *)
(* reaches is settled in one instant, and until it has reached them all    *)
(* nobody of that kind comes or goes.                                      *)
(***************************************************************************)
CONSTANTS
  Kinds, Codes,  \* there is a line for each code of each kind
  Channels,      \* what is put on a line
  KindOf, CodeOf,\* the line each channel is for
  Callers,
  None

VARIABLES
  line,   \* line[k][c]: the channel on the line, or None
  dead,   \* the channels that were taken off their line, for good
  owes    \* owes[g]: the channels that g's call has yet to reach

bvars == <<line, dead, owes>>

\* No call is under way that reaches channels of kind k.
Quiet(k) == \A g \in Callers : \A ch \in owes[g] : KindOf[ch] # k

Connect(ch) ==
  LET k == KindOf[ch]
      c == CodeOf[ch]
  IN /\ ch \notin dead /\ line[k][c] = None
     /\ Quiet(k)
     /\ line' = [line EXCEPT ![k][c] = ch]
     /\ UNCHANGED <<dead, owes>>

Disconnect(k, c) ==
  /\ line[k][c] # None
  /\ Quiet(k)
  /\ dead' = dead \cup {line[k][c]}
  /\ line' = [line EXCEPT ![k][c] = None]
  /\ UNCHANGED owes

\* A call to the codes C of kind k.
Call(g, k, C) ==
  /\ owes[g] = {}
  /\ owes' = [owes EXCEPT ![g] = {line[k][c] : c \in C} \ {None}]
  /\ UNCHANGED <<line, dead>>

Reach(g, ch) ==
  /\ ch \in owes[g]
  /\ owes' = [owes EXCEPT ![g] = @ \ {ch}]
  /\ UNCHANGED <<line, dead>>

BInit ==
  /\ line = [k \in Kinds |-> [c \in Codes |-> None]]
  /\ dead = {}
  /\ owes = [g \in Callers |-> {}]

BNext ==
  \/ \E ch \in Channels : Connect(ch)
  \/ \E k \in Kinds, c \in Codes : Disconnect(k, c)
  \/ \E g \in Callers, k \in Kinds :
       Call(g, k, Codes) \/ \E c \in Codes : Call(g, k, {c})
  \/ \E g \in Callers, ch \in Channels : Reach(g, ch)

BSpec == BInit /\ [][BNext]_bvars
=============================================================================
