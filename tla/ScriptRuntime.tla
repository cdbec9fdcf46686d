---------------------------- MODULE ScriptRuntime ----------------------------
(***************************************************************************)
(* The run of one script on an agent (payload/script.go): the goroutine    *)
(* of runScript, which alone enters the VM, and, for each file the script  *)
(* tails, a listener that hands the file's lines to it as callbacks.       *)
(*                                                                         *)
(* The channel of callbacks and the channels of lines are unbuffered.  The *)
(* package that tails a file is external: one goroutine of it, the reader, *)
(* sends the lines as they are written; Stop asks it to end, which it does *)
(* when it waits for the file or has sent a line, and waits until it has.  *)
(* It also ends when the file is deleted.                                  *)
(* The output channel is the agent's, module Agent shows who reads it.     *)
(***************************************************************************)
EXTENDS Naturals, Sequences

CONSTANTS
  Tails,      \* the files the script may tail
  MaxLines,   \* bound: lines written to a file
  MaxPrints   \* bound: what the script prints

ASSUME ScriptAssumption == MaxLines \in Nat /\ MaxPrints \in Nat

VARIABLES
  pc,         \* where runScript is
  flags,      \* "stopped": runtime.stopped is set, "cancelled": ctx is done,
              \* "failed": the script threw an exception, so runScript panics
  prints,     \* how often it has printed
  closed,     \* how often runtime.quit was closed
  tails,      \* externTail.tails
  position,   \* the position of Cleanup in tails
  killed,     \* the tails that were asked to stop
  reader,     \* reader[t]: what t's reader does
  read,       \* read[t]: the lines it has read
  listener,   \* listener[t]: what t's listener does
  line,       \* line[t]: the line it had last
  called      \* history: called[t]: the last line the callback was called with

vmvars   == <<flags, prints, closed>>
tailvars == <<reader, read, listener, line>>
vars == <<pc, vmvars, tails, position, killed, tailvars, called>>

Alive == pc # "died"

-----------------------------------------------------------------------------
(* The VM runs: RunString, or a callback.                                  *)

InVM == pc \in {"script", "callback"}

\* print waits until the output is read; nothing else ends the wait.
PrintLine ==
  /\ InVM /\ prints < MaxPrints
  /\ prints' = prints + 1
  /\ pc' = IF pc = "script" THEN "script prints" ELSE "callback prints"
  /\ UNCHANGED <<flags, closed, tails, position, killed,
                 tailvars, called>>

\* A pump of the agent takes what was printed.  Pumps end with the context that a
\* script is cancelled with, but one that is at its select may still take this.
OutputRead ==
  /\ pc \in {"script prints", "callback prints"}
  /\ pc' = IF pc = "script prints" THEN "script" ELSE "callback"
  /\ UNCHANGED <<vmvars, tails, position, killed, tailvars, called>>

AddTail(t) ==
  /\ InVM /\ listener[t] = "none"
  /\ tails' = Append(tails, t)
  /\ reader' = [reader EXCEPT ![t] = "waiting"]
  /\ listener' = [listener EXCEPT ![t] = "waiting"]
  /\ UNCHANGED <<pc, vmvars, position, killed, read, line, called>>

\* A variant: the channel is closed whether or not it is.
ShutdownAgain == flags' = flags \cup {"stopped"} /\ closed' = closed + 1

shutdown ==
  /\ flags' = flags \cup {"stopped"}
  /\ closed' = IF "stopped" \in flags THEN closed ELSE closed + 1

Quit ==
  /\ InVM
  /\ shutdown
  /\ UNCHANGED <<pc, prints, tails, position, killed, tailvars,
                 called>>

\* The script, or the callback, ends.
Return ==
  /\ InVM
  /\ pc' = "select"
  /\ UNCHANGED <<vmvars, tails, position, killed, tailvars, called>>

\* It throws: runScript panics, which runs the deferred cleanup first.
Throw ==
  /\ InVM
  /\ flags' = flags \cup {"failed"}
  /\ pc' = "cleanup"
  /\ UNCHANGED <<prints, closed, tails, position, killed,
                 tailvars, called>>

-----------------------------------------------------------------------------
(* cbLoop: select takes any case that is ready.                            *)

SeesQuit ==
  /\ pc = "select" /\ closed > 0
  /\ pc' = "cleanup"
  /\ UNCHANGED <<vmvars, tails, position, killed, tailvars, called>>

\* A variant: nothing is shut down.
DoneIgnored == UNCHANGED <<flags, closed>>

WhenDone == shutdown

SeesDone ==
  /\ pc = "select" /\ "cancelled" \in flags
  /\ WhenDone
  /\ UNCHANGED <<pc, prints, tails, position, killed, tailvars,
                 called>>

\* A variant: the listener has one line handed over and ends.
OneLine == "ended"

AfterOffer == "waiting"

\* The listener goes on once its callback was taken.
Callback(t) ==
  /\ pc = "select" /\ listener[t] = "offering"
  /\ pc' = "callback"
  /\ listener' = [listener EXCEPT ![t] = AfterOffer]
  /\ called' = [called EXCEPT ![t] = line[t]]
  /\ UNCHANGED <<vmvars, tails, position, killed, reader, read, line>>

Cancel ==
  /\ Alive /\ "cancelled" \notin flags
  /\ flags' = flags \cup {"cancelled"}
  /\ UNCHANGED <<pc, prints, closed, tails, position, killed, tailvars, called>>

-----------------------------------------------------------------------------
(* cleanup stops the tails one after the other.                            *)

Stop ==
  /\ pc = "cleanup" /\ position <= Len(tails)
  /\ killed' = killed \cup {tails[position]}
  /\ pc' = "wait"
  /\ UNCHANGED <<vmvars, tails, position, tailvars, called>>

Stopped ==
  /\ pc = "wait" /\ reader[tails[position]] = "ended"
  /\ position' = position + 1
  /\ pc' = "cleanup"
  /\ UNCHANGED <<vmvars, tails, killed, tailvars, called>>

\* A panic that is through with the deferred calls ends the process.
Finish ==
  /\ pc = "cleanup" /\ position > Len(tails)
  /\ pc' = IF "failed" \in flags THEN "died" ELSE "returned"
  /\ UNCHANGED <<vmvars, tails, position, killed, tailvars, called>>

-----------------------------------------------------------------------------
(* A reader, and the listener for its lines.                               *)

Read(t) ==
  /\ Alive /\ reader[t] = "waiting" /\ read[t] < MaxLines
  /\ reader' = [reader EXCEPT ![t] = "sending"]
  /\ read' = [read EXCEPT ![t] = @ + 1]
  /\ UNCHANGED <<pc, vmvars, tails, position, killed, listener, line, called>>

\* A variant: a line is taken while the callback for another is offered.
AnyTime(t) == listener[t] \in {"waiting", "offering"}

Listens(t) == listener[t] = "waiting"

\* The line passes to the listener, which offers a callback for it.
Pass(t) ==
  /\ Alive /\ reader[t] = "sending" /\ Listens(t)
  /\ reader' = [reader EXCEPT ![t] = IF t \in killed THEN "ended" ELSE "waiting"]
  /\ listener' = [listener EXCEPT ![t] = "offering"]
  /\ line' = [line EXCEPT ![t] = read[t]]
  /\ UNCHANGED <<pc, vmvars, tails, position, killed, read, called>>

EndReader(t) ==
  /\ Alive /\ reader[t] = "waiting" /\ t \in killed
  /\ reader' = [reader EXCEPT ![t] = "ended"]
  /\ UNCHANGED <<pc, vmvars, tails, position, killed, read, listener, line,
                 called>>

\* The file is deleted.
FileGone(t) ==
  /\ Alive /\ reader[t] = "waiting"
  /\ reader' = [reader EXCEPT ![t] = "ended"]
  /\ UNCHANGED <<pc, vmvars, tails, position, killed, read, listener, line,
                 called>>

\* The channel of lines is closed.
EndListener(t) ==
  /\ Alive /\ listener[t] = "waiting" /\ reader[t] = "ended"
  /\ listener' = [listener EXCEPT ![t] = "ended"]
  /\ UNCHANGED <<pc, vmvars, tails, position, killed, reader, read, line,
                 called>>

-----------------------------------------------------------------------------
Init ==
  /\ pc = "script" /\ flags = {} /\ prints = 0 /\ closed = 0
  /\ tails = <<>> /\ position = 1 /\ killed = {}
  /\ reader = [t \in Tails |-> "none"] /\ read = [t \in Tails |-> 0]
  /\ listener = [t \in Tails |-> "none"] /\ line = [t \in Tails |-> 0]
  /\ called = [t \in Tails |-> 0]

Next ==
  \/ PrintLine \/ OutputRead \/ Quit \/ Return \/ Throw
  \/ SeesQuit \/ SeesDone \/ Cancel \/ Stop \/ Stopped \/ Finish
  \/ \E t \in Tails : \/ AddTail(t) \/ Callback(t) \/ Read(t) \/ Pass(t)
                      \/ EndReader(t) \/ FileGone(t) \/ EndListener(t)

\* The goroutines go on, the agent reads its output until it is told to stop, and the
\* script's code comes to an end.  Among the cases that are ready select takes each again and again, and a
\* channel takes its senders in turn: hence strong fairness.
Fairness ==
  /\ WF_vars("cancelled" \notin flags /\ OutputRead) /\ SF_vars(Return)
  /\ SF_vars(SeesQuit) /\ SF_vars(SeesDone)
  /\ WF_vars(Stop) /\ WF_vars(Stopped) /\ WF_vars(Finish)
  /\ \A t \in Tails : /\ SF_vars(Callback(t)) /\ WF_vars(Pass(t))
                      /\ WF_vars(EndReader(t)) /\ WF_vars(EndListener(t))

Safety == Init /\ [][Next]_vars
Spec == Safety /\ Fairness

-----------------------------------------------------------------------------
\* runtime.quit, in particular, is closed once at most: closing it again panics.
ScriptTypeOK ==
  /\ pc \in {"script", "callback", "script prints", "callback prints", "select",
             "cleanup", "wait", "returned", "died"}
  /\ flags \subseteq {"stopped", "cancelled", "failed"}
  /\ prints \in 0..MaxPrints /\ closed \in 0..1
  /\ tails \in Seq(Tails) /\ position \in 1..(Len(tails) + 1)
  /\ killed \subseteq Tails
  /\ reader \in [Tails -> {"none", "waiting", "sending", "ended"}]
  /\ read \in [Tails -> 0..MaxLines]
  /\ listener \in [Tails -> {"none", "waiting", "offering", "ended"}]
  /\ line \in [Tails -> 0..MaxLines]
  /\ called \in [Tails -> 0..MaxLines]

\* The lines of a file reach the callback in their order, none twice, and none is
\* lost on its way through two channels and three goroutines: at most one is on its
\* way to the listener, and at most one is offered.
LinesInOrder ==
  \A t \in Tails :
    /\ reader[t] = "sending" => read[t] = line[t] + 1
    /\ reader[t] # "sending" => read[t] = line[t]
    /\ listener[t] = "offering" => line[t] = called[t] + 1
    /\ listener[t] # "offering" => line[t] = called[t]

\* The inductive invariant: the flag tells whether quit is closed, Stop waits for a
\* tail, and a file has a listener when it has a reader.
Bookkept ==
  /\ "stopped" \in flags => closed = 1
  /\ "stopped" \notin flags => closed = 0
  /\ pc = "wait" => position <= Len(tails)
  /\ \A t \in Tails : listener[t] = "none" <=> reader[t] = "none"

ScriptInv == ScriptTypeOK /\ LinesInOrder /\ Bookkept

\* A line that was read is called back, whatever other tails do, unless the script
\* ended, was asked to, or failed.
LinesHeard ==
  \A t \in Tails, n \in 1..MaxLines :
    read[t] >= n ~> called[t] >= n \/ flags # {}

\* The reader that Stop waits for has a line for a listener that still offers the
\* one before, which nobody takes any more.
Jammed ==
  /\ pc = "wait"
  /\ reader[tails[position]] = "sending" /\ listener[tails[position]] = "offering"

\* The script prints when nobody reads output any more.
Muted == pc \in {"script prints", "callback prints"} /\ "cancelled" \in flags

\* When the script quits, fails or is cancelled, runScript comes to its end, or the
\* process does, except when cleanup is jammed, or the script waits for good to
\* print for an agent that has stopped.
Stops ==
  \/ <>[]Muted
  \/ flags # {} ~> pc \in {"returned", "died"} \/ Jammed
=============================================================================
