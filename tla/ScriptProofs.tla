---------------------------- MODULE ScriptProofs ----------------------------
(***************************************************************************)
(* Proofs about ScriptRuntime, for any files, lines and prints.  The lines *)
(* are in order because a listener takes no line while it offers one, so   *)
(* that at most one is offered and one on its way.                         *)
(***************************************************************************)
EXTENDS ScriptRuntime, TLAPS

USE ScriptAssumption DEF ScriptAssumption

LEMMA InitInvariant == Init => ScriptInv
<1> SUFFICES ASSUME Init PROVE ScriptInv
  OBVIOUS
<1>1. ScriptTypeOK
  BY DEF Init, ScriptTypeOK
<1>2. LinesInOrder
  BY DEF Init, LinesInOrder
<1>3. Bookkept
  BY DEF Init, Bookkept
<1> QED BY <1>1, <1>2, <1>3 DEF ScriptInv

-----------------------------------------------------------------------------
(* Steps of runScript, which leave readers alone.                          *)

LEMMA PrintStep ==
  ASSUME ScriptInv, PrintLine PROVE ScriptInv'
<1> USE DEF ScriptInv, PrintLine, vmvars, tailvars, InVM
<1>1. ScriptTypeOK'
  <2>1. prints \in 0..MaxPrints
    BY DEF ScriptTypeOK
  <2>2. prints < MaxPrints /\ prints' = prints + 1
    OBVIOUS
  <2>3. pc' \in {"script prints", "callback prints"}
    OBVIOUS
  <2>4. prints' \in 0..MaxPrints
    <3> HIDE DEF PrintLine
    <3> QED BY <2>1, <2>2
  <2> QED BY <2>3, <2>4 DEF ScriptTypeOK
<1>2. LinesInOrder'
  BY DEF ScriptTypeOK, LinesInOrder, Bookkept
<1>3. Bookkept'
  BY DEF ScriptTypeOK, Bookkept
<1> QED BY <1>1, <1>2, <1>3

LEMMA OutputReadStep ==
  ASSUME ScriptInv, OutputRead PROVE ScriptInv'
<1> USE DEF ScriptInv, OutputRead, vmvars, tailvars
<1>1. ScriptTypeOK'
  BY DEF ScriptTypeOK, Bookkept, LinesInOrder
<1>2. LinesInOrder'
  BY DEF ScriptTypeOK, LinesInOrder, Bookkept
<1>3. Bookkept'
  BY DEF ScriptTypeOK, Bookkept
<1> QED BY <1>1, <1>2, <1>3

LEMMA QuitStep ==
  ASSUME ScriptInv, Quit PROVE ScriptInv'
<1> USE DEF ScriptInv, Quit, vmvars, tailvars, shutdown, InVM
<1>0. closed' = 1 /\ "stopped" \in flags'
  <2>1. CASE "stopped" \in flags
    BY <2>1 DEF Bookkept
  <2>2. CASE "stopped" \notin flags
    BY <2>2 DEF Bookkept
  <2> QED BY <2>1, <2>2
<1>1. ScriptTypeOK'
  <2>1. closed' \in 0..1
    BY <1>0
  <2>2. flags' \subseteq {"stopped", "cancelled", "failed"}
    BY DEF ScriptTypeOK
  <2>3. UNCHANGED <<pc, prints, tails, position, killed, reader, read, listener, line, called>>
    OBVIOUS
  <2> HIDE DEF Quit, shutdown, vmvars, tailvars, InVM
  <2> QED BY <2>1, <2>2, <2>3 DEF ScriptTypeOK
<1>2. LinesInOrder'
  BY DEF ScriptTypeOK, LinesInOrder, Bookkept
<1>3. Bookkept'
  BY <1>0 DEF ScriptTypeOK, Bookkept
<1> QED BY <1>1, <1>2, <1>3

LEMMA ReturnStep ==
  ASSUME ScriptInv, Return PROVE ScriptInv'
<1> USE DEF ScriptInv, Return, vmvars, tailvars, InVM
<1>1. ScriptTypeOK'
  BY DEF ScriptTypeOK, Bookkept, LinesInOrder
<1>2. LinesInOrder'
  BY DEF ScriptTypeOK, LinesInOrder, Bookkept
<1>3. Bookkept'
  BY DEF ScriptTypeOK, Bookkept
<1> QED BY <1>1, <1>2, <1>3

LEMMA ThrowStep ==
  ASSUME ScriptInv, Throw PROVE ScriptInv'
<1> USE DEF ScriptInv, Throw, vmvars, tailvars, InVM
<1>1. ScriptTypeOK'
  BY DEF ScriptTypeOK, Bookkept, LinesInOrder
<1>2. LinesInOrder'
  BY DEF ScriptTypeOK, LinesInOrder, Bookkept
<1>3. Bookkept'
  BY DEF ScriptTypeOK, Bookkept
<1> QED BY <1>1, <1>2, <1>3

LEMMA SeesQuitStep ==
  ASSUME ScriptInv, SeesQuit PROVE ScriptInv'
<1> USE DEF ScriptInv, SeesQuit, vmvars, tailvars
<1>1. ScriptTypeOK'
  BY DEF ScriptTypeOK, Bookkept, LinesInOrder
<1>2. LinesInOrder'
  BY DEF ScriptTypeOK, LinesInOrder, Bookkept
<1>3. Bookkept'
  BY DEF ScriptTypeOK, Bookkept
<1> QED BY <1>1, <1>2, <1>3

LEMMA SeesDoneStep ==
  ASSUME ScriptInv, SeesDone PROVE ScriptInv'
<1> USE DEF ScriptInv, SeesDone, vmvars, tailvars, WhenDone, shutdown
<1>1. ScriptTypeOK'
  BY DEF ScriptTypeOK, Bookkept, LinesInOrder
<1>2. LinesInOrder'
  BY DEF ScriptTypeOK, LinesInOrder, Bookkept
<1>3. Bookkept'
  BY DEF ScriptTypeOK, Bookkept
<1> QED BY <1>1, <1>2, <1>3

LEMMA CancelStep ==
  ASSUME ScriptInv, Cancel PROVE ScriptInv'
<1> USE DEF ScriptInv, Cancel, vmvars, tailvars
<1>1. ScriptTypeOK'
  BY DEF ScriptTypeOK, Bookkept, LinesInOrder
<1>2. LinesInOrder'
  BY DEF ScriptTypeOK, LinesInOrder, Bookkept
<1>3. Bookkept'
  BY DEF ScriptTypeOK, Bookkept
<1> QED BY <1>1, <1>2, <1>3

\* A tail that is added had neither a reader nor a listener.
LEMMA AddTailStep ==
  ASSUME ScriptInv, NEW t \in Tails, AddTail(t) PROVE ScriptInv'
<1> USE DEF ScriptInv, AddTail, vmvars, InVM
<1>1. ScriptTypeOK'
  <2>1. /\ tails \in Seq(Tails) /\ tails' = Append(tails, t)
        /\ position \in 1..(Len(tails) + 1) /\ position' = position
    BY DEF ScriptTypeOK
  <2>2. /\ tails' \in Seq(Tails) /\ Len(tails') = Len(tails) + 1
        /\ Len(tails) \in Nat
    BY <2>1
  <2>3. position' \in 1..(Len(tails') + 1)
    BY <2>1, <2>2
  <2> QED BY <2>2, <2>3 DEF ScriptTypeOK
<1>2. LinesInOrder'
  BY DEF ScriptTypeOK, LinesInOrder, Bookkept
<1>3. Bookkept'
  BY DEF ScriptTypeOK, Bookkept
<1> QED BY <1>1, <1>2, <1>3

LEMMA StopStep ==
  ASSUME ScriptInv, Stop PROVE ScriptInv'
<1> USE DEF ScriptInv, Stop, vmvars, tailvars
<1>1. ScriptTypeOK'
  BY DEF ScriptTypeOK, Bookkept, LinesInOrder
<1>2. LinesInOrder'
  BY DEF ScriptTypeOK, LinesInOrder, Bookkept
<1>3. Bookkept'
  BY DEF ScriptTypeOK, Bookkept
<1> QED BY <1>1, <1>2, <1>3

LEMMA StoppedStep ==
  ASSUME ScriptInv, Stopped PROVE ScriptInv'
<1> USE DEF ScriptInv, Stopped, vmvars, tailvars
<1>1. ScriptTypeOK'
  BY DEF ScriptTypeOK, Bookkept, LinesInOrder
<1>2. LinesInOrder'
  BY DEF ScriptTypeOK, LinesInOrder, Bookkept
<1>3. Bookkept'
  BY DEF ScriptTypeOK, Bookkept
<1> QED BY <1>1, <1>2, <1>3

LEMMA FinishStep ==
  ASSUME ScriptInv, Finish PROVE ScriptInv'
<1> USE DEF ScriptInv, Finish, vmvars, tailvars
<1>1. ScriptTypeOK'
  BY DEF ScriptTypeOK, Bookkept, LinesInOrder
<1>2. LinesInOrder'
  BY DEF ScriptTypeOK, LinesInOrder, Bookkept
<1>3. Bookkept'
  BY DEF ScriptTypeOK, Bookkept
<1> QED BY <1>1, <1>2, <1>3

-----------------------------------------------------------------------------
(* Steps of a reader and its listener.                                     *)

\* The line that is called back is the next one.
LEMMA CallbackStep ==
  ASSUME ScriptInv, NEW t \in Tails, Callback(t) PROVE ScriptInv'
<1> USE DEF ScriptInv, Callback, AfterOffer, vmvars
<1>1. ScriptTypeOK'
  BY DEF ScriptTypeOK, Bookkept, LinesInOrder
<1>2. LinesInOrder'
  BY DEF ScriptTypeOK, LinesInOrder, Bookkept
<1>3. Bookkept'
  BY DEF ScriptTypeOK, Bookkept
<1> QED BY <1>1, <1>2, <1>3

\* The line that passes is the one after those called, as none is offered.
LEMMA PassStep ==
  ASSUME ScriptInv, NEW t \in Tails, Pass(t) PROVE ScriptInv'
<1> USE DEF ScriptInv, Pass, Listens, vmvars
<1>1. ScriptTypeOK'
  BY DEF ScriptTypeOK, Bookkept, LinesInOrder
<1>2. LinesInOrder'
  BY DEF ScriptTypeOK, LinesInOrder, Bookkept
<1>3. Bookkept'
  BY DEF ScriptTypeOK, Bookkept
<1> QED BY <1>1, <1>2, <1>3

LEMMA ReadStep ==
  ASSUME ScriptInv, NEW t \in Tails, Read(t) PROVE ScriptInv'
<1> USE DEF ScriptInv, Read, vmvars
<1>1. ScriptTypeOK'
  <2>1. read[t] < MaxLines /\ read[t] \in 0..MaxLines
    BY DEF ScriptTypeOK
  <2>2. read[t] + 1 \in 0..MaxLines
    BY <2>1
  <2> QED BY <2>2 DEF ScriptTypeOK
<1>2. LinesInOrder'
  BY DEF ScriptTypeOK, LinesInOrder, Bookkept
<1>3. Bookkept'
  BY DEF ScriptTypeOK, Bookkept
<1> QED BY <1>1, <1>2, <1>3

LEMMA EndReaderStep ==
  ASSUME ScriptInv, NEW t \in Tails, EndReader(t) PROVE ScriptInv'
<1> USE DEF ScriptInv, EndReader, vmvars
<1>1. ScriptTypeOK'
  BY DEF ScriptTypeOK, Bookkept, LinesInOrder
<1>2. LinesInOrder'
  BY DEF ScriptTypeOK, LinesInOrder, Bookkept
<1>3. Bookkept'
  BY DEF ScriptTypeOK, Bookkept
<1> QED BY <1>1, <1>2, <1>3

LEMMA FileGoneStep ==
  ASSUME ScriptInv, NEW t \in Tails, FileGone(t) PROVE ScriptInv'
<1> USE DEF ScriptInv, FileGone, vmvars
<1>1. ScriptTypeOK'
  BY DEF ScriptTypeOK, Bookkept, LinesInOrder
<1>2. LinesInOrder'
  BY DEF ScriptTypeOK, LinesInOrder, Bookkept
<1>3. Bookkept'
  BY DEF ScriptTypeOK, Bookkept
<1> QED BY <1>1, <1>2, <1>3

LEMMA EndListenerStep ==
  ASSUME ScriptInv, NEW t \in Tails, EndListener(t) PROVE ScriptInv'
<1> USE DEF ScriptInv, EndListener, vmvars
<1>1. ScriptTypeOK'
  BY DEF ScriptTypeOK, Bookkept, LinesInOrder
<1>2. LinesInOrder'
  BY DEF ScriptTypeOK, LinesInOrder, Bookkept
<1>3. Bookkept'
  BY DEF ScriptTypeOK, Bookkept
<1> QED BY <1>1, <1>2, <1>3

-----------------------------------------------------------------------------

LEMMA NextInvariant == ScriptInv /\ [Next]_vars => ScriptInv'
<1> SUFFICES ASSUME ScriptInv, [Next]_vars PROVE ScriptInv'
  OBVIOUS
<1>1. CASE UNCHANGED vars
  <2> USE <1>1 DEF vars, vmvars, tailvars, ScriptInv
  <2>1. ScriptTypeOK'
    BY DEF ScriptTypeOK
  <2>2. LinesInOrder' /\ Bookkept'
    BY DEF LinesInOrder, Bookkept
  <2> QED BY <2>1, <2>2
<1>2. CASE PrintLine \/ OutputRead \/ Quit \/ Return \/ Throw \/ SeesQuit \/ SeesDone \/ Cancel
  BY <1>2, PrintStep, OutputReadStep, QuitStep, ReturnStep, ThrowStep, SeesQuitStep,
     SeesDoneStep, CancelStep
<1>3. CASE Stop \/ Stopped \/ Finish
  BY <1>3, StopStep, StoppedStep, FinishStep
<1>4. ASSUME NEW t \in Tails,
             \/ AddTail(t) \/ Callback(t) \/ Read(t) \/ Pass(t)
             \/ EndReader(t) \/ FileGone(t) \/ EndListener(t)
      PROVE  ScriptInv'
  BY <1>4, AddTailStep, CallbackStep, ReadStep, PassStep, EndReaderStep, FileGoneStep,
     EndListenerStep
<1> QED BY <1>1, <1>2, <1>3, <1>4 DEF Next

\* However many files a script tails: its invariant holds.
THEOREM ScriptInvariant == Safety => []ScriptInv
BY InitInvariant, NextInvariant, PTL DEF Safety

\* Among the types: quit is closed at most once.
THEOREM ScriptTypeCorrect == Safety => []ScriptTypeOK
BY ScriptInvariant, PTL DEF ScriptInv

\* Every line that was read is called back in its order or still on its way.
THEOREM LinesStayInOrder == Safety => []LinesInOrder
BY ScriptInvariant, PTL DEF ScriptInv
=============================================================================
