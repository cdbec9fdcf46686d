--------------------------- MODULE DelegateProofs ---------------------------
(***************************************************************************)
(* Proofs about Delegate, for any servers, frames and receivers.  The      *)
(* invariant is DInv; the step it hangs on is that a frame has one         *)
(* carrier, so nobody marks the frame a goroutine has just found unmarked. *)
(***************************************************************************)
EXTENDS Delegate, TLAPS

USE DelegateAssumption

LEMMA DInitInvariant == DInit => DInv
BY DEF DInit, DInv, DTypeOK, Handling, MapsExist, MarksTell, Maps

\* A new, empty map is added after the others.
LEMMA NewMap ==
  ASSUME DInv, marks' = Append(marks, {})
  PROVE  /\ marks' \in Seq(SUBSET Frames)
         /\ Maps' = Maps \cup {Len(marks) + 1}
         /\ Len(marks) + 1 \in Nat /\ Len(marks) + 1 \notin Maps
         /\ \A m \in Maps : marks'[m] = marks[m]
<1>1. marks \in Seq(SUBSET Frames)
  BY DEF DInv, DTypeOK
<1> QED BY <1>1 DEF Maps

LEMMA LookUpStep ==
  ASSUME DInv, NEW g \in Receivers, NEW f \in Frames, LookUp(g, f) PROVE DInv'
<1> USE DEF DInv, LookUp
<1>1. DTypeOK'
  BY DEF DTypeOK
<1>2. Handling' /\ MapsExist' /\ MarksTell'
  BY DEF DTypeOK, Handling, MapsExist, MarksTell, Maps
<1> QED BY <1>1, <1>2

LEMMA InstallStep ==
  ASSUME DInv, NEW g \in Receivers, Install(g) PROVE DInv'
<1> USE DEF DInv, Install
<1>1. DTypeOK'
  BY NewMap DEF DTypeOK
<1>2. Handling'
  BY NewMap DEF DTypeOK, Handling
<1>3. MapsExist'
  BY NewMap DEF DTypeOK, MapsExist, Handling
<1>4. MarksTell'
  BY NewMap DEF DTypeOK, MarksTell, Handling
<1> QED BY <1>1, <1>2, <1>3, <1>4

LEMMA CheckStep ==
  ASSUME DInv, NEW g \in Receivers, Check(g) PROVE DInv'
<1> USE DEF DInv
<1>1. UNCHANGED <<marks, nodeMap, given>> /\ at[g] = "checking"
  BY DEF Check
<1>2. CASE arg[g] \in marks[held[g]]
  <2>1. /\ at' = [at EXCEPT ![g] = "idle"] /\ arg' = [arg EXCEPT ![g] = NoFrame]
        /\ held' = [held EXCEPT ![g] = 0]
    BY <1>2 DEF Check, Finish
  <2>2. DTypeOK'
    BY <1>1, <2>1 DEF DTypeOK
  <2>3. Handling' /\ MapsExist' /\ MarksTell'
    BY <1>1, <2>1 DEF DTypeOK, Handling, MapsExist, MarksTell, Maps
  <2> QED BY <2>2, <2>3
<1>3. CASE arg[g] \notin marks[held[g]]
  <2>1. at' = [at EXCEPT ![g] = "marking"] /\ UNCHANGED <<arg, held>>
    BY <1>3 DEF Check
  <2>2. DTypeOK'
    BY <1>1, <2>1 DEF DTypeOK
  <2>3. Handling' /\ MapsExist' /\ MarksTell'
    BY <1>1, <1>3, <2>1 DEF DTypeOK, Handling, MapsExist, MarksTell, Maps
  <2> QED BY <2>2, <2>3
<1> QED BY <1>2, <1>3

\* Marking touches one map, and there only the frame that g carries.
LEMMA MarkStep ==
  ASSUME DInv, NEW g \in Receivers, Mark(g) PROVE DInv'
<1> USE DEF DInv, Mark, Marked, Finish
<1>0. /\ held[g] \in Maps /\ arg[g] \in Frames /\ Carrier[arg[g]] = g
      /\ marks \in Seq(SUBSET Frames)
  BY DEF Handling, DTypeOK
<1>1. /\ marks' \in Seq(SUBSET Frames) /\ Maps' = Maps
      /\ \A m \in Maps : marks'[m] = IF m = held[g] THEN marks[m] \cup {arg[g]}
                                                    ELSE marks[m]
  <2>1. marks' = [marks EXCEPT ![held[g]] = marks[held[g]] \cup {arg[g]}]
    OBVIOUS
  <2>2. marks[held[g]] \cup {arg[g]} \in SUBSET Frames
    BY <1>0 DEF Maps
  <2>3. held[g] \in 1..Len(marks) /\ Maps = 1..Len(marks)
    BY <1>0 DEF Maps
  <2>4. marks' \in Seq(SUBSET Frames) /\ Len(marks') = Len(marks)
    BY <1>0, <2>1, <2>2, <2>3
  <2>5. \A m \in Maps : marks'[m] = IF m = held[g] THEN marks[m] \cup {arg[g]}
                                                   ELSE marks[m]
    <3>1. DOMAIN marks = Maps
      BY DEF Maps
    <3> HIDE DEF Mark
    <3> QED BY <2>1, <3>1, <1>0
  <2> QED BY <2>4, <2>5, <1>0 DEF Maps
<1>2. DTypeOK'
  BY <1>0, <1>1 DEF DTypeOK
<1>3. Handling' /\ MapsExist'
  BY <1>1 DEF DTypeOK, Handling, MapsExist
<1>4. MarksTell'
  <2>1. \A p \in given' : p[1] \in Maps' /\ p[2] \in marks'[p[1]]
    BY <1>0, <1>1 DEF MarksTell
  <2>2. ASSUME NEW h \in Receivers, at'[h] = "marking"
        PROVE  arg'[h] \notin marks'[held'[h]]
    <3>1. h # g /\ at[h] = "marking" /\ arg'[h] = arg[h] /\ held'[h] = held[h]
      BY <2>2 DEF DTypeOK
    <3>2. held[h] \in Maps /\ Carrier[arg[h]] = h /\ arg[h] \notin marks[held[h]]
      BY <3>1 DEF Handling, MarksTell
    <3> QED BY <1>0, <1>1, <3>1, <3>2
  <2> QED BY <2>1, <2>2 DEF MarksTell
<1> QED BY <1>2, <1>3, <1>4

LEMMA CallbackStep ==
  ASSUME DInv, NEW n \in Nodes, Renew(n) \/ Forget(n) PROVE DInv'
<1> USE DEF DInv
<1>1. CASE Renew(n)
  <2>1. DTypeOK'
    BY <1>1, NewMap DEF Renew, DTypeOK
  <2>2. Handling' /\ MapsExist' /\ MarksTell'
    BY <1>1, NewMap DEF Renew, DTypeOK, Handling, MapsExist, MarksTell
  <2> QED BY <2>1, <2>2
<1>2. CASE Forget(n)
  BY <1>2 DEF Forget, DTypeOK, Handling, MapsExist, MarksTell, Maps
<1> QED BY <1>1, <1>2

LEMMA DStep == DInv /\ [DNext]_dvars => DInv'
<1> SUFFICES ASSUME DInv, [DNext]_dvars PROVE DInv'
  OBVIOUS
<1>1. CASE UNCHANGED dvars
  BY <1>1 DEF dvars, DInv, DTypeOK, Handling, MapsExist, MarksTell, Maps
<1> QED BY <1>1, LookUpStep, InstallStep, CheckStep, MarkStep, CallbackStep DEF DNext

\* The invariant of the delegate.
THEOREM DelegateInvariant == DSpec => []DInv
BY DInitInvariant, DStep, PTL DEF DSpec

\* However check and mark interleave with other receivers and with the callbacks
\* that replace maps, no frame is emitted twice through one map.
THEOREM FramesOncePerMap == DSpec => OncePerMap
<1>1. ASSUME DInv, [DNext]_dvars
      PROVE  [\A g \in Receivers : at[g] = "marking" /\ at'[g] = "idle"
                => <<held[g], arg[g]>> \notin given]_dvars
  <2>1. ASSUME NEW g \in Receivers, at[g] = "marking"
        PROVE  <<held[g], arg[g]>> \notin given
    BY <1>1, <2>1 DEF DInv, MarksTell
  <2> QED BY <2>1
<1> QED BY <1>1, DelegateInvariant, PTL DEF DSpec, OncePerMap
=============================================================================
