--------------------------- MODULE PaneLockProofs ---------------------------
(***************************************************************************)
(* Pane creation is exclusive and in order of arrival, and implements the  *)
(* line of PaneQueue, for every set of calls and every mix of failing and  *)
(* succeeding splits.                                                      *)
(***************************************************************************)
EXTENDS PaneLock, FiniteSetTheorems, SequenceTheorems, TLAPS

\* Promises are numbered by arrival, and one is resolved when its call is done.
Numbering ==
    /\ \A c \in Caller : /\ pc[c] = "idle" <=> promise[c] = 0
                         /\ promise[c] <= made
                         /\ promise[c] # 0 =>
                              (promise[c] \in resolved <=> pc[c] = "done")
    /\ \A c, d \in Caller : promise[c] = promise[d] /\ promise[c] # 0 => c = d
    /\ \A n \in resolved : n <= made

\* Promises resolve in order: a call inside, or done, has only resolved ones
\* before it.
InOrder ==
    /\ 0 \in resolved
    /\ \A n \in resolved, m \in Nat : m <= n => m \in resolved
    /\ \A c \in Caller : pc[c] \in Inside \cup {"done"} =>
         \A m \in Nat : m < promise[c] => m \in resolved

\* Only calls past their split have a pane, and panes are in order of arrival.
PaneInv ==
    /\ \A i \in DOMAIN panes : pc[panes[i]] \in {"settle", "finally", "done"}
    /\ PanesInOrder

IInv == TypeOK /\ Numbering /\ InOrder /\ PaneInv

LEMMA InitIInv == Init => IInv
  BY DEF Init, IInv, TypeOK, Numbering, InOrder, PaneInv, PanesInOrder, Pcs, Inside

LEMMA StepTypeOK == IInv /\ [Next]_vars => TypeOK'
<1> SUFFICES ASSUME TypeOK, [Next]_vars PROVE TypeOK'
  BY DEF IInv
<1> USE DEF TypeOK, At, Pcs, Inside
<1>1. ASSUME NEW c \in Caller, Enter(c) PROVE TypeOK'
  BY <1>1 DEF Enter
<1>2. ASSUME NEW c \in Caller, Start(c) \/ SplitFails(c) \/ Settle(c)
      PROVE TypeOK'
  BY <1>2 DEF Start, SplitFails, Settle
<1>3. ASSUME NEW c \in Caller, Split(c) PROVE TypeOK'
  BY <1>3 DEF Split
<1>4. ASSUME NEW c \in Caller, Release(c) PROVE TypeOK'
  BY <1>4 DEF Release
<1>5. CASE UNCHANGED vars
  BY <1>5 DEF vars
<1> QED
  BY <1>1, <1>2, <1>3, <1>4, <1>5 DEF Next, CallerStep

LEMMA StepNumbering == IInv /\ [Next]_vars => Numbering'
<1> SUFFICES ASSUME IInv, [Next]_vars PROVE Numbering'
  OBVIOUS
<1> USE DEF IInv, TypeOK, Numbering, At, Inside, Pcs
<1>1. ASSUME NEW c \in Caller, Enter(c) PROVE Numbering'
  BY <1>1 DEF Enter
<1>2. ASSUME NEW c \in Caller,
             Start(c) \/ Split(c) \/ SplitFails(c) \/ Settle(c)
      PROVE Numbering'
  BY <1>2 DEF Start, Split, SplitFails, Settle
<1>3. ASSUME NEW c \in Caller, Release(c) PROVE Numbering'
  BY <1>3 DEF Release
<1>4. CASE UNCHANGED vars
  BY <1>4 DEF vars
<1> QED
  BY <1>1, <1>2, <1>3, <1>4 DEF Next, CallerStep

LEMMA StepInOrder == IInv /\ [Next]_vars => InOrder'
<1> SUFFICES ASSUME IInv, [Next]_vars PROVE InOrder'
  OBVIOUS
<1> USE DEF IInv, TypeOK, Numbering, InOrder, At, Inside, Pcs
<1>1. ASSUME NEW c \in Caller, Enter(c) PROVE InOrder'
  BY <1>1 DEF Enter
<1>2. ASSUME NEW c \in Caller, Start(c) PROVE InOrder'
  BY <1>2 DEF Start
<1>3. ASSUME NEW c \in Caller, Split(c) \/ SplitFails(c) \/ Settle(c)
      PROVE InOrder'
  BY <1>3 DEF Split, SplitFails, Settle
<1>4. ASSUME NEW c \in Caller, Release(c) PROVE InOrder'
  BY <1>4 DEF Release
<1>5. CASE UNCHANGED vars
  BY <1>5 DEF vars
<1> QED
  BY <1>1, <1>2, <1>3, <1>4, <1>5 DEF Next, CallerStep

\* Two calls inside at once would each have resolved before the other.
LEMMA Exclusive == IInv => OneSplitAtATime
  BY DEF IInv, TypeOK, Numbering, InOrder, OneSplitAtATime, Inside

LEMMA StepPanes == IInv /\ [Next]_vars => PaneInv'
<1> SUFFICES ASSUME IInv, [Next]_vars PROVE PaneInv'
  OBVIOUS
<1> USE DEF IInv, TypeOK, Numbering, PaneInv, PanesInOrder, At, Inside, Pcs
<1>1. ASSUME NEW c \in Caller, Enter(c) PROVE PaneInv'
  <2>1. \A i \in DOMAIN panes : panes[i] \in Caller /\ panes[i] # c
    BY <1>1 DEF Enter
  <2> QED
    BY <1>1, <2>1 DEF Enter
<1>2. ASSUME NEW c \in Caller, Start(c) \/ SplitFails(c) \/ Settle(c)
      PROVE PaneInv'
  <2>1. UNCHANGED <<promise, panes>>
    BY <1>2 DEF Start, SplitFails, Settle
  <2>2. ASSUME NEW i \in DOMAIN panes
        PROVE pc'[panes[i]] \in {"settle", "finally", "done"}
    <3>1. panes[i] \in Caller
      OBVIOUS
    <3> QED
      BY <1>2, <3>1 DEF Start, SplitFails, Settle
  <2> QED
    BY <2>1, <2>2
<1>3. ASSUME NEW c \in Caller, Split(c) PROVE PaneInv'
  <2>1. ASSUME NEW i \in DOMAIN panes PROVE promise[panes[i]] < promise[c]
    <3>1. panes[i] \in Caller /\ panes[i] # c
      <4>1. panes[i] \in Caller
        BY <2>1
      <4>2. pc[c] = "split" /\ pc[panes[i]] \in {"settle", "finally", "done"}
        BY <1>3, <2>1 DEF Split
      <4> QED
        BY <4>1, <4>2
    <3>2. pc[c] = "split" /\ promise[c] # 0 /\ promise[c] \notin resolved
      BY <1>3 DEF Split
    <3>3. ~(promise[c] < promise[panes[i]])
      BY <3>1, <3>2 DEF InOrder
    <3>4. promise[c] # promise[panes[i]]
      BY <3>1, <3>2
    <3> QED
      BY <3>1, <3>3, <3>4
  <2> QED
    BY <1>3, <2>1 DEF Split
<1>4. ASSUME NEW c \in Caller, Release(c) PROVE PaneInv'
  BY <1>4 DEF Release
<1>5. CASE UNCHANGED vars
  BY <1>5 DEF vars
<1> QED
  BY <1>1, <1>2, <1>3, <1>4, <1>5 DEF Next, CallerStep

LEMMA Invariance == Spec => []IInv
<1>1. IInv /\ [Next]_vars => IInv'
  BY StepTypeOK, StepNumbering, StepInOrder, StepPanes DEF IInv
<1> QED
  BY <1>1, InitIInv, PTL DEF Spec

\* The variables keep their types.
THEOREM PaneLockTypes == Spec => []TypeOK
<1>1. IInv => TypeOK
  BY DEF IInv
<1> QED
  BY <1>1, Invariance, PTL

\* At most one call is between its split and the end of its settle delay.
THEOREM PaneExclusion == Spec => []OneSplitAtATime
  BY Invariance, Exclusive, PTL

\* Panes appear in the order in which their calls arrived.
THEOREM PaneOrder == Spec => []PanesInOrder
<1>1. IInv => PanesInOrder
  BY DEF IInv, PaneInv
<1> QED
  BY <1>1, Invariance, PTL

-----------------------------------------------------------------------------
\* The promises resolved are 0..k, for some k, and each of the others up to paneQueue
\* is some call's.
Consecutive ==
    /\ \E k \in Nat : k <= made /\ resolved = 0..k
    /\ \A n \in 1..made : \E c \in Caller : promise[c] = n

LEMMA InitConsecutive == Init => Consecutive
<1> SUFFICES ASSUME Init PROVE Consecutive
  OBVIOUS
<1>1. resolved = 0..0 /\ made = 0
  BY DEF Init
<1> QED
  BY <1>1 DEF Consecutive

LEMMA StepConsecutive == IInv /\ Consecutive /\ [Next]_vars => Consecutive'
<1> SUFFICES ASSUME IInv, Consecutive, [Next]_vars PROVE Consecutive'
  OBVIOUS
<1> USE DEF IInv, TypeOK, Numbering, InOrder, Consecutive, At, Inside, Pcs
<1>1. ASSUME NEW c \in Caller, Enter(c) PROVE Consecutive'
  <2>1. made' = made + 1 /\ UNCHANGED resolved /\ promise'[c] = made + 1
    BY <1>1 DEF Enter
  <2>2. ASSUME NEW n \in 1..made' PROVE \E d \in Caller : promise'[d] = n
    <3>1. CASE n = made + 1
      BY <2>1, <3>1
    <3>2. CASE n \in 1..made
      <4>1. PICK d \in Caller : promise[d] = n
        BY <3>2
      <4>2. d # c
        BY <1>1, <3>2, <4>1 DEF Enter
      <4> QED
        BY <1>1, <4>1, <4>2 DEF Enter
    <3> QED
      BY <2>1, <3>1, <3>2
  <2> QED
    BY <2>1, <2>2
<1>2. ASSUME NEW c \in Caller,
             Start(c) \/ Split(c) \/ SplitFails(c) \/ Settle(c)
      PROVE Consecutive'
  BY <1>2 DEF Start, Split, SplitFails, Settle
<1>3. ASSUME NEW c \in Caller, Release(c) PROVE Consecutive'
  <2>1. PICK k \in Nat : k <= made /\ resolved = 0..k
    OBVIOUS
  <2>2. promise[c] = k + 1 /\ promise[c] <= made
    BY <1>3, <2>1 DEF Release
  <2>3. resolved' = 0..(k + 1) /\ UNCHANGED <<made, promise>>
    BY <1>3, <2>1, <2>2 DEF Release
  <2> QED
    BY <2>1, <2>2, <2>3
<1>4. CASE UNCHANGED vars
  BY <1>4 DEF vars
<1> QED
  BY <1>1, <1>2, <1>3, <1>4 DEF Next, CallerStep

\* Line, when the promises up to k are resolved: the calls from the one whose promise is
\* the next, and nobody but that one is inside.
LineIs(k) ==
    /\ k <= made /\ resolved = 0..k
    /\ Line \in Seq(Caller) /\ Len(Line) = made - k
    /\ \A i \in 1..(made - k) : promise[Line[i]] = i + k
    /\ \A c \in Caller : pc[c] \in Inside => promise[c] = k + 1

LineStands == \E k \in Nat : LineIs(k)

LEMMA LineFacts == IInv /\ Consecutive => LineStands
<1> SUFFICES ASSUME IInv, Consecutive PROVE LineStands
  OBVIOUS
<1>1. PICK k \in Nat : k <= made /\ resolved = 0..k
  BY DEF Consecutive
<1>2. Cardinality(resolved) = k + 1
  BY <1>1, FS_Interval
<1>3. made \in Nat
  BY DEF IInv, TypeOK
<1>4. Line = [i \in 1..(made - k) |-> CHOOSE c \in Caller : promise[c] = i + k]
  <2>1. made + 1 - Cardinality(resolved) = made - k
    BY <1>2, <1>3
  <2>2. \A i \in 1..(made - k) : i + Cardinality(resolved) - 1 = i + k
    BY <1>2, <1>3
  <2> QED
    BY <2>1, <2>2 DEF Line
<1>5. ASSUME NEW i \in 1..(made - k)
      PROVE  Line[i] \in Caller /\ promise[Line[i]] = i + k
  <2>1. \E c \in Caller : promise[c] = i + k
    BY <1>3 DEF Consecutive
  <2> QED
    BY <1>4, <2>1
<1>6. Line \in Seq(Caller) /\ Len(Line) = made - k
  BY <1>1, <1>3, <1>4, <1>5
<1>7. ASSUME NEW c \in Caller, pc[c] \in Inside PROVE promise[c] = k + 1
  BY <1>1, <1>7 DEF IInv, TypeOK, Numbering, InOrder, Inside
<1> QED
  BY <1>1, <1>5, <1>6, <1>7 DEF LineIs, LineStands

\* Two states with the same promises and the same unresolved ones have the same line.
LEMMA LineStays == IInv /\ UNCHANGED <<made, promise, resolved>> => UNCHANGED Line
  BY DEF Line

\* Every step of the calls is one of the line, or none.
LEMMA StepLine ==
    IInv /\ IInv' /\ LineStands /\ LineStands' /\ [Next]_vars
      => [Queue!LineNext]_Queue!lineVars
<1> SUFFICES ASSUME IInv, IInv', LineStands, LineStands', [Next]_vars
             PROVE  [Queue!LineNext]_Queue!lineVars
  OBVIOUS
<1> DEFINE Served == {c \in Caller : pc[c] \in Inside}
<1>1. PICK k \in Nat : LineIs(k)
  BY DEF LineStands
<1>2. PICK m \in Nat : LineIs(m)'
  BY DEF LineStands
<1>3. made \in Nat /\ made' \in Nat
  BY DEF IInv, TypeOK
<1>4. ASSUME NEW c \in Caller, Enter(c) PROVE Queue!Join(c)
  <2>1. made' = made + 1 /\ UNCHANGED resolved /\ promise'[c] = made + 1
    BY <1>4 DEF Enter, IInv, TypeOK
  <2>2. m = k
    BY <1>1, <1>2, <2>1 DEF LineIs
  <2>3. ASSUME NEW i \in 1..(made - k) PROVE Line'[i] = Line[i]
    <3>1. Line[i] \in Caller /\ promise[Line[i]] = i + k
      BY <1>1 DEF LineIs
    <3>2. Line'[i] \in Caller /\ promise'[Line'[i]] = i + k
      BY <1>2, <1>3, <2>1, <2>2 DEF LineIs
    <3>3. Line[i] # c
      BY <1>4, <3>1 DEF Enter, At, IInv, Numbering
    <3>4. promise'[Line[i]] = i + k
      BY <1>4, <3>1, <3>3 DEF Enter, IInv, TypeOK
    <3> QED
      BY <3>1, <3>2, <3>4 DEF IInv, TypeOK, Numbering
  <2>4. Line'[made + 1 - k] = c
    <3>1. /\ Line'[made + 1 - k] \in Caller
          /\ promise'[Line'[made + 1 - k]] = made + 1
      BY <1>1, <1>2, <1>3, <2>1, <2>2 DEF LineIs
    <3> QED
      BY <2>1, <3>1, <1>3 DEF IInv, TypeOK, Numbering
  <2>5. Line' = Append(Line, c)
    <3>1. Line \in Seq(Caller) /\ Line' \in Seq(Caller) /\ Len(Line) = made - k
      BY <1>1, <1>2 DEF LineIs
    <3>2. Len(Line') = Len(Line) + 1 /\ made + 1 - k = Len(Line) + 1
      BY <1>2, <1>3, <2>1, <2>2, <3>1 DEF LineIs
    <3>3. /\ Append(Line, c) \in Seq(Caller) /\ Len(Append(Line, c)) = Len(Line) + 1
          /\ \A i \in 1..Len(Line) : Append(Line, c)[i] = Line[i]
          /\ Append(Line, c)[Len(Line) + 1] = c
      BY <3>1, AppendProperties
    <3>4. \A i \in 1..Len(Line') : Line'[i] = Append(Line, c)[i]
      BY <2>3, <2>4, <3>1, <3>2, <3>3
    <3> QED
      BY <3>1, <3>2, <3>3, <3>4, SeqEqual
  <2>6. UNCHANGED Served
    BY <1>4 DEF Enter, At, Inside, IInv, TypeOK
  <2> QED
    BY <2>5, <2>6 DEF Queue!Join
<1>5. ASSUME NEW c \in Caller, Start(c) PROVE Queue!Serve
  <2>1. promise[c] = k + 1 /\ k + 1 <= made
    <3>1. promise[c] \in Nat /\ promise[c] # 0 /\ promise[c] <= made /\ promise[c] \notin resolved
      BY <1>5 DEF Start, At, IInv, TypeOK, Numbering
    <3> QED
      BY <1>1, <1>5, <3>1 DEF Start, LineIs
  <2>2. Head(Line) = c /\ Line # <<>>
    <3>1. Line # <<>> /\ Line[1] \in Caller /\ promise[Line[1]] = k + 1
      BY <1>1, <1>3, <2>1 DEF LineIs
    <3> QED
      BY <1>1, <2>1, <3>1 DEF IInv, Numbering, LineIs
  <2>3. \A d \in Caller : pc[d] \in Inside => d = c
    BY <1>1, <2>1 DEF LineIs, IInv, Numbering
  <2>4. pc[c] = "waiting" /\ pc' = [pc EXCEPT ![c] = "split"]
    BY <1>5 DEF Start, At
  <2>5. Served = {} /\ Served' = {c}
    BY <2>3, <2>4 DEF Inside, IInv, TypeOK
  <2>6. UNCHANGED Line
    BY <1>5, LineStays DEF Start
  <2> QED
    BY <2>2, <2>5, <2>6 DEF Queue!Serve
<1>6. ASSUME NEW c \in Caller, Split(c) \/ SplitFails(c) \/ Settle(c)
      PROVE  UNCHANGED Queue!lineVars
  <2>1. UNCHANGED Served
    BY <1>6 DEF Split, SplitFails, Settle, At, Inside, IInv, TypeOK
  <2>2. UNCHANGED Line
    BY <1>6, LineStays DEF Split, SplitFails, Settle
  <2> QED
    BY <2>1, <2>2 DEF Queue!lineVars
<1>7. ASSUME NEW c \in Caller, Release(c) PROVE Queue!Leave
  <2>1. promise[c] = k + 1 /\ k + 1 <= made
    BY <1>1, <1>7 DEF Release, At, Inside, LineIs, IInv, Numbering
  <2>2. UNCHANGED <<made, promise>> /\ resolved' = resolved \cup {k + 1}
    BY <1>7, <2>1 DEF Release
  <2>3. m = k + 1
    <3>1. 0..m = (0..k) \cup {k + 1}
      BY <1>1, <1>2, <2>2 DEF LineIs
    <3> QED
      BY <3>1
  <2>4. ASSUME NEW i \in 1..(made - m) PROVE Line'[i] = Line[i + 1]
    <3>1. Line[i + 1] \in Caller /\ promise[Line[i + 1]] = i + 1 + k
      BY <1>1, <1>3, <2>3 DEF LineIs
    <3>2. Line'[i] \in Caller /\ promise[Line'[i]] = i + m
      BY <1>2, <1>3, <2>2 DEF LineIs
    <3> QED
      BY <2>3, <3>1, <3>2 DEF IInv, TypeOK, Numbering
  <2>5. Line' = Tail(Line)
    <3>1. Line \in Seq(Caller) /\ Line' \in Seq(Caller) /\ Line # <<>>
      BY <1>1, <1>2, <1>3, <2>1 DEF LineIs
    <3>2. Len(Line') = made - m /\ Len(Line) - 1 = made - m
      BY <1>1, <1>2, <1>3, <2>2, <2>3 DEF LineIs
    <3>3. /\ Tail(Line) \in Seq(Caller) /\ Len(Tail(Line)) = Len(Line) - 1
          /\ \A i \in 1..Len(Tail(Line)) : Tail(Line)[i] = Line[i + 1]
      BY <3>1, HeadTailProperties
    <3>4. \A i \in 1..Len(Line') : Line'[i] = Tail(Line)[i]
      BY <2>4, <3>2, <3>3
    <3> QED
      BY <3>1, <3>2, <3>3, <3>4, SeqEqual
  <2>6. pc[c] = "finally" /\ pc' = [pc EXCEPT ![c] = "done"]
    BY <1>7 DEF Release, At
  <2>7. \A d \in Caller : pc[d] \in Inside => d = c
    BY <1>1, <2>1 DEF LineIs, IInv, Numbering
  <2>8. c \in Served /\ Served' = {}
    BY <2>6, <2>7 DEF Inside, IInv, TypeOK
  <2> QED
    BY <2>5, <2>8 DEF Queue!Leave
<1>8. CASE UNCHANGED vars
  BY <1>8, LineStays DEF vars, Queue!lineVars
<1> QED
  BY <1>4, <1>5, <1>6, <1>7, <1>8 DEF Next, CallerStep, Queue!LineNext

\* withPaneLock is a line: whoever comes first is served first, one at a time, and makes
\* room for the next whatever becomes of its split.
THEOREM PaneLockIsALine == Spec => ImplementsLine
<1>1. Init => Queue!LineInit
  <2> SUFFICES ASSUME Init PROVE Queue!LineInit
    OBVIOUS
  <2>1. Cardinality(resolved) = 1
    BY FS_Singleton DEF Init
  <2>2. Line = <<>>
    BY <2>1 DEF Init, Line
  <2>3. {c \in Caller : pc[c] \in Inside} = {}
    BY DEF Init, Inside
  <2> QED
    BY <2>2, <2>3 DEF Queue!LineInit
<1>2. Spec => []Consecutive
  BY InitConsecutive, StepConsecutive, Invariance, PTL DEF Spec
<1>3. Spec => [](IInv /\ LineStands)
  BY <1>2, LineFacts, Invariance, PTL
<1> QED
  BY <1>1, <1>3, StepLine, PTL DEF Spec, ImplementsLine, Queue!LineSpec
=============================================================================
