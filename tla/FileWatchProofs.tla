-------------------------- MODULE FileWatchProofs --------------------------
(***************************************************************************)
(* Proof that a FileSource loses no write, for any contents (they may come *)
(* back) and any number of onChange calls in flight.                       *)
(***************************************************************************)
EXTENDS FileWatch, TLAPS

USE DEF Content

\* NoWriteLost is inductive: a reload reads the file after it stopped counting
\* as owed, and any later write makes another one owed.
IInv == TypeOK /\ NoWriteLost

\* Types are kept by every step.
LEMMA TypeStep == TypeOK /\ [Next]_vars => TypeOK'
<1> SUFFICES ASSUME TypeOK, [Next]_vars PROVE TypeOK'
    OBVIOUS
<1> USE FileWatchAssumption
<1>1. ASSUME NEW c \in Content, Write(c) PROVE TypeOK'
    BY <1>1 DEF TypeOK, Write
<1>2. CASE Setup \/ Event \/ Return
    BY <1>2 DEF TypeOK, Setup, Event, Return
<1>3. CASE Fire
  <2>1. running' \in 0 .. MaxRunning
      BY <1>3 DEF TypeOK, Fire
  <2> QED
      BY <1>3, <2>1 DEF TypeOK, Fire
<1>4. ASSUME NEW r \in {"timer", "manual"}, BeginReload(r) PROVE TypeOK'
    BY <1>4 DEF TypeOK, BeginReload
<1>5. CASE Applied \/ NotApplied
    BY <1>5 DEF TypeOK, Applied, NotApplied
<1>6. CASE UNCHANGED vars
    BY <1>6 DEF TypeOK, vars
<1> QED
    BY <1>1, <1>2, <1>3, <1>4, <1>5, <1>6 DEF Next

\* Every step keeps the debt: what leaves the file unread owes a read.
LEMMA LostStep == IInv /\ [Next]_vars => NoWriteLost'
<1> SUFFICES ASSUME TypeOK, NoWriteLost, [Next]_vars PROVE NoWriteLost'
    BY DEF IInv
<1>0. running \in Int /\ running >= 0
    BY DEF TypeOK
<1>1. ASSUME NEW c \in Content, Write(c) PROVE NoWriteLost'
    BY <1>1 DEF NoWriteLost, Owed, Write
<1>2. CASE Setup \/ Event \/ Return
    BY <1>2 DEF NoWriteLost, Owed, Setup, Event, Return
<1>3. CASE Fire
    BY <1>0, <1>3 DEF NoWriteLost, Owed, Fire
<1>4. ASSUME NEW r \in {"timer", "manual"}, BeginReload(r)
      PROVE  NoWriteLost'
    BY <1>4 DEF NoWriteLost, Owed, BeginReload
<1>5. CASE Applied \/ NotApplied
    BY <1>5 DEF NoWriteLost, Owed, Applied, NotApplied
<1>6. CASE UNCHANGED vars
    BY <1>6 DEF NoWriteLost, Owed, vars
<1> QED
    BY <1>1, <1>2, <1>3, <1>4, <1>5, <1>6 DEF Next

\* The invariant, of every behaviour.
LEMMA Inductive == Spec => []IInv
<1>1. Init => IInv
  <2>1. 0 \in Content /\ 0 \in 0 .. MaxRunning
      BY FileWatchAssumption
  <2> QED
      BY <2>1 DEF Init, IInv, TypeOK, NoWriteLost
<1>2. IInv /\ [Next]_vars => IInv'
    BY TypeStep, LostStep DEF IInv
<1> QED
    BY <1>1, <1>2, PTL DEF Spec

\* Types, and the bound on the onChange calls in flight (file.go:71-99).
THEOREM TypeCorrect == Spec => []TypeOK
BY Inductive, PTL DEF IInv

\* No write is lost: not one before the watch is set up, nor one that lands
\* while a reload runs or a timer is re-armed (file.go:71-99).
THEOREM NothingLost == Spec => []NoWriteLost
BY Inductive, PTL DEF IInv
=============================================================================
