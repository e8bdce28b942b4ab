------------------------ MODULE SecretResolveProofs ------------------------
(***************************************************************************)
(* Proofs of the safety properties of module SecretResolve, for any number *)
(* of secret names and any size of the semaphore.                          *)
(***************************************************************************)
EXTENDS SecretResolve, FiniteSetTheorems, TLAPS

USE DEF Points

\* Types are kept by every step.
LEMMA TypeStep == TypeOK /\ [Next]_vars => TypeOK'
<1> SUFFICES ASSUME TypeOK, [Next]_vars PROVE TypeOK'
    OBVIOUS
<1>1. CASE ParentDone
    BY <1>1 DEF TypeOK, ParentDone
<1>2. CASE Return
    BY <1>2 DEF TypeOK, Return
<1>3. ASSUME NEW n \in Names, Goroutine(n) PROVE TypeOK'
  <2>1. CASE Admit(n)
      BY <2>1 DEF TypeOK, Admit
  <2>2. CASE Call(n)
      BY <2>2 DEF TypeOK, Call
  <2>3. CASE Skip(n)
      BY <2>3 DEF TypeOK, Skip, Finish, Fail
  <2>4. CASE Answers(n)
      BY <2>4 DEF TypeOK, Answers, Finish
  <2>5. CASE Refuses(n)
      BY <2>5 DEF TypeOK, Refuses, Finish, Fail
  <2> QED
      BY <1>3, <2>1, <2>2, <2>3, <2>4, <2>5 DEF Goroutine
<1>4. CASE UNCHANGED vars
    BY <1>4 DEF TypeOK, vars
<1> QED
    BY <1>1, <1>2, <1>3, <1>4 DEF Next

\* A goroutine that ends gives one slot back.
LEMMA FinishSlots ==
    ASSUME TypeOK, SlotsHeld, NEW n \in Names, Finish(n)
    PROVE  SlotsHeld'
<1> USE SecretResolveAssumption
<1>1. IsFiniteSet(slots)
    BY FS_Subset DEF TypeOK
<1>2. /\ slots' \subseteq slots
      /\ IsFiniteSet(slots') /\ Cardinality(slots') <= Cardinality(slots)
    BY <1>1, FS_Subset DEF Finish
<1>3. Cardinality(slots) \in Nat /\ Cardinality(slots') \in Nat
    BY <1>1, <1>2, FS_CardinalityType
<1>4. Cardinality(slots') <= Slots
    BY <1>2, <1>3 DEF SlotsHeld
<1>5. \A m \in Names : at'[m] \in {"admitted", "calling"} => m \in slots'
    BY DEF TypeOK, SlotsHeld, Finish
<1> QED
    BY <1>4, <1>5 DEF SlotsHeld

\* The semaphore admits a goroutine only while a slot is free.
LEMMA SlotsStep == TypeOK /\ SlotsHeld /\ [Next]_vars => SlotsHeld'
<1> SUFFICES ASSUME TypeOK, SlotsHeld, [Next]_vars PROVE SlotsHeld'
    OBVIOUS
<1> USE SecretResolveAssumption
<1>1. CASE ParentDone
    BY <1>1 DEF SlotsHeld, ParentDone
<1>2. CASE Return
    BY <1>2 DEF SlotsHeld, Return
<1>3. ASSUME NEW n \in Names, Goroutine(n) PROVE SlotsHeld'
  <2>1. CASE Admit(n)
    <3>1. IsFiniteSet(slots)
        BY FS_Subset DEF TypeOK
    <3>2. Cardinality(slots) \in Nat
        BY <3>1, FS_CardinalityType
    <3>3. \/ Cardinality(slots') = Cardinality(slots)
          \/ Cardinality(slots') = Cardinality(slots) + 1
        BY <2>1, <3>1, FS_AddElement DEF Admit
    <3>4. Cardinality(slots') <= Slots
        BY <2>1, <3>2, <3>3 DEF Admit
    <3>5. \A m \in Names : at'[m] \in {"admitted", "calling"} => m \in slots'
        BY <2>1 DEF TypeOK, SlotsHeld, Admit
    <3> QED
        BY <3>4, <3>5 DEF SlotsHeld
  <2>2. CASE Call(n)
      BY <2>2 DEF TypeOK, SlotsHeld, Call
  <2>3. CASE Skip(n) \/ Answers(n) \/ Refuses(n)
      BY <2>3, FinishSlots DEF Skip, Answers, Refuses
  <2> QED
      BY <1>3, <2>1, <2>2, <2>3 DEF Goroutine
<1>4. CASE UNCHANGED vars
    BY <1>4 DEF SlotsHeld, vars
<1> QED
    BY <1>1, <1>2, <1>3, <1>4 DEF Next

\* The first failure stays the one reported, and it is nobody's consequence.
LEMMA ReportedStep == TypeOK /\ Reported /\ [Next]_vars => Reported'
<1> SUFFICES ASSUME TypeOK, Reported, [Next]_vars PROVE Reported'
    OBVIOUS
<1> USE SecretResolveAssumption
<1>1. CASE ParentDone
    BY <1>1 DEF Reported, ParentDone
<1>2. CASE Return
    BY <1>2 DEF TypeOK, Reported, Return
<1>3. ASSUME NEW n \in Names, Goroutine(n) PROVE Reported'
  <2>1. CASE Admit(n)
      BY <2>1 DEF TypeOK, Reported, Admit
  <2>2. CASE Call(n)
      BY <2>2 DEF TypeOK, Reported, Call
  <2>3. CASE Skip(n)
      BY <2>3 DEF TypeOK, Reported, Skip, Finish, Fail
  <2>4. CASE Answers(n)
      BY <2>4 DEF TypeOK, Reported, Answers, Finish
  <2>5. CASE Refuses(n)
      BY <2>5 DEF TypeOK, Reported, Refuses, Finish, Fail
  <2> QED
      BY <1>3, <2>1, <2>2, <2>3, <2>4, <2>5 DEF Goroutine
<1>4. CASE UNCHANGED vars
    BY <1>4 DEF Reported, vars
<1> QED
    BY <1>1, <1>2, <1>3, <1>4 DEF Next

\* The invariant of one call of resolveSecrets.
THEOREM Inductive == Spec => []IInv
<1>1. Init => IInv
  <2> SUFFICES ASSUME Init PROVE IInv
      OBVIOUS
  <2>1. TypeOK /\ Reported
      BY DEF Init, TypeOK, Reported
  <2>2. Cardinality(slots) = 0
      BY FS_EmptySet DEF Init
  <2>3. SlotsHeld
      BY <2>2, SecretResolveAssumption DEF Init, SlotsHeld
  <2> QED
      BY <2>1, <2>3 DEF IInv
<1>2. IInv /\ [Next]_vars => IInv'
    BY TypeStep, SlotsStep, ReportedStep DEF IInv
<1> QED
    BY <1>1, <1>2, PTL DEF Spec

\* Types: the failure that is reported is a name of the document.
THEOREM TypeCorrect == Spec => []TypeOK
BY Inductive, PTL DEF IInv

\* No more than maxConcurrentResolves calls of the resolver run at once
\* (secretref.go:473-478), whatever fails and whenever the context is done.
THEOREM Bounded == Spec => []AtMostSlots
<1>1. IInv => AtMostSlots
  <2> SUFFICES ASSUME IInv PROVE AtMostSlots
      OBVIOUS
  <2> DEFINE C == {n \in Names : at[n] = "calling"}
  <2>1. IsFiniteSet(slots)
      BY FS_Subset, SecretResolveAssumption DEF IInv, TypeOK
  <2>2. C \subseteq slots
      BY DEF IInv, SlotsHeld
  <2>3. IsFiniteSet(C) /\ Cardinality(C) <= Cardinality(slots)
      BY <2>1, <2>2, FS_Subset
  <2>4. Cardinality(C) \in Nat /\ Cardinality(slots) \in Nat
      BY <2>1, <2>3, FS_CardinalityType
  <2> QED
      BY <2>3, <2>4, SecretResolveAssumption DEF IInv, SlotsHeld, AtMostSlots
<1> QED
    BY Inductive, <1>1, PTL

\* The failure reported is never the consequence of another one: cancellation is
\* the reason only when the caller cancelled (secretref.go:459-470).
THEOREM FirstCause == Spec => []CauseIsFirst
<1>1. IInv => CauseIsFirst
    BY DEF IInv, Reported, CauseIsFirst
<1> QED
    BY Inductive, <1>1, PTL

\* Either every name has its value or an error is returned
\* (secretref.go:498-506).
THEOREM Complete == Spec => []AllOrNothing
<1>1. IInv => AllOrNothing
    BY DEF IInv, Reported, AllOrNothing
<1> QED
    BY Inductive, <1>1, PTL
=============================================================================
