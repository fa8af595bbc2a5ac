-------------------------- MODULE TaskSlotsProofs --------------------------
(***************************************************************************)
(* The slot table never loses a slot, never issues one twice and always    *)
(* finds the cell of an operation in flight, for every capacity and every  *)
(* number of operations.                                                   *)
(***************************************************************************)
EXTENDS TaskSlots, FiniteSetTheorems, TLAPS

USE WordsAssumption, WordBitsAssumption, FallbackSizeAssumption,
    CellsAssumption, MaxAddsAssumption

\* The caller of Add has a cell in hand from the call to the return.
ArgInv == adder # "idle" => arg \in Cells

IInv == TypeOK /\ ArgInv /\ GetReturnsIssued /\ NoSlotLost /\ LedgerBalances

(***************************************************************************)
(* Arithmetic of the ring.                                                 *)
(***************************************************************************)

\* The ring and every part of it are finite, and it has Cap slots.
LEMMA RingFinite ==
  /\ Cap \in Nat \ {0}
  /\ Cardinality(Ring) = Cap
  /\ \A S \in SUBSET Ring : IsFiniteSet(S) /\ Cardinality(S) \in Nat /\ Cardinality(S) <= Cap
<1>1. Cap \in Nat \ {0}
  BY DEF Cap
<1>2. IsFiniteSet(Ring) /\ Cardinality(Ring) = Cap
  BY <1>1, FS_Interval DEF Ring
<1>3. \A S \in SUBSET Ring : IsFiniteSet(S) /\ Cardinality(S) <= Cap
  BY <1>2, FS_Subset
<1> QED
  BY <1>1, <1>2, <1>3, FS_CardinalityType

\* A map index is past the ring.
LEMMA SpillPastRing ==
  /\ Ring \cap Spill = {}
  /\ \A n \in 0 .. FallbackSize - 1 : Cap + n \in Spill
  BY RingFinite DEF Ring, Spill

\* The initial table satisfies the invariant.
LEMMA InitIInv == Init => IInv
<1> SUFFICES ASSUME Init PROVE IInv
  OBVIOUS
<1>1. TypeOK
  BY RingFinite DEF Init, TypeOK
<1>2. ArgInv /\ GetReturnsIssued
  BY DEF Init, ArgInv, GetReturnsIssued
<1>3. NoSlotLost
  BY DEF Init, NoSlotLost, Live, Indices
<1>4. LedgerBalances
  BY RingFinite, FS_EmptySet DEF Init, LedgerBalances
<1> QED
  BY <1>1, <1>2, <1>3, <1>4 DEF IInv

(***************************************************************************)
(* Steps.                                                                  *)
(***************************************************************************)

\* The slot AddHot takes is a zero bit of a word of the ring.
LEMMA FreeSlot ==
  ASSUME TypeOK, NEW i \in Word(wave) \ bitmap
  PROVE  i \in Ring /\ i \notin bitmap
  BY DEF Word

\* A step keeps the table well typed, and its caller a cell in hand.
LEMMA TypeStep == IInv /\ [Next]_vars => TypeOK' /\ ArgInv'
<1> SUFFICES ASSUME TypeOK, ArgInv, [Next]_vars PROVE TypeOK' /\ ArgInv'
  BY DEF IInv
<1> USE DEF ringVars, fallbackVars, delVars, callVars, Return, ArgInv
<1>1. ASSUME NEW c \in Cells, AddCall(c) PROVE TypeOK' /\ ArgInv'
  BY <1>1 DEF TypeOK, AddCall
<1>2. CASE AddGate
  BY <1>2 DEF TypeOK, AddGate
<1>3. CASE AddSpill
  <2>1. Cap + fallbackWave \in Spill /\ Cap + fallbackWave \in Indices
    BY SpillPastRing DEF TypeOK, Indices
  <2>2. fallbackWave' \in 0 .. FallbackSize - 1
    BY <1>3 DEF TypeOK, AddSpill
  <2>3. arg \in Cells
    BY <1>3 DEF AddSpill
  <2> QED
    BY <1>3, <2>1, <2>2, <2>3 DEF TypeOK, AddSpill
<1>4. CASE AddSpillTaken
  BY <1>4 DEF TypeOK, AddSpillTaken
<1>5. CASE AddHot
  <2>1. PICK i \in Word(wave) \ bitmap :
          /\ bitmap' = bitmap \cup {i}
          /\ tasks' = [tasks EXCEPT ![i] = arg]
          /\ Return(i)
    BY <1>5 DEF AddHot
  <2>2. i \in Ring /\ i \in Indices /\ arg \in Cells
    BY <1>5, <2>1, FreeSlot DEF Indices, AddHot
  <2> QED
    BY <1>5, <2>1, <2>2 DEF TypeOK, AddHot
<1>6. CASE AddLook
  <2>1. (wave + 1) % Words \in 0 .. Words - 1
    BY DEF TypeOK
  <2>2. wave' \in 0 .. Words - 1 /\ adder' \in {"scan", "sync"} /\ arg \in Cells
    BY <1>6, <2>1 DEF AddLook, TypeOK
  <2> QED
    BY <1>6, <2>2 DEF TypeOK, AddLook
<1>7. CASE SyncWord
  <2>1. Cardinality(pollerBitmap \cap Word(wave)) \in Nat
    BY RingFinite DEF TypeOK
  <2> QED
    BY <1>7, <2>1 DEF TypeOK, SyncWord
<1>8. ASSUME NEW i \in Indices, DelRing(i) PROVE TypeOK' /\ ArgInv'
  BY <1>8 DEF TypeOK, DelRing
<1>9. ASSUME NEW i \in Indices, DelSpill(i) PROVE TypeOK' /\ ArgInv'
  BY <1>9 DEF TypeOK, DelSpill
<1>10. CASE DelCount
  BY <1>10 DEF TypeOK, DelCount
<1>11. CASE UNCHANGED vars
  BY <1>11 DEF TypeOK, vars
<1> QED
  BY <1>1, <1>2, <1>3, <1>4, <1>5, <1>6, <1>7, <1>8, <1>9, <1>10, <1>11
     DEF Next, Add, Del

\* A step leaves every issued index with its cell and every slot in one place.
LEMMA SlotStep == IInv /\ [Next]_vars => GetReturnsIssued' /\ NoSlotLost'
<1> SUFFICES ASSUME TypeOK, ArgInv, GetReturnsIssued, NoSlotLost, [Next]_vars
             PROVE  GetReturnsIssued' /\ NoSlotLost'
  BY DEF IInv
<1> USE DEF ringVars, fallbackVars, delVars, callVars, Return, GetReturnsIssued,
            NoSlotLost, Live, Get
<1>r. Ring \subseteq Indices /\ Spill \subseteq Indices /\ Ring \cap Spill = {}
  BY SpillPastRing DEF Indices
<1>1. ASSUME NEW c \in Cells, AddCall(c) PROVE GetReturnsIssued' /\ NoSlotLost'
  BY <1>1 DEF AddCall
<1>2. CASE AddGate
  BY <1>2 DEF AddGate
<1>3. CASE AddSpill
  <2>1. Cap + fallbackWave \in Spill /\ Cap + fallbackWave \notin Ring
    BY <1>r, SpillPastRing DEF TypeOK
  <2>2. arg \in Cells
    BY <1>3 DEF AddSpill, ArgInv
  <2>3. \A i \in Ring : inFlight'[i] = inFlight[i]
    BY <1>3, <1>r, <2>1 DEF AddSpill, TypeOK
  <2>4. GetReturnsIssued'
    BY <1>3, <1>r, <2>1, <2>2, <2>3 DEF AddSpill, TypeOK, Indices
  <2> QED
    BY <1>3, <2>3, <2>4 DEF AddSpill
<1>4. CASE AddSpillTaken
  BY <1>4 DEF AddSpillTaken
<1>5. CASE AddHot
  <2>1. PICK i \in Word(wave) \ bitmap :
          /\ bitmap' = bitmap \cup {i}
          /\ tasks' = [tasks EXCEPT ![i] = arg]
          /\ Return(i)
    BY <1>5 DEF AddHot
  <2>2. i \in Ring /\ i \notin bitmap /\ i \in Indices /\ arg \in Cells
    BY <1>5, <1>r, <2>1, FreeSlot DEF AddHot, ArgInv
  <2>3. arg # None
    BY <2>2
  <2>4. inFlight'[i] = arg /\ \A j \in Indices \ {i} : inFlight'[j] = inFlight[j]
    BY <2>1, <2>2 DEF TypeOK
  <2>5. Live' = Live \cup {i}
    BY <1>r, <2>2, <2>3, <2>4
  <2>6. GetReturnsIssued'
    BY <1>5, <2>1, <2>2, <2>4 DEF AddHot, TypeOK
  <2>7. pollerBitmap' = pollerBitmap
    BY <1>5 DEF AddHot
  <2> QED
    BY <2>1, <2>2, <2>5, <2>6, <2>7
<1>6. CASE AddLook
  BY <1>6 DEF AddLook
<1>7. CASE SyncWord
  <2>1. inFlight' = inFlight /\ tasks' = tasks /\ fallback' = fallback
    BY <1>7 DEF SyncWord
  <2>2. bitmap' = bitmap \ (pollerBitmap \cap Word(wave))
    BY <1>7 DEF SyncWord
  <2>3. pollerBitmap' = pollerBitmap \ Word(wave)
    BY <1>7 DEF SyncWord
  <2> QED
    BY <1>r, <2>1, <2>2, <2>3 DEF TypeOK
<1>8. ASSUME NEW i \in Indices, DelRing(i) PROVE GetReturnsIssued' /\ NoSlotLost'
  <2>1. Live' = Live \ {i} /\ i \in Live
    BY <1>8, <1>r DEF DelRing, TypeOK
  <2> QED
    BY <1>8, <2>1 DEF DelRing, TypeOK
<1>9. ASSUME NEW i \in Indices, DelSpill(i) PROVE GetReturnsIssued' /\ NoSlotLost'
  <2>1. i \in Spill /\ i \notin Ring
    BY <1>9, <1>r DEF DelSpill
  <2>2. \A j \in Ring : inFlight'[j] = inFlight[j]
    BY <1>9, <1>r, <2>1 DEF DelSpill, TypeOK
  <2> QED
    BY <1>9, <1>r, <2>1, <2>2 DEF DelSpill, TypeOK, Indices
<1>10. CASE DelCount
  BY <1>10 DEF DelCount
<1>11. CASE UNCHANGED vars
  BY <1>11 DEF vars
<1> QED
  BY <1>1, <1>2, <1>3, <1>4, <1>5, <1>6, <1>7, <1>8, <1>9, <1>10, <1>11
     DEF Next, Add, Del

\* A step keeps the counters in balance with the bits.
LEMMA LedgerStep == IInv /\ [Next]_vars => LedgerBalances'
<1> SUFFICES ASSUME TypeOK, ArgInv, NoSlotLost, LedgerBalances, [Next]_vars
             PROVE  LedgerBalances'
  BY DEF IInv
<1> USE DEF ringVars, fallbackVars, delVars, callVars, Return
<1>f. /\ IsFiniteSet(bitmap) /\ Cardinality(bitmap) \in Nat
      /\ IsFiniteSet(pollerBitmap) /\ Cardinality(pollerBitmap) \in Nat
      /\ Cap \in Nat
  BY RingFinite DEF TypeOK
<1>1. ASSUME NEW c \in Cells, AddCall(c) PROVE LedgerBalances'
  BY <1>1 DEF AddCall, LedgerBalances
<1>2. CASE AddGate \/ AddSpill \/ AddSpillTaken \/ AddLook
  BY <1>2 DEF AddGate, AddSpill, AddSpillTaken, AddLook, LedgerBalances
<1>3. CASE AddHot
  <2>1. PICK i \in Word(wave) \ bitmap : bitmap' = bitmap \cup {i}
    BY <1>3 DEF AddHot
  <2>2. Cardinality(bitmap') = Cardinality(bitmap) + 1
    BY <1>f, <2>1, FS_AddElement
  <2> QED
    BY <1>3, <1>f, <2>2 DEF AddHot, LedgerBalances, TypeOK
<1>4. CASE SyncWord
  <2> DEFINE pw == pollerBitmap \cap Word(wave)
  <2>1. pw \subseteq bitmap /\ IsFiniteSet(pw) /\ Cardinality(pw) \in Nat
    BY RingFinite DEF NoSlotLost, TypeOK
  <2>2. bitmap' = bitmap \ pw /\ pollerBitmap' = pollerBitmap \ pw
    BY <1>4, <2>1 DEF SyncWord
  <2>3. /\ Cardinality(bitmap \ pw) = Cardinality(bitmap) - Cardinality(bitmap \cap pw)
        /\ Cardinality(pollerBitmap \ pw)
             = Cardinality(pollerBitmap) - Cardinality(pollerBitmap \cap pw)
    BY <1>f, FS_Difference
  <2>4. bitmap \cap pw = pw /\ pollerBitmap \cap pw = pw
    BY <2>1
  <2>5. /\ Cardinality(bitmap') = Cardinality(bitmap) - Cardinality(pw)
        /\ Cardinality(pollerBitmap') = Cardinality(pollerBitmap) - Cardinality(pw)
    BY <2>2, <2>3, <2>4
  <2>6. /\ free' = free + Cardinality(pw)
        /\ lastDelCount' = lastDelCount + Cardinality(pw)
        /\ UNCHANGED <<delCount, poller>>
    BY <1>4 DEF SyncWord
  <2> HIDE DEF pw
  <2> QED
    BY <1>f, <2>1, <2>5, <2>6 DEF LedgerBalances, TypeOK
<1>5. ASSUME NEW i \in Indices, DelRing(i) PROVE LedgerBalances'
  <2>1. i \notin pollerBitmap
    BY <1>5 DEF DelRing, NoSlotLost, Live
  <2>2. Cardinality(pollerBitmap') = Cardinality(pollerBitmap) + 1
    BY <1>5, <1>f, <2>1, FS_AddElement DEF DelRing
  <2> QED
    BY <1>5, <1>f, <2>2 DEF DelRing, LedgerBalances, TypeOK
<1>6. ASSUME NEW i \in Indices, DelSpill(i) PROVE LedgerBalances'
  BY <1>6 DEF DelSpill, LedgerBalances
<1>7. CASE DelCount
  BY <1>7, <1>f DEF DelCount, LedgerBalances, TypeOK
<1>8. CASE UNCHANGED vars
  BY <1>8 DEF vars, LedgerBalances
<1> QED
  BY <1>1, <1>2, <1>3, <1>4, <1>5, <1>6, <1>7, <1>8 DEF Next, Add, Del

(***************************************************************************)
(* The theorems.                                                           *)
(***************************************************************************)

\* The invariant of the slot table holds in every reachable state.
THEOREM Invariance == Spec => []IInv
<1>1. IInv /\ [Next]_vars => IInv'
  BY TypeStep, SlotStep, LedgerStep DEF IInv
<1> QED
  BY InitIInv, <1>1, PTL DEF Spec

\* The bitmaps, the map and the cursors of Add, Del and sync stay in range,
\* whatever the order of their steps: wave and fallbackWave wrap.
THEOREM TypeCorrect == Spec => []TypeOK
<1>1. IInv => TypeOK
  BY DEF IInv
<1> QED
  BY Invariance, <1>1, PTL

\* Get finds the right cell for every index the kernel has, ring or map,
\* whatever Add and Del are doing.
THEOREM GetCorrect == Spec => []GetReturnsIssued
<1>1. IInv => GetReturnsIssued
  BY DEF IInv
<1> QED
  BY Invariance, <1>1, PTL

\* No slot leaks between the poller's bitmap and the translator's.
THEOREM NoLeak == Spec => []NoSlotLost
<1>1. IInv => NoSlotLost
  BY DEF IInv
<1> QED
  BY Invariance, <1>1, PTL

\* free and the deletion counters agree with the bitmaps.
THEOREM Ledger == Spec => []LedgerBalances
<1>1. IInv => LedgerBalances
  BY DEF IInv
<1> QED
  BY Invariance, <1>1, PTL

\* An index the kernel has is never issued a second time.
THEOREM Unique == Spec => NeverReissued
<1>1. IInv /\ [Next]_vars
        => [\A i \in Indices : inFlight'[i] # inFlight[i]
                                 => None \in {inFlight[i], inFlight'[i]}]_vars
  <2> SUFFICES ASSUME IInv, Next, NEW i \in Indices, inFlight'[i] # inFlight[i]
               PROVE  None \in {inFlight[i], inFlight'[i]}
    BY DEF vars
  <2> USE DEF IInv, TypeOK, ringVars, fallbackVars, delVars, callVars, Return
  <2>1. CASE AddHot
    <3>1. PICK j \in Word(wave) \ bitmap : inFlight' = [inFlight EXCEPT ![j] = arg]
      BY <2>1 DEF AddHot
    <3>2. j \in Ring /\ j \in Indices /\ inFlight[j] = None
      BY <3>1, FreeSlot DEF Indices, NoSlotLost, Live
    <3> QED
      BY <3>1, <3>2
  <2>2. CASE AddSpill
    <3>1. Cap + fallbackWave \in Indices \ Ring /\ fallback[Cap + fallbackWave] = None
      BY <2>2, SpillPastRing DEF AddSpill, Indices
    <3>2. inFlight[Cap + fallbackWave] = None
      BY <3>1 DEF GetReturnsIssued, Get
    <3> QED
      BY <2>2, <3>1, <3>2 DEF AddSpill
  <2>3. ASSUME NEW j \in Indices, DelRing(j) \/ DelSpill(j) PROVE None \in {inFlight[i], inFlight'[i]}
    BY <2>3 DEF DelRing, DelSpill
  <2>4. CASE (\E c \in Cells : AddCall(c)) \/ AddGate \/ AddSpillTaken \/ AddLook \/ SyncWord \/ DelCount
    BY <2>4 DEF AddCall, AddGate, AddSpillTaken, AddLook, SyncWord, DelCount
  <2> QED
    BY <2>1, <2>2, <2>3, <2>4 DEF Next, Add, Del
<1> QED
  BY Invariance, <1>1, PTL DEF Spec, NeverReissued

\* The map is entered only past a ring without a single zero bit.
THEOREM SpillLast == Spec => SpillOnlyWhenFull
<1>1. IInv /\ [Next]_vars => [adder = "gate" /\ adder' = "spill" => bitmap = Ring]_vars
  <2> SUFFICES ASSUME IInv, [Next]_vars, adder = "gate", adder' = "spill" PROVE bitmap = Ring
    OBVIOUS
  <2>1. AddGate
    BY DEF Next, Add, Del, AddCall, AddSpill, AddSpillTaken, AddHot, AddLook, SyncWord,
       DelRing, DelSpill, DelCount, Return, vars, callVars
  <2>2. free = 0
    BY <2>1 DEF AddGate, Saturated
  <2>3. Cardinality(bitmap) = Cardinality(Ring)
    BY <2>2, RingFinite DEF IInv, TypeOK, LedgerBalances
  <2> QED
    BY <2>3, RingFinite, FS_Subset DEF IInv, TypeOK
<1> QED
  BY Invariance, <1>1, PTL DEF Spec, SpillOnlyWhenFull
=============================================================================
