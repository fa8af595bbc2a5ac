----------------------------- MODULE TaskSlots -----------------------------
(***************************************************************************)
(* taskslots.Slots: the table that turns an in-flight operation's cell     *)
(* into the index carried by the SQE as UserData, and back.                *)
(*                                                                         *)
(* One goroutine at a time calls Add (DispatchExclusive of SubmitRing);    *)
(* the poller calls Get and Del.  Occupied slots are bits of `bitmap`,     *)
(* which only Add writes.  Del cannot clear them: it leaves a bit in       *)
(* pollerBitmap and then adds one to delCount, in two steps.  Add collects *)
(* those bits a word at a time, when its wave meets a full word.  When     *)
(* nothing is free and, by the counters, nothing is pending, Add puts the  *)
(* cell into a map, under a mutex, at an index past the ring.              *)
(*                                                                         *)
(* A bitmap is the set of the indices of its 1-bits.  The counters are     *)
(* naturals: they are only subtracted, and compared with zero, and the     *)
(* uint64 difference is zero when the natural one is.                      *)
(***************************************************************************)
EXTENDS Integers, FiniteSets

CONSTANTS
  Words,         \* length of the bitmap, capacity >> 6
  WordBits,      \* bits of a word, 64
  FallbackSize,  \* number of fallback indices, fallbackMask + 1
  Cells,         \* the cells of operations
  None,          \* no cell
  MaxAdds        \* bound on the calls of Add

ASSUME WordsAssumption == Words \in Nat \ {0}
ASSUME WordBitsAssumption == WordBits \in Nat \ {0}
ASSUME FallbackSizeAssumption == FallbackSize \in Nat \ {0}
ASSUME CellsAssumption == None \notin Cells
ASSUME MaxAddsAssumption == MaxAdds \in Nat

VARIABLES
  bitmap,        \* Slots.bitmap, written by Add only
  pollerBitmap,  \* Slots.pollerBitmap, set by Del and swapped out by Add
  tasks,         \* Slots.tasks
  wave,          \* Slots.wave & bitmapLenMask
  free,          \* Slots.free
  delCount,      \* Slots.delCount
  lastDelCount,  \* Slots.lastDelCount
  fallback,      \* Slots.fallback, None where the map has no key
  fallbackWave,  \* Slots.fallbackWave & fallbackMask
  adder,         \* where the caller of Add is
  arg,           \* its argument
  poller,        \* where the poller is
  inFlight,      \* the cell of each index the kernel has, None elsewhere
  adds           \* calls of Add so far

ringVars     == <<bitmap, tasks, wave, free, lastDelCount>>
fallbackVars == <<fallback, fallbackWave>>
delVars      == <<pollerBitmap, delCount>>
callVars     == <<adder, arg, adds>>
vars         == <<ringVars, fallbackVars, delVars, callVars, poller, inFlight>>

Cap     == Words * WordBits
Ring    == 0 .. Cap - 1
Spill   == Cap .. Cap + FallbackSize - 1
Indices == Ring \cup Spill

\* The indices whose bits are in word w.
Word(w) == {i \in Ring : i \div WordBits = w}

(***************************************************************************)
(* New.                                                                    *)
(***************************************************************************)
Init ==
  /\ bitmap = {}
  /\ pollerBitmap = {}
  /\ tasks = [i \in Ring |-> None]
  /\ wave = 0
  /\ free = Cap
  /\ delCount = 0
  /\ lastDelCount = 0
  /\ fallback = [i \in Spill |-> None]
  /\ fallbackWave = 0
  /\ adder = "idle"
  /\ arg = None
  /\ poller = "idle"
  /\ inFlight = [i \in Indices |-> None]
  /\ adds = 0

(***************************************************************************)
(* Add.                                                                    *)
(***************************************************************************)

\* What Add returns goes to the kernel with the SQE.
Return(i) ==
  /\ inFlight' = [inFlight EXCEPT ![i] = arg]
  /\ adder' = "idle"
  /\ arg' = None
  /\ UNCHANGED adds

\* The call.
AddCall(c) ==
  /\ adder = "idle"
  /\ adds < MaxAdds
  /\ adder' = "gate"
  /\ arg' = c
  /\ adds' = adds + 1
  /\ UNCHANGED <<ringVars, fallbackVars, delVars, poller, inFlight>>

\* Mutant of Saturated: free is left out.
SaturatedByCounts == delCount = lastDelCount

\* free|(delCount-lastDelCount) == 0 decides between the ring and the map.
Saturated == free = 0 /\ delCount = lastDelCount

AddGate ==
  /\ adder = "gate"
  /\ adder' = IF Saturated THEN "spill" ELSE "scan"
  /\ UNCHANGED <<ringVars, fallbackVars, delVars, arg, adds, poller, inFlight>>

\* One turn of the loop over fallback indices, under the mutex.
AddSpill ==
  /\ adder = "spill"
  /\ fallbackWave' = (fallbackWave + 1) % FallbackSize
  /\ fallback[Cap + fallbackWave] = None
  /\ fallback' = [fallback EXCEPT ![Cap + fallbackWave] = arg]
  /\ Return(Cap + fallbackWave)
  /\ UNCHANGED <<ringVars, delVars, poller>>

\* Mutant of AddSpillTaken: the mask is left out.
AddSpillTakenUnmasked ==
  /\ adder = "spill"
  /\ fallbackWave' = fallbackWave + 1
  /\ fallback[Cap + fallbackWave] # None
  /\ UNCHANGED <<fallback, ringVars, delVars, callVars, poller, inFlight>>

AddSpillTaken ==
  /\ adder = "spill"
  /\ fallbackWave' = (fallbackWave + 1) % FallbackSize
  /\ fallback[Cap + fallbackWave] # None
  /\ UNCHANGED <<fallback, ringVars, delVars, callVars, poller, inFlight>>

\* The word under the wave has a zero bit: take the first one.
AddHot ==
  /\ adder = "scan"
  /\ \E i \in Word(wave) \ bitmap :
       /\ \A j \in Word(wave) \ bitmap : i <= j
       /\ bitmap' = bitmap \cup {i}
       /\ tasks' = [tasks EXCEPT ![i] = arg]
       /\ Return(i)
  /\ free' = free - 1
  /\ UNCHANGED <<wave, lastDelCount, fallbackVars, delVars, poller>>

\* The word is full: look for released slots, or move the wave on.
AddLook ==
  /\ adder = "scan"
  /\ Word(wave) \subseteq bitmap
  /\ \/ /\ pollerBitmap \cap Word(wave) = {}
        /\ wave' = (wave + 1) % Words
        /\ UNCHANGED adder
     \/ /\ pollerBitmap \cap Word(wave) # {}
        /\ adder' = "sync"
        /\ UNCHANGED wave
  /\ UNCHANGED <<bitmap, tasks, free, lastDelCount, fallbackVars, delVars,
                 arg, adds, poller, inFlight>>

\* Mutants of SyncWord: it loads the word where the code swaps it,
SyncWordByLoad ==
  /\ adder = "sync"
  /\ LET pw == pollerBitmap \cap Word(wave) IN
     /\ bitmap' = (bitmap \ pw) \cup (pw \ bitmap)
     /\ free' = free + Cardinality(pw)
     /\ lastDelCount' = lastDelCount + Cardinality(pw)
  /\ adder' = "scan"
  /\ UNCHANGED <<pollerBitmap, tasks, wave, fallbackVars, delCount, arg, adds, poller, inFlight>>

\* ... it counts the swap and not the bits,
SyncWordByOne ==
  /\ adder = "sync"
  /\ LET pw == pollerBitmap \cap Word(wave) IN
     /\ pollerBitmap' = pollerBitmap \ Word(wave)
     /\ bitmap' = (bitmap \ pw) \cup (pw \ bitmap)
     /\ free' = free + Cardinality(pw)
  /\ lastDelCount' = lastDelCount + 1
  /\ adder' = "scan"
  /\ UNCHANGED <<tasks, wave, fallbackVars, delCount, arg, adds, poller, inFlight>>

\* ... it frees the whole word, or none of it.
SyncWordClears(released) ==
  /\ adder = "sync"
  /\ pollerBitmap' = pollerBitmap \ Word(wave)
  /\ bitmap' = bitmap \ released
  /\ free' = free + Cardinality(released)
  /\ lastDelCount' = lastDelCount + Cardinality(released)
  /\ adder' = "scan"
  /\ UNCHANGED <<tasks, wave, fallbackVars, delCount, arg, adds, poller, inFlight>>
SyncWordAll  == SyncWordClears(Word(wave))
SyncWordNone == SyncWordClears({})

\* syncWord: swap the released bits out of the poller's word.
SyncWord ==
  /\ adder = "sync"
  /\ LET pw == pollerBitmap \cap Word(wave) IN
     /\ pollerBitmap' = pollerBitmap \ Word(wave)
     /\ bitmap' = (bitmap \ pw) \cup (pw \ bitmap)
     /\ free' = free + Cardinality(pw)
     /\ lastDelCount' = lastDelCount + Cardinality(pw)
  /\ adder' = "scan"
  /\ UNCHANGED <<tasks, wave, fallbackVars, delCount, arg, adds, poller, inFlight>>

(***************************************************************************)
(* Get and Del, called by the poller for a completed operation.            *)
(***************************************************************************)
Get(i) ==
  IF i \in Ring THEN IF i \in bitmap THEN tasks[i] ELSE None
  ELSE fallback[i]

\* Mutant of DelRing: the neighbour's bit.
DelRingNext(i) ==
  /\ poller = "idle"
  /\ i \in Ring
  /\ inFlight[i] # None
  /\ inFlight' = [inFlight EXCEPT ![i] = None]
  /\ pollerBitmap' = pollerBitmap \cup {(i + 1) % Cap}
  /\ poller' = "count"
  /\ UNCHANGED <<ringVars, fallbackVars, delCount, callVars>>

\* Del of a ring index: first the bit, then the count.
DelRing(i) ==
  /\ poller = "idle"
  /\ i \in Ring
  /\ inFlight[i] # None
  /\ inFlight' = [inFlight EXCEPT ![i] = None]
  /\ pollerBitmap' = pollerBitmap \cup {i}
  /\ poller' = "count"
  /\ UNCHANGED <<ringVars, fallbackVars, delCount, callVars>>

DelCount ==
  /\ poller = "count"
  /\ delCount' = delCount + 1
  /\ poller' = "idle"
  /\ UNCHANGED <<ringVars, fallbackVars, pollerBitmap, callVars, inFlight>>

\* Del of a fallback index: the map only.
DelSpill(i) ==
  /\ poller = "idle"
  /\ i \in Spill
  /\ inFlight[i] # None
  /\ inFlight' = [inFlight EXCEPT ![i] = None]
  /\ fallback' = [fallback EXCEPT ![i] = None]
  /\ UNCHANGED <<ringVars, fallbackWave, delVars, callVars, poller>>

(***************************************************************************)
(* Specification.                                                          *)
(***************************************************************************)
Add == \/ AddGate \/ AddSpill \/ AddSpillTaken \/ AddHot \/ AddLook \/ SyncWord
Del == \E i \in Indices : DelRing(i) \/ DelSpill(i)

Next == (\E c \in Cells : AddCall(c)) \/ Add \/ Del \/ DelCount

Spec == Init /\ [][Next]_vars

\* A call that has begun goes on; the kernel need not complete anything.
CallFairness == WF_vars(Add) /\ WF_vars(DelCount)
CallSpec     == Spec /\ CallFairness

(***************************************************************************)
(* Properties.                                                             *)
(***************************************************************************)
TypeOK ==
  /\ bitmap \in SUBSET Ring
  /\ pollerBitmap \in SUBSET Ring
  /\ tasks \in [Ring -> Cells \cup {None}]
  /\ wave \in 0 .. Words - 1
  /\ free \in Int
  /\ delCount \in Nat
  /\ lastDelCount \in Nat
  /\ fallback \in [Spill -> Cells \cup {None}]
  /\ fallbackWave \in 0 .. FallbackSize - 1
  /\ adder \in {"idle", "gate", "spill", "scan", "sync"}
  /\ arg \in Cells \cup {None}
  /\ poller \in {"idle", "count"}
  /\ inFlight \in [Indices -> Cells \cup {None}]
  /\ adds \in Nat

\* The ring indices the kernel has.
Live == {i \in Ring : inFlight[i] # None}

\* Whatever the poller asks for, while Add and its own earlier releases are
\* anywhere on their way, Get returns the cell the index was issued for.
GetReturnsIssued == \A i \in Indices : inFlight[i] # None => Get(i) = inFlight[i]

\* A slot is free, in flight or released and not yet collected; none of them
\* is lost and none is in two places.
NoSlotLost == bitmap = Live \cup pollerBitmap /\ Live \cap pollerBitmap = {}

\* free is the number of zero bits, and the two deletion counters differ by
\* the bits waiting in pollerBitmap, save the one whose Del has yet to count.
LedgerBalances ==
  /\ free = Cap - Cardinality(bitmap)
  /\ delCount + (IF poller = "count" THEN 1 ELSE 0)
       = lastDelCount + Cardinality(pollerBitmap)

\* Add never issues an index that the kernel still has.
NeverReissued ==
  [][\A i \in Indices : inFlight'[i] # inFlight[i] => None \in {inFlight[i], inFlight'[i]}]_vars

\* The map is used only when every slot of the ring is occupied.
SpillOnlyWhenFull ==
  [][adder = "gate" /\ adder' = "spill" => bitmap = Ring]_vars

\* What the call of Add looks for is all with the kernel: the indices of the
\* map, or, once it has passed the gate to the ring, those of the ring.
NothingToTake ==
  \A i \in IF adder = "spill" THEN Spill ELSE Ring : inFlight[i] # None

\* A call of Add that never returns has nothing to take, for good: a slot
\* that was released, at any moment of its search, is found and collected.
\* Nothing is assumed of the operations in flight.
AddTakesReleased == <>[](adder # "idle") => <>[]NothingToTake

\* A call of Add returns although no operation completes any more.
AddCompletes == adder # "idle" ~> adder = "idle"
=============================================================================
