-------------------------- MODULE InternalsProofs --------------------------
(***************************************************************************)
(* What is proved of the parts of internal/ that one goroutine uses at a   *)
(* time, each by itself: the memory shared with the kernel, the priority   *)
(* queue and the timing wheel.                                             *)
(***************************************************************************)
EXTENDS RingMemory, PriorityQueue, TimingWheel, Remainders, FiniteSetTheorems,
        SequenceTheorems, WellFoundedInduction, TLAPS

\* A set of naturals has a least element: what stands for induction.
LEMMA LeastElement ==
  ASSUME NEW T \in SUBSET Nat, T # {}
  PROVE  \E x \in T : \A y \in T : x <= y
<1> DEFINE R == OpToRel(<, Nat)
<1>1. \A x, y \in Nat : y < x => <<y, x>> \in R
  BY DEF OpToRel
<1>2. IsWellFoundedOn(R, Nat)
  BY NatLessThanWellFounded
<1> HIDE DEF R
<1>3. PICK x \in T : \A y \in T : ~ (<<y, x>> \in R)
  BY <1>2, WFMin
<1>4. x \in Nat /\ T \subseteq Nat
  OBVIOUS
<1>5. ASSUME NEW y \in T PROVE x <= y
  <2>1. y \in Nat /\ ~ (y < x)
    BY <1>1, <1>3, <1>4, Zenon
  <2> QED
    BY <2>1, <1>4
<1> QED
  BY <1>5

(***************************************************************************)
(* The memory shared with the kernel.                                      *)
(***************************************************************************)
SetUpSteps    == {"map desc", "register", "drop desc", "drop data"}
TeardownSteps == {"free desc", "free data"}

MemoryTypeOK ==
  /\ ring \in {"none", "failed", "open", "closed"}
  /\ pbrs \subseteq Classes
  /\ pinned \subseteq pbrs
  /\ mapped \subseteq Classes \X {"desc", "data"}
  /\ class \in Classes \cup {NoClass}
  /\ step \in SetUpSteps \cup TeardownSteps \cup {"none"}

\* The class of the call under way has no ring yet when it is set up; it has
\* one, which the kernel no longer knows, when it is torn down.
CallInv ==
  /\ class = NoClass <=> step = "none"
  /\ step \in SetUpSteps => class \notin pbrs
  /\ step \in TeardownSteps => class \in pbrs \ pinned

\* What is mapped before each system call, so that it unmaps nothing else.
BlockInv ==
  /\ PinnedIsMapped
  /\ step # "none" => <<class, "data">> \in mapped
  /\ step \in {"register", "drop desc", "free desc"} => <<class, "desc">> \in mapped
  /\ step = "free data" => <<class, "desc">> \notin mapped

\* When a set-up ends without a ring, only what munmap failed for is left.
LeftInv ==
  /\ MappingsAccounted
  /\ step \in {"map desc", "drop data"} /\ <<class, "desc">> \in mapped
       => <<class, "desc">> \in stuck
  /\ ring = "open" => queues # {}

MemoryInv == MemoryTypeOK /\ CallInv /\ BlockInv /\ LeftInv

\* Before New nothing is mapped, registered or under way.
LEMMA MemoryInitInv == MemoryInit => MemoryInv
  BY NoClassAssumption DEF MemoryInit, MemoryInv, MemoryTypeOK, CallInv, BlockInv, LeftInv,
     PinnedIsMapped, MappingsAccounted, SetUpSteps, TeardownSteps

\* Each system call is one of the call under way and of its class.
LEMMA MemoryTypeStep ==
  ASSUME MemoryTypeOK, CallInv, [MemoryNext]_memoryVars
  PROVE  MemoryTypeOK' /\ CallInv'
<1> USE NoClassAssumption
    DEF MemoryTypeOK, CallInv, SetUpSteps, TeardownSteps, ringVars, Begin, Proceed, Return,
        Map, Munmap, MunmapFails
<1>1. CASE NewRing
  BY <1>1 DEF NewRing, QueueMaps
<1>2. CASE CloseRing
  BY <1>2 DEF CloseRing
<1>3. ASSUME NEW c \in Classes, RegisterData(c) PROVE MemoryTypeOK' /\ CallInv'
  <2>1. <<c, "data">> \in Classes \X {"desc", "data"}
    OBVIOUS
  <2> QED
    BY <1>3, <2>1 DEF RegisterData
<1>4. ASSUME NEW c \in Classes, Unregister(c) PROVE MemoryTypeOK' /\ CallInv'
  BY <1>4 DEF Unregister
<1>5. CASE RegisterDesc
  <2>1. <<class, "desc">> \in Classes \X {"desc", "data"}
    BY <1>5 DEF RegisterDesc
  <2> QED
    BY <1>5, <2>1 DEF RegisterDesc
<1>6. CASE RegisterDescFails
  BY <1>6 DEF RegisterDescFails
<1>7. CASE Register
  BY <1>7 DEF Register
<1>8. CASE RegisterFails
  BY <1>8 DEF RegisterFails
<1>9. CASE DropDesc
  BY <1>9 DEF DropDesc
<1>10. CASE DropData
  BY <1>10 DEF DropData
<1>11. CASE FreeDesc
  BY <1>11 DEF FreeDesc
<1>12. CASE FreeDescFails
  BY <1>12 DEF FreeDescFails
<1>13. CASE FreeData
  BY <1>13 DEF FreeData
<1>14. CASE FreeDataFails
  BY <1>14 DEF FreeDataFails
<1>15. CASE UNCHANGED memoryVars
  BY <1>15 DEF memoryVars
<1> QED
  BY <1>1, <1>2, <1>3, <1>4, <1>5, <1>6, <1>7, <1>8, <1>9, <1>10, <1>11, <1>12,
     <1>13, <1>14, <1>15 DEF MemoryNext

\* Nothing is unmapped under the kernel, whatever call fails.
LEMMA BlockStep ==
  ASSUME MemoryTypeOK, CallInv, BlockInv, [MemoryNext]_memoryVars
  PROVE  BlockInv'
<1> USE NoClassAssumption
    DEF MemoryTypeOK, CallInv, BlockInv, PinnedIsMapped,
        SetUpSteps, TeardownSteps, ringVars, Begin, Proceed, Return,
        Map, Munmap, MunmapFails
<1>1. CASE NewRing
  BY <1>1 DEF NewRing, QueueMaps
<1>2. CASE CloseRing
  BY <1>2 DEF CloseRing
<1>3. ASSUME NEW c \in Classes, RegisterData(c) PROVE BlockInv'
  BY <1>3 DEF RegisterData
<1>4. ASSUME NEW c \in Classes, Unregister(c) PROVE BlockInv'
  BY <1>4 DEF Unregister
<1>5. CASE RegisterDesc
  BY <1>5 DEF RegisterDesc
<1>6. CASE RegisterDescFails
  BY <1>6 DEF RegisterDescFails
<1>7. CASE Register
  BY <1>7 DEF Register
<1>8. CASE RegisterFails
  BY <1>8 DEF RegisterFails
<1>9. CASE DropDesc
  BY <1>9 DEF DropDesc
<1>10. CASE DropData
  BY <1>10 DEF DropData
<1>11. CASE FreeDesc
  <2>1. \A c \in pinned : c # class
    BY <1>11 DEF FreeDesc
  <2>2. <<class, "data">> # <<class, "desc">>
    OBVIOUS
  <2>3. \A c \in pinned : <<c, "desc">> # <<class, "desc">> /\ <<c, "data">> # <<class, "desc">>
    BY <2>1
  <2> QED
    BY <1>11, <2>2, <2>3 DEF FreeDesc
<1>12. CASE FreeDescFails
  BY <1>12 DEF FreeDescFails
<1>13. CASE FreeData
  <2>1. \A c \in pinned : c # class
    BY <1>13 DEF FreeData
  <2>2. \A c \in pinned : <<c, "desc">> # <<class, "data">> /\ <<c, "data">> # <<class, "data">>
    BY <2>1
  <2> QED
    BY <1>13, <2>2 DEF FreeData
<1>14. CASE FreeDataFails
  BY <1>14 DEF FreeDataFails
<1>15. CASE UNCHANGED memoryVars
  BY <1>15 DEF memoryVars
<1> QED
  BY <1>1, <1>2, <1>3, <1>4, <1>5, <1>6, <1>7, <1>8, <1>9, <1>10, <1>11, <1>12,
     <1>13, <1>14, <1>15 DEF MemoryNext

\* What a mapping is, and when those of a class are all left to be found.
LEMMA Mapping ==
  ASSUME MemoryTypeOK, NEW m \in mapped
  PROVE  m[1] \in Classes /\ m = <<m[1], m[2]>> /\ m[2] \in {"desc", "data"}
  BY DEF MemoryTypeOK

\* New returns a ring only with all its mappings.
LEMMA NewRingMaps ==
  ASSUME NewRing, ring' = "open"
  PROVE  queues' # {}
<1>1. PICK maps \in QueueMaps : \E n \in 0 .. Len(maps) :
        /\ queues' = {<<NoClass, maps[i]>> : i \in 1 .. n}
        /\ ring' = IF n = Len(maps) THEN "open" ELSE "failed"
  BY DEF NewRing
<1>2. PICK n \in 0 .. Len(maps) :
        /\ queues' = {<<NoClass, maps[i]>> : i \in 1 .. n}
        /\ ring' = IF n = Len(maps) THEN "open" ELSE "failed"
  BY <1>1
<1>3. Len(maps) \in Nat /\ 1 <= Len(maps)
  <2>1. maps = <<"sq", "sqes">> \/ maps = <<"sq", "sqes", "cq">>
    BY <1>1 DEF QueueMaps
  <2>2. CASE maps = <<"sq", "sqes">>
    BY <2>2
  <2>3. CASE maps = <<"sq", "sqes", "cq">>
    BY <2>3
  <2> QED
    BY <2>1, <2>2, <2>3
<1>4. 1 \in 1 .. n
  BY <1>2, <1>3
<1>5. <<NoClass, maps[1]>> \in queues'
  BY <1>2, <1>4, Zenon
<1> QED
  BY <1>5

\* Nothing is forgotten, whatever call fails.
LEMMA LeftStep ==
  ASSUME MemoryTypeOK, CallInv, BlockInv, LeftInv, [MemoryNext]_memoryVars
  PROVE  LeftInv'
<1> USE NoClassAssumption
    DEF CallInv, BlockInv, LeftInv, MappingsAccounted, SetUpSteps, TeardownSteps, ringVars,
        Begin, Proceed, Return, Map, Munmap, MunmapFails
<1>t. /\ \A m \in mapped : m[1] \in pbrs \cup {class} \/ m \in stuck
      /\ <<class, "desc">>[1] = class
  OBVIOUS
<1>1. CASE NewRing
  BY <1>1, NewRingMaps DEF NewRing
<1>2. CASE CloseRing
  BY <1>2 DEF CloseRing
<1>3. ASSUME NEW c \in Classes, RegisterData(c) PROVE LeftInv'
  <2>1. /\ mapped' = mapped \cup {<<c, "data">>} /\ class' = c /\ class = NoClass /\ c \notin pbrs
        /\ step = "none" /\ step' = "map desc" /\ UNCHANGED <<ring, queues, pbrs, stuck, wild>>
    BY <1>3 DEF RegisterData
  <2>2. ASSUME NEW m \in mapped' PROVE m[1] \in pbrs' \cup {class'} \/ m \in stuck'
    <3>1. CASE m = <<c, "data">>
      BY <2>1, <3>1
    <3>2. CASE m \in mapped
      BY <2>1, <3>2, Mapping
    <3> QED
      BY <2>1, <2>2, <3>1, <3>2
  <2>3. <<c, "desc">> \in mapped => <<c, "desc">> \in stuck
    BY <2>1
  <2> QED
    BY <2>1, <2>2, <2>3
<1>4. ASSUME NEW c \in Classes, Unregister(c) PROVE LeftInv'
  <2>1. /\ c \in pbrs /\ ring = "open" /\ class' = c /\ step = "none" /\ step' = "free desc"
        /\ class = NoClass /\ UNCHANGED <<ring, queues, pbrs, mapped, stuck, wild>>
    BY <1>4 DEF Unregister
  <2>2. \A m \in mapped : m[1] \in pbrs \/ m \in stuck
    <3> SUFFICES ASSUME NEW m \in mapped, m \notin stuck PROVE m[1] \in pbrs
      OBVIOUS
    <3>1. m[1] \in pbrs \cup {NoClass} /\ m[1] \in Classes
      BY <1>t, <2>1, Mapping
    <3> QED
      BY <3>1
  <2> QED
    BY <2>1, <2>2
<1>5. CASE RegisterDesc
  <2>1. /\ mapped' = mapped \cup {<<class, "desc">>} /\ class' = class /\ step' = "register"
        /\ UNCHANGED <<ring, queues, pbrs, stuck, wild>>
    BY <1>5 DEF RegisterDesc
  <2>2. ASSUME NEW m \in mapped' PROVE m[1] \in pbrs' \cup {class'} \/ m \in stuck'
    <3>1. m[1] \in pbrs \cup {class} \/ m \in stuck
      BY <1>t, <2>1, <2>2, Zenon
    <3> QED
      BY <2>1, <3>1
  <2> QED
    BY <2>1, <2>2
<1>6. CASE RegisterDescFails
  BY <1>6 DEF RegisterDescFails
<1>7. CASE Register
  BY <1>7 DEF Register
<1>8. CASE RegisterFails
  BY <1>8 DEF RegisterFails
<1>9. CASE DropDesc
  <2>1. /\ class' = class /\ step = "drop desc" /\ step' = "drop data"
        /\ UNCHANGED <<ring, queues, pbrs>>
        /\ <<class, "desc">> \in mapped
        /\ \/ mapped' = mapped \ {<<class, "desc">>} /\ UNCHANGED stuck
           \/ mapped' = mapped /\ stuck' = stuck \cup {<<class, "desc">>}
    BY <1>9 DEF DropDesc
  <2>3. ~wild'
    BY <1>9 DEF DropDesc
  <2>2. ASSUME NEW m \in mapped' PROVE m[1] \in pbrs' \cup {class'} \/ m \in stuck'
    <3>1. m[1] \in pbrs \cup {class} \/ m \in stuck
      BY <1>t, <2>1, <2>2, Zenon
    <3> QED
      BY <2>1, <3>1
  <2> QED
    BY <2>1, <2>2, <2>3
<1>10. CASE DropData
  <2>1. /\ step' = "none" /\ step = "drop data"
        /\ UNCHANGED <<ring, queues, pbrs>>
        /\ \/ mapped' = mapped \ {<<class, "data">>} /\ UNCHANGED stuck
           \/ mapped' = mapped /\ stuck' = stuck \cup {<<class, "data">>}
    BY <1>10 DEF DropData
  <2>3. ~wild'
    BY <1>10 DEF DropData
  <2>2. ASSUME NEW m \in mapped' PROVE m[1] \in pbrs' \cup {class'} \/ m \in stuck'
    <3>1. m \in mapped /\ m = <<m[1], m[2]>> /\ m[2] \in {"desc", "data"}
      BY <2>1, <2>2, Mapping
    <3>2. CASE m[1] = class /\ m[2] = "desc"
      BY <2>1, <3>1, <3>2
    <3>3. CASE m[1] = class /\ m[2] = "data"
      BY <2>1, <2>2, <3>1, <3>3
    <3>4. CASE m[1] # class
      BY <2>1, <3>1, <3>4
    <3> QED
      BY <3>1, <3>2, <3>3, <3>4
  <2> QED
    BY <2>1, <2>2, <2>3
<1>11. CASE FreeDesc
  BY <1>11 DEF FreeDesc
<1>12. CASE FreeDescFails
  BY <1>12 DEF FreeDescFails
<1>13. CASE FreeData
  <2>1. /\ step' = "none" /\ step = "free data"
        /\ UNCHANGED <<ring, queues, stuck>> /\ ~wild'
        /\ pbrs' = pbrs \ {class} /\ mapped' = mapped \ {<<class, "data">>}
    BY <1>13 DEF FreeData
  <2>2. ASSUME NEW m \in mapped' PROVE m[1] \in pbrs' \cup {class'} \/ m \in stuck'
    <3>1. m \in mapped /\ m = <<m[1], m[2]>> /\ m[2] \in {"desc", "data"}
      BY <2>1, <2>2, Mapping
    <3>2. m[1] # class
      BY <2>1, <2>2, <3>1
    <3> QED
      BY <2>1, <3>1, <3>2
  <2> QED
    BY <2>1, <2>2
<1>14. CASE FreeDataFails
  BY <1>14 DEF FreeDataFails
<1>15. CASE UNCHANGED memoryVars
  BY <1>15 DEF memoryVars
<1> QED
  BY <1>1, <1>2, <1>3, <1>4, <1>5, <1>6, <1>7, <1>8, <1>9, <1>10, <1>11, <1>12,
     <1>13, <1>14, <1>15 DEF MemoryNext

\* The invariant of the mappings holds whatever system call fails.
LEMMA MemoryInvariance == MemorySpec => []MemoryInv
<1>1. MemoryInv /\ [MemoryNext]_memoryVars => MemoryInv'
  BY MemoryTypeStep, BlockStep, LeftStep DEF MemoryInv
<1> QED
  BY <1>1, MemoryInitInv, PTL DEF MemorySpec

\* What the kernel may write to is mapped at every moment, for any number of
\* size classes: RegisterBufferRing registers after both mappings succeeded and
\* UnregisterBufferRing unmaps after the kernel let go.
THEOREM PinnedAlwaysMapped == MemorySpec => []PinnedIsMapped
<1>1. MemoryInv => PinnedIsMapped
  BY DEF MemoryInv, BlockInv
<1> QED
  BY <1>1, MemoryInvariance, PTL

\* No error path of RegisterBufferRing, UnregisterBufferRing or Close unmaps
\* twice or forgets a mapping.
THEOREM MappingsNeverLost == MemorySpec => []MappingsAccounted
<1>1. MemoryInv => MappingsAccounted
  BY DEF MemoryInv, LeftInv
<1> QED
  BY <1>1, MemoryInvariance, PTL

(***************************************************************************)
(* The priority queue.                                                     *)
(***************************************************************************)

\* The parent of a slot, as Push and Pop compute it.
LEMMA Parents ==
  /\ \A i \in Nat \ {0} : ParentIdx(i) \in 0 .. i - 1
  /\ \A i \in Nat, j \in Nat \ {0} :
       ParentIdx(j) = i <=> j = ChildrenArrayStartIdx(i) \/ j = ChildrenArrayStartIdx(i) + 1
  BY DEF ParentIdx, ChildrenArrayStartIdx

\* The loops work on a slot that is used.
PlaceInv ==
  /\ phase = "idle" => idx = 0
  /\ phase = "up" => idx < len
  /\ phase = "down" => idx = 0 \/ idx < len

\* Every slot is no less than its parent, but for the element that rises and
\* for the two below the one that sinks; those are no less than its parent.
HeapInv ==
  \A i \in 1 .. len - 1 :
    /\ \/ phase = "up" /\ i = idx
       \/ phase = "down" /\ ParentIdx(i) = idx
       \/ data[ParentIdx(i)] <= data[i]
    /\ phase # "idle" /\ idx > 0 /\ ParentIdx(i) = idx => data[ParentIdx(idx)] <= data[i]

QueueInv == QueueTypeOK /\ PlaceInv /\ HeapInv

\* The queue of New is empty.
LEMMA QueueInitInv == QueueInit => QueueInv
  BY CapacityAssumption, AbsentAssumption
     DEF QueueInit, QueueInv, QueueTypeOK, PlaceInv, HeapInv, Slots

\* What is known of the state of a queue, and of the slots Push and Pop compare.
LEMMA QueueFacts ==
  ASSUME QueueTypeOK, PlaceInv
  PROVE  /\ len \in Nat /\ Capacity \in Nat /\ len <= Capacity /\ idx \in Nat
         /\ \A i \in 0 .. len - 1 : i \in Slots /\ data[i] \in Weights /\ data[i] \in Int
         /\ phase = "up" /\ Rises => /\ idx \in 1 .. len - 1 /\ ParentIdx(idx) \in 0 .. idx - 1
         /\ phase = "down" /\ Sinks =>
              /\ idx \in 0 .. len - 1 /\ Pick \in idx + 1 .. len - 1 /\ ParentIdx(Pick) = idx
              /\ \A i \in 1 .. len - 1 : ParentIdx(i) = idx => data[Pick] <= data[i]
<1>1. /\ len \in Nat /\ Capacity \in Nat /\ len <= Capacity /\ idx \in Nat
      /\ \A i \in 0 .. len - 1 : i \in Slots
  BY CapacityAssumption DEF QueueTypeOK, Slots
<1>2. \A i \in 0 .. len - 1 : data[i] \in Weights /\ data[i] \in Int
  <2> SUFFICES ASSUME NEW i \in 0 .. len - 1 PROVE data[i] \in Weights /\ data[i] \in Int
    OBVIOUS
  <2>1. i \in Slots /\ ~ (i >= len)
    BY <1>1
  <2>2. data[i] \in Weights \cup {Absent} /\ data[i] # Absent
    BY <2>1 DEF QueueTypeOK
  <2> QED
    BY <2>2, WeightsAssumption
<1>3. ASSUME phase = "up", Rises PROVE idx \in 1 .. len - 1 /\ ParentIdx(idx) \in 0 .. idx - 1
  <2>1. idx \in 1 .. len - 1
    BY <1>1, <1>3 DEF Rises, PlaceInv
  <2> QED
    BY <2>1, Parents
<1>4. ASSUME phase = "down", Sinks
      PROVE  /\ idx \in 0 .. len - 1 /\ Pick \in idx + 1 .. len - 1 /\ ParentIdx(Pick) = idx
             /\ \A i \in 1 .. len - 1 : ParentIdx(i) = idx => data[Pick] <= data[i]
  <2> DEFINE l == ChildrenArrayStartIdx(idx)
  <2>1. l = 2 * idx + 1 /\ l \in idx + 1 .. len - 1 /\ idx \in 0 .. len - 1
    BY <1>1, <1>4 DEF Sinks, ChildrenArrayStartIdx
  <2>2. \A j \in Nat \ {0} : ParentIdx(j) = idx <=> j = l \/ j = l + 1
    BY <1>1, Parents
  <2>3. Pick = IF l + 1 >= len \/ data[l] <= data[l + 1] THEN l ELSE l + 1
    BY DEF Pick
  <2> HIDE DEF l
  <2>4. Pick \in idx + 1 .. len - 1 /\ (Pick = l \/ Pick = l + 1)
    BY <1>1, <2>1, <2>3
  <2>5. ParentIdx(Pick) = idx
    BY <1>1, <2>2, <2>4
  <2>6. ASSUME NEW i \in 1 .. len - 1, ParentIdx(i) = idx PROVE data[Pick] <= data[i]
    <3>1. i = l \/ i = l + 1
      BY <1>1, <2>2, <2>6
    <3>2. data[i] \in Int /\ data[l] \in Int /\ data[Pick] \in Int
      BY <1>1, <1>2, <2>1, <2>4
    <3>3. CASE Pick = l
      BY <1>1, <2>1, <2>3, <2>6, <3>1, <3>2, <3>3
    <3>4. CASE Pick # l
      <4>1. Pick = l + 1 /\ ~ (data[l] <= data[l + 1])
        BY <2>3, <3>4
      <4> QED
        BY <2>1, <3>1, <3>2, <4>1
    <3> QED
      BY <3>3, <3>4
  <2> QED
    BY <2>1, <2>4, <2>5, <2>6
<1> QED
  BY <1>1, <1>2, <1>3, <1>4

\* Two slots that are used change their elements.
LEMMA SwapFacts ==
  ASSUME QueueTypeOK, PlaceInv, NEW i \in 0 .. len - 1, NEW j \in 0 .. len - 1, i # j, Swap(i, j)
  PROVE  /\ data' \in [Slots -> Weights \cup {Absent}]
         /\ \A k \in Slots : data'[k] = IF k = i THEN data[j] ELSE IF k = j THEN data[i] ELSE data[k]
         /\ \A k \in Slots : data'[k] = Absent <=> k >= len
<1>1. i \in Slots /\ j \in Slots /\ data[i] \in Weights /\ data[j] \in Weights /\ len \in Nat
  BY QueueFacts
<1>2. data \in [Slots -> Weights \cup {Absent}]
  BY DEF QueueTypeOK
<1>3. \A k \in Slots : data'[k] = IF k = i THEN data[j] ELSE IF k = j THEN data[i] ELSE data[k]
  BY <1>1, <1>2 DEF Swap
<1>4. data' \in [Slots -> Weights \cup {Absent}]
  BY <1>1, <1>2 DEF Swap
<1>5. ASSUME NEW k \in Slots PROVE data'[k] = Absent <=> k >= len
  <2>1. data[k] = Absent <=> k >= len
    BY DEF QueueTypeOK
  <2>2. data[i] # Absent /\ data[j] # Absent /\ ~ (i >= len) /\ ~ (j >= len)
    BY <1>1, AbsentAssumption
  <2> QED
    BY <1>3, <2>1, <2>2
<1> QED
  BY <1>3, <1>4, <1>5

\* Push and Pop fill the slots up to the length and no other.
LEMMA QueueTypeStep ==
  ASSUME QueueTypeOK, PlaceInv, [QueueNext]_queueVars
  PROVE  QueueTypeOK' /\ PlaceInv'
<1>f. /\ len \in Nat /\ Capacity \in Nat /\ len <= Capacity /\ idx \in Nat
      /\ \A i \in 0 .. len - 1 : i \in Slots /\ data[i] \in Weights
      /\ data \in [Slots -> Weights \cup {Absent}] /\ popped \in Weights \cup {Absent}
      /\ \A i \in Slots : data[i] = Absent <=> i >= len
  BY QueueFacts DEF QueueTypeOK
<1>1. ASSUME NEW w \in Weights, QueuePush(w) PROVE QueueTypeOK' /\ PlaceInv'
  <2>1. /\ len \in Slots /\ len' = len + 1 /\ len' \in 0 .. Capacity /\ idx' = len
        /\ data' = [data EXCEPT ![len] = w] /\ phase' = "up" /\ popped' = popped
    BY <1>f, <1>1 DEF QueuePush, Slots
  <2>2. data' \in [Slots -> Weights \cup {Absent}]
    BY <1>f, <2>1
  <2>3. ASSUME NEW i \in Slots PROVE data'[i] = Absent <=> i >= len'
    <3>1. i \in Nat
      BY DEF Slots
    <3>2. data'[i] = IF i = len THEN w ELSE data[i]
      BY <1>f, <2>1
    <3> QED
      BY <1>f, <2>1, <3>1, <3>2, AbsentAssumption
  <2> QED
    BY <1>f, <2>1, <2>2, <2>3 DEF QueueTypeOK, PlaceInv
<1>2. CASE Rise
  <2>1. /\ phase = "up" /\ idx \in 1 .. len - 1 /\ ParentIdx(idx) \in 0 .. idx - 1
        /\ Swap(ParentIdx(idx), idx) /\ idx' = ParentIdx(idx) /\ UNCHANGED <<len, phase, popped>>
    BY <1>2, QueueFacts DEF Rise
  <2>2. ParentIdx(idx) \in 0 .. len - 1 /\ idx \in 0 .. len - 1 /\ ParentIdx(idx) # idx
    BY <1>f, <2>1
  <2>3. /\ data' \in [Slots -> Weights \cup {Absent}]
        /\ \A k \in Slots : data'[k] = Absent <=> k >= len
    BY <2>1, <2>2, SwapFacts
  <2> QED
    BY <1>f, <2>1, <2>2, <2>3 DEF QueueTypeOK, PlaceInv
<1>3. CASE PushReturns \/ PopReturns
  BY <1>3 DEF PushReturns, PopReturns, QueueTypeOK, PlaceInv
<1>4. CASE QueuePop
  <2>1. /\ len - 1 \in Slots /\ 0 \in Slots /\ len' = len - 1 /\ len' \in 0 .. Capacity /\ idx' = 0
        /\ data[0] \in Weights /\ data[len - 1] \in Weights
        /\ data' = [[data EXCEPT ![0] = data[len - 1]] EXCEPT ![len - 1] = Absent]
        /\ phase' = "down" /\ popped' = data[0]
    BY <1>f, <1>4 DEF QueuePop, PlaceInv
  <2>2. data' \in [Slots -> Weights \cup {Absent}]
    BY <1>f, <2>1
  <2>3. ASSUME NEW i \in Slots PROVE data'[i] = Absent <=> i >= len'
    <3>1. i \in Nat
      BY DEF Slots
    <3>2. data'[i] = IF i = len - 1 THEN Absent ELSE IF i = 0 THEN data[len - 1] ELSE data[i]
      BY <1>f, <2>1
    <3> QED
      BY <1>f, <2>1, <3>1, <3>2, AbsentAssumption
  <2> QED
    BY <1>f, <2>1, <2>2, <2>3 DEF QueueTypeOK, PlaceInv
<1>5. CASE Sink
  <2>1. /\ phase = "down" /\ idx \in 0 .. len - 1 /\ Pick \in idx + 1 .. len - 1
        /\ Swap(idx, Pick) /\ idx' = Pick /\ UNCHANGED <<len, phase, popped>>
    BY <1>5, QueueFacts DEF Sink
  <2>2. Pick \in 0 .. len - 1 /\ idx # Pick
    BY <1>f, <2>1
  <2>3. /\ data' \in [Slots -> Weights \cup {Absent}]
        /\ \A k \in Slots : data'[k] = Absent <=> k >= len
    BY <2>1, <2>2, SwapFacts
  <2> QED
    BY <1>f, <2>1, <2>2, <2>3 DEF QueueTypeOK, PlaceInv
<1>6. CASE UNCHANGED queueVars
  BY <1>6 DEF queueVars, QueueTypeOK, PlaceInv
<1> QED
  BY <1>1, <1>2, <1>3, <1>4, <1>5, <1>6 DEF QueueNext

\* Push and Pop keep the order of the heap but for the element that moves.
LEMMA HeapStep ==
  ASSUME QueueTypeOK, PlaceInv, HeapInv, [QueueNext]_queueVars
  PROVE  HeapInv'
<1>f. /\ len \in Nat /\ Capacity \in Nat /\ len <= Capacity /\ idx \in Nat
      /\ \A i \in 0 .. len - 1 : i \in Slots /\ data[i] \in Int
      /\ data \in [Slots -> Weights \cup {Absent}]
  BY QueueFacts DEF QueueTypeOK
<1>p. \A i \in 1 .. len : ParentIdx(i) \in 0 .. i - 1
  BY <1>f, Parents
<1>1. ASSUME NEW w \in Weights, QueuePush(w) PROVE HeapInv'
  <2>1. /\ len \in Slots /\ len' = len + 1 /\ idx' = len /\ phase = "idle" /\ phase' = "up"
        /\ data' = [data EXCEPT ![len] = w]
    BY <1>f, <1>1 DEF QueuePush, Slots
  <2>2. \A i \in 0 .. len - 1 : data'[i] = data[i]
    BY <1>f, <2>1
  <2>3. ASSUME NEW i \in 1 .. len, i # len
        PROVE  data'[ParentIdx(i)] <= data'[i] /\ ParentIdx(i) # len
    <3>1. i \in 1 .. len - 1 /\ i \in 0 .. len - 1 /\ ParentIdx(i) \in 0 .. len - 1
          /\ ParentIdx(i) # len
      BY <1>f, <1>p, <2>3
    <3>2. data[ParentIdx(i)] <= data[i]
      BY <2>1, <3>1 DEF HeapInv
    <3> QED
      BY <2>2, <3>1, <3>2
  <2>4. ParentIdx(len) # len \/ len = 0
    BY <1>f, <1>p
  <2> QED
    BY <1>f, <2>1, <2>3, <2>4 DEF HeapInv
<1>2. CASE Rise
  <2> DEFINE p == ParentIdx(idx)
  <2>1. /\ phase = "up" /\ phase' = "up" /\ idx \in 1 .. len - 1 /\ p \in 0 .. idx - 1
        /\ Swap(p, idx) /\ idx' = p /\ len' = len /\ data[p] > data[idx]
    BY <1>2, QueueFacts DEF Rise, Rises
  <2>2. \A k \in Slots : data'[k] = IF k = p THEN data[idx] ELSE IF k = idx THEN data[p] ELSE data[k]
    <3>1. p \in 0 .. len - 1 /\ idx \in 0 .. len - 1 /\ p # idx
      BY <1>f, <2>1
    <3> QED
      BY <2>1, <3>1, SwapFacts
  <2>3. p > 0 => ParentIdx(p) \in 0 .. p - 1 /\ data[ParentIdx(p)] <= data[p]
    BY <1>f, <1>p, <2>1 DEF HeapInv
  <2> SUFFICES ASSUME NEW i \in 1 .. len - 1
               PROVE  /\ i = p \/ data'[ParentIdx(i)] <= data'[i]
                      /\ p > 0 /\ ParentIdx(i) = p => data'[ParentIdx(p)] <= data'[i]
    BY <2>1 DEF HeapInv
  <2>5. ParentIdx(i) \in 0 .. i - 1 /\ i \in 0 .. len - 1 /\ ParentIdx(i) \in 0 .. len - 1
    BY <1>f, <1>p
  <2>6. /\ i = idx \/ data[ParentIdx(i)] <= data[i]
        /\ ParentIdx(i) = idx => data[p] <= data[i]
    BY <2>1 DEF HeapInv
  <2>7. i # p => data'[ParentIdx(i)] <= data'[i]
    <3> SUFFICES ASSUME i # p PROVE data'[ParentIdx(i)] <= data'[i]
      OBVIOUS
    <3>1. CASE i = idx
      BY <1>f, <2>1, <2>2, <2>5, <3>1
    <3>2. CASE i # idx /\ ParentIdx(i) = idx
      BY <1>f, <2>1, <2>2, <2>5, <2>6, <3>2
    <3>3. CASE i # idx /\ ParentIdx(i) = p
      <4>1. data'[i] = data[i] /\ data'[p] = data[idx] /\ data[p] <= data[i]
            /\ data[i] \in Int /\ data[p] \in Int /\ data[idx] \in Int
        BY <1>f, <2>1, <2>2, <2>5, <2>6, <3>3
      <4> QED
        BY <2>1, <3>3, <4>1
    <3>4. CASE i # idx /\ ParentIdx(i) # idx /\ ParentIdx(i) # p
      <4>1. data'[i] = data[i] /\ data'[ParentIdx(i)] = data[ParentIdx(i)]
        BY <1>f, <2>2, <2>5, <3>4
      <4> QED
        BY <2>6, <3>4, <4>1
    <3> QED
      BY <3>1, <3>2, <3>3, <3>4
  <2>8. ASSUME p > 0, ParentIdx(i) = p PROVE data'[ParentIdx(p)] <= data'[i]
    <3>1. data'[ParentIdx(p)] = data[ParentIdx(p)] /\ ParentIdx(p) \in 0 .. len - 1
      <4>1. ParentIdx(p) \in 0 .. len - 1 /\ ParentIdx(p) # p /\ ParentIdx(p) # idx
        BY <1>f, <2>1, <2>3, <2>8
      <4> QED
        BY <1>f, <2>2, <4>1
    <3>2. CASE i = idx
      BY <1>f, <2>1, <2>2, <2>3, <2>8, <3>1, <3>2
    <3>3. CASE i # idx
      <4>1. data'[i] = data[i] /\ data[p] <= data[i] /\ data[ParentIdx(p)] <= data[p]
            /\ data[i] \in Int /\ data[p] \in Int /\ data[ParentIdx(p)] \in Int
        BY <1>f, <2>1, <2>2, <2>3, <2>5, <2>6, <2>8, <3>1, <3>3
      <4> QED
        BY <3>1, <4>1
    <3> QED
      BY <3>2, <3>3
  <2> QED
    BY <2>7, <2>8
<1>3. CASE PushReturns
  <2>1. /\ phase = "up" /\ phase' = "idle" /\ len' = len /\ data' = data /\ ~Rises
    BY <1>3 DEF PushReturns
  <2> SUFFICES ASSUME NEW i \in 1 .. len - 1 PROVE data[ParentIdx(i)] <= data[i]
    BY <2>1 DEF HeapInv
  <2>2. CASE i = idx
    <3>1. data[ParentIdx(i)] \in Int /\ data[i] \in Int /\ i > 0
      BY <1>f, <1>p
    <3> QED
      BY <2>1, <2>2, <3>1 DEF Rises
  <2>3. CASE i # idx
    BY <2>1, <2>3 DEF HeapInv
  <2> QED
    BY <2>2, <2>3
<1>4. CASE QueuePop
  <2>1. /\ len # 0 /\ len' = len - 1 /\ idx' = 0 /\ phase = "idle" /\ phase' = "down"
        /\ data' = [[data EXCEPT ![0] = data[len - 1]] EXCEPT ![len - 1] = Absent]
    BY <1>4 DEF QueuePop, PlaceInv
  <2>2. \A i \in 1 .. len - 2 : data'[i] = data[i]
    BY <1>f, <2>1
  <2>3. ASSUME NEW i \in 1 .. len - 2, ParentIdx(i) # 0 PROVE data'[ParentIdx(i)] <= data'[i]
    <3>1. i \in 1 .. len - 1 /\ ParentIdx(i) \in 1 .. len - 2
      BY <1>f, <1>p, <2>3
    <3>2. data[ParentIdx(i)] <= data[i]
      BY <2>1, <3>1 DEF HeapInv
    <3> QED
      BY <2>2, <3>1, <3>2
  <2>4. \A i \in 1 .. len' - 1 : ParentIdx(i) = idx' \/ data'[ParentIdx(i)] <= data'[i]
    <3>1. len' - 1 = len - 2
      BY <1>f, <2>1
    <3> QED
      BY <2>1, <2>3, <3>1
  <2>5. ~ (idx' > 0)
    BY <2>1
  <2> QED
    BY <2>1, <2>4, <2>5 DEF HeapInv
<1>5. CASE Sink
  <2> DEFINE c == Pick
  <2>1. /\ phase = "down" /\ phase' = "down" /\ idx \in 0 .. len - 1 /\ c \in idx + 1 .. len - 1
        /\ ParentIdx(c) = idx /\ Swap(idx, c) /\ idx' = c /\ len' = len /\ data[idx] > data[c]
        /\ \A i \in 1 .. len - 1 : ParentIdx(i) = idx => data[c] <= data[i]
    BY <1>5, QueueFacts DEF Sink, Sinks
  <2> HIDE DEF c
  <2>2. \A k \in Slots : data'[k] = IF k = idx THEN data[c] ELSE IF k = c THEN data[idx] ELSE data[k]
    <3>1. c \in 0 .. len - 1 /\ idx # c
      BY <1>f, <2>1
    <3> QED
      BY <2>1, <3>1, SwapFacts
  <2> SUFFICES ASSUME NEW i \in 1 .. len - 1
               PROVE  /\ ParentIdx(i) = c \/ data'[ParentIdx(i)] <= data'[i]
                      /\ ParentIdx(i) = c => data'[ParentIdx(c)] <= data'[i]
    BY <1>f, <2>1 DEF HeapInv
  <2>3. ParentIdx(i) \in 0 .. i - 1 /\ i \in 0 .. len - 1 /\ ParentIdx(i) \in 0 .. len - 1
    BY <1>f, <1>p
  <2>4. /\ ParentIdx(i) = idx \/ data[ParentIdx(i)] <= data[i]
        /\ idx > 0 /\ ParentIdx(i) = idx => data[ParentIdx(idx)] <= data[i]
    BY <2>1 DEF HeapInv
  <2>5. ASSUME ParentIdx(i) = c PROVE data'[ParentIdx(c)] <= data'[i]
    <3>1. i # idx /\ i # c /\ c # idx
      BY <1>f, <2>1, <2>3, <2>5
    <3>2. data'[i] = data[i] /\ data'[idx] = data[c] /\ data[c] <= data[i]
      BY <1>f, <2>1, <2>2, <2>3, <2>4, <2>5, <3>1
    <3> QED
      BY <2>1, <3>2
  <2>6. ASSUME ParentIdx(i) # c PROVE data'[ParentIdx(i)] <= data'[i]
    <3>1. CASE ParentIdx(i) = idx
      <4>1. data'[idx] = data[c] /\ data[c] <= data[i] /\ i # idx
        BY <1>f, <2>1, <2>2, <2>3, <3>1
      <4>2. data'[i] = IF i = c THEN data[idx] ELSE data[i]
        BY <1>f, <2>2, <2>3, <4>1
      <4>3. data[idx] \in Int /\ data[c] \in Int /\ c \in 0 .. len - 1
        BY <1>f, <2>1
      <4> QED
        BY <2>1, <3>1, <4>1, <4>2, <4>3
    <3>2. CASE ParentIdx(i) # idx /\ i = idx
      <4>1. idx > 0 /\ ParentIdx(idx) # idx /\ data'[ParentIdx(i)] = data[ParentIdx(idx)] /\ data'[i] = data[c]
        BY <1>f, <2>2, <2>3, <2>6, <3>2
      <4>2. c \in 1 .. len - 1
        BY <1>f, <2>1
      <4>3. data[ParentIdx(idx)] <= data[c]
        BY <2>1, <4>1, <4>2 DEF HeapInv
      <4> QED
        BY <4>1, <4>3
    <3>3. CASE ParentIdx(i) # idx /\ i # idx
      <4>1. i # c
        BY <2>1, <3>3
      <4>2. data'[i] = data[i] /\ data'[ParentIdx(i)] = data[ParentIdx(i)]
        BY <1>f, <2>2, <2>3, <2>6, <3>3, <4>1
      <4> QED
        BY <2>4, <3>3, <4>2
    <3> QED
      BY <3>1, <3>2, <3>3
  <2> QED
    BY <2>5, <2>6
<1>6. CASE PopReturns
  <2>1. /\ phase = "down" /\ phase' = "idle" /\ len' = len /\ data' = data /\ ~Sinks
    BY <1>6 DEF PopReturns
  <2> SUFFICES ASSUME NEW i \in 1 .. len - 1 PROVE data[ParentIdx(i)] <= data[i]
    BY <2>1 DEF HeapInv
  <2>2. CASE ParentIdx(i) = idx
    <3> DEFINE l == ChildrenArrayStartIdx(idx)
    <3>1. /\ i \in Nat \ {0} /\ l = 2 * idx + 1 /\ (i = l \/ i = l + 1) /\ l < len /\ l \in 0 .. len - 1
          /\ idx \in 0 .. len - 1
      BY <1>f, <2>2, Parents DEF ChildrenArrayStartIdx
    <3>2. Pick = IF l + 1 >= len \/ data[l] <= data[l + 1] THEN l ELSE l + 1
      BY DEF Pick
    <3>3. ~ (data[idx] > data[Pick])
      BY <2>1, <3>1 DEF Sinks
    <3> HIDE DEF l
    <3>4. data[idx] \in Int /\ data[l] \in Int /\ data[i] \in Int
      BY <1>f, <3>1
    <3>5. CASE Pick = l
      BY <1>f, <2>2, <3>1, <3>2, <3>3, <3>4, <3>5
    <3>6. CASE Pick # l
      <4>1. Pick = l + 1 /\ ~ (l + 1 >= len) /\ ~ (data[l] <= data[l + 1])
        BY <3>2, <3>6
      <4>2. data[l + 1] \in Int
        BY <1>f, <3>1, <4>1
      <4> QED
        BY <2>2, <3>1, <3>3, <3>4, <4>1, <4>2
    <3> QED
      BY <3>5, <3>6
  <2>3. CASE ParentIdx(i) # idx
    BY <2>1, <2>3 DEF HeapInv
  <2> QED
    BY <2>2, <2>3
<1>7. CASE UNCHANGED queueVars
  BY <1>7 DEF queueVars, HeapInv
<1> QED
  BY <1>1, <1>2, <1>3, <1>4, <1>5, <1>6, <1>7 DEF QueueNext

\* The refinement is proved from this invariant.
LEMMA QueueInvariance == QueueSpec => []QueueInv
<1>1. QueueInv /\ [QueueNext]_queueVars => QueueInv'
  BY QueueTypeStep, HeapStep DEF QueueInv
<1> QED
  BY <1>1, QueueInitInv, PTL DEF QueueSpec

\* The array is always well typed, its first len slots used and no other, for
\* every capacity and whatever is pushed.
THEOREM QueueTypeCorrect == QueueSpec => []QueueTypeOK
<1>1. QueueInv => QueueTypeOK
  BY DEF QueueInv
<1> QED
  BY <1>1, QueueInvariance, PTL

\* Between two calls the first slot holds a least element: the least slot
\* below it would have a parent that is below it too.
LEMMA RootLeast ==
  ASSUME QueueInv, phase = "idle", NEW i \in 0 .. len - 1
  PROVE  data[0] <= data[i]
<1> DEFINE Lesser == {k \in 0 .. len - 1 : data[k] < data[0]}
<1>f. /\ len \in Nat
      /\ \A k \in 0 .. len - 1 : data[k] \in Int
  BY QueueFacts DEF QueueInv
<1>1. SUFFICES ASSUME ~ (data[0] <= data[i]) PROVE FALSE
  OBVIOUS
<1>2. 0 \in 0 .. len - 1 /\ i \in Lesser /\ Lesser \in SUBSET Nat
  BY <1>f, <1>1
<1>3. PICK k \in Lesser : \A m \in Lesser : k <= m
  BY <1>2, LeastElement
<1>4. k \in 1 .. len - 1 /\ data[k] < data[0] /\ data[k] \in Int
  BY <1>f, <1>3
<1>5. ParentIdx(k) \in 0 .. k - 1
  BY <1>4, <1>f, Parents
<1>6. data[ParentIdx(k)] <= data[k]
  BY <1>1, <1>4 DEF QueueInv, HeapInv
<1>7. ParentIdx(k) \in Lesser
  <2>1. ParentIdx(k) \in 0 .. len - 1 /\ data[ParentIdx(k)] \in Int /\ data[0] \in Int
    BY <1>f, <1>2, <1>4, <1>5
  <2> QED
    BY <1>4, <1>6, <2>1
<1> QED
  BY <1>3, <1>4, <1>5, <1>7

\* The indices below n at which f is w.
Where(n, f, w) == {k \in 0 .. n - 1 : f[k] = w}

\* g is f with the elements of i and j exchanged.
Exchanged(n, f, g, i, j) ==
  \A k \in 0 .. n - 1 : g[k] = IF k = i THEN f[j] ELSE IF k = j THEN f[i] ELSE f[k]

\* Exchanging the elements of two slots changes no count.
LEMMA Exchange ==
  ASSUME NEW n \in Nat, NEW f, NEW g, NEW i \in 0 .. n - 1, NEW j \in 0 .. n - 1, NEW w,
         Exchanged(n, f, g, i, j)
  PROVE  /\ IsFiniteSet(Where(n, g, w))
         /\ Cardinality(Where(n, g, w)) = Cardinality(Where(n, f, w))
<1> DEFINE S == Where(n, f, w)
           T == Where(n, g, w)
           to(k) == IF k = i THEN j ELSE IF k = j THEN i ELSE k
           h == [k \in S |-> to(k)]
<1>1. IsFiniteSet(0 .. n - 1)
  BY FS_Interval
<1>2. IsFiniteSet(S) /\ IsFiniteSet(T)
  BY <1>1, FS_Subset DEF Where
<1>3. \A k \in 0 .. n - 1 : to(k) \in 0 .. n - 1 /\ to(to(k)) = k /\ g[to(k)] = f[k] /\ f[to(k)] = g[k]
  BY DEF Exchanged
<1>4. \A k \in S : to(k) \in T
  BY <1>3 DEF Where
<1>5. \A k \in T : to(k) \in S
  BY <1>3 DEF Where
<1>6. \A k \in S \cup T : to(to(k)) = k
  BY <1>3 DEF Where
<1> HIDE DEF S, T, to
<1>7. h \in Bijection(S, T)
  <2>1. h \in [S -> T]
    BY <1>4
  <2>2. \A a, b \in S : h[a] = h[b] => a = b
    BY <1>6
  <2>3. \A t \in T : \E s \in S : h[s] = t
    BY <1>5, <1>6
  <2> QED
    BY <2>1, <2>2, <2>3 DEF Bijection, Injection, Surjection, IsInjective
<1>8. Cardinality(T) = Cardinality(S)
  BY <1>2, <1>7, FS_Bijection DEF ExistsBijection
<1> QED
  BY <1>2, <1>8 DEF S, T

\* The slots that hold elements of a weight.
Holding(w) == Where(len, data, w)

\* They are finitely many.
LEMMA Counts ==
  ASSUME QueueTypeOK
  PROVE  /\ count = [w \in Weights |-> Cardinality(Holding(w))]
         /\ \A w : IsFiniteSet(Holding(w)) /\ Cardinality(Holding(w)) \in Nat
<1>1. len \in Int /\ 0 \in Int
  BY CapacityAssumption DEF QueueTypeOK
<1>2. IsFiniteSet(0 .. len - 1)
  BY <1>1, FS_Interval
<1>3. \A w : Holding(w) \in SUBSET (0 .. len - 1)
  BY DEF Holding, Where
<1>4. \A w : IsFiniteSet(Holding(w)) /\ Cardinality(Holding(w)) \in Nat
  BY <1>2, <1>3, FS_Subset, FS_CardinalityType
<1> QED
  BY <1>4 DEF count, Holding, Where

\* The exchanges of the two loops change no count.
LEMMA SwapCounts ==
  ASSUME QueueTypeOK, PlaceInv, NEW i \in 0 .. len - 1, NEW j \in 0 .. len - 1, i # j,
         Swap(i, j), len' = len
  PROVE  count' = count
<1>1. /\ len \in Nat /\ \A k \in 0 .. len - 1 : k \in Slots
  BY QueueFacts
<1>2. Exchanged(len, data, data', i, j)
  BY <1>1, SwapFacts DEF Exchanged
<1>3. \A w : Cardinality(Where(len, data', w)) = Cardinality(Where(len, data, w))
  BY <1>1, <1>2, Exchange
<1>4. \A w : Cardinality(Holding(w)') = Cardinality(Holding(w))
  BY <1>3 DEF Holding, Where
<1> QED
  BY <1>4 DEF count, Holding, Where

\* Push adds one element of its weight.
LEMMA PushCounts ==
  ASSUME QueueInv, NEW w \in Weights, QueuePush(w)
  PROVE  BagPromise!Push(w)
<1>1. QueueTypeOK /\ PlaceInv
  BY DEF QueueInv
<1>2. /\ len \in Nat /\ len \in Slots /\ len' = len + 1 /\ data' = [data EXCEPT ![len] = w]
      /\ UNCHANGED popped /\ data \in [Slots -> Weights \cup {Absent}]
      /\ \A i \in 0 .. len - 1 : i \in Slots
  BY <1>1, QueueFacts DEF QueuePush, Slots, QueueTypeOK
<1>3. \A i \in 0 .. len : data'[i] = IF i = len THEN w ELSE data[i]
  BY <1>2
<1>4. \A u : Holding(u)' = IF u = w THEN Holding(u) \cup {len} ELSE Holding(u)
  <2>1. \A u : Holding(u)' = {i \in 0 .. len : data'[i] = u}
    BY <1>2 DEF Holding, Where
  <2> QED
    BY <1>2, <1>3, <2>1 DEF Holding, Where
<1>5. \A u : len \notin Holding(u)
  BY <1>2 DEF Holding, Where
<1>6. \A u : Cardinality(Holding(u)') = IF u = w THEN Cardinality(Holding(u)) + 1 ELSE Cardinality(Holding(u))
  BY <1>1, <1>4, <1>5, Counts, FS_AddElement
<1>7. count' = [u \in Weights |-> Cardinality(Holding(u)')]
  BY DEF count, Holding, Where
<1>8. count' = [count EXCEPT ![w] = @ + 1]
  BY <1>1, <1>6, <1>7, Counts
<1> QED
  BY <1>2, <1>8 DEF BagPromise!Push

\* Pop removes one element, and it is a least one.
LEMMA PopCounts ==
  ASSUME QueueInv, QueuePop
  PROVE  \E w \in Weights : BagPromise!Pop(w)
<1> DEFINE m == len - 1
           w == data[0]
           g == [k \in 0 .. m |-> IF k = 0 THEN data[m] ELSE IF k = m THEN data[0] ELSE data[k]]
<1>1. QueueTypeOK /\ PlaceInv
  BY DEF QueueInv
<1>2. /\ len \in Nat \ {0} /\ len' = len - 1 /\ popped' = data[0] /\ phase = "idle"
      /\ data' = [[data EXCEPT ![0] = data[len - 1]] EXCEPT ![len - 1] = Absent]
      /\ data \in [Slots -> Weights \cup {Absent}]
      /\ \A i \in 0 .. len - 1 : i \in Slots
  BY <1>1, QueueFacts DEF QueuePop, QueueTypeOK
<1>3. /\ m \in Nat /\ 0 \in 0 .. m /\ m \in 0 .. m /\ w \in Weights /\ m + 1 = len
      /\ \A i \in 0 .. m - 1 : data'[i] = IF i = 0 THEN data[m] ELSE data[i]
  BY <1>1, <1>2, QueueFacts
<1>4. \A u : /\ Cardinality(Where(len, g, u)) = Cardinality(Holding(u))
             /\ IsFiniteSet(Where(len, g, u))
  <2>1. \A k \in 0 .. m : g[k] = IF k = 0 THEN data[m] ELSE IF k = m THEN data[0] ELSE data[k]
    OBVIOUS
  <2>2. len \in Nat /\ 0 \in 0 .. len - 1 /\ m \in 0 .. len - 1
    BY <1>3
  <2> HIDE DEF g
  <2>3. Exchanged(len, data, g, 0, m)
    BY <2>1 DEF Exchanged
  <2> HIDE DEF m
  <2>4. \A u : /\ Cardinality(Where(len, g, u)) = Cardinality(Where(len, data, u))
               /\ IsFiniteSet(Where(len, g, u))
    BY <2>2, <2>3, Exchange
  <2> QED
    BY <2>4 DEF Holding
<1>5. \A u : Holding(u)' = IF u = w THEN Where(len, g, u) \ {m} ELSE Where(len, g, u)
  <2>1. \A u : Holding(u)' = {i \in 0 .. m - 1 : data'[i] = u}
    BY <1>2 DEF Holding, Where
  <2>2. \A i \in 0 .. m - 1 : data'[i] = g[i]
    BY <1>3
  <2>3. g[m] = w
    BY <1>3
  <2> HIDE DEF g, w
  <2>4. \A u : Holding(u)' = {i \in 0 .. m - 1 : g[i] = u}
    BY <2>1, <2>2
  <2> HIDE DEF m
  <2>5. \A i : i \in 0 .. m <=> i \in 0 .. m - 1 \/ i = m
    BY <1>3
  <2>6. m \notin 0 .. m - 1
    BY <1>3
  <2> QED
    BY <1>3, <2>3, <2>4, <2>5, <2>6 DEF Where
<1>6. m \in Where(len, g, w)
  BY <1>3 DEF Where
<1>7. \A u : Cardinality(Holding(u)') = IF u = w THEN Cardinality(Holding(u)) - 1 ELSE Cardinality(Holding(u))
  <2> HIDE DEF g, w, m
  <2> QED
    BY <1>4, <1>5, <1>6, FS_RemoveElement
<1>8. count' = [u \in Weights |-> Cardinality(Holding(u)')]
  BY DEF count, Holding, Where
<1>9. count' = [count EXCEPT ![w] = @ - 1]
  BY <1>1, <1>7, <1>8, Counts
<1>10. count[w] > 0
  <2>1. 0 \in Holding(w)
    BY <1>2, <1>3 DEF Holding, Where
  <2>2. Cardinality(Holding(w)) \in Nat /\ Cardinality(Holding(w)) # 0
    BY <1>1, <2>1, Counts, FS_EmptySet
  <2> QED
    BY <1>1, <1>3, <2>2, Counts
<1>11. ASSUME NEW u \in Weights, count[u] > 0 PROVE w <= u
  <2>1. Cardinality(Holding(u)) > 0
    BY <1>1, <1>11, Counts
  <2>2. PICK i \in 0 .. len - 1 : data[i] = u
    <3>1. Holding(u) # {}
      BY <2>1, FS_EmptySet
    <3> QED
      BY <3>1 DEF Holding, Where
  <2> QED
    BY <1>2, <2>2, RootLeast
<1> QED
  BY <1>2, <1>3, <1>9, <1>10, <1>11 DEF BagPromise!Pop

\* Pop returns a least element and none is lost or doubled, for every capacity
\* and every set of weights: the heap implements the bag.
THEOREM QueueIsBag == QueueSpec => ImplementsPriorityBag
<1>1. QueueInit => BagPromise!Init
  <2> SUFFICES ASSUME QueueInit PROVE BagPromise!Init
    OBVIOUS
  <2>1. \A w : {i \in 0 .. len - 1 : data[i] = w} = {}
    BY DEF QueueInit
  <2> QED
    BY <2>1, FS_EmptySet DEF QueueInit, count, BagPromise!Init
<1>2. QueueInv /\ [QueueNext]_queueVars => [BagPromise!Next]_(BagPromise!vars)
  <2> SUFFICES ASSUME QueueInv, [QueueNext]_queueVars
               PROVE  [BagPromise!Next]_(BagPromise!vars)
    OBVIOUS
  <2>t. QueueTypeOK /\ PlaceInv /\ len \in Nat /\ idx \in Nat
    BY QueueFacts DEF QueueInv
  <2>1. ASSUME NEW w \in Weights, QueuePush(w) PROVE BagPromise!Next
    BY <2>1, PushCounts DEF BagPromise!Next
  <2>2. CASE QueuePop
    BY <2>2, PopCounts DEF BagPromise!Next
  <2>3. CASE Rise
    <3>1. idx \in 1 .. len - 1 /\ ParentIdx(idx) \in 0 .. idx - 1
          /\ Swap(ParentIdx(idx), idx) /\ len' = len /\ popped' = popped
      BY <2>t, <2>3, QueueFacts DEF Rise
    <3>2. ParentIdx(idx) \in 0 .. len - 1 /\ idx \in 0 .. len - 1 /\ ParentIdx(idx) # idx
      BY <2>t, <3>1
    <3>3. count' = count
      BY <2>t, <3>1, <3>2, SwapCounts
    <3> QED
      BY <3>1, <3>3 DEF BagPromise!vars
  <2>4. CASE Sink
    <3>1. idx \in 0 .. len - 1 /\ Pick \in idx + 1 .. len - 1
          /\ Swap(idx, Pick) /\ len' = len /\ popped' = popped
      BY <2>t, <2>4, QueueFacts DEF Sink
    <3>2. Pick \in 0 .. len - 1 /\ Pick # idx
      BY <2>t, <3>1
    <3>3. count' = count
      BY <2>t, <3>1, <3>2, SwapCounts
    <3> QED
      BY <3>1, <3>3 DEF BagPromise!vars
  <2>5. CASE PushReturns \/ PopReturns \/ UNCHANGED queueVars
    BY <2>5 DEF PushReturns, PopReturns, queueVars, count, BagPromise!vars
  <2> QED
    BY <2>1, <2>2, <2>3, <2>4, <2>5 DEF QueueNext
<1> QED
  BY <1>1, <1>2, QueueInvariance, PTL DEF QueueSpec, ImplementsPriorityBag, BagPromise!Spec

(***************************************************************************)
(* The timing wheel.  A node is in the list of a bucket, in that of the    *)
(* tick, which counts as one more bucket, or free.                         *)
(***************************************************************************)
OnTick == Buckets
Free   == -1

First(b) == IF b = OnTick THEN currentIdx ELSE buckets[b]

\* own says where each node is and pos how many follow it there.  The nodes of
\* a place are one list: all but the first follow one of them.
Listed(own, pos) ==
  /\ \A b \in 0 .. Buckets :
       IF First(b) = Invalid THEN \A n \in Nodes : own[n] # b ELSE own[First(b)] = b
  /\ \A n \in Nodes : own[n] # Free =>
       /\ pos[n] <= pos[First(own[n])]
       /\ n # First(own[n]) => \E m \in Nodes : own[m] = own[n] /\ next[m] = n
       /\ IF next[n] = Invalid THEN pos[n] = 0
          ELSE own[next[n]] = own[n] /\ pos[n] = pos[next[n]] + 1

\* The lists of the buckets can be walked back.
Backed(own) ==
  /\ \A b \in 0 .. Buckets - 1 : buckets[b] # Invalid => prev[buckets[b]] = Invalid
  /\ \A n \in Nodes : own[n] \in 0 .. Buckets - 1 /\ next[n] # Invalid => prev[next[n]] = n

\* The stack has each free node once, and no other.
Stacked(own) ==
  /\ \A i \in 1 .. Len(freeNodes) : own[freeNodes[i]] = Free
  /\ \A n \in Nodes : own[n] = Free => \E i \in 1 .. Len(freeNodes) : freeNodes[i] = n
  /\ \A i, j \in 1 .. Len(freeNodes) : freeNodes[i] = freeNodes[j] => i = j

\* A node that is not free has a timer of its own.
Timed(own) ==
  /\ \A n \in Nodes : value[n] = Invalid <=> own[n] = Free
  /\ \A m, n \in Nodes : value[m] = value[n] /\ value[m] # Invalid => m = n

TickInv == calling => currentIdx # Invalid /\ nextIdx = next[currentIdx]

Placed(own, pos) ==
  /\ own \in [Nodes -> -1 .. Buckets]
  /\ pos \in [Nodes -> Nat]
  /\ Listed(own, pos) /\ Backed(own) /\ Stacked(own) /\ Timed(own)

WheelInv ==
  /\ WheelTypeOK
  /\ TickInv
  /\ \E own \in [Nodes -> -1 .. Buckets], pos \in [Nodes -> Nat] : Placed(own, pos)

(***************************************************************************)
(* What Chain computes.                                                    *)
(***************************************************************************)

\* r is the function of the definition of Chain.
Reaches(r, first) ==
  r = [k \in 0 .. NumNodes |->
         IF k = 0 THEN {first} ELSE r[k - 1] \cup {next[n] : n \in r[k - 1] \ {Invalid}}]

\* There is such a function: it is extended by one argument after the other.
LEMMA ReachExists ==
  ASSUME NEW first
  PROVE  \E r : Reaches(r, first)
<1> DEFINE Next1(S)  == S \cup {next[n] : n \in S \ {Invalid}}
           Upto(r, m) == \A k \in 0 .. m : r[k] = IF k = 0 THEN {first} ELSE Next1(r[k - 1])
           T == {m \in Nat : ~ \E r : Upto(r, m)}
<1> HIDE DEF Next1
<1>1. T = {}
  <2>1. SUFFICES ASSUME T # {} PROVE FALSE
    OBVIOUS
  <2>2. PICK m \in T : \A k \in T : m <= k
    <3>1. T \in SUBSET Nat
      OBVIOUS
    <3> HIDE DEF T
    <3> QED
      BY <2>1, <3>1, LeastElement
  <2>3. m \in Nat /\ ~ \E r : Upto(r, m)
    BY <2>2
  <2>4. m # 0
    <3>1. SUFFICES ASSUME m = 0 PROVE FALSE
      OBVIOUS
    <3>2. Upto([k \in {0} |-> {first}], 0)
      OBVIOUS
    <3> QED
      BY <2>3, <3>1, <3>2
  <2>5. m - 1 \in Nat /\ ~ (m <= m - 1)
    BY <2>3, <2>4
  <2>6. PICK r : Upto(r, m - 1)
    BY <2>2, <2>5
  <2> DEFINE s == [k \in 0 .. m |-> IF k = m THEN Next1(r[m - 1]) ELSE r[k]]
  <2>7. Upto(s, m)
    <3> SUFFICES ASSUME NEW k \in 0 .. m
                 PROVE  s[k] = IF k = 0 THEN {first} ELSE Next1(s[k - 1])
      OBVIOUS
    <3>1. k # 0 => k - 1 \in 0 .. m /\ k - 1 # m
      BY <2>3
    <3>2. k # 0 => s[k - 1] = r[k - 1]
      BY <3>1
    <3>3. CASE k = m
      BY <2>4, <3>2, <3>3
    <3>4. CASE k # m
      <4>1. k \in 0 .. m - 1 /\ s[k] = r[k]
        BY <2>3, <3>4
      <4> QED
        BY <2>6, <3>2, <4>1
    <3> QED
      BY <3>3, <3>4
  <2> QED
    BY <2>3, <2>7
<1>2. PICK r : Upto(r, NumNodes)
  BY <1>1, NumNodesAssumption
<1> DEFINE s == [k \in 0 .. NumNodes |-> r[k]]
<1>3. Reaches(s, first)
  <2>1. \A k \in 0 .. NumNodes : k # 0 => k - 1 \in 0 .. NumNodes
    BY NumNodesAssumption
  <2>2. \A k \in 0 .. NumNodes : s[k] = IF k = 0 THEN {first} ELSE Next1(s[k - 1])
    BY <1>2, <2>1
  <2>3. s = [k \in 0 .. NumNodes |-> IF k = 0 THEN {first} ELSE Next1(s[k - 1])]
    BY <2>2
  <2> QED
    BY <2>3 DEF Reaches, Next1
<1> QED
  BY <1>3

\* Chain is the last value of such a function.
LEMMA ChainIs ==
  ASSUME NEW first
  PROVE  \E r : Reaches(r, first) /\ Chain(first) = r[NumNodes] \ {Invalid}
<1> DEFINE reach[k \in 0 .. NumNodes] ==
             IF k = 0 THEN {first}
             ELSE reach[k - 1] \cup {next[n] : n \in reach[k - 1] \ {Invalid}}
<1>1. Chain(first) = reach[NumNodes] \ {Invalid}
  BY DEF Chain
<1>2. Reaches(reach, first)
  <2>1. \E r : Reaches(r, first)
    BY ReachExists
  <2>2. reach = CHOOSE r : Reaches(r, first)
    BY DEF reach, Reaches
  <2> HIDE DEF reach
  <2> QED
    BY <2>1, <2>2, Zenon
<1> HIDE DEF reach
<1> QED
  BY <1>1, <1>2

\* Chain stays in a set of nodes that is closed under next.
LEMMA ChainWithin ==
  ASSUME NEW C \in SUBSET Nodes, NEW first \in C \cup {Invalid},
         \A n \in C : next[n] \in C \cup {Invalid}
  PROVE  Chain(first) \subseteq C
<1>1. PICK r : Reaches(r, first) /\ Chain(first) = r[NumNodes] \ {Invalid}
  BY ChainIs
<1>2. \A k \in 0 .. NumNodes :
        r[k] = IF k = 0 THEN {first} ELSE r[k - 1] \cup {next[n] : n \in r[k - 1] \ {Invalid}}
  BY <1>1 DEF Reaches
<1> DEFINE T == {k \in 0 .. NumNodes : ~ (r[k] \subseteq C \cup {Invalid})}
<1>3. T = {}
  <2>1. SUFFICES ASSUME T # {} PROVE FALSE
    OBVIOUS
  <2>2. PICK m \in T : \A k \in T : m <= k
    <3>1. T \in SUBSET Nat
      BY NumNodesAssumption
    <3> HIDE DEF T
    <3> QED
      BY <2>1, <3>1, LeastElement
  <2>3. m \in 0 .. NumNodes /\ ~ (r[m] \subseteq C \cup {Invalid})
    BY <2>2
  <2>4. m # 0
    BY <1>2, <2>3
  <2>5. m - 1 \in 0 .. NumNodes /\ ~ (m <= m - 1)
    BY <2>3, <2>4, NumNodesAssumption
  <2>6. r[m - 1] \subseteq C \cup {Invalid}
    BY <2>2, <2>5
  <2>7. r[m] = r[m - 1] \cup {next[n] : n \in r[m - 1] \ {Invalid}}
    BY <1>2, <2>3, <2>4
  <2>8. \A n \in r[m - 1] \ {Invalid} : next[n] \in C \cup {Invalid}
    BY <2>6
  <2> QED
    BY <2>3, <2>6, <2>7, <2>8
<1>4. NumNodes \in 0 .. NumNodes
  BY NumNodesAssumption
<1> QED
  BY <1>1, <1>3, <1>4

\* first has the highest position of C, and every other node of C follows one.
Headed(C, first, pos) ==
  /\ first \in C
  /\ \A n \in C : pos[n] <= pos[first]
  /\ \A n \in C : n # first => \E m \in C : next[m] = n /\ pos[m] = pos[n] + 1

\* No node is further from the first than there are nodes.
LEMMA Distance ==
  ASSUME NEW C \in SUBSET Nodes, NEW first, NEW pos \in [Nodes -> Nat], Headed(C, first, pos),
         NEW n \in C
  PROVE  pos[first] - pos[n] \in 0 .. NumNodes
<1> DEFINE T == {j \in pos[n] .. pos[first] : ~ \E m \in C : pos[m] = j}
<1>t. /\ pos[n] \in Nat /\ pos[first] \in Nat /\ pos[n] <= pos[first] /\ NumNodes \in Nat
      /\ \A m \in C : pos[m] \in Nat
  BY NumNodesAssumption DEF Headed
<1>1. T = {}
  <2>1. SUFFICES ASSUME T # {} PROVE FALSE
    OBVIOUS
  <2>2. PICK j \in T : \A k \in T : j <= k
    <3>1. T \in SUBSET Nat
      BY <1>t
    <3> HIDE DEF T
    <3> QED
      BY <2>1, <3>1, LeastElement
  <2>3. j \in pos[n] .. pos[first] /\ j # pos[n]
    BY <2>2
  <2>4. j - 1 \in pos[n] .. pos[first] /\ ~ (j <= j - 1)
    BY <1>t, <2>3
  <2>5. PICK m \in C : pos[m] = j - 1
    BY <2>2, <2>4
  <2>6. m # first
    BY <1>t, <2>3, <2>5
  <2>7. \E l \in C : pos[l] = pos[m] + 1
    BY <2>6 DEF Headed
  <2>8. pos[m] + 1 = j
    BY <1>t, <2>3, <2>5
  <2> QED
    BY <2>2, <2>7, <2>8
<1> DEFINE S == {m \in C : pos[m] \in pos[n] .. pos[first]}
           h == [m \in S |-> pos[m]]
<1>2. IsFiniteSet(Nodes) /\ Cardinality(Nodes) = NumNodes
  <2>1. 0 \in Int /\ NumNodes - 1 \in Int
    BY <1>t
  <2>2. IsFiniteSet(0 .. NumNodes - 1)
        /\ Cardinality(0 .. NumNodes - 1) = IF 0 > NumNodes - 1 THEN 0 ELSE NumNodes - 1 - 0 + 1
    BY <2>1, FS_Interval
  <2> QED
    BY <1>t, <2>2 DEF Nodes
<1>3. IsFiniteSet(S) /\ Cardinality(S) <= NumNodes /\ Cardinality(S) \in Nat
  <2>1. S \in SUBSET Nodes
    OBVIOUS
  <2> HIDE DEF S
  <2> QED
    BY <1>2, <2>1, FS_Subset, FS_CardinalityType
<1>4. h \in Surjection(S, pos[n] .. pos[first])
  <2>1. h \in [S -> pos[n] .. pos[first]]
    OBVIOUS
  <2>2. \A j \in pos[n] .. pos[first] : \E m \in S : h[m] = j
    BY <1>1
  <2> QED
    BY <2>1, <2>2 DEF Surjection
<1> HIDE DEF S, h, T
<1>5. /\ Cardinality(pos[n] .. pos[first]) <= Cardinality(S)
  BY <1>3, <1>4, FS_Surjection
<1>6. Cardinality(pos[n] .. pos[first]) = pos[first] - pos[n] + 1
  <2>1. pos[n] \in Int /\ pos[first] \in Int
    BY <1>t
  <2>2. Cardinality(pos[n] .. pos[first]) = IF pos[n] > pos[first] THEN 0 ELSE pos[first] - pos[n] + 1
    BY <2>1, FS_Interval
  <2> QED
    BY <1>t, <2>2
<1> QED
  BY <1>t, <1>3, <1>5, <1>6

\* Chain reaches every node of such a set.
LEMMA ChainCovers ==
  ASSUME NEW C \in SUBSET Nodes, NEW first, NEW pos \in [Nodes -> Nat], Headed(C, first, pos)
  PROVE  C \subseteq Chain(first)
<1>1. PICK r : Reaches(r, first) /\ Chain(first) = r[NumNodes] \ {Invalid}
  BY ChainIs
<1>2. \A k \in 0 .. NumNodes :
        r[k] = IF k = 0 THEN {first} ELSE r[k - 1] \cup {next[n] : n \in r[k - 1] \ {Invalid}}
  BY <1>1 DEF Reaches
<1>n. \A n \in C : n # Invalid
  BY InvalidAssumption DEF Nodes
<1> DEFINE T == {k \in 0 .. NumNodes : \E n \in C : pos[first] - pos[n] <= k /\ n \notin r[k]}
<1>3. T = {}
  <2>1. SUFFICES ASSUME T # {} PROVE FALSE
    OBVIOUS
  <2>2. PICK d \in T : \A k \in T : d <= k
    <3>1. T \in SUBSET Nat
      BY NumNodesAssumption
    <3> HIDE DEF T
    <3> QED
      BY <2>1, <3>1, LeastElement
  <2>3. PICK n \in C : pos[first] - pos[n] <= d /\ n \notin r[d]
    BY <2>2
  <2>t. /\ d \in 0 .. NumNodes /\ pos[n] \in Nat /\ pos[first] \in Nat /\ pos[n] <= pos[first]
        /\ NumNodes \in Nat
    BY <2>2, <2>3, NumNodesAssumption DEF Headed
  <2>4. n # first \/ d # 0
    BY <1>2, <2>3, <2>t
  <2>5. CASE d = 0
    <3>1. PICK m \in C : pos[m] = pos[n] + 1
      BY <2>4, <2>5 DEF Headed
    <3>2. pos[m] <= pos[first]
      BY DEF Headed
    <3> QED
      BY <2>3, <2>5, <2>t, <3>1, <3>2
  <2>6. CASE d # 0
    <3>1. d - 1 \in 0 .. NumNodes /\ ~ (d <= d - 1)
      BY <2>6, <2>t
    <3>2. d - 1 \notin T
      BY <2>2, <3>1
    <3>3. r[d] = r[d - 1] \cup {next[k] : k \in r[d - 1] \ {Invalid}}
      BY <1>2, <2>6, <2>t
    <3>4. CASE n = first
      BY <2>3, <2>t, <3>1, <3>2, <3>3, <3>4
    <3>5. CASE n # first
      <4>1. PICK m \in C : next[m] = n /\ pos[m] = pos[n] + 1
        BY <3>5 DEF Headed
      <4>2. pos[first] - pos[m] <= d - 1
        BY <2>3, <2>t, <4>1
      <4>3. m \in r[d - 1] \ {Invalid}
        BY <1>n, <3>1, <3>2, <4>1, <4>2
      <4> QED
        BY <2>3, <3>3, <4>1, <4>3
    <3> QED
      BY <3>4, <3>5
  <2> QED
    BY <2>5, <2>6
<1>4. ASSUME NEW n \in C PROVE n \in r[NumNodes]
  <2>1. pos[first] - pos[n] <= NumNodes /\ NumNodes \in 0 .. NumNodes
    BY Distance, NumNodesAssumption
  <2> QED
    BY <1>3, <2>1
<1> QED
  BY <1>1, <1>4, <1>n

\* The nodes of a place.
At(own, b) == {n \in Nodes : own[n] = b}

\* Chain finds the nodes of each place, during a callback as well: TickChain
\* then is the node of the callback and the chain of its saved successor.
LEMMA Chains ==
  ASSUME WheelTypeOK, TickInv, NEW own \in [Nodes -> -1 .. Buckets], NEW pos \in [Nodes -> Nat],
         Listed(own, pos)
  PROVE  /\ \A b \in 0 .. Buckets - 1 : Bucketed(b) = At(own, b)
         /\ TickChain = At(own, OnTick)
<1>t. /\ Buckets \in Nat \ {0} /\ next \in [Nodes -> Nodes \cup {Invalid}]
      /\ currentIdx \in Nodes \cup {Invalid} /\ \A n \in Nodes : n # Invalid /\ pos[n] \in Nat
      /\ \A b \in 0 .. Buckets - 1 : buckets[b] \in Nodes \cup {Invalid}
  BY BucketsAssumption, InvalidAssumption DEF WheelTypeOK, NodeOrNil, Nodes
<1>p. \A b \in 0 .. Buckets : First(b) \in Nodes \cup {Invalid}
  BY <1>t DEF First, OnTick
<1>m. \A n \in Nodes : own[n] # Free /\ n # First(own[n])
        => \E m \in Nodes : own[m] = own[n] /\ next[m] = n /\ pos[m] = pos[n] + 1
  BY <1>t DEF Listed
<1>1. ASSUME NEW b \in 0 .. Buckets PROVE Chain(First(b)) = At(own, b)
  <2>1. b # Free
    BY <1>t DEF Free
  <2>2. \A n \in At(own, b) : next[n] \in At(own, b) \cup {Invalid}
    BY <1>t, <2>1 DEF Listed, At
  <2>3. First(b) \in At(own, b) \cup {Invalid}
    BY <1>p DEF Listed, At
  <2>4. Chain(First(b)) \subseteq At(own, b)
    BY <2>2, <2>3, ChainWithin DEF At
  <2>5. At(own, b) \subseteq Chain(First(b))
    <3>1. CASE First(b) = Invalid
      BY <3>1 DEF Listed, At
    <3>2. CASE First(b) # Invalid
      <4>1. Headed(At(own, b), First(b), pos)
        BY <1>m, <2>1, <2>3, <3>2 DEF Headed, Listed, At
      <4> QED
        BY <4>1, ChainCovers DEF At
    <3> QED
      BY <3>1, <3>2
  <2> QED
    BY <2>4, <2>5
<1>2. \A b \in 0 .. Buckets - 1 : Bucketed(b) = At(own, b)
  <2>1. \A b \in 0 .. Buckets - 1 : b \in 0 .. Buckets /\ First(b) = buckets[b]
    BY <1>t DEF First, OnTick
  <2> QED
    BY <1>1, <2>1 DEF Bucketed
<1>3. Chain(currentIdx) = At(own, OnTick)
  <2>1. OnTick \in 0 .. Buckets /\ First(OnTick) = currentIdx
    BY <1>t DEF First, OnTick
  <2> QED
    BY <1>1, <2>1
<1>4. ASSUME calling PROVE {currentIdx} \cup Chain(nextIdx) = At(own, OnTick)
  <2> DEFINE C == At(own, OnTick) \ {currentIdx}
  <2>1. /\ OnTick \in 0 .. Buckets /\ OnTick # Free /\ First(OnTick) = currentIdx
        /\ currentIdx \in Nodes /\ own[currentIdx] = OnTick /\ nextIdx = next[currentIdx]
    BY <1>t, <1>4 DEF First, OnTick, Free, TickInv, Listed
  <2>2. \A n \in At(own, OnTick) : pos[n] <= pos[currentIdx]
    BY <2>1 DEF Listed, At
  <2>3. \A n \in At(own, OnTick) :
          IF next[n] = Invalid THEN pos[n] = 0
          ELSE next[n] \in At(own, OnTick) /\ pos[n] = pos[next[n]] + 1
    BY <1>t, <2>1 DEF Listed, At
  <2>4. \A n \in C : \E m \in At(own, OnTick) : next[m] = n /\ pos[m] = pos[n] + 1
    BY <1>m, <2>1 DEF At
  <2>5. currentIdx \in At(own, OnTick) /\ C \subseteq Nodes /\ At(own, OnTick) \subseteq Nodes
    BY <2>1 DEF At
  <2>6. \A n \in C : next[n] \in C \cup {Invalid}
    <3> SUFFICES ASSUME NEW n \in C, next[n] = currentIdx PROVE FALSE
      BY <2>3
    <3>1. pos[n] = pos[currentIdx] + 1 /\ pos[n] <= pos[currentIdx]
      BY <1>t, <2>1, <2>2, <2>3
    <3> QED
      BY <1>t, <2>1, <2>5, <3>1
  <2>7. nextIdx \in C \cup {Invalid}
    <3>1. next[currentIdx] # currentIdx
      BY <1>t, <2>1, <2>3, <2>5
    <3> QED
      BY <2>1, <2>3, <2>5, <3>1
  <2>8. Chain(nextIdx) \subseteq C
    BY <2>5, <2>6, <2>7, ChainWithin
  <2>9. C \subseteq Chain(nextIdx)
    <3>1. CASE nextIdx = Invalid
      <4> SUFFICES ASSUME NEW n \in C PROVE FALSE
        OBVIOUS
      <4>1. PICK m \in At(own, OnTick) : next[m] = n /\ pos[m] = pos[n] + 1
        BY <2>4
      <4>2. pos[currentIdx] = 0 /\ pos[m] <= pos[currentIdx]
        BY <2>1, <2>2, <2>3, <2>5, <3>1
      <4> QED
        BY <1>t, <2>5, <4>1, <4>2
    <3>2. CASE nextIdx # Invalid
      <4>1. pos[currentIdx] = pos[nextIdx] + 1
        BY <2>1, <2>3, <2>5, <3>2
      <4>2. ASSUME NEW n \in C PROVE pos[n] <= pos[nextIdx]
        <5>1. PICK m \in At(own, OnTick) : pos[m] = pos[n] + 1
          BY <2>4
        <5>2. pos[m] <= pos[currentIdx] /\ nextIdx \in Nodes
          BY <2>2, <2>5, <2>7, <3>2
        <5> QED
          BY <1>t, <2>5, <4>1, <5>1, <5>2
      <4>3. ASSUME NEW n \in C, n # nextIdx PROVE \E m \in C : next[m] = n /\ pos[m] = pos[n] + 1
        BY <2>1, <2>4, <4>3
      <4>4. Headed(C, nextIdx, pos)
        <5> HIDE DEF C
        <5> QED
          BY <2>7, <3>2, <4>2, <4>3 DEF Headed
      <4> QED
        BY <2>5, <4>4, ChainCovers
    <3> QED
      BY <3>1, <3>2
  <2> QED
    BY <2>5, <2>8, <2>9
<1> QED
  BY <1>2, <1>3, <1>4 DEF TickChain

(***************************************************************************)
(* The steps of the wheel.                                                 *)
(***************************************************************************)

\* What is known of every state of the wheel.
LEMMA WheelFacts ==
  ASSUME WheelTypeOK
  PROVE  /\ Buckets \in Nat \ {0} /\ currentBucket \in 0 .. Buckets - 1 /\ NumNodes \in Nat
         /\ OnTick \in 0 .. Buckets /\ OnTick \notin 0 .. Buckets - 1 /\ Free \notin 0 .. Buckets
         /\ Free \in -1 .. Buckets /\ \A b \in 0 .. Buckets : b \in -1 .. Buckets /\ b # Free
         /\ \A b \in 0 .. Buckets : b \in 0 .. Buckets - 1 \/ b = OnTick
         /\ \A b \in 0 .. Buckets - 1 : b \in 0 .. Buckets /\ b # OnTick
         /\ \A b \in -1 .. Buckets : b = Free \/ b \in 0 .. Buckets
         /\ Invalid \notin Nodes
         /\ \A b \in 0 .. Buckets : First(b) \in Nodes \cup {Invalid}
<1>1. Buckets \in Nat \ {0} /\ currentBucket \in 0 .. Buckets - 1 /\ NumNodes \in Nat
  BY BucketsAssumption, NumNodesAssumption DEF WheelTypeOK
<1>2. Invalid \notin Nodes
  BY InvalidAssumption DEF Nodes
<1>3. \A b \in 0 .. Buckets : First(b) \in Nodes \cup {Invalid}
  BY <1>1 DEF First, OnTick, WheelTypeOK, NodeOrNil
<1> QED
  BY <1>1, <1>2, <1>3 DEF OnTick, Free

\* The top of the stack is a free node.
LEMMA Top ==
  ASSUME WheelTypeOK, freeNodes # << >>
  PROVE  /\ Len(freeNodes) \in Nat \ {0}
         /\ \A i \in 1 .. Len(freeNodes) : freeNodes[i] \in Nodes
         /\ SubSeq(freeNodes, 1, Len(freeNodes) - 1) \in Seq(Nodes)
         /\ Len(SubSeq(freeNodes, 1, Len(freeNodes) - 1)) = Len(freeNodes) - 1
         /\ \A i \in 1 .. Len(freeNodes) - 1 :
              SubSeq(freeNodes, 1, Len(freeNodes) - 1)[i] = freeNodes[i]
<1>1. freeNodes \in Seq(Nodes) /\ Len(freeNodes) \in Nat
  BY DEF WheelTypeOK
<1>2. Len(freeNodes) # 0
  BY <1>1, EmptySeq
<1>3. \A i \in 1 .. Len(freeNodes) : freeNodes[i] \in Nodes
  BY <1>1, ElementOfSeq
<1> DEFINE n == Len(freeNodes) - 1
           rest == SubSeq(freeNodes, 1, n)
<1>4. /\ 1 \in Int /\ n \in Nat
      /\ \A i \in 1 .. n : freeNodes[i] \in Nodes
  BY <1>1, <1>2, <1>3
<1> HIDE DEF n
<1>5. /\ rest \in Seq(Nodes)
      /\ Len(rest) = IF 1 <= n THEN n - 1 + 1 ELSE 0
      /\ \A i \in 1 .. n - 1 + 1 : rest[i] = freeNodes[1 + i - 1]
  BY <1>4, SubSeqProperties
<1> HIDE DEF rest
<1>6. /\ n - 1 + 1 = n /\ IF 1 <= n THEN n - 1 + 1 = n ELSE n = 0
      /\ \A i \in 1 .. n : 1 + i - 1 = i
  BY <1>4
<1>7. Len(rest) = n /\ \A i \in 1 .. n : rest[i] = freeNodes[i]
  BY <1>5, <1>6
<1> QED
  BY <1>1, <1>2, <1>3, <1>5, <1>7 DEF n, rest

\* The bucket of a timer and the bucket of the next tick exist.
LEMMA BucketIndex ==
  ASSUME WheelTypeOK, NEW ttl \in 0 .. MaxTtl
  PROVE  TargetEpoch(ttl) \in 0 .. Buckets - 1 /\ NextBucket \in 0 .. Buckets - 1
<1>1. currentBucket + ttl \in Int /\ currentBucket + 1 \in Int /\ Buckets \in Nat \ {0}
  BY BucketsAssumption, MaxTtlAssumption DEF WheelTypeOK
<1> QED
  BY <1>1, Division DEF TargetEpoch, NextBucket

\* Add and Tick keep the state well typed.
LEMMA WheelTypeStep ==
  ASSUME WheelTypeOK, TickInv, [WheelNext]_wheelVars
  PROVE  WheelTypeOK'
<1>1. ASSUME NEW t \in Timers, NEW ttl \in 0 .. MaxTtl, WheelAdd(t, ttl)
      PROVE  WheelTypeOK'
  <2> DEFINE node == freeNodes[Len(freeNodes)]
             target == TargetEpoch(ttl)
  <2>1. node \in Nodes /\ target \in 0 .. Buckets - 1 /\ buckets[target] \in NodeOrNil
    BY <1>1, Top, BucketIndex DEF WheelAdd, WheelTypeOK
  <2>2. freeNodes' \in Seq(Nodes)
    BY <1>1, Top DEF WheelAdd
  <2>3. /\ value' = [value EXCEPT ![node] = t]
        /\ next' = [next EXCEPT ![node] = buckets[target]]
        /\ prev' = [n \in Nodes |-> IF n = node THEN Invalid
                                    ELSE IF n = buckets[target] THEN node ELSE prev[n]]
        /\ buckets' = [buckets EXCEPT ![target] = node]
        /\ UNCHANGED <<currentBucket, currentIdx, nextIdx, calling>>
    BY <1>1 DEF WheelAdd
  <2> HIDE DEF node, target
  <2> QED
    BY <2>1, <2>2, <2>3 DEF WheelTypeOK, NodeOrNil
<1>2. CASE TickBegin
  <2>1. 0 \in 0 .. MaxTtl
    BY MaxTtlAssumption, BucketsAssumption
  <2>2. NextBucket \in 0 .. Buckets - 1
    BY <2>1, BucketIndex
  <2> QED
    BY <1>2, <2>2 DEF TickBegin, WheelTypeOK, NodeOrNil
<1>3. CASE TickCall
  BY <1>3 DEF TickCall, WheelTypeOK, NodeOrNil
<1>4. CASE TickRelease
  <2>1. currentIdx \in Nodes
    BY <1>4 DEF TickRelease, TickInv, WheelTypeOK, NodeOrNil
  <2>2. freeNodes' \in Seq(Nodes)
    BY <1>4, <2>1 DEF TickRelease, ReleaseNode, WheelTypeOK
  <2> QED
    BY <1>4, <2>1, <2>2 DEF TickRelease, ReleaseNode, WheelTypeOK, NodeOrNil
<1>5. CASE UNCHANGED wheelVars
  BY <1>5 DEF wheelVars, WheelTypeOK
<1> QED
  BY <1>1, <1>2, <1>3, <1>4, <1>5 DEF WheelNext

\* Add takes a free node to the head of a bucket.
LEMMA AddPlaces ==
  ASSUME WheelTypeOK, TickInv, NEW own, NEW pos, Placed(own, pos),
         NEW t \in Timers, NEW ttl \in 0 .. MaxTtl, WheelAdd(t, ttl),
         NEW node, node = freeNodes[Len(freeNodes)],
         NEW target, target = TargetEpoch(ttl),
         NEW own2, own2 = [own EXCEPT ![node] = target],
         NEW pos2, pos2 = [pos EXCEPT ![node] = IF buckets[target] = Invalid THEN 0
                                               ELSE pos[buckets[target]] + 1]
  PROVE  TickInv' /\ Placed(own2, pos2)'
<1> DEFINE h == buckets[target]
<1>t. /\ own \in [Nodes -> -1 .. Buckets] /\ pos \in [Nodes -> Nat]
      /\ Listed(own, pos) /\ Backed(own) /\ Stacked(own) /\ Timed(own)
  BY DEF Placed
<1>f. /\ Buckets \in Nat \ {0} /\ OnTick \notin 0 .. Buckets - 1 /\ Free \notin 0 .. Buckets
      /\ \A b \in 0 .. Buckets - 1 : b \in 0 .. Buckets /\ b # OnTick
      /\ \A b \in -1 .. Buckets : b = Free \/ b \in 0 .. Buckets
      /\ Invalid \notin Nodes /\ \A b \in 0 .. Buckets : First(b) \in Nodes \cup {Invalid}
  BY WheelFacts
<1>1. /\ node \in Nodes /\ target \in 0 .. Buckets - 1 /\ own[node] = Free
      /\ Len(freeNodes) \in Nat \ {0} /\ Len(freeNodes) \in 1 .. Len(freeNodes)
  BY <1>t, Top, BucketIndex DEF WheelAdd, Stacked
<1>2. /\ Len(freeNodes') = Len(freeNodes) - 1
      /\ \A i \in 1 .. Len(freeNodes) - 1 : freeNodes'[i] = freeNodes[i]
  BY Top DEF WheelAdd
<1>3. /\ value' = [value EXCEPT ![node] = t] /\ \A n \in Nodes : value[n] # t
      /\ next' = [next EXCEPT ![node] = h]
      /\ prev' = [n \in Nodes |-> IF n = node THEN Invalid ELSE IF n = h THEN node ELSE prev[n]]
      /\ buckets' = [buckets EXCEPT ![target] = node]
      /\ UNCHANGED <<currentBucket, currentIdx, nextIdx, calling>>
  BY DEF WheelAdd
<1>4. /\ h \in Nodes \cup {Invalid} /\ First(target) = h
      /\ h # Invalid => own[h] = target /\ h # node
      /\ h = Invalid => \A n \in Nodes : own[n] # target
  <2>1. First(target) = h
    BY <1>f, <1>1 DEF First
  <2> QED
    BY <1>t, <1>f, <1>1, <2>1 DEF Listed
<1>5. /\ own2 \in [Nodes -> -1 .. Buckets] /\ pos2 \in [Nodes -> Nat]
      /\ own2[node] = target /\ \A n \in Nodes : n # node => own2[n] = own[n] /\ pos2[n] = pos[n]
      /\ IF h = Invalid THEN pos2[node] = 0 ELSE pos2[node] = pos2[h] + 1
  <2>1. target \in -1 .. Buckets /\ (h # Invalid => pos[h] \in Nat)
    BY <1>t, <1>f, <1>1, <1>4
  <2> QED
    BY <1>t, <1>1, <1>4, <2>1
<1>6. /\ \A b \in 0 .. Buckets : First(b)' = IF b = target THEN node ELSE First(b)
      /\ \A n \in Nodes : next'[n] = IF n = node THEN h ELSE next[n]
      /\ \A n \in Nodes : prev'[n] = IF n = node THEN Invalid ELSE IF n = h THEN node ELSE prev[n]
      /\ \A n \in Nodes : value'[n] = IF n = node THEN t ELSE value[n]
  <2>1. \A b \in 0 .. Buckets : b \in 0 .. Buckets - 1 \/ b = OnTick
    BY WheelFacts
  <2>2. /\ buckets \in [0 .. Buckets - 1 -> NodeOrNil] /\ next \in [Nodes -> NodeOrNil]
        /\ value \in [Nodes -> Timers \cup {Invalid}]
    BY DEF WheelTypeOK
  <2> QED
    BY <1>f, <1>1, <1>3, <2>1, <2>2 DEF First
<1>7. \A n \in Nodes : own[n] # Free => n # node /\ own[n] \in 0 .. Buckets
  BY <1>t, <1>f, <1>1
<1>8. \A n \in Nodes : own[n] # Free =>
        /\ pos[n] <= pos[First(own[n])]
        /\ n # First(own[n]) => \E m \in Nodes : own[m] = own[n] /\ next[m] = n
        /\ IF next[n] = Invalid THEN pos[n] = 0
           ELSE own[next[n]] = own[n] /\ pos[n] = pos[next[n]] + 1
        /\ next[n] \in Nodes \cup {Invalid}
  BY <1>t DEF Listed, WheelTypeOK, NodeOrNil
<1> HIDE DEF h
<1>9. TickInv'
  <2>1. calling => currentIdx \in Nodes /\ own[currentIdx] = OnTick
    BY <1>t, <1>f, WheelFacts DEF TickInv, Listed, First, WheelTypeOK, NodeOrNil
  <2>2. calling => currentIdx # node
    BY <1>f, <1>1, <2>1, WheelFacts
  <2> QED
    BY <1>3, <1>6, <2>1, <2>2 DEF TickInv
<1>10. Listed(own2, pos2)'
  <2>1. ASSUME NEW b \in 0 .. Buckets
        PROVE  IF First(b)' = Invalid THEN \A n \in Nodes : own2[n] # b ELSE own2[First(b)'] = b
    <3>1. CASE b = target
      BY <1>f, <1>1, <1>5, <1>6, <3>1
    <3>2. CASE b # target
      BY <1>t, <1>f, <1>1, <1>5, <1>6, <3>2 DEF Listed
    <3> QED
      BY <3>1, <3>2
  <2>2. ASSUME NEW n \in Nodes, own2[n] # Free
        PROVE  /\ pos2[n] <= pos2[First(own2[n])']
               /\ n # First(own2[n])' => \E m \in Nodes : own2[m] = own2[n] /\ next'[m] = n
               /\ IF next'[n] = Invalid THEN pos2[n] = 0
                  ELSE own2[next'[n]] = own2[n] /\ pos2[n] = pos2[next'[n]] + 1
    <3>0. target \in 0 .. Buckets /\ pos2[node] \in Nat
      BY <1>f, <1>1, <1>5
    <3>1. CASE n = node
      <4>1. First(own2[n])' = node /\ next'[n] = h
        BY <1>5, <1>6, <3>0, <3>1
      <4> QED
        BY <1>1, <1>4, <1>5, <3>0, <3>1, <4>1
    <3>2. CASE n # node
      <4>1. /\ own2[n] = own[n] /\ own[n] # Free /\ own[n] \in 0 .. Buckets
            /\ pos2[n] = pos[n] /\ next'[n] = next[n] /\ pos[n] \in Nat
        BY <1>t, <1>5, <1>6, <1>7, <2>2, <3>2
      <4>2. IF next'[n] = Invalid THEN pos2[n] = 0
            ELSE own2[next'[n]] = own2[n] /\ pos2[n] = pos2[next'[n]] + 1
        <5>1. next[n] # Invalid => next[n] \in Nodes /\ next[n] # node
          BY <1>1, <1>8, <4>1
        <5> QED
          BY <1>5, <1>8, <4>1, <5>1
      <4>3. CASE own[n] # target
        <5>1. First(own[n]) # Invalid /\ First(own[n]) # node /\ First(own[n]) \in Nodes
          BY <1>t, <1>f, <1>1, <4>1 DEF Listed
        <5>2. n # First(own[n]) => \E m \in Nodes : m # node /\ own[m] = own[n] /\ next[m] = n
          BY <1>1, <1>8, <4>1
        <5> QED
          BY <1>5, <1>6, <1>8, <4>1, <4>2, <4>3, <5>1, <5>2
      <4>4. CASE own[n] = target
        <5>1. h # Invalid /\ h \in Nodes /\ h # node /\ pos[n] <= pos[h] /\ pos[h] \in Nat
              /\ First(own2[n])' = node
          BY <1>t, <1>4, <1>6, <1>8, <3>0, <4>1, <4>4
        <5>2. pos2[n] <= pos2[node]
          BY <1>5, <4>1, <5>1
        <5>3. \E m \in Nodes : own2[m] = own2[n] /\ next'[m] = n
          <6>1. CASE n = h
            BY <1>1, <1>5, <1>6, <4>1, <4>4, <6>1
          <6>2. CASE n # h
            <7>1. PICK m \in Nodes : own[m] = own[n] /\ next[m] = n
              BY <1>4, <1>8, <4>1, <4>4, <6>2
            <7>2. m # node
              BY <1>1, <4>1, <7>1
            <7> QED
              BY <1>5, <1>6, <4>1, <7>1, <7>2
          <6> QED
            BY <6>1, <6>2
        <5> QED
          BY <4>2, <5>1, <5>2, <5>3
      <4> QED
        BY <4>3, <4>4
    <3> QED
      BY <3>1, <3>2
  <2> QED
    BY <2>1, <2>2 DEF Listed
<1>11. Backed(own2)'
  <2>1. ASSUME NEW b \in 0 .. Buckets - 1, buckets'[b] # Invalid PROVE prev'[buckets'[b]] = Invalid
    <3>1. buckets'[b] = (IF b = target THEN node ELSE buckets[b]) /\ b \in 0 .. Buckets /\ First(b) = buckets[b]
      BY <1>f, <1>1, <1>3 DEF First, WheelTypeOK
    <3>2. CASE b = target
      BY <1>1, <1>6, <3>1, <3>2
    <3>3. CASE b # target
      <4>1. buckets[b] \in Nodes /\ own[buckets[b]] = b
        BY <1>t, <1>f, <2>1, <3>1, <3>3 DEF Listed
      <4>2. buckets[b] # node /\ buckets[b] # h
        BY <1>f, <1>1, <1>4, <3>1, <3>3, <4>1
      <4> QED
        BY <1>t, <1>6, <2>1, <3>1, <3>3, <4>1, <4>2 DEF Backed
    <3> QED
      BY <3>2, <3>3
  <2>2. ASSUME NEW n \in Nodes, own2[n] \in 0 .. Buckets - 1, next'[n] # Invalid
        PROVE  prev'[next'[n]] = n
    <3>1. CASE n = node
      BY <1>4, <1>6, <2>2, <3>1
    <3>2. CASE n # node
      <4>1. own[n] \in 0 .. Buckets - 1 /\ own[n] # Free /\ next'[n] = next[n]
        BY <1>f, <1>5, <1>6, <2>2, <3>2
      <4>2. next[n] \in Nodes /\ own[next[n]] = own[n] /\ pos[n] = pos[next[n]] + 1
        BY <1>8, <2>2, <4>1
      <4>3. next[n] # node
        BY <1>1, <4>1, <4>2
      <4>4. next[n] # h
        <5> SUFFICES ASSUME next[n] = h PROVE FALSE
          OBVIOUS
        <5>1. pos[n] <= pos[h] /\ pos[n] = pos[h] + 1 /\ pos[h] \in Nat
          BY <1>t, <1>4, <1>8, <2>2, <4>1, <4>2
        <5> QED
          BY <5>1
      <4> QED
        BY <1>t, <1>6, <2>2, <4>1, <4>2, <4>3, <4>4 DEF Backed
    <3> QED
      BY <3>1, <3>2
  <2> QED
    BY <2>1, <2>2 DEF Backed
<1>12. Stacked(own2)'
  <2>1. \A i \in 1 .. Len(freeNodes) : freeNodes[i] \in Nodes
    BY Top DEF WheelAdd
  <2>2. \A i \in 1 .. Len(freeNodes) - 1 :
          i \in 1 .. Len(freeNodes) /\ freeNodes'[i] = freeNodes[i] /\ freeNodes[i] # node
    <3>1. \A i \in 1 .. Len(freeNodes) - 1 : i \in 1 .. Len(freeNodes) /\ i # Len(freeNodes)
      BY <1>1
    <3> QED
      BY <1>t, <1>1, <1>2, <3>1 DEF Stacked
  <2>3. \A i \in 1 .. Len(freeNodes) : i # Len(freeNodes) => i \in 1 .. Len(freeNodes) - 1
    BY <1>1
  <2>4. ASSUME NEW i \in 1 .. Len(freeNodes) - 1 PROVE own2[freeNodes'[i]] = Free
    <3>1. freeNodes[i] \in Nodes /\ freeNodes[i] # node /\ freeNodes'[i] = freeNodes[i]
      BY <2>1, <2>2
    <3>2. own[freeNodes[i]] = Free
      BY <1>t, <2>2 DEF Stacked
    <3> QED
      BY <1>5, <3>1, <3>2
  <2>5. ASSUME NEW n \in Nodes, own2[n] = Free
        PROVE  \E i \in 1 .. Len(freeNodes) - 1 : freeNodes'[i] = n
    <3>1. n # node /\ own[n] = Free
      BY <1>f, <1>1, <1>5, <2>5
    <3>2. PICK i \in 1 .. Len(freeNodes) : freeNodes[i] = n
      BY <1>t, <3>1 DEF Stacked
    <3> QED
      BY <2>2, <2>3, <3>1, <3>2
  <2>6. \A i, j \in 1 .. Len(freeNodes) - 1 : freeNodes'[i] = freeNodes'[j] => i = j
    BY <1>t, <2>2 DEF Stacked
  <2> QED
    BY <1>2, <2>4, <2>5, <2>6 DEF Stacked
<1>13. Timed(own2)'
  <2>1. t # Invalid
    BY InvalidAssumption
  <2>2. \A n \in Nodes : value'[n] = Invalid <=> own2[n] = Free
    BY <1>t, <1>f, <1>1, <1>5, <1>6, <2>1 DEF Timed
  <2>3. \A m, n \in Nodes : value'[m] = value'[n] /\ value'[m] # Invalid => m = n
    BY <1>t, <1>3, <1>6, <2>1 DEF Timed
  <2> QED
    BY <2>2, <2>3 DEF Timed
<1> QED
  BY <1>5, <1>9, <1>10, <1>11, <1>12, <1>13 DEF Placed

\* The tick takes the list of its bucket.
LEMMA BeginPlaces ==
  ASSUME WheelTypeOK, TickInv, NEW own, NEW pos, Placed(own, pos), TickBegin,
         NEW own2, own2 = [n \in Nodes |-> IF own[n] = currentBucket THEN OnTick ELSE own[n]]
  PROVE  TickInv' /\ Placed(own2, pos)'
<1>t. /\ own \in [Nodes -> -1 .. Buckets] /\ pos \in [Nodes -> Nat]
      /\ Listed(own, pos) /\ Backed(own) /\ Stacked(own) /\ Timed(own)
  BY DEF Placed
<1>f. /\ currentBucket \in 0 .. Buckets - 1 /\ OnTick \in 0 .. Buckets /\ OnTick \notin 0 .. Buckets - 1
      /\ Free \notin 0 .. Buckets /\ Free \in -1 .. Buckets
      /\ \A b \in 0 .. Buckets : b \in 0 .. Buckets - 1 \/ b = OnTick
      /\ \A b \in 0 .. Buckets - 1 : b \in 0 .. Buckets /\ b # OnTick
      /\ \A b \in 0 .. Buckets : b \in -1 .. Buckets /\ b # Free
      /\ \A b \in -1 .. Buckets : b = Free \/ b \in 0 .. Buckets
      /\ Invalid \notin Nodes /\ \A b \in 0 .. Buckets : First(b) \in Nodes \cup {Invalid}
  BY WheelFacts
<1>1. /\ currentIdx = Invalid /\ currentIdx' = buckets[currentBucket]
      /\ buckets' = [buckets EXCEPT ![currentBucket] = Invalid]
      /\ UNCHANGED <<next, prev, value, freeNodes, nextIdx, calling>>
  BY DEF TickBegin
<1>2. TickInv' /\ ~calling
  BY <1>1 DEF TickInv
<1>3. \A n \in Nodes : own[n] # OnTick
  BY <1>t, <1>f, <1>1 DEF Listed, First
<1>4. \A b \in 0 .. Buckets : First(b)' = IF b = OnTick THEN First(currentBucket)
                                          ELSE IF b = currentBucket THEN Invalid ELSE First(b)
  BY <1>f, <1>1 DEF First, WheelTypeOK
<1>5. /\ own2 \in [Nodes -> -1 .. Buckets]
      /\ \A n \in Nodes : own2[n] = IF own[n] = currentBucket THEN OnTick ELSE own[n]
      /\ \A n \in Nodes : own2[n] # currentBucket
      /\ \A n \in Nodes : own2[n] = Free <=> own[n] = Free
  BY <1>t, <1>f
<1>6. Listed(own2, pos)'
  <2>1. ASSUME NEW b \in 0 .. Buckets
        PROVE  IF First(b)' = Invalid THEN \A n \in Nodes : own2[n] # b ELSE own2[First(b)'] = b
    <3>1. CASE b = OnTick
      BY <1>t, <1>f, <1>3, <1>4, <1>5, <3>1 DEF Listed
    <3>2. CASE b = currentBucket
      BY <1>f, <1>4, <1>5, <3>2
    <3>3. CASE b # OnTick /\ b # currentBucket
      BY <1>t, <1>f, <1>4, <1>5, <3>3 DEF Listed
    <3> QED
      BY <3>1, <3>2, <3>3
  <2>2. ASSUME NEW n \in Nodes, own2[n] # Free
        PROVE  /\ pos[n] <= pos[First(own2[n])']
               /\ n # First(own2[n])' => \E m \in Nodes : own2[m] = own2[n] /\ next[m] = n
               /\ IF next[n] = Invalid THEN pos[n] = 0
                  ELSE own2[next[n]] = own2[n] /\ pos[n] = pos[next[n]] + 1
    <3>1. /\ own[n] # Free /\ own[n] \in 0 .. Buckets /\ own2[n] \in 0 .. Buckets
          /\ First(own2[n])' = First(own[n])
      BY <1>t, <1>f, <1>3, <1>4, <1>5, <2>2
    <3>2. /\ pos[n] <= pos[First(own[n])]
          /\ n # First(own[n]) => \E m \in Nodes : own[m] = own[n] /\ next[m] = n
          /\ IF next[n] = Invalid THEN pos[n] = 0
             ELSE own[next[n]] = own[n] /\ pos[n] = pos[next[n]] + 1
          /\ next[n] \in Nodes \cup {Invalid}
      BY <1>t, <3>1 DEF Listed, WheelTypeOK, NodeOrNil
    <3> QED
      BY <1>5, <3>1, <3>2
  <2> QED
    <3>1. next' = next
      BY <1>1
    <3>2. \A n \in Nodes : own2[n] # Free =>
            /\ pos[n] <= pos[First(own2[n])']
            /\ n # First(own2[n])' => \E m \in Nodes : own2[m] = own2[n] /\ next'[m] = n
            /\ IF next'[n] = Invalid THEN pos[n] = 0
               ELSE own2[next'[n]] = own2[n] /\ pos[n] = pos[next'[n]] + 1
      BY <2>2, <3>1
    <3>3. \A b \in 0 .. Buckets :
            IF First(b)' = Invalid THEN \A n \in Nodes : own2[n] # b ELSE own2[First(b)'] = b
      BY <2>1
    <3> QED
      BY <3>2, <3>3 DEF Listed
<1>7. Backed(own2)'
  <2>1. \A b \in 0 .. Buckets - 1 : buckets'[b] = IF b = currentBucket THEN Invalid ELSE buckets[b]
    BY <1>1 DEF WheelTypeOK
  <2>2. \A n \in Nodes : own2[n] \in 0 .. Buckets - 1 => own[n] \in 0 .. Buckets - 1
    BY <1>f, <1>5
  <2> QED
    BY <1>t, <1>1, <2>1, <2>2 DEF Backed
<1>8. Stacked(own2)' /\ Timed(own2)'
  <2>1. \A i \in 1 .. Len(freeNodes) : freeNodes[i] \in Nodes
    BY ElementOfSeq DEF WheelTypeOK
  <2> QED
    BY <1>t, <1>1, <1>5, <2>1 DEF Stacked, Timed
<1> QED
  BY <1>t, <1>2, <1>5, <1>6, <1>7, <1>8 DEF Placed

\* The tick saves the successor and calls.
LEMMA CallPlaces ==
  ASSUME NEW own, NEW pos, Placed(own, pos), TickCall \/ UNCHANGED wheelVars, TickInv
  PROVE  TickInv' /\ Placed(own, pos)'
<1>1. UNCHANGED <<currentBucket, buckets, next, prev, value, freeNodes, currentIdx>>
  BY DEF TickCall, wheelVars
<1>2. TickInv'
  BY DEF TickCall, TickInv, wheelVars
<1> QED
  BY <1>1, <1>2 DEF Placed, Listed, Backed, Stacked, Timed, First

\* After the callback the node is free and its saved successor comes first.
LEMMA ReleasePlaces ==
  ASSUME WheelTypeOK, TickInv, NEW own, NEW pos, Placed(own, pos), TickRelease,
         NEW own2, own2 = [own EXCEPT ![currentIdx] = Free]
  PROVE  TickInv' /\ Placed(own2, pos)' /\ currentIdx \in Nodes /\ own[currentIdx] = OnTick
<1>t. /\ own \in [Nodes -> -1 .. Buckets] /\ pos \in [Nodes -> Nat]
      /\ Listed(own, pos) /\ Backed(own) /\ Stacked(own) /\ Timed(own)
  BY DEF Placed
<1>f. /\ OnTick \in 0 .. Buckets /\ OnTick \notin 0 .. Buckets - 1
      /\ Free \notin 0 .. Buckets /\ Free \in -1 .. Buckets
      /\ \A b \in 0 .. Buckets : b \in 0 .. Buckets - 1 \/ b = OnTick
      /\ \A b \in 0 .. Buckets - 1 : b \in 0 .. Buckets /\ b # OnTick
      /\ \A b \in -1 .. Buckets : b = Free \/ b \in 0 .. Buckets
      /\ Invalid \notin Nodes /\ \A b \in 0 .. Buckets : First(b) \in Nodes \cup {Invalid}
  BY WheelFacts
<1>1. /\ calling /\ ~calling' /\ currentIdx' = next[currentIdx]
      /\ prev' = [prev EXCEPT ![currentIdx] = Invalid]
      /\ next' = [next EXCEPT ![currentIdx] = Invalid]
      /\ value' = [value EXCEPT ![currentIdx] = Invalid]
      /\ freeNodes' = Append(freeNodes, currentIdx) /\ buckets' = buckets
  BY DEF TickRelease, ReleaseNode, TickInv
<1> DEFINE c == currentIdx
<1>2. c \in Nodes /\ own[c] = OnTick /\ First(OnTick) = c
  BY <1>t, <1>f, <1>1 DEF TickInv, Listed, First, WheelTypeOK, NodeOrNil
<1>3. /\ own2 \in [Nodes -> -1 .. Buckets] /\ own2[c] = Free
      /\ \A n \in Nodes : n # c => own2[n] = own[n]
  BY <1>t, <1>f, <1>2
<1>4. /\ \A b \in 0 .. Buckets : First(b)' = IF b = OnTick THEN next[c] ELSE First(b)
      /\ \A n \in Nodes : next'[n] = IF n = c THEN Invalid ELSE next[n]
      /\ \A n \in Nodes : prev'[n] = IF n = c THEN Invalid ELSE prev[n]
      /\ \A n \in Nodes : value'[n] = IF n = c THEN Invalid ELSE value[n]
  <2>1. /\ next \in [Nodes -> NodeOrNil] /\ prev \in [Nodes -> NodeOrNil]
        /\ value \in [Nodes -> Timers \cup {Invalid}]
    BY DEF WheelTypeOK
  <2> QED
    BY <1>f, <1>1, <1>2, <2>1 DEF First
<1>5. \A n \in Nodes : own[n] # Free =>
        /\ pos[n] <= pos[First(own[n])]
        /\ n # First(own[n]) => \E m \in Nodes : own[m] = own[n] /\ next[m] = n
        /\ IF next[n] = Invalid THEN pos[n] = 0
           ELSE own[next[n]] = own[n] /\ pos[n] = pos[next[n]] + 1
        /\ next[n] \in Nodes \cup {Invalid} /\ pos[n] \in Nat /\ own[n] \in 0 .. Buckets
  BY <1>t, <1>f DEF Listed, WheelTypeOK, NodeOrNil
<1> HIDE DEF c
<1>6. \A n \in Nodes : own[n] = OnTick => next[n] # c
  <2> SUFFICES ASSUME NEW n \in Nodes, own[n] = OnTick, next[n] = c PROVE FALSE
    OBVIOUS
  <2>1. pos[n] <= pos[c] /\ pos[n] = pos[c] + 1 /\ pos[c] \in Nat
    BY <1>f, <1>2, <1>5
  <2> QED
    BY <2>1
<1>7. \A n \in Nodes : own[n] = OnTick /\ n # c => next[c] # Invalid /\ pos[n] <= pos[next[c]]
  <2> SUFFICES ASSUME NEW n \in Nodes, own[n] = OnTick, n # c
               PROVE  next[c] # Invalid /\ pos[n] <= pos[next[c]]
    OBVIOUS
  <2>1. PICK m \in Nodes : own[m] = OnTick /\ next[m] = n
    BY <1>f, <1>2, <1>5
  <2>2. /\ pos[m] = pos[n] + 1 /\ pos[m] <= pos[c]
        /\ pos[m] \in Nat /\ pos[n] \in Nat /\ pos[c] \in Nat
    BY <1>f, <1>2, <1>5, <2>1
  <2>3. next[c] # Invalid
    BY <1>f, <1>2, <1>5, <2>2
  <2>4. pos[c] = pos[next[c]] + 1 /\ pos[next[c]] \in Nat
    BY <1>t, <1>f, <1>2, <1>5, <2>3
  <2> QED
    BY <2>2, <2>3, <2>4
<1>8. Listed(own2, pos)'
  <2>1. ASSUME NEW b \in 0 .. Buckets
        PROVE  IF First(b)' = Invalid THEN \A n \in Nodes : own2[n] # b ELSE own2[First(b)'] = b
    <3>1. CASE b = OnTick
      <4>1. CASE next[c] = Invalid
        BY <1>f, <1>3, <1>4, <1>7, <3>1, <4>1
      <4>2. CASE next[c] # Invalid
        <5>1. next[c] \in Nodes /\ own[next[c]] = OnTick /\ next[c] # c
          BY <1>f, <1>2, <1>5, <1>6, <4>2
        <5> QED
          BY <1>3, <1>4, <3>1, <4>2, <5>1
      <4> QED
        BY <4>1, <4>2
    <3>2. CASE b # OnTick
      BY <1>t, <1>f, <1>2, <1>3, <1>4, <3>2 DEF Listed
    <3> QED
      BY <3>1, <3>2
  <2>2. ASSUME NEW n \in Nodes, own2[n] # Free
        PROVE  /\ pos[n] <= pos[First(own2[n])']
               /\ n # First(own2[n])' => \E m \in Nodes : own2[m] = own2[n] /\ next'[m] = n
               /\ IF next'[n] = Invalid THEN pos[n] = 0
                  ELSE own2[next'[n]] = own2[n] /\ pos[n] = pos[next'[n]] + 1
    <3>1. n # c /\ own2[n] = own[n] /\ own[n] # Free /\ own[n] \in 0 .. Buckets /\ next'[n] = next[n]
      BY <1>3, <1>4, <1>5, <2>2
    <3>2. IF next'[n] = Invalid THEN pos[n] = 0
          ELSE own2[next'[n]] = own2[n] /\ pos[n] = pos[next'[n]] + 1
      <4>1. next[n] # Invalid => next[n] \in Nodes /\ own[next[n]] = own[n] /\ next[n] # c
        BY <1>2, <1>5, <1>6, <3>1
      <4> QED
        BY <1>3, <1>5, <3>1, <4>1
    <3>3. CASE own[n] = OnTick
      <4>1. First(own2[n])' = next[c]
        BY <1>4, <3>1, <3>3
      <4>2. ASSUME n # next[c] PROVE \E m \in Nodes : own2[m] = own2[n] /\ next'[m] = n
        <5>1. PICK m \in Nodes : own[m] = own[n] /\ next[m] = n
          BY <1>2, <1>5, <3>1, <3>3
        <5>2. m # c
          BY <4>2, <5>1
        <5> QED
          BY <1>3, <1>4, <3>1, <5>1, <5>2
      <4> QED
        BY <1>7, <3>1, <3>2, <3>3, <4>1, <4>2
    <3>4. CASE own[n] # OnTick
      <4>1. First(own2[n])' = First(own[n])
        BY <1>4, <3>1, <3>4
      <4>2. ASSUME n # First(own[n]) PROVE \E m \in Nodes : own2[m] = own2[n] /\ next'[m] = n
        <5>1. PICK m \in Nodes : own[m] = own[n] /\ next[m] = n
          BY <1>5, <3>1, <4>2
        <5>2. m # c
          BY <1>2, <3>4, <5>1
        <5> QED
          BY <1>3, <1>4, <3>1, <5>1, <5>2
      <4> QED
        BY <1>5, <3>1, <3>2, <4>1, <4>2
    <3> QED
      BY <3>3, <3>4
  <2> QED
    BY <2>1, <2>2 DEF Listed
<1>9. Backed(own2)'
  <2>1. ASSUME NEW b \in 0 .. Buckets - 1, buckets[b] # Invalid PROVE prev'[buckets[b]] = Invalid
    <3>1. buckets[b] \in Nodes /\ prev[buckets[b]] = Invalid
      BY <1>t, <2>1 DEF Backed, WheelTypeOK, NodeOrNil
    <3> QED
      BY <1>4, <3>1
  <2>2. ASSUME NEW n \in Nodes, own2[n] \in 0 .. Buckets - 1, next'[n] # Invalid
        PROVE  prev'[next'[n]] = n
    <3>1. n # c /\ own[n] \in 0 .. Buckets - 1 /\ own[n] # Free /\ next'[n] = next[n] /\ own[n] # OnTick
      BY <1>f, <1>3, <1>4, <2>2
    <3>2. next[n] \in Nodes /\ own[next[n]] = own[n] /\ prev[next[n]] = n
      BY <1>t, <1>5, <2>2, <3>1 DEF Backed
    <3>3. next[n] # c
      BY <1>2, <3>1, <3>2
    <3> QED
      BY <1>4, <3>1, <3>2, <3>3
  <2> QED
    BY <1>1, <2>1, <2>2 DEF Backed
<1>10. Stacked(own2)'
  <2> DEFINE L == Len(freeNodes)
  <2>1. /\ L \in Nat /\ Len(freeNodes') = L + 1 /\ freeNodes'[L + 1] = c
        /\ \A i \in 1 .. L : freeNodes'[i] = freeNodes[i] /\ freeNodes[i] \in Nodes
    <3>1. freeNodes \in Seq(Nodes) /\ currentIdx \in Nodes
      BY <1>2 DEF WheelTypeOK, c
    <3>2. L \in Nat /\ \A i \in 1 .. L : freeNodes[i] \in Nodes
      BY <3>1, ElementOfSeq
    <3> QED
      BY <1>1, <3>1, <3>2, AppendProperties DEF c
  <2>2. \A i \in 1 .. L + 1 : i \in 1 .. L \/ i = L + 1
    BY <2>1
  <2>3. \A i \in 1 .. L : i \in 1 .. L + 1 /\ i # L + 1
    BY <2>1
  <2>4. L + 1 \in 1 .. L + 1
    BY <2>1
  <2>5. \A i \in 1 .. L : own[freeNodes[i]] = Free /\ freeNodes[i] # c
    BY <1>t, <1>f, <1>2 DEF Stacked
  <2> HIDE DEF L
  <2>6. \A i \in 1 .. L + 1 : own2[freeNodes'[i]] = Free
    BY <1>3, <2>1, <2>2, <2>5
  <2>7. \A i, j \in 1 .. L + 1 : freeNodes'[i] = freeNodes'[j] => i = j
    <3>1. \A i, j \in 1 .. L : freeNodes[i] = freeNodes[j] => i = j
      BY <1>t DEF Stacked, L
    <3> QED
      BY <2>1, <2>2, <2>5, <3>1
  <2>8. ASSUME NEW n \in Nodes, own2[n] = Free PROVE \E i \in 1 .. L + 1 : freeNodes'[i] = n
    <3>1. CASE n = c
      BY <2>1, <2>4, <3>1
    <3>2. CASE n # c
      <4>1. PICK i \in 1 .. L : freeNodes[i] = n
        BY <1>t, <1>3, <2>8, <3>2 DEF Stacked, L
      <4> QED
        BY <2>1, <2>3, <4>1
    <3> QED
      BY <3>1, <3>2
  <2> QED
    BY <2>1, <2>6, <2>7, <2>8 DEF Stacked
<1>11. Timed(own2)'
  BY <1>t, <1>3, <1>4 DEF Timed
<1>12. TickInv'
  BY <1>1 DEF TickInv
<1> QED
  BY <1>t, <1>2, <1>3, <1>8, <1>9, <1>10, <1>11, <1>12 DEF Placed, c

LEMMA WheelInitInv == WheelInit => WheelInv
<1> SUFFICES ASSUME WheelInit PROVE WheelInv
  OBVIOUS
<1> DEFINE own == [n \in Nodes |-> Free]
           pos == [n \in Nodes |-> 0]
<1>1. /\ Buckets \in Nat \ {0} /\ NumNodes \in Nat /\ Invalid \notin Nodes
      /\ \A b \in 0 .. Buckets : b # Free
  BY BucketsAssumption, NumNodesAssumption, InvalidAssumption DEF Nodes, Free
<1>2. /\ freeNodes = [i \in 1 .. NumNodes |-> i - 1]
      /\ \A i \in 1 .. NumNodes : i - 1 \in Nodes
      /\ \A n \in Nodes : n + 1 \in 1 .. NumNodes /\ n + 1 - 1 = n
  BY <1>1 DEF WheelInit, Nodes
<1>3. freeNodes \in Seq(Nodes) /\ Len(freeNodes) = NumNodes
  <2>1. freeNodes \in [1 .. NumNodes -> Nodes]
    BY <1>2
  <2>2. freeNodes \in Seq(Nodes)
    BY <1>1, <2>1, IsASeq
  <2> QED
    BY <1>1, <1>2, <2>2, LenProperties
<1>4. WheelTypeOK /\ TickInv
  <2>1. 0 \in 0 .. Buckets - 1 /\ Invalid \in NodeOrNil /\ FALSE \in BOOLEAN
    BY <1>1 DEF NodeOrNil
  <2>2. /\ currentBucket = 0 /\ currentIdx = Invalid /\ nextIdx = Invalid /\ calling = FALSE
        /\ buckets = [b \in 0 .. Buckets - 1 |-> Invalid]
        /\ next = [n \in Nodes |-> Invalid]
        /\ prev = [n \in Nodes |-> Invalid]
        /\ value = [n \in Nodes |-> Invalid]
    BY DEF WheelInit
  <2> QED
    BY <1>3, <2>1, <2>2 DEF WheelTypeOK, TickInv
<1>5. own \in [Nodes -> -1 .. Buckets] /\ pos \in [Nodes -> Nat]
  BY <1>1 DEF Free
<1>6. Listed(own, pos)
  <2>1. \A b \in 0 .. Buckets : First(b) = Invalid
    BY <1>1 DEF First, OnTick, WheelInit
  <2> QED
    BY <1>1, <2>1 DEF Listed
<1>7. Backed(own)
  BY <1>1 DEF Backed, WheelInit
<1>8. Stacked(own)
  <2>1. Len(freeNodes) = NumNodes /\ \A i \in 1 .. Len(freeNodes) : freeNodes[i] = i - 1 /\ freeNodes[i] \in Nodes
    BY <1>2, <1>3
  <2>2. \A i \in 1 .. Len(freeNodes) : own[freeNodes[i]] = Free
    BY <2>1
  <2>3. ASSUME NEW n \in Nodes PROVE \E i \in 1 .. Len(freeNodes) : freeNodes[i] = n
    <3>1. /\ n + 1 \in 1 .. Len(freeNodes) /\ n + 1 - 1 = n
          /\ \A i \in 1 .. Len(freeNodes) : freeNodes[i] = i - 1
      BY <1>2, <2>1
    <3> DEFINE k == n + 1
    <3>2. k \in 1 .. Len(freeNodes) /\ k - 1 = n
      BY <1>1, <3>1 DEF Nodes
    <3> HIDE DEF k
    <3>3. freeNodes[k] = n
      BY <3>1, <3>2
    <3> QED
      BY <3>2, <3>3
  <2>4. \A i, j \in 1 .. Len(freeNodes) : freeNodes[i] = freeNodes[j] => i = j
    BY <1>1, <2>1
  <2> QED
    BY <2>2, <2>3, <2>4 DEF Stacked
<1>9. Timed(own)
  BY DEF Timed, WheelInit
<1> HIDE DEF own, pos
<1>10. Placed(own, pos)
  BY <1>5, <1>6, <1>7, <1>8, <1>9 DEF Placed
<1> QED
  BY <1>4, <1>5, <1>10 DEF WheelInv

LEMMA WheelStep == WheelInv /\ [WheelNext]_wheelVars => WheelInv'
<1> SUFFICES ASSUME WheelInv, [WheelNext]_wheelVars PROVE WheelInv'
  OBVIOUS
<1>1. WheelTypeOK /\ TickInv
  BY DEF WheelInv
<1>2. WheelTypeOK'
  BY <1>1, WheelTypeStep
<1>3. PICK own, pos : Placed(own, pos)
  BY DEF WheelInv
<1>4. TickInv' /\ \E own2, pos2 : Placed(own2, pos2)'
  <2>1. ASSUME NEW t \in Timers, NEW ttl \in 0 .. MaxTtl, WheelAdd(t, ttl)
        PROVE  TickInv' /\ \E own2, pos2 : Placed(own2, pos2)'
    BY <1>1, <1>3, <2>1, AddPlaces
  <2>2. CASE TickBegin
    BY <1>1, <1>3, <2>2, BeginPlaces
  <2>3. CASE TickCall \/ UNCHANGED wheelVars
    BY <1>1, <1>3, <2>3, CallPlaces
  <2>4. CASE TickRelease
    BY <1>1, <1>3, <2>4, ReleasePlaces
  <2> QED
    BY <2>1, <2>2, <2>3, <2>4 DEF WheelNext
<1>5. \E own2 \in [Nodes -> -1 .. Buckets], pos2 \in [Nodes -> Nat] : Placed(own2, pos2)'
  BY <1>4 DEF Placed
<1> QED
  BY <1>2, <1>4, <1>5 DEF WheelInv

LEMMA WheelInvariance == WheelSpec => []WheelInv
  BY WheelInitInv, WheelStep, PTL DEF WheelSpec

\* The wheel is well typed, and the node on top of the stack, the buckets of
\* Add and of Tick and every link are indices of the pools and of the table,
\* for every number of buckets and of nodes.
THEOREM WheelTypeCorrect == WheelSpec => []WheelTypeOK
<1>1. WheelInv => WheelTypeOK
  BY DEF WheelInv
<1> QED
  BY <1>1, WheelInvariance, PTL

\* No node of the pool is lost, doubled or in two lists, although the
\* callbacks of a tick put nodes into the bucket that is being processed.
THEOREM NoNodeLost == WheelSpec => []NodesConserved
<1>1. WheelInv => NodesConserved
  <2> SUFFICES ASSUME WheelInv PROVE NodesConserved
    OBVIOUS
  <2>1. WheelTypeOK /\ TickInv
    BY DEF WheelInv
  <2>2. PICK own, pos : Placed(own, pos)
    BY DEF WheelInv
  <2>t. /\ own \in [Nodes -> -1 .. Buckets] /\ pos \in [Nodes -> Nat]
        /\ Listed(own, pos) /\ Backed(own) /\ Stacked(own)
    BY <2>2 DEF Placed
  <2>3. /\ \A b \in 0 .. Buckets - 1 : Bucketed(b) = At(own, b)
        /\ TickChain = At(own, OnTick)
    BY <2>1, <2>t, Chains
  <2>f. /\ DOMAIN buckets = 0 .. Buckets - 1 /\ DOMAIN freeNodes = 1 .. Len(freeNodes)
        /\ OnTick \notin 0 .. Buckets - 1 /\ Free \notin 0 .. Buckets - 1 /\ OnTick # Free
        /\ \A b \in -1 .. Buckets : b = Free \/ b = OnTick \/ b \in 0 .. Buckets - 1
    <3>1. DOMAIN buckets = 0 .. Buckets - 1 /\ DOMAIN freeNodes = 1 .. Len(freeNodes)
      BY <2>1 DEF WheelTypeOK
    <3>2. Buckets \in Nat
      BY BucketsAssumption
    <3> QED
      BY <3>1, <3>2 DEF OnTick, Free
  <2>4. ASSUME NEW n \in Nodes
        PROVE  \/ /\ {i \in DOMAIN freeNodes : freeNodes[i] = n} = {}
                  /\ {b \in DOMAIN buckets : n \in Bucketed(b)} = {}
                  /\ n \in TickChain
               \/ /\ {i \in DOMAIN freeNodes : freeNodes[i] = n} = {}
                  /\ n \notin TickChain
                  /\ \E b \in DOMAIN buckets : {c \in DOMAIN buckets : n \in Bucketed(c)} = {b}
               \/ /\ {b \in DOMAIN buckets : n \in Bucketed(b)} = {}
                  /\ n \notin TickChain
                  /\ \E i \in DOMAIN freeNodes : {j \in DOMAIN freeNodes : freeNodes[j] = n} = {i}
    <3>1. /\ n \in TickChain <=> own[n] = OnTick
          /\ \A b \in DOMAIN buckets : n \in Bucketed(b) <=> own[n] = b
      BY <2>3, <2>f DEF At
    <3>2. own[n] # Free => {i \in DOMAIN freeNodes : freeNodes[i] = n} = {}
      BY <2>t, <2>f DEF Stacked
    <3>3. CASE own[n] = OnTick
      BY <2>f, <3>1, <3>2, <3>3
    <3>4. CASE own[n] \in 0 .. Buckets - 1
      <4>1. {c \in DOMAIN buckets : n \in Bucketed(c)} = {own[n]}
        BY <2>f, <3>1, <3>4
      <4> QED
        BY <2>f, <3>1, <3>2, <3>4, <4>1
    <3>5. CASE own[n] = Free
      <4>1. PICK i \in DOMAIN freeNodes : freeNodes[i] = n
        BY <2>t, <2>f, <3>5 DEF Stacked
      <4>2. {j \in DOMAIN freeNodes : freeNodes[j] = n} = {i}
        BY <2>t, <2>f, <4>1 DEF Stacked
      <4> QED
        BY <2>f, <3>1, <3>5, <4>2
    <3> QED
      BY <2>t, <2>f, <3>3, <3>4, <3>5
  <2>5. ASSUME NEW b \in DOMAIN buckets
        PROVE  /\ buckets[b] # Invalid => prev[buckets[b]] = Invalid
               /\ \A n \in Bucketed(b) : next[n] # Invalid => prev[next[n]] = n
    BY <2>t, <2>3, <2>f DEF Backed, At
  <2> QED
    BY <2>4, <2>5, Zenon DEF NodesConserved
<1> QED
  BY <1>1, WheelInvariance, PTL

(***************************************************************************)
(* The wheel implements the timer set.                                     *)
(***************************************************************************)

\* The ticks a bucket is away.
Dist(b) == IF b < currentBucket THEN b - currentBucket + Buckets + 1 ELSE b - currentBucket + 1

\* The nodes whose callbacks the tick under way has yet to call.
DueNodes(own) == {n \in Nodes : own[n] = OnTick /\ ~ (calling /\ n = currentIdx)}

\* What the refinement mapping shows of the wheel.
Shows(own) ==
  /\ left = [t \in Timers |-> left[t]]
  /\ \A n \in Nodes : own[n] \in 0 .. Buckets - 1 => left[value[n]] = Dist(own[n])
  /\ \A t \in Timers : (\A n \in Nodes : value[n] = t => own[n] \notin 0 .. Buckets - 1)
                         => left[t] = 0
  /\ due = {value[n] : n \in DueNodes(own)}

\* The bucket of a number of ticks.
LEMMA Distances ==
  ASSUME WheelTypeOK, NEW b \in 0 .. Buckets - 1, NEW d \in 1 .. Buckets
  PROVE  (currentBucket + d - 1) % Buckets = b <=> d = Dist(b)
<1>t. Buckets \in Nat \ {0} /\ currentBucket \in 0 .. Buckets - 1
  BY BucketsAssumption DEF WheelTypeOK
<1> DEFINE x == currentBucket + d - 1
<1>1. x \in Int /\ Buckets * 0 = 0 /\ Buckets * 1 = Buckets
  BY <1>t
<1>2. CASE x < Buckets
  <2>1. x \in 0 .. Buckets - 1 /\ x = x + Buckets * 0
    BY <1>t, <1>1, <1>2
  <2>2. x = b <=> d = Dist(b)
    BY <1>t, <1>2 DEF Dist
  <2> HIDE DEF x
  <2>3. x % Buckets = x
    BY <1>t, <1>1, <2>1, ModSmall, Zenon
  <2> QED
    BY <2>2, <2>3 DEF x
<1>3. CASE ~ (x < Buckets)
  <2> DEFINE y == x - Buckets
  <2>1. y \in 0 .. Buckets - 1 /\ x = y + Buckets * 1 /\ 1 \in Int
    BY <1>t, <1>1, <1>3
  <2>2. y = b <=> d = Dist(b)
    BY <1>t, <1>3 DEF Dist
  <2> HIDE DEF x, y
  <2>3. x % Buckets = y
    BY <1>t, <1>1, <2>1, ModIs, Zenon
  <2> QED
    BY <2>2, <2>3 DEF x
<1> QED
  BY <1>2, <1>3

\* The mapping, in the terms of own.
LEMMA ShowsMapping ==
  \A own, pos : WheelTypeOK /\ TickInv /\ Placed(own, pos) => Shows(own)
<1> SUFFICES ASSUME NEW own, NEW pos, WheelTypeOK, TickInv, Placed(own, pos)
             PROVE  Shows(own)
  OBVIOUS
<1>t. /\ own \in [Nodes -> -1 .. Buckets] /\ pos \in [Nodes -> Nat]
      /\ Listed(own, pos) /\ Timed(own)
  BY DEF Placed
<1>f. /\ Buckets \in Nat \ {0} /\ currentBucket \in 0 .. Buckets - 1
      /\ OnTick \notin 0 .. Buckets - 1 /\ Free \notin 0 .. Buckets /\ OnTick \in 0 .. Buckets
      /\ value \in [Nodes -> Timers \cup {Invalid}] /\ Invalid \notin Timers
  BY WheelFacts, InvalidAssumption DEF WheelTypeOK
<1>1. /\ \A b \in 0 .. Buckets - 1 : Bucketed(b) = At(own, b)
      /\ TickChain = At(own, OnTick)
  BY <1>t, Chains
<1>2. \A d \in 1 .. Buckets : (currentBucket + d - 1) % Buckets \in 0 .. Buckets - 1
  <2>1. \A d \in 1 .. Buckets : currentBucket + d - 1 \in Int
    BY <1>f
  <2> QED
    BY <1>f, <2>1, Division
<1>3. \A t : TicksLeft(t) = {d \in 1 .. Buckets :
               \E n \in Nodes : own[n] = (currentBucket + d - 1) % Buckets /\ value[n] = t}
  BY <1>1, <1>2 DEF TicksLeft, At
<1>4. \A n \in Nodes : own[n] \in 0 .. Buckets - 1 => value[n] \in Timers
  BY <1>t, <1>f DEF Timed
<1>5. ASSUME NEW n \in Nodes, own[n] \in 0 .. Buckets - 1
      PROVE  left[value[n]] = Dist(own[n])
  <2>1. Dist(own[n]) \in 1 .. Buckets
    BY <1>f, <1>5 DEF Dist
  <2>2. \A m \in Nodes : value[m] = value[n] => m = n
    BY <1>t, <1>4, <1>5, <1>f DEF Timed
  <2>3. \A d \in 1 .. Buckets : own[n] = (currentBucket + d - 1) % Buckets <=> d = Dist(own[n])
    BY <1>5, Distances
  <2>4. TicksLeft(value[n]) = {Dist(own[n])}
    BY <1>3, <2>1, <2>2, <2>3
  <2> QED
    BY <1>4, <1>5, <2>4 DEF left
<1>6. ASSUME NEW t \in Timers, \A n \in Nodes : value[n] = t => own[n] \notin 0 .. Buckets - 1
      PROVE  left[t] = 0
  <2>1. TicksLeft(t) = {}
    BY <1>2, <1>3, <1>6
  <2> QED
    BY <2>1 DEF left
<1>7. due = {value[n] : n \in DueNodes(own)}
  <2>1. (IF calling THEN TickChain \ {currentIdx} ELSE TickChain) = DueNodes(own)
    BY <1>1 DEF DueNodes, At
  <2> QED
    BY <2>1 DEF due
<1>8. left = [t \in Timers |-> left[t]]
  BY DEF left
<1> QED
  BY <1>5, <1>6, <1>7, <1>8 DEF Shows

\* The same of the next state.
LEMMA ShowsNext ==
  (\A own, pos : WheelTypeOK /\ TickInv /\ Placed(own, pos) => Shows(own))'
BY ShowsMapping, PTL

\* A timer is shown by its node, if it has one.
LEMMA ByNode ==
  ASSUME NEW own, Shows(own), NEW t \in Timers
  PROVE  \/ \E n \in Nodes : value[n] = t /\ own[n] \in 0 .. Buckets - 1 /\ left[t] = Dist(own[n])
         \/ (\A n \in Nodes : value[n] = t => own[n] \notin 0 .. Buckets - 1) /\ left[t] = 0
BY DEF Shows

\* Add puts a timer at the distance it was given.
LEMMA AddShows ==
  ASSUME WheelTypeOK, NEW own, NEW pos, Placed(own, pos), Shows(own),
         NEW t \in Timers, NEW ttl \in 0 .. MaxTtl, WheelAdd(t, ttl),
         NEW node, node = freeNodes[Len(freeNodes)],
         NEW target, target = TargetEpoch(ttl),
         NEW own2, own2 = [own EXCEPT ![node] = target], Shows(own2)'
  PROVE  ttl \in 1 .. MaxTtl /\ TimerPromise!Add(t, ttl)
<1>t. own \in [Nodes -> -1 .. Buckets] /\ Stacked(own) /\ Timed(own)
  BY DEF Placed
<1>f. /\ Buckets \in Nat \ {0} /\ currentBucket \in 0 .. Buckets - 1 /\ Free \notin 0 .. Buckets
      /\ MaxTtl \in 0 .. Buckets - 1 /\ OnTick # Free /\ OnTick \notin 0 .. Buckets - 1
      /\ Free \notin 0 .. Buckets - 1
  BY WheelFacts, MaxTtlAssumption
<1>1. /\ node \in Nodes /\ target \in 0 .. Buckets - 1 /\ own[node] = Free
      /\ Len(freeNodes) \in Nat \ {0} /\ Len(freeNodes) \in 1 .. Len(freeNodes)
  BY <1>t, Top, BucketIndex DEF WheelAdd, Stacked
<1>2. /\ \A n \in Nodes : value'[n] = IF n = node THEN t ELSE value[n]
      /\ \A n \in Nodes : value[n] # t
      /\ \A n \in Nodes : own2[n] = IF n = node THEN target ELSE own[n]
      /\ UNCHANGED <<currentBucket, currentIdx, calling>> /\ ttl > 0
  BY <1>t, <1>1 DEF WheelAdd, WheelTypeOK
<1>3. \A b : Dist(b)' = Dist(b)
  BY <1>2 DEF Dist
<1>4. Dist(target) = ttl + 1
  <2>1. ttl + 1 \in 1 .. Buckets /\ currentBucket + (ttl + 1) - 1 = currentBucket + ttl
    BY <1>f, <1>2
  <2>2. (currentBucket + (ttl + 1) - 1) % Buckets = target
    BY <2>1 DEF TargetEpoch
  <2> DEFINE d == ttl + 1
  <2>3. d \in 1 .. Buckets /\ (currentBucket + d - 1) % Buckets = target
    BY <2>1, <2>2
  <2> HIDE DEF d
  <2>4. d = Dist(target)
    BY <1>1, <2>3, Distances
  <2> QED
    BY <2>4 DEF d
<1>5. left'[t] = ttl + 1
  BY <1>1, <1>2, <1>3, <1>4 DEF Shows
<1>6. ASSUME NEW u \in Timers, u # t PROVE left'[u] = left[u]
  <2>1. CASE \E n \in Nodes : value[n] = u /\ own[n] \in 0 .. Buckets - 1 /\ left[u] = Dist(own[n])
    <3>1. PICK n \in Nodes : value[n] = u /\ own[n] \in 0 .. Buckets - 1 /\ left[u] = Dist(own[n])
      BY <2>1
    <3>2. n # node /\ own2[n] = own[n] /\ value'[n] = u
      BY <1>f, <1>1, <1>2, <3>1
    <3> QED
      BY <1>3, <3>1, <3>2 DEF Shows
  <2>2. CASE (\A n \in Nodes : value[n] = u => own[n] \notin 0 .. Buckets - 1) /\ left[u] = 0
    <3>1. \A n \in Nodes : value'[n] = u => own2[n] \notin 0 .. Buckets - 1
      BY <1>2, <1>6, <2>2
    <3> QED
      BY <2>2, <3>1 DEF Shows
  <2> QED
    BY <2>1, <2>2, ByNode
<1>7. left' = [left EXCEPT ![t] = ttl + 1]
  BY <1>5, <1>6 DEF Shows
<1>8. left[t] = 0 /\ t \notin due
  BY <1>2 DEF Shows, DueNodes
<1>9. due' = due
  <2>1. DueNodes(own2)' = DueNodes(own)
    BY <1>f, <1>1, <1>2 DEF DueNodes, OnTick
  <2>2. \A n \in DueNodes(own) : value'[n] = value[n]
    BY <1>f, <1>1, <1>2 DEF DueNodes
  <2>3. due = {value[n] : n \in DueNodes(own)} /\ due' = {value'[n] : n \in DueNodes(own2)'}
    BY DEF Shows
  <2> QED
    BY <2>1, <2>2, <2>3
<1> QED
  BY <1>2, <1>f, <1>7, <1>8, <1>9 DEF TimerPromise!Add

\* A tick brings every timer one tick nearer, and makes due those of its
\* bucket.
LEMMA BeginShows ==
  ASSUME WheelTypeOK, TickInv, NEW own, NEW pos, Placed(own, pos), Shows(own), TickBegin,
         NEW own2, own2 = [n \in Nodes |-> IF own[n] = currentBucket THEN OnTick ELSE own[n]],
         Shows(own2)'
  PROVE  TimerPromise!Tick
<1>t. own \in [Nodes -> -1 .. Buckets] /\ Listed(own, pos) /\ Timed(own)
  BY DEF Placed
<1>f. /\ Buckets \in Nat \ {0} /\ currentBucket \in 0 .. Buckets - 1 /\ OnTick \in 0 .. Buckets
      /\ OnTick \notin 0 .. Buckets - 1 /\ Free \notin 0 .. Buckets - 1 /\ OnTick # Free
      /\ Invalid \notin Timers /\ value \in [Nodes -> Timers \cup {Invalid}]
  BY WheelFacts, InvalidAssumption DEF WheelTypeOK
<1>1. /\ currentIdx = Invalid /\ currentBucket' = NextBucket /\ UNCHANGED <<value, calling>>
      /\ ~ calling
  BY DEF TickBegin, TickInv
<1>2. /\ \A n \in Nodes : own2[n] = IF own[n] = currentBucket THEN OnTick ELSE own[n]
      /\ \A n \in Nodes : own[n] # OnTick
  BY <1>t, <1>f, <1>1 DEF Listed, First
<1>3. \A n \in Nodes : own[n] \in 0 .. Buckets - 1 => value[n] \in Timers
  BY <1>t, <1>f DEF Timed
<1>4. due = {}
  BY <1>2 DEF Shows, DueNodes
<1>5. currentBucket' = IF currentBucket = Buckets - 1 THEN 0 ELSE currentBucket + 1
  <2>1. Buckets * 1 = Buckets /\ 0 \in 0 .. Buckets - 1 /\ Buckets \in Int /\ Buckets = 0 + Buckets
    BY <1>f
  <2>2. CASE currentBucket = Buckets - 1
    <3> DEFINE x == currentBucket + 1
    <3>1. x = 0 + Buckets * 1 /\ x \in Int /\ 1 \in Int
      BY <1>f, <2>1, <2>2
    <3> HIDE DEF x
    <3>2. x % Buckets = 0
      BY <1>f, <2>1, <3>1, ModIs, Zenon
    <3> QED
      BY <1>1, <2>2, <3>2 DEF NextBucket, x
  <2>3. CASE currentBucket # Buckets - 1
    <3> DEFINE x == currentBucket + 1
    <3>1. x \in 0 .. Buckets - 1
      BY <1>f, <2>3
    <3> HIDE DEF x
    <3>2. x % Buckets = x
      BY <1>f, <3>1, ModSmall, Zenon
    <3> QED
      BY <1>1, <2>3, <3>2 DEF NextBucket, x
  <2> QED
    BY <2>2, <2>3
<1>6. /\ Dist(currentBucket) = 1
      /\ \A b \in 0 .. Buckets - 1 : b # currentBucket => Dist(b)' = Dist(b) - 1 /\ Dist(b) \in 2 .. Buckets
  BY <1>f, <1>5 DEF Dist
<1>7. ASSUME NEW t \in Timers
      PROVE  /\ left'[t] = IF left[t] = 0 THEN 0 ELSE left[t] - 1
             /\ left[t] = 1 <=> \E n \in Nodes : own[n] = currentBucket /\ value[n] = t
  <2>1. CASE \E n \in Nodes : value[n] = t /\ own[n] \in 0 .. Buckets - 1 /\ left[t] = Dist(own[n])
    <3>1. PICK n \in Nodes : value[n] = t /\ own[n] \in 0 .. Buckets - 1 /\ left[t] = Dist(own[n])
      BY <2>1
    <3>2. \A m \in Nodes : value[m] = t => m = n
      BY <1>t, <1>f, <3>1 DEF Timed
    <3>3. CASE own[n] = currentBucket
      <4>1. \A m \in Nodes : value'[m] = t => own2[m] \notin 0 .. Buckets - 1
        BY <1>1, <1>2, <1>f, <3>2, <3>3
      <4>2. left'[t] = 0
        BY <4>1 DEF Shows
      <4> QED
        BY <1>6, <3>1, <3>3, <4>2
    <3>4. CASE own[n] # currentBucket
      <4>1. left'[t] = Dist(own[n])' /\ Dist(own[n])' = Dist(own[n]) - 1 /\ Dist(own[n]) \in 2 .. Buckets
        <5>1. own2[n] = own[n] /\ value'[n] = t
          BY <1>1, <1>2, <3>1, <3>4
        <5>2. left'[value'[n]] = Dist(own2[n])'
          BY <3>1, <5>1 DEF Shows
        <5> QED
          BY <1>6, <3>1, <3>4, <5>1, <5>2 DEF Dist
      <4> QED
        BY <3>1, <3>2, <3>4, <4>1
    <3> QED
      BY <3>3, <3>4
  <2>2. CASE (\A n \in Nodes : value[n] = t => own[n] \notin 0 .. Buckets - 1) /\ left[t] = 0
    <3>1. \A n \in Nodes : value'[n] = t => own2[n] \notin 0 .. Buckets - 1
      BY <1>1, <1>2, <1>f, <2>2
    <3>2. left'[t] = 0
      BY <3>1 DEF Shows
    <3> QED
      BY <1>f, <2>2, <3>2
  <2> QED
    BY <2>1, <2>2, ByNode
<1>8. left' = [t \in Timers |-> IF left[t] = 0 THEN 0 ELSE left[t] - 1]
  BY <1>7 DEF Shows
<1>9. due' = {t \in Timers : left[t] = 1}
  <2>1. DueNodes(own2)' = {n \in Nodes : own[n] = currentBucket}
    BY <1>1, <1>2, <1>f DEF DueNodes, OnTick
  <2>2. due' = {value[n] : n \in {m \in Nodes : own[m] = currentBucket}}
    BY <1>1, <2>1 DEF Shows
  <2> QED
    BY <1>f, <1>3, <1>7, <2>2
<1> QED
  BY <1>4, <1>8, <1>9 DEF TimerPromise!Tick

\* A call fires the timer of its node.
LEMMA CallShows ==
  ASSUME WheelTypeOK, TickInv, NEW own, NEW pos, Placed(own, pos), Shows(own), TickCall, Shows(own)'
  PROVE  \E t \in Timers : TimerPromise!Fire(t)
<1>t. own \in [Nodes -> -1 .. Buckets] /\ Listed(own, pos) /\ Timed(own)
  BY DEF Placed
<1>f. /\ OnTick \in 0 .. Buckets /\ Free \notin 0 .. Buckets /\ Invalid \notin Timers
      /\ value \in [Nodes -> Timers \cup {Invalid}]
  BY WheelFacts, InvalidAssumption DEF WheelTypeOK
<1>1. /\ currentIdx \in Nodes /\ ~ calling /\ calling'
      /\ UNCHANGED <<currentBucket, value, currentIdx>>
  BY DEF TickCall, WheelTypeOK, NodeOrNil
<1> DEFINE t == value[currentIdx]
<1>2. own[currentIdx] = OnTick
  <2>1. First(OnTick) = currentIdx /\ currentIdx # Invalid
    BY <1>1, WheelFacts DEF First
  <2> QED
    BY <1>t, <1>f, <2>1 DEF Listed
<1>3. t \in Timers /\ \A n \in Nodes : value[n] = t => n = currentIdx
  BY <1>t, <1>f, <1>1, <1>2 DEF Timed
<1>4. left' = left
  <2>1. ASSUME NEW u \in Timers PROVE left'[u] = left[u]
    <3>1. \A b : Dist(b)' = Dist(b)
      BY <1>1 DEF Dist
    <3>2. CASE \E n \in Nodes : value[n] = u /\ own[n] \in 0 .. Buckets - 1 /\ left[u] = Dist(own[n])
      <4>1. PICK n \in Nodes : value[n] = u /\ own[n] \in 0 .. Buckets - 1 /\ left[u] = Dist(own[n])
        BY <3>2
      <4>2. left'[u] = Dist(own[n])'
        BY <1>1, <4>1 DEF Shows
      <4> QED
        BY <3>1, <4>1, <4>2
    <3>3. CASE (\A n \in Nodes : value[n] = u => own[n] \notin 0 .. Buckets - 1) /\ left[u] = 0
      BY <1>1, <3>3 DEF Shows
    <3> QED
      BY <3>2, <3>3, ByNode
  <2> QED
    BY <2>1 DEF Shows
<1>5. DueNodes(own)' = DueNodes(own) \ {currentIdx} /\ currentIdx \in DueNodes(own)
  <2>1. DueNodes(own) = {n \in Nodes : own[n] = OnTick}
    BY <1>1 DEF DueNodes
  <2>2. DueNodes(own)' = {n \in Nodes : own[n] = OnTick /\ n # currentIdx}
    BY <1>1 DEF DueNodes, OnTick
  <2> QED
    BY <1>1, <1>2, <2>1, <2>2
<1>6. due = {value[n] : n \in DueNodes(own)} /\ due' = {value[n] : n \in DueNodes(own) \ {currentIdx}}
  BY <1>1, <1>5 DEF Shows
<1>7. t \in due /\ due' = due \ {t}
  <2>1. \A n \in DueNodes(own) : n \in Nodes
    BY DEF DueNodes
  <2> QED
    BY <1>3, <1>5, <1>6, <2>1
<1> QED
  BY <1>3, <1>4, <1>7 DEF TimerPromise!Fire

\* When a callback has returned, its timer is shown no more than before.
LEMMA ReleaseShows ==
  ASSUME WheelTypeOK, TickInv, NEW own, NEW pos, Placed(own, pos), Shows(own), TickRelease,
         NEW own2, own2 = [own EXCEPT ![currentIdx] = Free],
         currentIdx \in Nodes, own[currentIdx] = OnTick, Shows(own2)'
  PROVE  left' = left /\ due' = due
<1>t. own \in [Nodes -> -1 .. Buckets] /\ Timed(own)
  BY DEF Placed
<1>f. /\ OnTick \notin 0 .. Buckets - 1 /\ OnTick # Free /\ Invalid \notin Timers
      /\ value \in [Nodes -> Timers \cup {Invalid}] /\ Free \notin 0 .. Buckets - 1
  BY WheelFacts, InvalidAssumption DEF WheelTypeOK
<1>1. /\ calling /\ ~ calling' /\ currentBucket' = currentBucket
      /\ \A n \in Nodes : value'[n] = IF n = currentIdx THEN Invalid ELSE value[n]
      /\ \A n \in Nodes : own2[n] = IF n = currentIdx THEN Free ELSE own[n]
  BY <1>t, <1>f DEF TickRelease, ReleaseNode
<1>2. ASSUME NEW u \in Timers PROVE left'[u] = left[u]
  <2>1. \A b : Dist(b)' = Dist(b)
    BY <1>1 DEF Dist
  <2>2. CASE \E n \in Nodes : value[n] = u /\ own[n] \in 0 .. Buckets - 1 /\ left[u] = Dist(own[n])
    <3>1. PICK n \in Nodes : value[n] = u /\ own[n] \in 0 .. Buckets - 1 /\ left[u] = Dist(own[n])
      BY <2>2
    <3>2. n # currentIdx
      BY <1>f, <3>1
    <3> QED
      BY <1>1, <2>1, <3>1, <3>2 DEF Shows
  <2>3. CASE (\A n \in Nodes : value[n] = u => own[n] \notin 0 .. Buckets - 1) /\ left[u] = 0
    <3>1. \A n \in Nodes : value'[n] = u => own2[n] \notin 0 .. Buckets - 1
      BY <1>1, <1>f, <2>3
    <3> QED
      BY <2>3, <3>1 DEF Shows
  <2> QED
    BY <2>2, <2>3, ByNode
<1>3. left' = left
  BY <1>2 DEF Shows
<1>4. DueNodes(own2)' = DueNodes(own) /\ \A n \in DueNodes(own) : value'[n] = value[n]
  BY <1>1, <1>f DEF DueNodes, OnTick
<1>5. due' = due
  BY <1>4 DEF Shows
<1> QED
  BY <1>3, <1>5

\* A callback is called once, on the tick its time ends and on no other, for
\* every number of buckets, of nodes and of timers: the wheel implements the
\* timer set, as long as no time is a turn of the wheel or more.
THEOREM WheelIsTimerSet == WheelSpec => ImplementsTimerSet
<1>1. WheelInit => TimerPromise!Init
  <2> SUFFICES ASSUME WheelInit PROVE TimerPromise!Init
    OBVIOUS
  <2>1. WheelInv
    BY WheelInitInv
  <2>2. PICK own, pos : Placed(own, pos)
    BY <2>1 DEF WheelInv
  <2>3. Shows(own)
    BY <2>1, <2>2, ShowsMapping DEF WheelInv
  <2>4. \A n \in Nodes : value[n] = Invalid /\ Invalid \notin Timers /\ own[n] = Free
    BY <2>2, InvalidAssumption DEF WheelInit, Placed, Timed
  <2>5. Free # OnTick
    BY BucketsAssumption DEF Free, OnTick
  <2>6. due = {}
    BY <2>3, <2>4, <2>5 DEF Shows, DueNodes
  <2>7. left = [t \in Timers |-> 0]
    BY <2>3, <2>4 DEF Shows
  <2> QED
    BY <2>6, <2>7 DEF TimerPromise!Init
<1>2. WheelInv /\ WheelInv' /\ [WheelNext]_wheelVars => [TimerPromise!Next]_(TimerPromise!vars)
  <2> SUFFICES ASSUME WheelInv, WheelInv', [WheelNext]_wheelVars
               PROVE  [TimerPromise!Next]_(TimerPromise!vars)
    OBVIOUS
  <2>1. WheelTypeOK /\ TickInv
    BY DEF WheelInv
  <2>2. PICK own, pos : Placed(own, pos)
    BY DEF WheelInv
  <2>3. Shows(own)
    BY <2>1, <2>2, ShowsMapping
  <2>n. ASSUME NEW own2, NEW pos2, Placed(own2, pos2)' PROVE Shows(own2)'
    <3>1. WheelTypeOK' /\ TickInv'
      BY DEF WheelInv
    <3> QED
      BY <2>n, <3>1, ShowsNext
  <2>4. ASSUME NEW t \in Timers, NEW ttl \in 0 .. MaxTtl, WheelAdd(t, ttl) PROVE TimerPromise!Next
    <3>1. PICK node, target : node = freeNodes[Len(freeNodes)] /\ target = TargetEpoch(ttl)
      OBVIOUS
    <3>2. PICK own2, pos2 : /\ own2 = [own EXCEPT ![node] = target]
                            /\ pos2 = [pos EXCEPT ![node] = IF buckets[target] = Invalid THEN 0
                                                           ELSE pos[buckets[target]] + 1]
      OBVIOUS
    <3>3. Shows(own2)'
      <4>1. Placed(own2, pos2)'
        BY <2>1, <2>2, <2>4, <3>1, <3>2, AddPlaces
      <4> QED
        BY <2>n, <4>1
    <3>4. ttl \in 1 .. MaxTtl /\ TimerPromise!Add(t, ttl)
      BY <2>1, <2>2, <2>3, <2>4, <3>1, <3>2, <3>3, AddShows
    <3> QED
      BY <3>4 DEF TimerPromise!Next
  <2>5. CASE TickBegin
    <3>1. PICK own2 : own2 = [n \in Nodes |-> IF own[n] = currentBucket THEN OnTick ELSE own[n]]
      OBVIOUS
    <3>2. Shows(own2)'
      BY <2>1, <2>2, <2>5, <2>n, <3>1, BeginPlaces
    <3> QED
      BY <2>1, <2>2, <2>3, <2>5, <3>1, <3>2, BeginShows DEF TimerPromise!Next
  <2>6. CASE TickCall
    <3>1. Shows(own)'
      BY <2>1, <2>2, <2>6, <2>n, CallPlaces
    <3> QED
      BY <2>1, <2>2, <2>3, <2>6, <3>1, CallShows DEF TimerPromise!Next
  <2>7. CASE TickRelease
    <3>1. PICK own2 : own2 = [own EXCEPT ![currentIdx] = Free]
      OBVIOUS
    <3>2. Shows(own2)' /\ currentIdx \in Nodes /\ own[currentIdx] = OnTick
      BY <2>1, <2>2, <2>7, <2>n, <3>1, ReleasePlaces
    <3> QED
      BY <2>1, <2>2, <2>3, <2>7, <3>1, <3>2, ReleaseShows DEF TimerPromise!vars
  <2>8. CASE UNCHANGED wheelVars
    <3>1. Shows(own)' /\ UNCHANGED <<currentBucket, value, currentIdx, calling>>
      BY <2>1, <2>2, <2>8, <2>n, CallPlaces DEF wheelVars
    <3>2. \A b : Dist(b)' = Dist(b)
      BY <3>1 DEF Dist
    <3>3. ASSUME NEW t \in Timers PROVE left'[t] = left[t]
      <4>1. CASE \E n \in Nodes : value[n] = t /\ own[n] \in 0 .. Buckets - 1 /\ left[t] = Dist(own[n])
        BY <3>1, <3>2, <4>1 DEF Shows
      <4>2. CASE (\A n \in Nodes : value[n] = t => own[n] \notin 0 .. Buckets - 1) /\ left[t] = 0
        BY <3>1, <4>2 DEF Shows
      <4> QED
        BY <2>3, <4>1, <4>2, ByNode
    <3>4. DueNodes(own)' = DueNodes(own)
      BY <3>1 DEF DueNodes, OnTick
    <3>5. left' = left /\ due' = due
      BY <2>3, <3>1, <3>3, <3>4 DEF Shows
    <3> QED
      BY <3>5 DEF TimerPromise!vars
  <2> QED
    BY <2>4, <2>5, <2>6, <2>7, <2>8 DEF WheelNext
<1> QED
  BY <1>1, <1>2, WheelInvariance, PTL DEF WheelSpec, ImplementsTimerSet, TimerPromise!Spec
=============================================================================
