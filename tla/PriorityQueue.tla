--------------------------- MODULE PriorityQueue ---------------------------
(***************************************************************************)
(* pqueue.PriorityQueue: a binary heap in an array of fixed capacity.      *)
(*                                                                         *)
(* The weight and the payload of a slot move together: a slot is its       *)
(* weight.  Each pass of the loops of Push and Pop is a step.              *)
(***************************************************************************)
EXTENDS Integers, FiniteSets

CONSTANTS
  Capacity,  \* cap
  Weights,   \* weights that callers push
  Absent     \* the weight of a slot that is not used

ASSUME CapacityAssumption == Capacity \in Nat
ASSUME WeightsAssumption == Weights \subseteq Int
\* The code writes -1 there and never looks at it, so that -1 may be pushed
\* like any other weight.
ASSUME AbsentAssumption == Absent \notin Weights

VARIABLES
  data,
  len,
  phase,   \* "idle", or the loop that runs: that of Push, "up", or of Pop, "down"
  idx,     \* its index
  popped   \* what Pop returns

queueVars == <<data, len, phase, idx, popped>>

Slots == 0 .. Capacity - 1

QueueInit ==
  /\ data = [i \in Slots |-> Absent]
  /\ len = 0
  /\ phase = "idle"
  /\ idx = 0
  /\ popped = Absent

ParentIdx(i) == (i - 1) \div 2

ChildrenArrayStartIdx(i) == 2 * i + 1

Swap(i, j) == data' = [data EXCEPT ![i] = data[j], ![j] = data[i]]

(***************************************************************************)
(* Push: the new element rises from the end.                               *)
(***************************************************************************)

\* Mutant of QueuePush: the last slot may be written, the length not.
QueuePushAny(w) ==
  /\ phase = "idle"
  /\ len <= Capacity
  /\ data' = [data EXCEPT ![len] = w]
  /\ idx' = len
  /\ len' = len + 1
  /\ phase' = "up"
  /\ UNCHANGED popped

QueuePush(w) ==
  /\ phase = "idle"
  /\ len # Capacity
  /\ data' = [data EXCEPT ![len] = w]
  /\ idx' = len
  /\ len' = len + 1
  /\ phase' = "up"
  /\ UNCHANGED popped

Rises == idx > 0 /\ data[ParentIdx(idx)] > data[idx]

Rise ==
  /\ phase = "up"
  /\ Rises
  /\ Swap(ParentIdx(idx), idx)
  /\ idx' = ParentIdx(idx)
  /\ UNCHANGED <<len, phase, popped>>

PushReturns ==
  /\ phase = "up"
  /\ ~Rises
  /\ phase' = "idle"
  /\ idx' = 0
  /\ UNCHANGED <<data, len, popped>>

(***************************************************************************)
(* Pop: the last element takes the place of the first, and sinks.          *)
(***************************************************************************)
QueuePop ==
  /\ phase = "idle"
  /\ len # 0
  /\ popped' = data[0]
  /\ data' = [[data EXCEPT ![0] = data[len - 1]] EXCEPT ![len - 1] = Absent]
  /\ len' = len - 1
  /\ phase' = "down"
  /\ UNCHANGED idx

\* Mutant of Pick: the left child whenever there is one.
PickLeft == ChildrenArrayStartIdx(idx)

\* The lesser child, the left one if they are equal or it is alone.
Pick ==
  LET lidx == ChildrenArrayStartIdx(idx)
      ridx == lidx + 1
  IN IF ridx >= len \/ data[lidx] <= data[ridx] THEN lidx ELSE ridx

Sinks == ChildrenArrayStartIdx(idx) < len /\ data[idx] > data[Pick]

Sink ==
  /\ phase = "down"
  /\ Sinks
  /\ Swap(idx, Pick)
  /\ idx' = Pick
  /\ UNCHANGED <<len, phase, popped>>

PopReturns ==
  /\ phase = "down"
  /\ ~Sinks
  /\ phase' = "idle"
  /\ idx' = 0
  /\ UNCHANGED <<data, len, popped>>

QueueNext ==
  \/ \E w \in Weights : QueuePush(w)
  \/ Rise
  \/ PushReturns
  \/ QueuePop
  \/ Sink
  \/ PopReturns

QueueSpec == QueueInit /\ [][QueueNext]_queueVars

(***************************************************************************)
(* Properties.                                                             *)
(***************************************************************************)
QueueTypeOK ==
  /\ data \in [Slots -> Weights \cup {Absent}]
  /\ len \in 0 .. Capacity
  /\ \A i \in Slots : data[i] = Absent <=> i >= len
  /\ phase \in {"idle", "up", "down"}
  /\ idx \in Nat
  /\ popped \in Weights \cup {Absent}

\* The refinement mapping.
count == [w \in Weights |-> Cardinality({i \in 0 .. len - 1 : data[i] = w})]

BagPromise == INSTANCE PriorityBag

\* Pop returns a least element, and of the elements that are pushed none is
\* lost or doubled, in any sequence of calls, with equal weights, with a
\* queue that is full and with one that becomes empty.
ImplementsPriorityBag == BagPromise!Spec
=============================================================================
