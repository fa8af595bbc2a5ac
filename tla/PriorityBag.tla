---------------------------- MODULE PriorityBag ----------------------------
(***************************************************************************)
(* What a bounded priority queue promises: Pop returns a least one of the  *)
(* elements that were pushed and not popped.  An element is its weight.    *)
(***************************************************************************)
EXTENDS Integers

CONSTANTS
  Weights,
  Absent    \* not a weight

VARIABLES
  count,    \* how many elements there are of each weight
  popped    \* what Pop has returned last

vars == <<count, popped>>

Init == count = [w \in Weights |-> 0] /\ popped = Absent

Push(w) ==
  /\ count' = [count EXCEPT ![w] = @ + 1]
  /\ UNCHANGED popped

Pop(w) ==
  /\ count[w] > 0
  /\ \A u \in Weights : count[u] > 0 => w <= u
  /\ count' = [count EXCEPT ![w] = @ - 1]
  /\ popped' = w

Next == \E w \in Weights : Push(w) \/ Pop(w)

Spec == Init /\ [][Next]_vars
=============================================================================
