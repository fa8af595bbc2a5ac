---------------------------- MODULE MCInternals ----------------------------
(***************************************************************************)
(* The parts of internal/ that one goroutine uses at a time.  They share   *)
(* nothing, so each moves alone: part says which.                          *)
(***************************************************************************)
EXTENDS TimingWheel, PriorityQueue, RingMemory

VARIABLE part

Init ==
  /\ part \in {"wheel", "queue", "memory"}
  /\ WheelInit
  /\ QueueInit
  /\ MemoryInit

Next ==
  \/ part = "wheel" /\ WheelNext /\ UNCHANGED <<part, queueVars, memoryVars>>
  \/ part = "queue" /\ QueueNext /\ UNCHANGED <<part, wheelVars, memoryVars>>
  \/ part = "memory" /\ MemoryNext /\ UNCHANGED <<part, wheelVars, queueVars>>

Spec == Init /\ [][Next]_<<part, wheelVars, queueVars, memoryVars>>
=============================================================================
