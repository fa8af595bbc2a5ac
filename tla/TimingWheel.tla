---------------------------- MODULE TimingWheel ----------------------------
(***************************************************************************)
(* timingwheel.TimingWheel: a ring of buckets, one for every second, each  *)
(* the head of a doubly linked list of nodes from a preallocated pool.     *)
(*                                                                         *)
(* Tick takes the list of the current bucket, calls the callback of each   *)
(* node and releases the node; a callback may Add.  A timer is a name for  *)
(* the fd and the callback of one call of Add; a name is used again when   *)
(* it is not pending.  The generation of a node is left out, nothing reads *)
(* it.                                                                     *)
(***************************************************************************)
EXTENDS Integers, Sequences

CONSTANTS
  Buckets,   \* numBuckets
  NumNodes,  \* maxConnections
  Timers,    \* names for the timers
  MaxTtl,    \* the longest time a caller asks for
  Invalid    \* invalidIndex

ASSUME BucketsAssumption == Buckets \in Nat \ {0}
ASSUME NumNodesAssumption == NumNodes \in Nat
\* A time of Buckets or more expires a turn of the wheel early.
ASSUME MaxTtlAssumption == MaxTtl \in 0 .. Buckets - 1
ASSUME InvalidAssumption == Invalid \notin Nat /\ Invalid \notin Timers

VARIABLES
  currentBucket,
  buckets,     \* the first node of each bucket
  next, prev,  \* linksPool
  value,       \* valuesPool: the timer of each node, Invalid for a nil callback
  freeNodes,   \* a stack, the top at its end
  currentIdx,  \* Tick's, Invalid when it does not run
  nextIdx,     \* Tick's, while a callback runs
  calling      \* whether a callback of Tick runs

wheelVars == <<currentBucket, buckets, next, prev, value, freeNodes,
               currentIdx, nextIdx, calling>>

Nodes     == 0 .. NumNodes - 1
NodeOrNil == Nodes \cup {Invalid}

WheelInit ==
  /\ currentBucket = 0
  /\ buckets = [b \in 0 .. Buckets - 1 |-> Invalid]
  /\ next = [n \in Nodes |-> Invalid]
  /\ prev = [n \in Nodes |-> Invalid]
  /\ value = [n \in Nodes |-> Invalid]
  /\ freeNodes = [i \in 1 .. NumNodes |-> i - 1]
  /\ currentIdx = Invalid
  /\ nextIdx = Invalid
  /\ calling = FALSE

(***************************************************************************)
(* Add, called between two ticks or by a callback.                         *)
(***************************************************************************)
CallerRuns == currentIdx = Invalid \/ calling

\* Mutant of TargetEpoch: counted from the bucket of the last tick.
TargetEpochOfLastTick(ttl) == (currentBucket + ttl - 1) % Buckets

TargetEpoch(ttl) == (currentBucket + ttl) % Buckets

\* A node from the top of the stack becomes the head of its bucket.
WheelAdd(t, ttl) ==
  LET idx     == freeNodes[Len(freeNodes)]
      target  == TargetEpoch(ttl)
      oldHead == buckets[target]
  IN
  /\ CallerRuns
  /\ \A n \in Nodes : value[n] # t
  /\ ttl > 0
  /\ freeNodes # << >>
  /\ freeNodes' = SubSeq(freeNodes, 1, Len(freeNodes) - 1)
  /\ value' = [value EXCEPT ![idx] = t]
  /\ next' = [next EXCEPT ![idx] = oldHead]
  /\ prev' = [n \in Nodes |-> IF n = idx THEN Invalid
                              ELSE IF n = oldHead THEN idx ELSE prev[n]]
  /\ buckets' = [buckets EXCEPT ![target] = idx]
  /\ UNCHANGED <<currentBucket, currentIdx, nextIdx, calling>>

(***************************************************************************)
(* Tick.                                                                   *)
(***************************************************************************)

\* Mutant of NextBucket: not masked.
NextBucketUnmasked == currentBucket + 1

NextBucket == (currentBucket + 1) % Buckets

TickBegin ==
  /\ currentIdx = Invalid
  /\ currentBucket' = NextBucket
  /\ currentIdx' = buckets[currentBucket]
  /\ buckets' = [buckets EXCEPT ![currentBucket] = Invalid]
  /\ UNCHANGED <<next, prev, value, freeNodes, nextIdx, calling>>

\* The successor is read, then the callback is called ...
TickCall ==
  /\ currentIdx # Invalid
  /\ ~calling
  /\ nextIdx' = next[currentIdx]
  /\ calling' = TRUE
  /\ UNCHANGED <<currentBucket, buckets, next, prev, value, freeNodes, currentIdx>>

\* Mutant of ReleaseNode: the links are cleared, the stack is not pushed.
ReleaseNodeLost(idx) ==
  /\ prev' = [prev EXCEPT ![idx] = Invalid]
  /\ next' = [next EXCEPT ![idx] = Invalid]
  /\ value' = [value EXCEPT ![idx] = Invalid]
  /\ UNCHANGED freeNodes

ReleaseNode(idx) ==
  /\ prev' = [prev EXCEPT ![idx] = Invalid]
  /\ next' = [next EXCEPT ![idx] = Invalid]
  /\ value' = [value EXCEPT ![idx] = Invalid]
  /\ freeNodes' = Append(freeNodes, idx)

\* ... and when it has returned the node is released.
TickRelease ==
  /\ calling
  /\ ReleaseNode(currentIdx)
  /\ currentIdx' = nextIdx
  /\ nextIdx' = Invalid
  /\ calling' = FALSE
  /\ UNCHANGED <<currentBucket, buckets>>

WheelNext ==
  \/ \E t \in Timers, ttl \in 0 .. MaxTtl : WheelAdd(t, ttl)
  \/ TickBegin
  \/ TickCall
  \/ TickRelease

WheelSpec == WheelInit /\ [][WheelNext]_wheelVars

(***************************************************************************)
(* Properties.                                                             *)
(***************************************************************************)
WheelTypeOK ==
  /\ currentBucket \in 0 .. Buckets - 1
  /\ buckets \in [0 .. Buckets - 1 -> NodeOrNil]
  /\ next \in [Nodes -> NodeOrNil]
  /\ prev \in [Nodes -> NodeOrNil]
  /\ value \in [Nodes -> Timers \cup {Invalid}]
  /\ freeNodes \in Seq(Nodes)
  /\ currentIdx \in NodeOrNil
  /\ nextIdx \in NodeOrNil
  /\ calling \in BOOLEAN

\* The nodes of the list that begins with a node, or is empty.
Chain(first) ==
  LET reach[k \in 0 .. NumNodes] ==
        IF k = 0 THEN {first} ELSE reach[k - 1] \cup {next[n] : n \in reach[k - 1] \ {Invalid}}
  IN reach[NumNodes] \ {Invalid}

\* The list of the tick under way: the nodes whose callbacks have not
\* returned.
TickChain == IF calling THEN {currentIdx} \cup Chain(nextIdx) ELSE Chain(currentIdx)

Bucketed(b) == Chain(buckets[b])

\* Every node is in one place: once on the stack, in the list of one bucket,
\* or in that of the tick, whatever callbacks add to the bucket that is
\* being processed; and the lists of the buckets can be walked both ways.
NodesConserved ==
  LET onStack(n) == {i \in DOMAIN freeNodes : freeNodes[i] = n}
      inLists(n) == {b \in DOMAIN buckets : n \in Bucketed(b)}
  IN
  /\ \A n \in Nodes :
       \/ onStack(n) = {} /\ inLists(n) = {} /\ n \in TickChain
       \/ onStack(n) = {} /\ n \notin TickChain /\ \E b \in DOMAIN buckets : inLists(n) = {b}
       \/ inLists(n) = {} /\ n \notin TickChain /\ \E i \in DOMAIN freeNodes : onStack(n) = {i}
  /\ \A b \in DOMAIN buckets :
       /\ buckets[b] # Invalid => prev[buckets[b]] = Invalid
       /\ \A n \in Bucketed(b) : next[n] # Invalid => prev[next[n]] = n

\* The refinement mapping: the ticks left of a timer are how far its bucket
\* is away, those due are in the list of the tick.
TicksLeft(t) ==
  {d \in 1 .. Buckets : \E n \in Bucketed((currentBucket + d - 1) % Buckets) : value[n] = t}

left == [t \in Timers |-> IF TicksLeft(t) = {} THEN 0 ELSE CHOOSE d \in TicksLeft(t) : TRUE]
due  == {value[n] : n \in IF calling THEN TickChain \ {currentIdx} ELSE TickChain}

TimerPromise == INSTANCE TimerSet

\* A callback is called once, on the tick its time ends and on no other,
\* although Tick walks a list while the callbacks put nodes back to use.
ImplementsTimerSet == TimerPromise!Spec
=============================================================================
