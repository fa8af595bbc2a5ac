------------------------------ MODULE BufRing ------------------------------
(***************************************************************************)
(* ProvidedBufferRing: the ring of buffers the kernel picks from when it   *)
(* completes a Recv or a Read.                                             *)
(*                                                                         *)
(* The kernel takes the descriptor at its private head and the goroutine   *)
(* gets the buffer on loan; ReleaseBuffer writes a descriptor at the tail  *)
(* and publishes it.  A Read that ends in EOF has its buffer taken by the  *)
(* kernel and not lent: ReplenishOne asks the kernel for its head and      *)
(* publishes the descriptor before it once more.  When the kernel does not *)
(* answer, Read logs it and goes on, and the buffer is lost to the ring.   *)
(*                                                                         *)
(* submit() runs the release in the calling goroutine, and Read runs       *)
(* ReplenishOne in its own; every access to the ring is a step.  A buffer  *)
(* is its bid.  The tail and the head are 16-bit.                          *)
(***************************************************************************)
EXTENDS Integers, FiniteSets

CONSTANTS
  Goroutines,  \* callers of Recv, Read and ReleaseBuffer
  Capacity,    \* buffers in the ring, a power of two
  TailMod,     \* 2^16: the tail and the head are kept modulo it
  Recycles,    \* whether the kernel may recycle the buffer of a Read's EOF
  None         \* no buffer

ASSUME CapacityAssumption == Capacity \in Nat \ {0}
\* maxPbufRingEntries: the capacity divides 2^16 and is below it.
ASSUME TailModAssumption ==
  TailMod \in Nat /\ Capacity < TailMod /\ TailMod % Capacity = 0
ASSUME RecyclesAssumption == Recycles \in BOOLEAN
ASSUME NoneAssumption == None \notin Nat

VARIABLES
  ring,     \* the BID of each descriptor
  tail,     \* bufs[0].resv
  head,     \* the kernel's head
  pc,       \* where each goroutine is
  op,       \* its operation
  bid,      \* the buffer it has, or that its EOF took
  t,        \* ReleaseBuffer's copy of the tail
  h,        \* ReplenishOne's copy of the head
  lost,     \* the buffers of the EOFs whose status query failed
  raced     \* two of these have got in each other's way, see Orderly

vars == <<ring, tail, head, pc, op, bid, t, h, lost, raced>>

Bids   == 0 .. Capacity - 1
Tails  == 0 .. TailMod - 1
Ops    == {"recv", "read"}

\* Inside ReleaseBuffer, after its first access to the ring; and between
\* the EOF of a Read and ReplenishOne's choice of the buffer.
Releasing    == {g \in Goroutines : pc[g] \in {"entry", "publish"}}
Replenishing == {g \in Goroutines : pc[g] \in {"status", "avail", "pick"}}

\* RegisterBufferRing publishes all buffers at once.
Init ==
  /\ ring = [i \in Bids |-> i]
  /\ tail = Capacity
  /\ head = 0
  /\ pc = [g \in Goroutines |-> "idle"]
  /\ op = [g \in Goroutines |-> "recv"]
  /\ bid = [g \in Goroutines |-> None]
  /\ t = [g \in Goroutines |-> 0]
  /\ h = [g \in Goroutines |-> 0]
  /\ lost = {}
  /\ raced = FALSE

Goto(g, from, to) == pc[g] = from /\ pc' = [pc EXCEPT ![g] = to]

(***************************************************************************)
(* Recv and Read, and the kernel (external) that completes them.           *)
(***************************************************************************)
Ask(g, o) ==
  /\ Goto(g, "idle", "asked")
  /\ op' = [op EXCEPT ![g] = o]
  /\ UNCHANGED <<ring, tail, head, bid, t, h, lost, raced>>

\* The kernel takes the buffer at its head for g.
KernelTake(g) ==
  /\ head # tail
  /\ bid' = [bid EXCEPT ![g] = ring[head % Capacity]]
  /\ head' = (head + 1) % TailMod
  /\ raced' = (raced \/ Replenishing # {})
  /\ UNCHANGED <<ring, tail, op, t, h, lost>>

\* Data: g has the view until it releases it.
Lend(g) == Goto(g, "asked", "loan") /\ KernelTake(g)

\* An error (no buffer left, among others), or the EOF of a Recv.
TakeNothing(g) ==
  /\ Goto(g, "asked", "idle")
  /\ UNCHANGED <<ring, tail, head, op, bid, t, h, lost, raced>>

\* The EOF of a Read.
Eof(g) ==
  /\ op[g] = "read"
  /\ Goto(g, "asked", "status")
  /\ KernelTake(g)

EofRecycled(g) ==
  /\ Recycles
  /\ op[g] = "read"
  /\ Goto(g, "asked", "status")
  /\ raced' = (raced \/ lost # {} \/ \E u \in Goroutines : bid[u] # None)
  /\ UNCHANGED <<ring, tail, head, op, bid, t, h, lost>>

(***************************************************************************)
(* ReplenishOne.                                                           *)
(***************************************************************************)
ReplenishStatus(g) ==
  /\ Goto(g, "status", "avail")
  /\ h' = [h EXCEPT ![g] = head]
  /\ UNCHANGED <<ring, tail, head, op, bid, t, lost, raced>>

\* The status query fails: Read logs the error and returns all the same.
ReplenishFails(g) ==
  /\ Goto(g, "status", "idle")
  /\ lost' = lost \cup ({bid[g]} \ {None})
  /\ bid' = [bid EXCEPT ![g] = None]
  /\ UNCHANGED <<ring, tail, head, op, t, h, raced>>

Avail(from) == (tail - from) % TailMod

\* Mutant of ReplenishCheck: it leaves a ring alone that is not empty.
ReplenishCheckEmpty(g) ==
  /\ Goto(g, "avail", IF Avail(h[g]) # 0 THEN "idle" ELSE "pick")
  /\ bid' = IF Avail(h[g]) # 0 THEN [bid EXCEPT ![g] = None] ELSE bid
  /\ UNCHANGED <<ring, tail, head, op, t, h, lost, raced>>

\* Nothing to do when the ring is full.
ReplenishCheck(g) ==
  /\ Goto(g, "avail", IF Avail(h[g]) = Capacity THEN "idle" ELSE "pick")
  /\ bid' = IF Avail(h[g]) = Capacity THEN [bid EXCEPT ![g] = None] ELSE bid
  /\ UNCHANGED <<ring, tail, head, op, t, h, lost, raced>>

\* Otherwise the BID of the descriptor before the head is read.
ReplenishPick(g) ==
  LET consumed == ring[(h[g] - 1) % Capacity] IN
  /\ Goto(g, "pick", "tail")
  /\ bid' = [bid EXCEPT ![g] = consumed]
  /\ h' = [h EXCEPT ![g] = 0]
  /\ UNCHANGED <<ring, tail, head, op, t, lost, raced>>

(***************************************************************************)
(* ReleaseBuffer, of a view on loan or from ReplenishOne.                  *)
(***************************************************************************)
ReleaseTail(g) ==
  /\ Goto(g, "loan", "entry") \/ Goto(g, "tail", "entry")
  /\ t' = [t EXCEPT ![g] = tail]
  /\ raced' = (raced \/ Releasing # {})
  /\ UNCHANGED <<ring, tail, head, op, bid, h, lost>>

\* Mutant of ReleaseEntry: the descriptor after the one at the tail.
ReleaseEntryNext(g) ==
  /\ Goto(g, "entry", "publish")
  /\ ring' = [ring EXCEPT ![(t[g] + 1) % Capacity] = bid[g]]
  /\ UNCHANGED <<tail, head, op, bid, t, h, lost, raced>>

ReleaseEntry(g) ==
  /\ Goto(g, "entry", "publish")
  /\ ring' = [ring EXCEPT ![t[g] % Capacity] = bid[g]]
  /\ UNCHANGED <<tail, head, op, bid, t, h, lost, raced>>

\* storeTailRelease: its CAS loop guards the other half of the word, the
\* tail is stored whatever it is by now.  The copy of the tail is done with.
PublishTail(g, value) ==
  /\ Goto(g, "publish", "idle")
  /\ tail' = value
  /\ bid' = [bid EXCEPT ![g] = None]
  /\ t' = [t EXCEPT ![g] = 0]
  /\ UNCHANGED <<ring, head, op, h, lost, raced>>

\* Mutants of ReleasePublish: the tail is wider than 16 bits, or stays.
ReleasePublishWide(g) == PublishTail(g, t[g] + 1)
ReleasePublishNot(g)  == PublishTail(g, t[g])

ReleasePublish(g) == PublishTail(g, (t[g] + 1) % TailMod)

(***************************************************************************)
(* Specification.                                                          *)
(***************************************************************************)
Go(g) ==
  \/ \E o \in Ops : Ask(g, o)
  \/ Lend(g) \/ TakeNothing(g) \/ Eof(g) \/ EofRecycled(g)
  \/ ReplenishStatus(g) \/ ReplenishFails(g) \/ ReplenishCheck(g) \/ ReplenishPick(g)
  \/ ReleaseTail(g) \/ ReleaseEntry(g) \/ ReleasePublish(g)

Next == \E g \in Goroutines : Go(g)

Spec == Init /\ [][Next]_vars

(***************************************************************************)
(* Properties.                                                             *)
(***************************************************************************)
TypeOK ==
  /\ ring \in [Bids -> Bids]
  /\ tail \in Tails
  /\ head \in Tails
  /\ pc \in [Goroutines -> {"idle", "asked", "loan", "status", "avail", "pick",
                            "tail", "entry", "publish"}]
  /\ op \in [Goroutines -> Ops]
  /\ bid \in [Goroutines -> Bids \cup {None}]
  /\ t \in [Goroutines -> Tails]
  /\ h \in [Goroutines -> Tails]
  /\ lost \in SUBSET Bids
  /\ raced \in BOOLEAN

\* What the comments ask of the callers, who do not keep to it: releases do
\* not overlap; and what ReplenishOne needs besides: between an EOF and its
\* replenishment the kernel takes no other buffer, and when it recycles that
\* of the EOF the ring is full, nothing being lent or lost.
Orderly == ~raced

\* The descriptors the kernel may take.
Visible == {(head + k) % Capacity : k \in 0 .. Avail(head) - 1}

\* A buffer is either published, once, or with one goroutine, or was lost to
\* a status query that failed, and nothing else loses one: the kernel never
\* fills a buffer somebody reads, however loans, EOFs and releases interleave
\* otherwise and the indices wrap.
BuffersConserved ==
  Orderly =>
    /\ Avail(head) <= Capacity
    /\ \A b \in Bids :
         Cardinality({i \in Visible : ring[i] = b})
           + Cardinality({g \in Goroutines : bid[g] = b})
           + Cardinality({b} \cap lost) = 1

\* A descriptor is written only where the kernel does not look.
WritesUnseen ==
  [][Orderly => \A i \in Visible : ring'[i] = ring[i]]_vars

\* ReplenishOne, when the kernel has told it its head, gives up only if the
\* EOF took no buffer, and otherwise finds the very buffer it took, although
\* the completion did not name it.
EofReplenished ==
  [][Orderly => \A g \in Goroutines :
       /\ pc[g] = "avail" /\ pc'[g] = "idle" => bid[g] = None
       /\ pc[g] = "pick" /\ pc'[g] = "tail" => bid[g] # None /\ bid'[g] = bid[g]]_vars

\* The tail is bumped, "making the buffer visible to the kernel again".
ReleaseReturnsBuffer ==
  [][\A g \in Goroutines :
       pc[g] = "publish" /\ pc'[g] = "idle"
         => \E i \in Visible' : ring'[i] = bid[g]]_vars
=============================================================================
