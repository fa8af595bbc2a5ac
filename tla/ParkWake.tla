------------------------------ MODULE ParkWake ------------------------------
(***************************************************************************)
(* How a goroutine waits for the completion of its operation.              *)
(*                                                                         *)
(* The goroutine arms a cell from the pool and has it dispatched: by       *)
(* itself, or by fallbackLoop while it already parks.  gopark calls        *)
(* netringParkUnlock, which swaps Parked into cell.taskState; the poller,  *)
(* with the completion of the slot the cell is in, tries a CAS of InCore   *)
(* to Done.  Whoever comes second knows that the other has been there:     *)
(* the goroutine does not sleep, or the poller calls goready.  A Send does *)
(* not park; its cell is given back to the pool by the poller.             *)
(*                                                                         *)
(* SubmitRing says who dispatches and when, TaskSlots which index Add      *)
(* returns; here dispatch is one at a time and Add may return any index    *)
(* that is free, or released and collected on the way.                     *)
(***************************************************************************)
EXTENDS Integers, Sequences, FiniteSets

CONSTANTS
  Goroutines,  \* callers of the netring methods
  Cells,       \* taskCell objects, enough for every operation at once
  Idx,         \* slot indices
  MaxOps,      \* bound on the number of operations
  MaxAborts,   \* bound on the operations whose Push reports an error
  PollerWaits, \* whether the poller may spin long enough to call WaitEvents
  None

ASSUME NoneAssumption == None \notin Goroutines /\ None \notin Cells
ASSUME IdxAssumption == Idx \subseteq Nat /\ 0 \in Idx
ASSUME MaxOpsAssumption == MaxOps \in Nat
ASSUME MaxAbortsAssumption == MaxAborts \in Nat
ASSUME PollerWaitsAssumption == PollerWaits \in BOOLEAN

VARIABLES
  pc,        \* where each goroutine is
  cellOf,    \* its cell
  mine,      \* the number of its last operation
  got,       \* the result it returned last, 0 if none
  pool,      \* NetRing.pool: how many times each cell is in it
  taskState, \* fields of each cell: taskCell.taskState,
  owner,     \* ... g,
  opCode,    \* ... opCode, a Send or an operation that parks,
  res,       \* ... res,
  op,        \* ... and the number of the operation it was armed for
  handed,    \* cells of the tasks handed over to fallbackLoop
  dispatch,  \* the cell and index of the dispatch after Add, and whether Push failed
  aborted,   \* the operations whose Push failed
  slots,     \* the cell in each slot whose bit is set
  released,  \* the slots released by Del whose bit is still set
  flight,    \* the entries the kernel works on: [idx, res]
  cq,        \* the completion queue, of the same records
  poller,    \* where the poller is
  resp,      \* its completion
  pcell,     \* the cell it found
  ops,       \* operations so far
  misled,    \* a zero completion, or the answer to an aborted operation, reached a cell
  thrown     \* the runtime threw: goready of a goroutine that is not asleep

cellVars   == <<taskState, owner, opCode, res, op>>
goVars     == <<pc, cellOf, mine, got, ops>>
slotVars   == <<handed, dispatch, aborted, slots, released>>
kernelVars == <<flight, cq>>
pollVars   == <<poller, resp, pcell>>
ghostVars  == <<misled, thrown>>
vars == <<cellVars, goVars, pool, slotVars, kernelVars, pollVars, ghostVars>>

Kinds      == {"park", "send"}
NoDispatch == [cell |-> None, idx |-> 0, failed |-> FALSE]

\* Mutant of ZeroCQE: GetTask marks what is not there.
MinusCQE == [idx |-> 0, res |-> -1]

\* What GetTask returns when the completion queue is empty.
ZeroCQE    == [idx |-> 0, res |-> 0]

Init ==
  /\ pc = [g \in Goroutines |-> "idle"]
  /\ cellOf = [g \in Goroutines |-> None]
  /\ mine = [g \in Goroutines |-> 0]
  /\ got = [g \in Goroutines |-> 0]
  /\ pool = [c \in Cells |-> 1]
  /\ taskState = [c \in Cells |-> "InCore"]
  /\ owner = [c \in Cells |-> None]
  /\ opCode = [c \in Cells |-> "park"]
  /\ res = [c \in Cells |-> 0]
  /\ op = [c \in Cells |-> 0]
  /\ handed = {}
  /\ dispatch = NoDispatch
  /\ aborted = {}
  /\ slots = [i \in Idx |-> None]
  /\ released = {}
  /\ flight = {}
  /\ cq = << >>
  /\ poller = "take"
  /\ resp = ZeroCQE
  /\ pcell = None
  /\ ops = 0
  /\ misled = FALSE
  /\ thrown = FALSE

Goto(g, where) == pc' = [pc EXCEPT ![g] = where]
Put(c) == pool' = [pool EXCEPT ![c] = @ + 1]

(***************************************************************************)
(* The goroutine.                                                          *)
(***************************************************************************)

\* taskCell: a cell from the pool, every field overwritten.
Arm(g, c, k) ==
  /\ pc[g] = "idle"
  /\ ops < MaxOps
  /\ pool[c] > 0
  /\ pool' = [pool EXCEPT ![c] = @ - 1]
  /\ taskState' = [taskState EXCEPT ![c] = "InCore"]
  /\ owner' = [owner EXCEPT ![c] = g]
  /\ opCode' = [opCode EXCEPT ![c] = k]
  /\ res' = [res EXCEPT ![c] = 0]
  /\ op' = [op EXCEPT ![c] = ops + 1]
  /\ ops' = ops + 1
  /\ cellOf' = [cellOf EXCEPT ![g] = c]
  /\ mine' = [mine EXCEPT ![g] = ops + 1]
  /\ got' = [got EXCEPT ![g] = 0]
  /\ Goto(g, "submit")
  /\ UNCHANGED <<slotVars, kernelVars, pollVars, ghostVars>>

\* Mutant of AfterSubmit: the sender recycles its cell itself.
AfterSubmitPut(c) == IF opCode[c] = "send" THEN "put" ELSE "park"

\* Where a goroutine goes when submit has returned true.
AfterSubmit(c) == IF opCode[c] = "send" THEN "idle" ELSE "park"

\* submit by way of the fallback: the task goes to the channel.
HandOver(g) ==
  /\ pc[g] = "submit"
  /\ handed' = handed \cup {cellOf[g]}
  /\ Goto(g, AfterSubmit(cellOf[g]))
  /\ UNCHANGED <<cellVars, cellOf, mine, got, ops, pool, dispatch, aborted, slots, released,
                 kernelVars, pollVars, ghostVars>>

\* Mutant of Park: what the Swap returns is ignored.
ParkBlindly(g) ==
  /\ pc[g] = "park"
  /\ taskState' = [taskState EXCEPT ![cellOf[g]] = "Parked"]
  /\ Goto(g, "asleep")
  /\ UNCHANGED <<owner, opCode, res, op, cellOf, mine, got, ops, pool, slotVars,
                 kernelVars, pollVars, ghostVars>>

\* gopark and netringParkUnlock: the Swap decides whether to sleep.
Park(g) ==
  /\ pc[g] = "park"
  /\ taskState' = [taskState EXCEPT ![cellOf[g]] = "Parked"]
  /\ Goto(g, IF taskState[cellOf[g]] = "InCore" THEN "asleep" ELSE "awake")
  /\ UNCHANGED <<owner, opCode, res, op, cellOf, mine, got, ops, pool, slotVars,
                 kernelVars, pollVars, ghostVars>>

\* The wakeup path: the result is read, then the cell goes to the pool.
ReadResult(g) ==
  /\ pc[g] = "awake"
  /\ got' = [got EXCEPT ![g] = res[cellOf[g]]]
  /\ Goto(g, "put")
  /\ UNCHANGED <<cellVars, cellOf, mine, ops, pool, slotVars, kernelVars, pollVars, ghostVars>>

PutCell(g) ==
  /\ pc[g] = "put"
  /\ Put(cellOf[g])
  /\ Goto(g, "idle")
  /\ UNCHANGED <<cellVars, cellOf, mine, got, ops, slotVars, kernelVars, pollVars, ghostVars>>

(***************************************************************************)
(* dispatch, one at a time.                                                *)
(***************************************************************************)

\* Mutant of AddSlot: an index that is taken.
AddSlotTaken(c, i) ==
  /\ dispatch = NoDispatch
  /\ slots' = [slots EXCEPT ![i] = c]
  /\ dispatch' = [cell |-> c, idx |-> i, failed |-> FALSE]
  /\ UNCHANGED released

\* slots.Add of the cell at index i.  Of the released slots, those of R are
\* collected on the way.
AddSlot(c, i) ==
  /\ dispatch = NoDispatch
  /\ \E R \in SUBSET released :
       /\ slots[i] = None \/ i \in R
       /\ slots' = [j \in Idx |-> IF j = i THEN c ELSE IF j \in R THEN None ELSE slots[j]]
       /\ released' = released \ R
  /\ dispatch' = [cell |-> c, idx |-> i, failed |-> FALSE]

\* By the goroutine itself ...
AddDirect(g, i) ==
  /\ pc[g] = "submit"
  /\ AddSlot(cellOf[g], i)
  /\ Goto(g, "dispatch")
  /\ UNCHANGED <<cellVars, cellOf, mine, got, ops, pool, handed, aborted, kernelVars, pollVars, ghostVars>>

\* ... or by fallbackLoop.
AddHanded(c, i) ==
  /\ c \in handed
  /\ handed' = handed \ {c}
  /\ AddSlot(c, i)
  /\ UNCHANGED <<cellVars, goVars, pool, aborted, kernelVars, pollVars, ghostVars>>

Publish == flight' = flight \cup {[idx |-> dispatch.idx, res |-> op[dispatch.cell]]}

\* A goroutine that dispatches for itself returns from submit.
Returned(g) == IF pc[g] = "dispatch" THEN AfterSubmit(cellOf[g]) ELSE pc[g]

\* Push; and a Push that fails for a Send, which abortIssuer does not wake.
Push ==
  /\ dispatch # NoDispatch
  /\ ~dispatch.failed
  /\ Publish
  /\ dispatch' = NoDispatch
  /\ pc' = [g \in Goroutines |-> Returned(g)]
  /\ UNCHANGED <<cellVars, cellOf, mine, got, ops, pool, handed, aborted, slots, released, cq,
                 pollVars, ghostVars>>

\* The wake-up of the kernel thread fails, after the tail has moved.
PushFails ==
  /\ dispatch # NoDispatch
  /\ ~dispatch.failed
  /\ opCode[dispatch.cell] = "park"
  /\ Cardinality(aborted) < MaxAborts
  /\ Publish
  /\ dispatch' = [dispatch EXCEPT !.failed = TRUE]
  /\ aborted' = aborted \cup {op[dispatch.cell]}
  /\ UNCHANGED <<cellVars, goVars, pool, handed, slots, released, cq, pollVars, ghostVars>>

\* abortIssuer, as the poller will: the CAS succeeds ...
AbortDone ==
  /\ dispatch.failed
  /\ taskState[dispatch.cell] = "InCore"
  /\ taskState' = [taskState EXCEPT ![dispatch.cell] = "Done"]
  /\ dispatch' = NoDispatch
  /\ pc' = [g \in Goroutines |-> Returned(g)]
  /\ UNCHANGED <<owner, opCode, res, op, cellOf, mine, got, ops, pool, handed, aborted, slots,
                 released, kernelVars, pollVars, ghostVars>>

\* ... or fails, and the issuer is woken.
AbortReady ==
  LET issuer == owner[dispatch.cell] IN
  /\ dispatch.failed
  /\ taskState[dispatch.cell] # "InCore"
  /\ dispatch' = NoDispatch
  /\ thrown' = (pc[issuer] # "asleep")
  /\ pc' = [g \in Goroutines |->
              IF g = issuer /\ pc[g] = "asleep" THEN "awake" ELSE Returned(g)]
  /\ UNCHANGED <<cellVars, cellOf, mine, got, ops, pool, handed, aborted, slots, released,
                 kernelVars, pollVars, misled>>

(***************************************************************************)
(* The kernel (external): it answers in any order, each entry once.  The   *)
(* result of an operation is its number.                                   *)
(***************************************************************************)
Answer(e) ==
  /\ e \in flight
  /\ flight' = flight \ {e}
  /\ cq' = Append(cq, e)
  /\ UNCHANGED <<cellVars, goVars, pool, slotVars, pollVars, ghostVars>>

(***************************************************************************)
(* Poll.                                                                   *)
(***************************************************************************)
PollTake ==
  /\ poller = "take"
  /\ cq # << >>
  /\ resp' = Head(cq)
  /\ cq' = Tail(cq)
  /\ poller' = "get"
  /\ UNCHANGED <<cellVars, goVars, pool, slotVars, flight, pcell, ghostVars>>

\* Nothing came for idleAfter turns: WaitEvents.
PollWait ==
  /\ PollerWaits
  /\ poller = "take"
  /\ cq = << >>
  /\ resp' = ZeroCQE
  /\ poller' = "wait"
  /\ UNCHANGED <<cellVars, goVars, pool, slotVars, kernelVars, pcell, ghostVars>>

\* It returns when there is a completion, and the poller goes on with the
\* zero value that GetTask had returned (so it does after an error other
\* than EINTR, which is left out) ...
PollWaited ==
  /\ poller = "wait"
  /\ cq # << >>
  /\ poller' = "get"
  /\ UNCHANGED <<cellVars, goVars, pool, slotVars, kernelVars, resp, pcell, ghostVars>>

\* ... or with EINTR, and the poller starts over.
PollInterrupted ==
  /\ poller = "wait"
  /\ poller' = "take"
  /\ UNCHANGED <<cellVars, goVars, pool, slotVars, kernelVars, resp, pcell, ghostVars>>

\* slots.Get finds no cell.
PollUnknown ==
  /\ poller = "get"
  /\ slots[resp.idx] = None
  /\ poller' = "take"
  /\ UNCHANGED <<cellVars, goVars, pool, slotVars, kernelVars, resp, pcell, ghostVars>>

\* slots.Get finds one: the result is written into it.
PollGet ==
  /\ poller = "get"
  /\ slots[resp.idx] # None
  /\ pcell' = slots[resp.idx]
  /\ res' = [res EXCEPT ![slots[resp.idx]] = resp.res]
  /\ poller' = IF opCode[slots[resp.idx]] = "send" THEN "put" ELSE "wake"
  /\ misled' = (misled \/ resp = ZeroCQE \/ resp.res \in aborted)
  /\ UNCHANGED <<taskState, owner, opCode, op, goVars, pool, slotVars, kernelVars, resp, thrown>>

\* An operation that parks: the CAS succeeds ...
PollDone ==
  /\ poller = "wake"
  /\ taskState[pcell] = "InCore"
  /\ taskState' = [taskState EXCEPT ![pcell] = "Done"]
  /\ poller' = "take"
  /\ UNCHANGED <<owner, opCode, res, op, goVars, pool, slotVars, kernelVars, resp, pcell, ghostVars>>

\* Mutant of PollReady: goready whatever the CAS found.
PollReadyAlways ==
  /\ poller = "wake"
  /\ LET g == owner[pcell] IN
     IF pc[g] = "asleep" THEN Goto(g, "awake") /\ UNCHANGED thrown
                         ELSE thrown' = TRUE /\ UNCHANGED pc
  /\ poller' = "take"
  /\ UNCHANGED <<cellVars, cellOf, mine, got, ops, pool, slotVars, kernelVars, resp,
                 pcell, misled>>

\* ... or fails, and goready is called.  It throws unless the goroutine is
\* asleep.  The slot stays as it is in both cases.
PollReady ==
  /\ poller = "wake"
  /\ taskState[pcell] # "InCore"
  /\ LET g == owner[pcell] IN
     IF pc[g] = "asleep" THEN Goto(g, "awake") /\ UNCHANGED thrown
                         ELSE thrown' = TRUE /\ UNCHANGED pc
  /\ poller' = "take"
  /\ UNCHANGED <<cellVars, cellOf, mine, got, ops, pool, slotVars, kernelVars, resp,
                 pcell, misled>>

\* A Send: the cell goes back to the pool, then the slot is released.
PollPut ==
  /\ poller = "put"
  /\ Put(pcell)
  /\ poller' = "del"
  /\ UNCHANGED <<cellVars, goVars, slotVars, kernelVars, resp, pcell, ghostVars>>

PollDel ==
  /\ poller = "del"
  /\ released' = released \cup {resp.idx}
  /\ poller' = "take"
  /\ UNCHANGED <<cellVars, goVars, pool, handed, dispatch, aborted, slots, kernelVars, resp, pcell,
                 ghostVars>>

(***************************************************************************)
(* Specification.  A throw ends the process.                               *)
(***************************************************************************)
Start == \E g \in Goroutines, c \in Cells, k \in Kinds : Arm(g, c, k)

Go(g) ==
  HandOver(g) \/ (\E i \in Idx : AddDirect(g, i)) \/ Park(g) \/ ReadResult(g) \/ PutCell(g)

FallbackLoop == \E c \in handed, i \in Idx : AddHanded(c, i)

Dispatch == Push \/ PushFails \/ AbortDone \/ AbortReady

Poll ==
  \/ PollTake \/ PollWait \/ PollWaited \/ PollInterrupted \/ PollUnknown \/ PollGet
  \/ PollDone \/ PollReady \/ PollPut \/ PollDel

Kernel == \E e \in flight : Answer(e)

Next ==
  /\ ~thrown
  /\ \/ Start
     \/ \E g \in Goroutines : Go(g)
     \/ FallbackLoop
     \/ Dispatch
     \/ Poll
     \/ Kernel

Spec == Init /\ [][Next]_vars

\* Goroutines with an operation, fallbackLoop, the dispatch and the poller run on,
\* and the kernel answers; unless it could not be woken, for then the entry
\* may lie there for good.
FairSpec ==
  /\ Spec
  /\ \A g \in Goroutines : WF_vars(~thrown /\ Go(g))
  /\ WF_vars(~thrown /\ FallbackLoop)
  /\ WF_vars(~thrown /\ Dispatch)
  /\ WF_vars(~thrown /\ Poll)
  /\ WF_vars(~thrown /\ \E e \in flight : e.res \notin aborted /\ Answer(e))

(***************************************************************************)
(* Properties.                                                             *)
(***************************************************************************)
CQE == [idx : Idx, res : Nat]

TypeOK ==
  /\ pc \in [Goroutines -> {"idle", "submit", "dispatch", "park", "asleep", "awake", "put"}]
  /\ cellOf \in [Goroutines -> Cells \cup {None}]
  /\ mine \in [Goroutines -> Nat]
  /\ got \in [Goroutines -> Nat]
  /\ pool \in [Cells -> Nat]
  /\ taskState \in [Cells -> {"InCore", "Done", "Parked"}]
  /\ owner \in [Cells -> Goroutines \cup {None}]
  /\ opCode \in [Cells -> Kinds]
  /\ res \in [Cells -> Nat]
  /\ op \in [Cells -> Nat]
  /\ handed \in SUBSET Cells
  /\ dispatch \in [cell : Cells \cup {None}, idx : Idx, failed : BOOLEAN]
  /\ aborted \in SUBSET (1 .. MaxOps)
  /\ slots \in [Idx -> Cells \cup {None}]
  /\ released \in SUBSET Idx
  /\ flight \in SUBSET CQE
  /\ cq \in Seq(CQE)
  /\ poller \in {"take", "wait", "get", "wake", "put", "del"}
  /\ resp \in CQE
  /\ pcell \in Cells \cup {None}
  /\ ops \in Nat
  /\ misled \in BOOLEAN
  /\ thrown \in BOOLEAN

\* goready is called only for a goroutine that sleeps: "goready: bad g state"
\* is structurally impossible.
GoreadySafe == ~thrown

\* The same, as long as the poller dispatched nothing but the answers that
\* somebody waits for.
GoreadySafeIfAnswered == thrown => misled

\* A method returns the answer the kernel gave to its own operation, not one
\* that another use of the cell, or of its slot, has left there.
ResultIsOwn ==
  ~misled => \A g \in Goroutines :
               pc[g] = "put" \/ (pc[g] = "idle" /\ got[g] # 0)
                 => got[g] = mine[g] \/ mine[g] \in aborted

\* The completions the poller has yet to dispatch.
Unanswered == flight \cup {cq[i] : i \in DOMAIN cq}
                \cup (IF poller = "get" /\ resp # ZeroCQE THEN {resp} ELSE {})

\* As long as an operation is not answered its slot leads to a cell that is
\* armed for it and out of the pool; and no cell is in the pool twice.
CellsNotShared ==
  ~misled => /\ \A e \in Unanswered :
                  e.res \notin aborted => /\ slots[e.idx] # None
                                         /\ op[slots[e.idx]] = e.res
                                         /\ pool[slots[e.idx]] = 0
                                         /\ e.idx \notin released
             /\ \A c \in Cells : pool[c] <= 1

\* Whoever parks returns: the answer, or the abort, finds it asleep or keeps
\* it awake.
NobodySleepsForever ==
  \A g \in Goroutines : pc[g] = "park" ~> (pc[g] = "idle" \/ misled)

\* Nothing is under way any more.
Quiet == /\ \A g \in Goroutines : pc[g] = "idle"
         /\ handed = {} /\ dispatch = NoDispatch /\ Unanswered = {} /\ poller = "take"

\* The slot of an answered operation is released: once nothing is under way
\* every occupied slot waits to be collected.
SlotsReleased == Quiet => \A i \in Idx : slots[i] # None => i \in released
=============================================================================
