---------------------------- MODULE SubmitRing ----------------------------
(***************************************************************************)
(* How a netring operation gets from its goroutine into the io_uring       *)
(* submission queue.                                                       *)
(*                                                                         *)
(* submit() first announces itself in the barrier word (an "active" bit    *)
(* and a 63-bit epoch).  While the bit is clear it races for the ticket:   *)
(* the CAS of ticketTail from SQTail to SQTail+1 makes its winner the only *)
(* goroutine that may use the slot table and write an SQE.  A winner that  *)
(* finds the queue full sets the bit and hands its task to fallbackLoop    *)
(* through a channel; until fallbackLoop has pushed as many tasks as there *)
(* are announced ones and clears the bit, every other submitter does the   *)
(* same.  Nothing but these counters keeps the two ways of pushing apart.  *)
(*                                                                         *)
(* Each element of Tasks is one call of submit() for an opcode that        *)
(* reaches dispatch.  Every atomic access of the code is a step of its     *)
(* own; a load-and-CAS retry loop is the step in which its CAS succeeds.   *)
(* The uint32 queue indices and the 63-bit epoch are naturals: they are    *)
(* only compared for equality and subtracted, and no two of them that are  *)
(* ever compared are 2^31 apart (see the README).                          *)
(***************************************************************************)
EXTENDS Integers, Sequences, FiniteSets

CONSTANTS
  Tasks,        \* the calls of submit()
  AsyncTasks,   \* those among them whose opcode is in isAsyncOp (Send)
  SQEntries,    \* size of the submission queue
  ChanBuffer,   \* capacity of fallbackChan (WithTasksBufferSize)
  MayStop,      \* whether Stop() may be called
  None          \* no task

ASSUME TasksAssumption == IsFiniteSet(Tasks) /\ AsyncTasks \subseteq Tasks
ASSUME SQEntriesAssumption == SQEntries \in Nat \ {0}
ASSUME ChanBufferAssumption == ChanBuffer \in Nat \ {0}
ASSUME MayStopAssumption == MayStop \in BOOLEAN
ASSUME NoneAssumption == None \notin Tasks

VARIABLES
  pc,             \* where each call of submit() is
  tail,           \* its local copy of ticketTail, then of SQTail
  barrier,        \* NetRing.barrier, decoded: [active, epoch]
  finishedPushes, \* NetRing.finishedPushes
  ticketTail,     \* NetRing.ticketTail
  fallbackChan,   \* NetRing.fallbackChan
  stop,           \* whether NetRing.stop is closed
  slots,          \* the tasks whose cell is in the slot table
  SQ,             \* the submission queue entries
  SQTail,         \* index the next entry goes to, written by Push
  SQHead,         \* index of the next entry the kernel takes
  taken,          \* the entries the kernel took, in order
  loop,           \* where fallbackLoop is
  task,           \* its task
  oldBarrier,     \* its copy of the barrier
  M,              \* how many pushes it still has to make
  pushTail        \* the copy of SQTail inside its call of Push

submitVars == <<pc, tail>>
syncVars   == <<barrier, finishedPushes, ticketTail, fallbackChan, stop>>
queueVars  == <<slots, SQ, SQTail, SQHead, taken>>
loopVars   == <<loop, task, oldBarrier, M, pushTail>>
vars       == <<submitVars, syncVars, queueVars, loopVars>>

\* Inside dispatch: Add of the slot table, then the two writes of Push.
DispatchPC == {"add", "write", "publish"}

\* A call of submit() between winning the ticket and giving it up.
TicketPC == {"full", "setActive"} \cup DispatchPC

SubmitPC == {"idle", "loadTicket", "loadTail", "cas", "restat", "chan",
             "queued", "held", "count", "pushed", "refused", "dropped", "woken"}
            \cup TicketPC

LoopPC == {"recv", "snapshot", "countM", "space", "ticket", "next", "dec",
           "store", "exit", "again", "lower", "drain"} \cup DispatchPC

(***************************************************************************)
(* Initial state: NetRing after New, with an empty io_uring.               *)
(***************************************************************************)
Init ==
  /\ pc = [t \in Tasks |-> "idle"]
  /\ tail = [t \in Tasks |-> 0]
  /\ barrier = [active |-> FALSE, epoch |-> 0]
  /\ finishedPushes = 0
  /\ ticketTail = 0
  /\ fallbackChan = << >>
  /\ stop = FALSE
  /\ slots = {}
  /\ SQ = [i \in 0 .. SQEntries - 1 |-> None]
  /\ SQTail = 0
  /\ SQHead = 0
  /\ taken = << >>
  /\ loop = "recv"
  /\ task = None
  /\ oldBarrier = [active |-> FALSE, epoch |-> 0]
  /\ M = 0
  /\ pushTail = 0

Goto(t, where) == pc' = [pc EXCEPT ![t] = where]

(***************************************************************************)
(* submit: the direct way into the queue.                                  *)
(***************************************************************************)

\* The CAS of submitIntention: one more epoch, the bit as it is.
SubmitIntention(t) ==
  /\ pc[t] = "idle"
  /\ barrier' = [active |-> barrier.active, epoch |-> barrier.epoch + 1]
  /\ Goto(t, IF barrier.active THEN "chan" ELSE "loadTicket")
  /\ UNCHANGED <<tail, finishedPushes, ticketTail, fallbackChan, stop,
                 queueVars, loopVars>>

LoadTicket(t) ==
  /\ pc[t] = "loadTicket"
  /\ tail' = [tail EXCEPT ![t] = ticketTail]
  /\ Goto(t, "loadTail")
  /\ UNCHANGED <<syncVars, queueVars, loopVars>>

LoadTail(t) ==
  /\ pc[t] = "loadTail"
  /\ Goto(t, IF tail[t] = SQTail THEN "cas" ELSE "restat")
  /\ UNCHANGED <<tail, syncVars, queueVars, loopVars>>

\* Mutant of TakeTicket: a store where the code has a CAS.
TakeTicketByStore(t) ==
  /\ pc[t] = "cas"
  /\ ticketTail' = tail[t] + 1
  /\ Goto(t, "full")
  /\ UNCHANGED <<tail, barrier, finishedPushes, fallbackChan, stop, queueVars, loopVars>>

\* The CAS of ticketTail, won or lost.
TakeTicket(t) ==
  /\ pc[t] = "cas"
  /\ ticketTail = tail[t]
  /\ ticketTail' = ticketTail + 1
  /\ Goto(t, "full")
  /\ UNCHANGED <<tail, barrier, finishedPushes, fallbackChan, stop, queueVars, loopVars>>

LoseTicket(t) ==
  /\ pc[t] = "cas"
  /\ ticketTail # tail[t]
  /\ Goto(t, "restat")
  /\ UNCHANGED <<tail, syncVars, queueVars, loopVars>>

\* A loser re-reads the status and starts again.
RecheckStatus(t) ==
  /\ pc[t] = "restat"
  /\ Goto(t, IF barrier.active THEN "chan" ELSE "loadTicket")
  /\ UNCHANGED <<tail, syncVars, queueVars, loopVars>>

\* Mutant of CheckFull: off by one.
CheckFullLate(t) ==
  /\ pc[t] = "full"
  /\ Goto(t, IF tail[t] - SQHead > SQEntries THEN "setActive" ELSE "add")
  /\ UNCHANGED <<tail, syncVars, queueVars, loopVars>>

CheckFull(t) ==
  /\ pc[t] = "full"
  /\ Goto(t, IF tail[t] - SQHead = SQEntries THEN "setActive" ELSE "add")
  /\ UNCHANGED <<tail, syncVars, queueVars, loopVars>>

SetFallbackActive(t) ==
  /\ pc[t] = "setActive"
  /\ barrier' = [active |-> TRUE, epoch |-> barrier.epoch]
  /\ Goto(t, "chan")
  /\ UNCHANGED <<tail, finishedPushes, ticketTail, fallbackChan, stop, queueVars, loopVars>>

\* The two cases of the select on fallbackChan and stop.
SendToFallback(t) ==
  /\ pc[t] = "chan"
  /\ Len(fallbackChan) < ChanBuffer
  /\ fallbackChan' = Append(fallbackChan, t)
  /\ Goto(t, "queued")
  /\ UNCHANGED <<tail, barrier, finishedPushes, ticketTail, stop, queueVars, loopVars>>

RefuseOnStop(t) ==
  /\ pc[t] = "chan"
  /\ stop
  /\ Goto(t, "refused")
  /\ UNCHANGED <<tail, syncVars, queueVars, loopVars>>

\* dispatch: slots.Add, then Push, which reads the tail, fills the entry and
\* only then publishes the new tail.
SubmitAdd(t) ==
  /\ pc[t] = "add"
  /\ slots' = slots \cup {t}
  /\ Goto(t, "write")
  /\ UNCHANGED <<tail, syncVars, SQ, SQTail, SQHead, taken, loopVars>>

SubmitWrite(t) ==
  /\ pc[t] = "write"
  /\ tail' = [tail EXCEPT ![t] = SQTail]
  /\ SQ' = [SQ EXCEPT ![SQTail % SQEntries] = t]
  /\ Goto(t, "publish")
  /\ UNCHANGED <<syncVars, slots, SQTail, SQHead, taken, loopVars>>

SubmitPublish(t) ==
  /\ pc[t] = "publish"
  /\ SQTail' = tail[t] + 1
  /\ Goto(t, "count")
  /\ UNCHANGED <<tail, syncVars, slots, SQ, SQHead, taken, loopVars>>

\* Mutant of CountPush: the counter goes down.
CountPushDown(t) ==
  /\ pc[t] = "count"
  /\ finishedPushes' = finishedPushes - 1
  /\ Goto(t, "pushed")
  /\ UNCHANGED <<tail, barrier, ticketTail, fallbackChan, stop, queueVars, loopVars>>

CountPush(t) ==
  /\ pc[t] = "count"
  /\ finishedPushes' = finishedPushes + 1
  /\ Goto(t, "pushed")
  /\ UNCHANGED <<tail, barrier, ticketTail, fallbackChan, stop, queueVars, loopVars>>

(***************************************************************************)
(* fallbackLoop.                                                           *)
(***************************************************************************)
LoopGoto(from, to) == loop = from /\ loop' = to

\* A receive from fallbackChan: of the outer select, of the one inside the
\* push loop, and of the one after a failed exit.
LoopReceive ==
  /\ \/ LoopGoto("recv", "snapshot")
     \/ LoopGoto("next", "space")
     \/ LoopGoto("again", "snapshot")
  /\ fallbackChan # << >>
  /\ task' = Head(fallbackChan)
  /\ fallbackChan' = Tail(fallbackChan)
  /\ Goto(Head(fallbackChan), "held")
  /\ UNCHANGED <<tail, barrier, finishedPushes, ticketTail, stop, queueVars,
                 oldBarrier, M, pushTail>>

LoopSnapshot ==
  /\ LoopGoto("snapshot", "countM")
  /\ oldBarrier' = barrier
  /\ UNCHANGED <<submitVars, syncVars, queueVars, task, M, pushTail>>

LoopCountM ==
  /\ LoopGoto("countM", "space")
  /\ M' = oldBarrier.epoch - finishedPushes
  /\ UNCHANGED <<submitVars, syncVars, queueVars, task, oldBarrier, pushTail>>

\* Mutant of LoopSpace: off by one.
LoopSpaceEarly ==
  /\ LoopGoto("space", "ticket")
  /\ SQTail - SQHead <= SQEntries
  /\ UNCHANGED <<submitVars, syncVars, queueVars, task, oldBarrier, M, pushTail>>

LoopSpace ==
  /\ LoopGoto("space", "ticket")
  /\ SQTail - SQHead < SQEntries
  /\ UNCHANGED <<submitVars, syncVars, queueVars, task, oldBarrier, M, pushTail>>

LoopTicket ==
  /\ LoopGoto("ticket", "add")
  /\ ticketTail' = ticketTail + 1
  /\ UNCHANGED <<submitVars, barrier, finishedPushes, fallbackChan, stop, queueVars,
                 task, oldBarrier, M, pushTail>>

LoopAdd ==
  /\ LoopGoto("add", "write")
  /\ slots' = slots \cup {task}
  /\ UNCHANGED <<submitVars, syncVars, SQ, SQTail, SQHead, taken,
                 task, oldBarrier, M, pushTail>>

LoopWrite ==
  /\ LoopGoto("write", "publish")
  /\ pushTail' = SQTail
  /\ SQ' = [SQ EXCEPT ![SQTail % SQEntries] = task]
  /\ UNCHANGED <<submitVars, syncVars, slots, SQTail, SQHead, taken,
                 task, oldBarrier, M>>

LoopPublish ==
  /\ LoopGoto("publish", "dec")
  /\ SQTail' = pushTail + 1
  /\ Goto(task, "pushed")
  /\ UNCHANGED <<tail, syncVars, slots, SQ, SQHead, taken,
                 task, oldBarrier, M, pushTail>>

\* Mutant of LoopDecrement: tested before it is decremented.
LoopDecrementLate ==
  /\ LoopGoto("dec", IF M = 0 THEN "store" ELSE "next")
  /\ M' = M - 1
  /\ UNCHANGED <<submitVars, syncVars, queueVars, task, oldBarrier, pushTail>>

LoopDecrement ==
  /\ LoopGoto("dec", IF M - 1 = 0 THEN "store" ELSE "next")
  /\ M' = M - 1
  /\ UNCHANGED <<submitVars, syncVars, queueVars, task, oldBarrier, pushTail>>

\* Mutant of LoopStore: the barrier is read again after the pushes.
LoopStoreReread ==
  /\ LoopGoto("store", "exit")
  /\ finishedPushes' = barrier.epoch
  /\ UNCHANGED <<submitVars, barrier, ticketTail, fallbackChan, stop, queueVars,
                 task, oldBarrier, M, pushTail>>

LoopStore ==
  /\ LoopGoto("store", "exit")
  /\ finishedPushes' = oldBarrier.epoch
  /\ UNCHANGED <<submitVars, barrier, ticketTail, fallbackChan, stop, queueVars,
                 task, oldBarrier, M, pushTail>>

\* The CAS that clears the active bit; it fails if a task was announced
\* since the snapshot.
LoopStay ==
  /\ LoopGoto("exit", "again")
  /\ barrier # oldBarrier
  /\ UNCHANGED <<submitVars, syncVars, queueVars, task, oldBarrier, M, pushTail>>

\* Mutant of LoopExit: a store where the code has a CAS.
LoopExitByStore ==
  /\ LoopGoto("exit", "lower")
  /\ barrier' = [active |-> FALSE, epoch |-> oldBarrier.epoch]
  /\ UNCHANGED <<submitVars, finishedPushes, ticketTail, fallbackChan, stop, queueVars,
                 task, oldBarrier, M, pushTail>>

LoopExit ==
  /\ LoopGoto("exit", "lower")
  /\ barrier = oldBarrier
  /\ barrier' = [active |-> FALSE, epoch |-> oldBarrier.epoch]
  /\ UNCHANGED <<submitVars, finishedPushes, ticketTail, fallbackChan, stop, queueVars,
                 task, oldBarrier, M, pushTail>>


LoopLower ==
  /\ LoopGoto("lower", "recv")
  /\ ticketTail' = SQTail
  /\ UNCHANGED <<submitVars, barrier, finishedPushes, fallbackChan, stop, queueVars,
                 task, oldBarrier, M, pushTail>>

\* The stop case of the three selects.
LoopStopped ==
  /\ \E from \in {"recv", "next", "again"} : LoopGoto(from, "drain")
  /\ stop
  /\ UNCHANGED <<submitVars, syncVars, queueVars, task, oldBarrier, M, pushTail>>

\* drainFallback: an asynchronous task's cell is marked Done and the task
\* counted, any other task is thrown away.  It never returns.
DrainAsync ==
  /\ loop = "drain"
  /\ fallbackChan # << >>
  /\ Head(fallbackChan) \in AsyncTasks
  /\ fallbackChan' = Tail(fallbackChan)
  /\ Goto(Head(fallbackChan), "woken")
  /\ finishedPushes' = finishedPushes + 1
  /\ UNCHANGED <<tail, barrier, ticketTail, stop, queueVars, loopVars>>

DrainOther ==
  /\ loop = "drain"
  /\ fallbackChan # << >>
  /\ Head(fallbackChan) \notin AsyncTasks
  /\ fallbackChan' = Tail(fallbackChan)
  /\ Goto(Head(fallbackChan), "dropped")
  /\ UNCHANGED <<tail, barrier, finishedPushes, ticketTail, stop, queueVars, loopVars>>

(***************************************************************************)
(* The environment.                                                        *)
(***************************************************************************)

\* Stop() closes the stop channel and returns.
Stop ==
  /\ MayStop
  /\ ~stop
  /\ stop' = TRUE
  /\ UNCHANGED <<submitVars, barrier, finishedPushes, ticketTail, fallbackChan,
                 queueVars, loopVars>>

\* The kernel's SQPOLL thread takes the entry at the head (external).
KernelTake ==
  /\ SQHead < SQTail
  /\ SQHead' = SQHead + 1
  /\ taken' = Append(taken, SQ[SQHead % SQEntries])
  /\ UNCHANGED <<submitVars, syncVars, slots, SQ, SQTail, loopVars>>

(***************************************************************************)
(* Specification.                                                          *)
(***************************************************************************)
Submit(t) ==
  \/ SubmitIntention(t) \/ LoadTicket(t) \/ LoadTail(t)
  \/ TakeTicket(t) \/ LoseTicket(t)
  \/ RecheckStatus(t) \/ CheckFull(t) \/ SetFallbackActive(t)
  \/ SendToFallback(t) \/ RefuseOnStop(t)
  \/ SubmitAdd(t) \/ SubmitWrite(t) \/ SubmitPublish(t) \/ CountPush(t)

FallbackLoop ==
  \/ LoopReceive \/ LoopSnapshot \/ LoopCountM \/ LoopSpace \/ LoopTicket
  \/ LoopAdd \/ LoopWrite \/ LoopPublish \/ LoopDecrement \/ LoopStore
  \/ LoopStay \/ LoopExit \/ LoopLower \/ LoopStopped
  \/ DrainAsync \/ DrainOther

Next ==
  \/ \E t \in Tasks : Submit(t)
  \/ FallbackLoop
  \/ KernelTake
  \/ Stop

Spec == Init /\ [][Next]_vars

\* Goroutines and the translator's thread are scheduled; the kernel drains
\* the queue.  A call that was never made, and Stop, need not happen.
Fairness ==
  /\ \A t \in Tasks : WF_vars(pc[t] # "idle" /\ Submit(t))
  /\ WF_vars(FallbackLoop)
  /\ WF_vars(KernelTake)

FairSpec == Spec /\ Fairness

(***************************************************************************)
(* Properties.                                                             *)
(***************************************************************************)
BarrierType == [active : BOOLEAN, epoch : Nat]

\* Type correctness of the state of submit and fallbackLoop.
TypeOK ==
  /\ pc \in [Tasks -> SubmitPC]
  /\ tail \in [Tasks -> Nat]
  /\ barrier \in BarrierType
  /\ finishedPushes \in Nat
  /\ ticketTail \in Nat
  /\ fallbackChan \in Seq(Tasks)
  /\ stop \in BOOLEAN
  /\ slots \in SUBSET Tasks
  /\ SQ \in [0 .. SQEntries - 1 -> Tasks \cup {None}]
  /\ SQTail \in Nat
  /\ SQHead \in Nat
  /\ taken \in Seq(Tasks \cup {None})
  /\ loop \in LoopPC
  /\ task \in Tasks \cup {None}
  /\ oldBarrier \in BarrierType
  /\ M \in Int
  /\ pushTail \in Nat

\* Calls of submit() that announced themselves, and those of them whose
\* entry is in the queue.
Started == {t \in Tasks : pc[t] # "idle"}
Pushed  == {t \in Tasks : pc[t] \in {"count", "pushed"}}

\* Pushed by their own goroutine but not yet added to finishedPushes.
Uncounted == {t \in Tasks : pc[t] = "count"}

\* Holders of the direct ticket, and whoever is inside dispatch.
TicketHolders == {t \in Tasks : pc[t] \in TicketPC}
Dispatching   == {t \in Tasks : pc[t] \in DispatchPC}

\* Between the first receive and the exit fallbackLoop owns the queue.
LoopBusy == loop \notin {"recv", "lower", "drain"}

\* The slot table and the SQ tail have one user at a time: no two goroutines
\* are inside dispatch together, and none while fallbackLoop is ("taskslots
\* is not thread-safe by design").
DispatchExclusive ==
  /\ \A t, u \in Dispatching : t = u
  /\ loop \in DispatchPC => Dispatching = {}

\* No push goes past the head: an entry is overwritten only after the kernel
\* took it.
QueueNeverOverflows == SQTail - SQHead <= SQEntries

\* finishedPushes lags behind the entries in the queue, the pushes still to
\* be counted included.  Were it ahead, fallbackLoop would leave too early.
FinishedNeverAhead ==
  loop # "drain" => finishedPushes + Cardinality(Uncounted) <= SQTail

\* M, an unsigned counter decremented before it is tested for zero, is
\* positive whenever fallbackLoop is about to push.
LoopCountPositive ==
  loop \in {"space", "ticket", "next", "dec"} \cup DispatchPC => M > 0

\* The active bit is cleared only when every announced task is in the queue:
\* none waits in the channel and none is on its way to it.
ExitOnlyWhenDrained ==
  [][barrier.active /\ ~barrier'.active
       => fallbackChan = << >> /\ Started = Pushed]_vars


(***************************************************************************)
(* The inductive invariant behind the safety properties.                   *)
(***************************************************************************)

\* The two counters the protocol compares count what they are meant to.
CountInv ==
  /\ barrier.epoch = Cardinality(Started)
  /\ SQTail = Cardinality(Pushed)

\* Winning the CAS means holding the only ticket.
TicketInv ==
  /\ SQTail <= ticketTail
  /\ \A t \in Tasks : pc[t] = "cas" => tail[t] <= SQTail
  /\ \A t, u \in TicketHolders : t = u
  /\ \A t \in TicketHolders :
       /\ ticketTail = SQTail + 1
       /\ tail[t] = SQTail
       /\ ~barrier.active
       /\ loop \in {"recv", "drain"}

\* While anybody uses the fallback the bit is set, and while it is set the
\* ticket is out of everybody's reach.
ModeInv ==
  /\ \A t \in Tasks : pc[t] \in {"chan", "queued", "held"} => barrier.active
  /\ LoopBusy => barrier.active
  /\ barrier.active => SQTail < ticketTail
  /\ loop \in DispatchPC => SQTail + 1 < ticketTail
  /\ loop = "lower" => SQTail < ticketTail /\ ~barrier.active

\* The task fallbackLoop received is its own, and the channel has each of
\* its tasks once.
HandInv ==
  /\ loop \in {"snapshot", "countM", "space", "ticket"} \cup DispatchPC
       => task \in Tasks /\ pc[task] = "held"
  /\ \A i \in DOMAIN fallbackChan : pc[fallbackChan[i]] = "queued"
  /\ \A i, j \in DOMAIN fallbackChan : fallbackChan[i] = fallbackChan[j] => i = j

\* There is room for an entry whenever one is about to be written.
RoomInv ==
  /\ SQHead <= SQTail
  /\ QueueNeverOverflows
  /\ \A t \in Dispatching : SQTail - SQHead < SQEntries
  /\ loop \in {"ticket"} \cup DispatchPC => SQTail - SQHead < SQEntries
  /\ loop = "publish" => pushTail = SQTail

\* After the M pushes the snapshot asked for, the queue has at least as many
\* entries as tasks had been announced by then.
LoopInv ==
  LET U == Cardinality(Uncounted) IN
  /\ FinishedNeverAhead
  /\ LoopBusy /\ loop \notin {"snapshot", "again"} => oldBarrier.active
  /\ loop = "countM" => SQTail < oldBarrier.epoch
  /\ LoopCountPositive
  /\ loop \in {"space", "ticket", "next"} \cup DispatchPC
       => oldBarrier.epoch + U <= SQTail + M
  /\ loop = "dec" => oldBarrier.epoch + U < SQTail + M
  /\ loop \in {"store", "exit"} => oldBarrier.epoch + U <= SQTail

IInv ==
  TypeOK /\ CountInv /\ TicketInv /\ ModeInv /\ HandInv /\ RoomInv /\ LoopInv
=============================================================================
