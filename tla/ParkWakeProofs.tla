--------------------------- MODULE ParkWakeProofs ---------------------------
(***************************************************************************)
(* The handshake of a goroutine with the poller is safe for any number of  *)
(* goroutines, cells, slots and operations, as long as the poller          *)
(* dispatches only the answers somebody waits for.                         *)
(***************************************************************************)
EXTENDS ParkWake, TLAPS

USE NoneAssumption, IdxAssumption, MaxOpsAssumption, MaxAbortsAssumption, PollerWaitsAssumption

(***************************************************************************)
(* The inductive invariant.  What holds whatever was dispatched: operations *)
(* have numbers of their own, and who needs a cell has one.                *)
(***************************************************************************)
NumbersInv ==
  /\ ops <= MaxOps
  /\ aborted \subseteq 1 .. ops
  /\ \A c \in Cells : op[c] <= ops
  /\ \A c, d \in Cells : op[c] = op[d] /\ op[c] # 0 => c = d
  /\ \A e \in Unanswered : e.res \in 1 .. ops

HasCellInv ==
  /\ \A g \in Goroutines : pc[g] # "idle" => cellOf[g] \in Cells /\ op[cellOf[g]] # 0
  /\ \A c \in handed : op[c] # 0
  /\ dispatch.cell = None => dispatch = NoDispatch
  /\ dispatch.cell # None => op[dispatch.cell] # 0
  /\ \A g \in Goroutines : pc[g] = "dispatch" => dispatch.cell = cellOf[g]
  /\ poller \in {"wake", "put"} => pcell \in Cells
  /\ poller = "wait" => resp = ZeroCQE

(***************************************************************************)
(* What holds until the poller is misled.                                  *)
(***************************************************************************)

\* The poller has its hands on the cell.
Polled(c) == poller \in {"wake", "put"} /\ pcell = c

\* The kernel has not, and never had, the operation of the cell.
Fresh(c) == op[c] \notin aborted /\ \A e \in Unanswered : e.res # op[c]

\* The owner is about to sleep on the cell, or sleeps.
Waiting(c) ==
  /\ owner[c] \in Goroutines
  /\ cellOf[owner[c]] = c
  /\ \/ pc[owner[c]] = "park" /\ taskState[c] = "InCore"
     \/ pc[owner[c]] = "asleep" /\ taskState[c] = "Parked"

\* The owner is still inside the dispatch.
Dispatching(c) ==
  /\ owner[c] \in Goroutines
  /\ cellOf[owner[c]] = c
  /\ pc[owner[c]] = "dispatch"
  /\ taskState[c] = "InCore"

\* Nobody but the owner will touch the cell, which holds the answer.
Settled(c) ==
  /\ c \notin handed
  /\ dispatch.cell # c
  /\ ~Polled(c)
  /\ \/ res[c] = op[c] /\ \A e \in Unanswered : e.res # op[c]
     \/ op[c] \in aborted

OwnerInv ==
  \A g \in Goroutines :
    pc[g] # "idle" =>
      /\ owner[cellOf[g]] = g
      /\ op[cellOf[g]] = mine[g]
      /\ pool[cellOf[g]] = 0
      /\ pc[g] \notin {"submit", "dispatch"} => opCode[cellOf[g]] = "park"

SubmitInv ==
  \A g \in Goroutines :
    pc[g] = "submit" =>
      /\ Fresh(cellOf[g])
      /\ cellOf[g] \notin handed
      /\ dispatch.cell # cellOf[g]
      /\ ~Polled(cellOf[g])
      /\ taskState[cellOf[g]] = "InCore"

HandedInv ==
  \A c \in handed :
    /\ pool[c] = 0
    /\ Fresh(c)
    /\ dispatch.cell # c
    /\ ~Polled(c)
    /\ opCode[c] = "park" => Waiting(c)

DispatchInv ==
  dispatch.cell # None =>
    /\ pool[dispatch.cell] = 0
    /\ ~Polled(dispatch.cell)
    /\ opCode[dispatch.cell] = "park" => Waiting(dispatch.cell) \/ Dispatching(dispatch.cell)
    /\ dispatch.failed => opCode[dispatch.cell] = "park" /\ op[dispatch.cell] \in aborted
    /\ ~dispatch.failed => /\ Fresh(dispatch.cell)
                           /\ slots[dispatch.idx] = dispatch.cell
                           /\ dispatch.idx \notin released

KernelInv ==
  \A e \in Unanswered :
    e.res \notin aborted =>
      /\ slots[e.idx] # None
      /\ op[slots[e.idx]] = e.res
      /\ pool[slots[e.idx]] = 0
      /\ e.idx \notin released
      /\ opCode[slots[e.idx]] = "park" => Waiting(slots[e.idx])

PolledInv ==
  /\ poller \in {"wake", "put"} => pool[pcell] = 0 /\ Fresh(pcell)
  /\ poller = "wake" => opCode[pcell] = "park" /\ Waiting(pcell) /\ res[pcell] = op[pcell]
  /\ poller = "put" => opCode[pcell] = "send"

DelInv ==
  /\ \A i \in released : slots[i] # None
  /\ poller \in {"put", "del"} =>
       /\ slots[resp.idx] # None
       /\ resp.idx \notin released
       /\ \A e \in Unanswered : e.res \notin aborted => e.idx # resp.idx
       /\ dispatch.cell # None /\ ~dispatch.failed => dispatch.idx # resp.idx

SettledInv ==
  \A g \in Goroutines :
    pc[g] \in {"awake", "put"} \/ (pc[g] = "park" /\ taskState[cellOf[g]] # "InCore")
      => Settled(cellOf[g])

ResultInv ==
  \A g \in Goroutines :
    /\ pc[g] \in {"submit", "dispatch"} => got[g] = 0
    /\ pc[g] = "put" \/ (pc[g] = "idle" /\ got[g] # 0) => got[g] = mine[g] \/ mine[g] \in aborted

\* Each operation has one entry with the kernel or one completion, not both.
OnceInv ==
  /\ \A e, f \in flight : e.res = f.res => e = f
  /\ \A i, j \in DOMAIN cq : cq[i].res = cq[j].res => i = j
  /\ \A e \in flight, i \in DOMAIN cq : e.res # cq[i].res
  /\ poller = "get" => /\ \A e \in flight : e.res # resp.res
                       /\ \A i \in DOMAIN cq : cq[i].res # resp.res

\* No cell is in the pool twice.
PoolInv == \A c \in Cells : pool[c] <= 1

CellsInv ==
  /\ OwnerInv /\ SubmitInv /\ HandedInv /\ DispatchInv /\ KernelInv /\ PolledInv
  /\ DelInv /\ SettledInv /\ ResultInv /\ OnceInv /\ PoolInv

IInv ==
  /\ TypeOK
  /\ NumbersInv
  /\ HasCellInv
  /\ ~misled => CellsInv /\ ~thrown

(***************************************************************************)
(* The initial state.                                                      *)
(***************************************************************************)

\* Nothing is armed and nothing is under way.
LEMMA InitIInv == Init => IInv
<1> SUFFICES ASSUME Init PROVE IInv
  OBVIOUS
<1>1. Unanswered = {}
  BY DEF Init, Unanswered
<1>2. TypeOK
  <2>1. dispatch \in [cell : Cells \cup {None}, idx : Idx, failed : BOOLEAN]
    BY DEF Init, NoDispatch
  <2>2. resp \in CQE /\ cq \in Seq(CQE)
    BY DEF Init, ZeroCQE, CQE
  <2> QED
    BY <2>1, <2>2 DEF Init, TypeOK, Kinds
<1>3. NumbersInv /\ HasCellInv
  BY <1>1 DEF Init, NumbersInv, HasCellInv, NoDispatch
<1>4. OwnerInv /\ SubmitInv /\ SettledInv /\ ResultInv
  BY DEF Init, OwnerInv, SubmitInv, SettledInv, ResultInv
<1>5. HandedInv /\ DispatchInv /\ KernelInv /\ PolledInv /\ DelInv
  BY <1>1 DEF Init, HandedInv, DispatchInv, KernelInv, PolledInv, DelInv, NoDispatch
<1>6. OnceInv /\ PoolInv
  BY DEF Init, OnceInv, PoolInv
<1> QED
  BY <1>2, <1>3, <1>4, <1>5, <1>6 DEF IInv, CellsInv, Init

(***************************************************************************)
(* What a step does to the answers the poller has yet to dispatch.         *)
(***************************************************************************)

\* A push adds the entry of the operation that is dispatched.
LEMMA UnansweredPush ==
  ASSUME Push \/ PushFails
  PROVE  Unanswered' = Unanswered \cup {[idx |-> dispatch.idx, res |-> op[dispatch.cell]]}
BY DEF Push, PushFails, Publish, Unanswered, pollVars, kernelVars

\* The kernel moves an entry from one queue to the other.
LEMMA UnansweredAnswer ==
  ASSUME TypeOK, NEW e \in flight, Answer(e)
  PROVE  Unanswered' = Unanswered
<1>1. cq \in Seq(CQE) /\ e \in CQE
  BY DEF TypeOK
<1>2. cq' = Append(cq, e) /\ flight' = flight \ {e} /\ UNCHANGED <<poller, resp>>
  BY DEF Answer, pollVars
<1>3. {cq'[i] : i \in DOMAIN cq'} = {cq[i] : i \in DOMAIN cq} \cup {e}
  <2>1. DOMAIN cq = 1 .. Len(cq) /\ Len(cq) \in Nat
    BY <1>1
  <2>2. DOMAIN cq' = 1 .. Len(cq) + 1 /\ cq'[Len(cq) + 1] = e
    BY <1>1, <1>2
  <2>3. \A i \in 1 .. Len(cq) : cq'[i] = cq[i]
    BY <1>1, <1>2
  <2>4. 1 .. Len(cq) + 1 = (1 .. Len(cq)) \cup {Len(cq) + 1}
    BY <2>1
  <2> QED
    BY <2>1, <2>2, <2>3, <2>4
<1> QED
  BY <1>2, <1>3 DEF Unanswered

\* The poller takes a completion out of the queue, and has it in hand.
LEMMA UnansweredTake ==
  ASSUME TypeOK, NumbersInv, PollTake
  PROVE  Unanswered' = Unanswered /\ resp' # ZeroCQE
<1>1. cq \in Seq(CQE) /\ cq # << >> /\ resp' = Head(cq) /\ cq' = Tail(cq)
  BY DEF TypeOK, PollTake
<1>2. {cq[i] : i \in DOMAIN cq} = {cq'[i] : i \in DOMAIN cq'} \cup {resp'}
  <2>1. DOMAIN cq = 1 .. Len(cq) /\ Len(cq) \in Nat \ {0} /\ resp' = cq[1]
    BY <1>1
  <2>2. DOMAIN cq' = 1 .. Len(cq) - 1 /\ \A i \in DOMAIN cq' : cq'[i] = cq[i + 1]
    BY <1>1
  <2>3. \A i \in DOMAIN cq : i = 1 \/ i - 1 \in DOMAIN cq'
    BY <2>1, <2>2
  <2>4. \A i \in DOMAIN cq : cq[i] = resp' \/ cq[i] \in {cq'[j] : j \in DOMAIN cq'}
    BY <2>1, <2>2, <2>3
  <2>5. \A j \in DOMAIN cq' : cq'[j] \in {cq[i] : i \in DOMAIN cq}
    BY <2>1, <2>2
  <2>6. 1 \in DOMAIN cq
    BY <2>1
  <2> QED
    BY <2>1, <2>4, <2>5, <2>6
<1>3. resp' \in Unanswered
  BY <1>2 DEF Unanswered
<1>4. resp'.res # 0
  BY <1>3 DEF NumbersInv
<1>5. resp' # ZeroCQE
  BY <1>4 DEF ZeroCQE
<1>6. poller = "take" /\ poller' = "get" /\ flight' = flight
  BY DEF PollTake
<1> QED
  BY <1>2, <1>5, <1>6 DEF Unanswered

\* The other steps of the poller, and whoever leaves the queues and the
\* completion in hand alone, add none.
LEMMA UnansweredLess ==
  ASSUME UNCHANGED <<flight, cq, resp>>, poller' # "get" \/ poller = "get" \/ resp = ZeroCQE
  PROVE  Unanswered' \subseteq Unanswered
BY DEF Unanswered

(***************************************************************************)
(* Steps, whatever the poller dispatches.                                  *)
(***************************************************************************)

\* The dispatch under way has a cell.
LEMMA DispatchCell ==
  ASSUME TypeOK, HasCellInv, dispatch # NoDispatch
  PROVE  dispatch.cell \in Cells /\ dispatch.idx \in Idx /\ dispatch.cell # None
BY DEF TypeOK, HasCellInv

\* A step keeps the state well typed.
LEMMA TypeStep == TypeOK /\ NumbersInv /\ HasCellInv /\ [Next]_vars => TypeOK'
<1> SUFFICES ASSUME TypeOK, NumbersInv, HasCellInv, [Next]_vars PROVE TypeOK'
  OBVIOUS
<1> USE DEF cellVars, goVars, slotVars, kernelVars, pollVars, ghostVars, Goto, Put
<1>1. ASSUME NEW g \in Goroutines, NEW c \in Cells, NEW k \in Kinds, Arm(g, c, k) PROVE TypeOK'
  <2>1. pool' \in [Cells -> Nat]
    <3>1. pool[c] - 1 \in Nat /\ pool' = [pool EXCEPT ![c] = pool[c] - 1] /\ pool \in [Cells -> Nat]
      BY <1>1 DEF TypeOK, Arm
    <3> QED
      BY <3>1
  <2>2. ops + 1 \in Nat
    BY DEF TypeOK
  <2> QED
    BY <1>1, <2>1, <2>2 DEF TypeOK, Arm
<1>2. ASSUME NEW g \in Goroutines, HandOver(g) PROVE TypeOK'
  BY <1>2 DEF TypeOK, HandOver, AfterSubmit, HasCellInv
<1>3. ASSUME NEW g \in Goroutines, NEW i \in Idx, AddDirect(g, i) PROVE TypeOK'
  <2>1. cellOf[g] \in Cells
    BY <1>3 DEF AddDirect, HasCellInv
  <2> QED
    BY <1>3, <2>1 DEF TypeOK, AddDirect, AddSlot
<1>4. ASSUME NEW g \in Goroutines, Park(g) PROVE TypeOK'
  BY <1>4 DEF TypeOK, Park
<1>5. ASSUME NEW g \in Goroutines, ReadResult(g) PROVE TypeOK'
  BY <1>5 DEF TypeOK, ReadResult, HasCellInv
<1>6. ASSUME NEW g \in Goroutines, PutCell(g) PROVE TypeOK'
  <2>1. cellOf[g] \in Cells /\ pool[cellOf[g]] + 1 \in Nat
    BY <1>6 DEF TypeOK, PutCell, HasCellInv
  <2>2. /\ pool' = [pool EXCEPT ![cellOf[g]] = pool[cellOf[g]] + 1]
        /\ pc' = [pc EXCEPT ![g] = "idle"]
        /\ UNCHANGED <<cellVars, cellOf, mine, got, ops, slotVars, kernelVars, pollVars, ghostVars>>
    BY <1>6, <2>1 DEF PutCell
  <2> QED
    BY <2>1, <2>2 DEF TypeOK
<1>7. ASSUME NEW c \in handed, NEW i \in Idx, AddHanded(c, i) PROVE TypeOK'
  BY <1>7 DEF TypeOK, AddHanded, AddSlot
<1>8. dispatch # NoDispatch => op[dispatch.cell] \in 1 .. MaxOps
  BY DispatchCell DEF TypeOK, NumbersInv, HasCellInv
<1>9. NoDispatch \in [cell : Cells \cup {None}, idx : Idx, failed : BOOLEAN]
  BY DEF NoDispatch
<1>10. CASE Push
  <2>1. flight' \in SUBSET CQE
    BY <1>8, <1>10, DispatchCell DEF TypeOK, Push, Publish, CQE
  <2>2. \A g \in Goroutines : Returned(g) \in {"idle", "submit", "dispatch", "park", "asleep", "awake", "put"}
    BY DEF TypeOK, Returned, AfterSubmit
  <2> QED
    BY <1>9, <1>10, <2>1, <2>2 DEF TypeOK, Push
<1>11. CASE PushFails
  <2>1. flight' \in SUBSET CQE
    BY <1>8, <1>11, DispatchCell DEF TypeOK, PushFails, Publish, CQE
  <2>2. aborted' \in SUBSET (1 .. MaxOps)
    BY <1>8, <1>11 DEF TypeOK, PushFails
  <2>3. dispatch' \in [cell : Cells \cup {None}, idx : Idx, failed : BOOLEAN]
    BY <1>11 DEF TypeOK, PushFails
  <2> QED
    BY <1>11, <2>1, <2>2, <2>3 DEF TypeOK, PushFails
<1>12. CASE AbortDone
  BY <1>9, <1>12 DEF TypeOK, AbortDone, Returned, AfterSubmit
<1>13. CASE AbortReady
  BY <1>9, <1>13 DEF TypeOK, AbortReady, Returned, AfterSubmit
<1>14. CASE PollTake
  BY <1>14 DEF TypeOK, PollTake
<1>15. CASE PollWait \/ PollWaited \/ PollInterrupted \/ PollUnknown
  <2>1. ZeroCQE \in CQE
    BY DEF ZeroCQE, CQE
  <2> QED
    BY <1>15, <2>1 DEF TypeOK, PollWait, PollWaited, PollInterrupted, PollUnknown
<1>16. CASE PollGet
  BY <1>16 DEF TypeOK, PollGet, CQE
<1>17. CASE PollDone
  BY <1>17 DEF TypeOK, PollDone
<1>18. CASE PollReady
  BY <1>18 DEF TypeOK, PollReady
<1>19. CASE PollPut
  BY <1>19 DEF TypeOK, PollPut, HasCellInv
<1>20. CASE PollDel
  BY <1>20 DEF TypeOK, PollDel, CQE
<1>21. ASSUME NEW e \in flight, Answer(e) PROVE TypeOK'
  BY <1>21 DEF TypeOK, Answer
<1>22. CASE UNCHANGED vars
  BY <1>22 DEF TypeOK, vars
<1> QED
  BY <1>1, <1>2, <1>3, <1>4, <1>5, <1>6, <1>7, <1>10, <1>11, <1>12, <1>13, <1>14, <1>15, <1>16,
     <1>17, <1>18, <1>19, <1>20, <1>21, <1>22
     DEF Next, Start, Go, FallbackLoop, Dispatch, Poll, Kernel

\* A step keeps the numbers of the operations apart.
LEMMA NumbersStep == TypeOK /\ NumbersInv /\ HasCellInv /\ [Next]_vars => NumbersInv'
<1> SUFFICES ASSUME TypeOK, NumbersInv, HasCellInv, [Next]_vars PROVE NumbersInv'
  OBVIOUS
<1> USE DEF cellVars, goVars, slotVars, kernelVars, pollVars, ghostVars, Goto, Put
<1>a. ASSUME UNCHANGED <<ops, op, aborted>>, Unanswered' \subseteq Unanswered PROVE NumbersInv'
  BY <1>a DEF NumbersInv
<1>1. ASSUME NEW g \in Goroutines, NEW c \in Cells, NEW k \in Kinds, Arm(g, c, k) PROVE NumbersInv'
  <2>1. ops' = ops + 1 /\ ops < MaxOps /\ ops \in Nat /\ aborted' = aborted
    BY <1>1 DEF Arm, TypeOK
  <2>2. op' = [op EXCEPT ![c] = ops + 1] /\ op \in [Cells -> Nat]
    BY <1>1 DEF Arm, TypeOK
  <2>3. Unanswered' \subseteq Unanswered
    BY <1>1, UnansweredLess DEF Arm
  <2> QED
    BY <2>1, <2>2, <2>3 DEF NumbersInv
<1>2. ASSUME NEW g \in Goroutines, HandOver(g) \/ Park(g) \/ ReadResult(g) \/ PutCell(g)
      PROVE  NumbersInv'
  BY <1>a, <1>2, UnansweredLess DEF HandOver, Park, ReadResult, PutCell
<1>3. ASSUME NEW g \in Goroutines, NEW i \in Idx, AddDirect(g, i) PROVE NumbersInv'
  BY <1>a, <1>3, UnansweredLess DEF AddDirect
<1>4. ASSUME NEW c \in handed, NEW i \in Idx, AddHanded(c, i) PROVE NumbersInv'
  BY <1>a, <1>4, UnansweredLess DEF AddHanded
<1>5. CASE Push \/ PushFails
  <2>1. dispatch.cell \in Cells /\ op[dispatch.cell] \in 1 .. ops
    BY <1>5, DispatchCell DEF Push, PushFails, TypeOK, NumbersInv, HasCellInv
  <2>2. \A e \in Unanswered' : e \in Unanswered \/ e.res = op[dispatch.cell]
    BY <1>5, UnansweredPush
  <2>3. aborted' \subseteq aborted \cup {op[dispatch.cell]} /\ UNCHANGED <<ops, op>>
    BY <1>5 DEF Push, PushFails
  <2> QED
    BY <2>1, <2>2, <2>3 DEF NumbersInv
<1>6. CASE AbortDone \/ AbortReady
  BY <1>a, <1>6, UnansweredLess DEF AbortDone, AbortReady
<1>7. CASE PollTake
  BY <1>a, <1>7, UnansweredTake DEF PollTake
<1>8. CASE PollWait
  BY <1>a, <1>8 DEF PollWait, Unanswered
<1>9. CASE PollWaited
  BY <1>a, <1>9, UnansweredLess DEF PollWaited, HasCellInv
<1>10. CASE PollInterrupted \/ PollUnknown
  BY <1>a, <1>10, UnansweredLess DEF PollInterrupted, PollUnknown
<1>11. CASE PollGet
  BY <1>a, <1>11, UnansweredLess DEF PollGet
<1>12. CASE PollDone \/ PollReady \/ PollPut \/ PollDel
  BY <1>a, <1>12, UnansweredLess DEF PollDone, PollReady, PollPut, PollDel
<1>13. ASSUME NEW e \in flight, Answer(e) PROVE NumbersInv'
  BY <1>a, <1>13, UnansweredAnswer DEF Answer
<1>14. CASE UNCHANGED vars
  BY <1>14 DEF NumbersInv, Unanswered, vars
<1> QED
  BY <1>1, <1>2, <1>3, <1>4, <1>5, <1>6, <1>7, <1>8, <1>9, <1>10, <1>11, <1>12, <1>13, <1>14
     DEF Next, Start, Go, FallbackLoop, Dispatch, Poll, Kernel

\* A step takes its cell from nobody who needs it.
LEMMA HasCellStep == TypeOK /\ NumbersInv /\ HasCellInv /\ [Next]_vars => HasCellInv'
<1> SUFFICES ASSUME TypeOK, NumbersInv, HasCellInv, [Next]_vars PROVE HasCellInv'
  OBVIOUS
<1> USE DEF cellVars, goVars, slotVars, kernelVars, pollVars, ghostVars, Goto, Put
<1>1. ASSUME NEW g \in Goroutines, NEW c \in Cells, NEW k \in Kinds, Arm(g, c, k) PROVE HasCellInv'
  <2>1. /\ cellOf' = [cellOf EXCEPT ![g] = c] /\ op' = [op EXCEPT ![c] = ops + 1] /\ pc[g] = "idle"
        /\ pc' = [pc EXCEPT ![g] = "submit"] /\ UNCHANGED <<handed, dispatch, poller, pcell, resp>>
    BY <1>1 DEF Arm
  <2>2. /\ ops + 1 # 0 /\ \A d \in Cells : op[d] # 0 => op'[d] # 0 /\ op'[c] # 0
        /\ handed \subseteq Cells /\ dispatch.cell \in Cells \cup {None}
    BY <2>1 DEF TypeOK
  <2>3. /\ cellOf'[g] = c /\ \A h \in Goroutines : h # g => cellOf'[h] = cellOf[h]
        /\ pc'[g] = "submit" /\ \A h \in Goroutines : h # g => pc'[h] = pc[h]
    BY <2>1 DEF TypeOK
  <2>4. \A h \in Goroutines : pc'[h] # "idle" => cellOf'[h] \in Cells /\ op'[cellOf'[h]] # 0
    <3> SUFFICES ASSUME NEW h \in Goroutines, pc'[h] # "idle"
                 PROVE  cellOf'[h] \in Cells /\ op'[cellOf'[h]] # 0
      OBVIOUS
    <3>1. CASE h = g
      BY <2>1, <2>2, <2>3, <3>1 DEF TypeOK
    <3>2. CASE h # g
      BY <2>2, <2>3, <3>2 DEF HasCellInv
    <3> QED
      BY <3>1, <3>2
  <2> QED
    BY <2>1, <2>2, <2>3, <2>4, NoneAssumption DEF HasCellInv
<1>2. ASSUME NEW g \in Goroutines, HandOver(g) PROVE HasCellInv'
  <2>1. /\ pc[g] = "submit" /\ handed' = handed \cup {cellOf[g]}
        /\ pc' = [pc EXCEPT ![g] = AfterSubmit(cellOf[g])]
        /\ UNCHANGED <<op, cellOf, dispatch, poller, pcell, resp>>
    BY <1>2 DEF HandOver
  <2>2. AfterSubmit(cellOf[g]) \in {"idle", "park"}
    BY DEF AfterSubmit
  <2>3. op[cellOf[g]] # 0
    BY <2>1 DEF HasCellInv
  <2>4. \A h \in Goroutines : pc'[h] # "idle" => pc[h] # "idle"
    BY <2>1, <2>2 DEF TypeOK
  <2>5. \A h \in Goroutines : pc'[h] = "dispatch" => pc[h] = "dispatch"
    BY <2>1, <2>2 DEF TypeOK
  <2> QED
    BY <2>1, <2>3, <2>4, <2>5 DEF HasCellInv
<1>3. ASSUME NEW g \in Goroutines, NEW i \in Idx, AddDirect(g, i) PROVE HasCellInv'
  BY <1>3 DEF TypeOK, HasCellInv, AddDirect, AddSlot, NoDispatch
<1>4. ASSUME NEW g \in Goroutines, Park(g) \/ ReadResult(g) \/ PutCell(g) PROVE HasCellInv'
  <2>1. /\ pc[g] # "idle" /\ UNCHANGED <<handed, op, cellOf, dispatch, poller, pcell, resp>>
        /\ \E w \in {"awake", "asleep", "put", "idle"} : pc' = [pc EXCEPT ![g] = w]
    <3>1. CASE Park(g)
      BY <3>1 DEF Park
    <3>2. CASE ReadResult(g) \/ PutCell(g)
      BY <3>2 DEF ReadResult, PutCell
    <3> QED
      BY <1>4, <3>1, <3>2
  <2>2. \A h \in Goroutines : /\ pc'[h] # "idle" => pc[h] # "idle"
                             /\ pc'[h] = "dispatch" => pc[h] = "dispatch"
    BY <2>1 DEF TypeOK
  <2> QED
    BY <2>1, <2>2 DEF HasCellInv
<1>5. ASSUME NEW c \in handed, NEW i \in Idx, AddHanded(c, i) PROVE HasCellInv'
  BY <1>5 DEF TypeOK, HasCellInv, AddHanded, AddSlot, NoDispatch
<1>6. CASE Push
  BY <1>6 DEF TypeOK, HasCellInv, Push, Returned, AfterSubmit, NoDispatch
<1>7. CASE PushFails
  BY <1>7, DispatchCell DEF TypeOK, HasCellInv, PushFails
<1>8. CASE AbortDone
  BY <1>8 DEF TypeOK, HasCellInv, AbortDone, Returned, AfterSubmit, NoDispatch
<1>9. CASE AbortReady
  BY <1>9 DEF TypeOK, HasCellInv, AbortReady, Returned, AfterSubmit, NoDispatch
<1>10. CASE PollTake \/ PollWait \/ PollWaited \/ PollInterrupted \/ PollUnknown
  BY <1>10 DEF HasCellInv, PollTake, PollWait, PollWaited, PollInterrupted, PollUnknown
<1>11. CASE PollGet
  <2>1. slots[resp.idx] \in Cells
    BY <1>11 DEF PollGet, TypeOK, CQE
  <2> QED
    BY <1>11, <2>1 DEF HasCellInv, PollGet
<1>12. CASE PollReady
  BY <1>12 DEF TypeOK, HasCellInv, PollReady
<1>13. CASE PollDone \/ PollPut \/ PollDel
  BY <1>13 DEF HasCellInv, PollDone, PollPut, PollDel
<1>14. ASSUME NEW e \in flight, Answer(e) PROVE HasCellInv'
  BY <1>14 DEF HasCellInv, Answer
<1>15. CASE UNCHANGED vars
  BY <1>15 DEF HasCellInv, vars
<1> QED
  BY <1>1, <1>2, <1>3, <1>4, <1>5, <1>6, <1>7, <1>8, <1>9, <1>10, <1>11, <1>12, <1>13, <1>14, <1>15
     DEF Next, Start, Go, FallbackLoop, Dispatch, Poll, Kernel

(***************************************************************************)
(* Steps, until the poller is misled.                                      *)
(***************************************************************************)
Sound == TypeOK /\ NumbersInv /\ HasCellInv /\ CellsInv

\* Only a push gives the kernel an entry.
LEMMA UnansweredStep ==
  ASSUME Sound, Next
  PROVE  Unanswered' \subseteq Unanswered \/ ((Push \/ PushFails) /\ dispatch.cell \in Cells)
<1> USE DEF Sound, cellVars, goVars, slotVars, kernelVars, pollVars, ghostVars
<1>1. ASSUME NEW g \in Goroutines, NEW c \in Cells, NEW k \in Kinds, Arm(g, c, k)
      PROVE  Unanswered' \subseteq Unanswered
  BY <1>1, UnansweredLess DEF Arm
<1>2. ASSUME NEW g \in Goroutines, HandOver(g) \/ Park(g) \/ ReadResult(g) \/ PutCell(g)
      PROVE  Unanswered' \subseteq Unanswered
  BY <1>2, UnansweredLess DEF HandOver, Park, ReadResult, PutCell
<1>3. ASSUME NEW g \in Goroutines, NEW i \in Idx, AddDirect(g, i)
      PROVE  Unanswered' \subseteq Unanswered
  BY <1>3, UnansweredLess DEF AddDirect
<1>4. ASSUME NEW c \in handed, NEW i \in Idx, AddHanded(c, i)
      PROVE  Unanswered' \subseteq Unanswered
  BY <1>4, UnansweredLess DEF AddHanded
<1>5. ASSUME Push \/ PushFails PROVE dispatch.cell \in Cells
  BY <1>5, DispatchCell DEF Push, PushFails
<1>6. CASE AbortDone \/ AbortReady
  BY <1>6, UnansweredLess DEF AbortDone, AbortReady
<1>7. CASE PollTake
  BY <1>7, UnansweredTake
<1>8. CASE PollWait
  BY <1>8 DEF PollWait, Unanswered
<1>9. CASE PollWaited
  BY <1>9, UnansweredLess DEF PollWaited, HasCellInv
<1>10. CASE PollInterrupted \/ PollUnknown \/ PollGet
  BY <1>10, UnansweredLess DEF PollInterrupted, PollUnknown, PollGet
<1>11. CASE PollDone \/ PollReady \/ PollPut \/ PollDel
  BY <1>11, UnansweredLess DEF PollDone, PollReady, PollPut, PollDel
<1>12. ASSUME NEW e \in flight, Answer(e) PROVE Unanswered' \subseteq Unanswered
  BY <1>12, UnansweredAnswer
<1> QED
  BY <1>1, <1>2, <1>3, <1>4, <1>5, <1>6, <1>7, <1>8, <1>9, <1>10, <1>11, <1>12
     DEF Next, Start, Go, FallbackLoop, Dispatch, Poll, Kernel

\* Unless it misleads the poller, the completion in hand answers the
\* operation of the cell it is written into, and that for the last time.
LEMMA GetAnswers ==
  ASSUME Sound, PollGet, ~misled'
  PROVE  /\ resp \in Unanswered /\ resp.res \notin aborted
         /\ \A e \in Unanswered' : e.res # resp.res
         /\ slots[resp.idx] \in Cells /\ pcell' = slots[resp.idx]
         /\ op[pcell'] = resp.res
<1>1. poller = "get" /\ resp # ZeroCQE /\ resp.res \notin aborted
  BY DEF PollGet
<1>2. resp \in Unanswered
  BY <1>1 DEF Unanswered
<1>3. poller' # "get" /\ UNCHANGED <<flight, cq>>
  BY DEF PollGet, kernelVars
<1>4. Unanswered' = flight \cup {cq[i] : i \in DOMAIN cq}
  BY <1>3 DEF Unanswered
<1>5. \A e \in Unanswered' : e.res # resp.res
  BY <1>1, <1>4 DEF Sound, CellsInv, OnceInv
<1>6. slots[resp.idx] \in Cells /\ pcell' = slots[resp.idx]
  BY DEF PollGet, Sound, TypeOK, CQE
<1> QED
  BY <1>1, <1>2, <1>5, <1>6 DEF Sound, CellsInv, KernelInv

\* Only by that does a cell come into the hands of the poller.
LEMMA PolledStep ==
  ASSUME Sound, Next, ~misled', NEW c, ~Polled(c), Polled(c)'
  PROVE  PollGet /\ c = pcell'
BY DEF Polled, Next, Start, Go, FallbackLoop, Dispatch, Poll, Kernel, Arm, HandOver, AddDirect,
  Park, ReadResult, PutCell, AddHanded, Push, PushFails, AbortDone, AbortReady, Answer, PollTake,
  PollWait, PollWaited, PollInterrupted, PollUnknown, PollGet, PollDone, PollReady, PollPut, PollDel,
  pollVars

\* An operation the kernel does not have stays with its cell, and the kernel
\* without it, until it is pushed.
LEMMA FreshStep ==
  ASSUME Sound, Next, NEW c \in Cells, pool[c] = 0, Fresh(c),
         ~((Push \/ PushFails) /\ dispatch.cell = c)
  PROVE  Fresh(c)'
<1> USE DEF cellVars, goVars, slotVars, Sound
<1>1. ASSUME NEW g \in Goroutines, NEW d \in Cells, NEW k \in Kinds, Arm(g, d, k) PROVE op'[c] = op[c]
  BY <1>1 DEF Arm, TypeOK
<1>2. op'[c] = op[c]
  BY <1>1 DEF Next, Start, Go, FallbackLoop, Dispatch, Poll, Kernel, HandOver, AddDirect,
    Park, ReadResult, PutCell, AddHanded, Push, PushFails, AbortDone, AbortReady, Answer, PollTake,
    PollWait, PollWaited, PollInterrupted, PollUnknown, PollGet, PollDone, PollReady, PollPut, PollDel
<1>3. CASE Unanswered' \subseteq Unanswered /\ ~PushFails
  <2>1. aborted' = aborted
    BY <1>3 DEF Next, Start, Go, FallbackLoop, Dispatch, Poll, Kernel, Arm, HandOver, AddDirect,
      Park, ReadResult, PutCell, AddHanded, Push, AbortDone, AbortReady, Answer, PollTake,
      PollWait, PollWaited, PollInterrupted, PollUnknown, PollGet, PollDone, PollReady, PollPut, PollDel
  <2> QED
    BY <1>2, <1>3, <2>1 DEF Fresh
<1>4. CASE Push \/ PushFails
  <2>1. dispatch.cell \in Cells /\ op[dispatch.cell] # op[c]
    BY <1>4, DispatchCell DEF Push, PushFails, NumbersInv, HasCellInv
  <2>2. \A e \in Unanswered' : e \in Unanswered \/ e.res = op[dispatch.cell]
    BY <1>4, UnansweredPush
  <2>3. aborted' \subseteq aborted \cup {op[dispatch.cell]}
    BY <1>4 DEF Push, PushFails
  <2> QED
    BY <1>2, <2>1, <2>2, <2>3 DEF Fresh
<1> QED
  BY <1>3, <1>4, UnansweredStep

\* Who waits goes on waiting until the dispatch fails or the poller comes.
LEMMA WaitingStep ==
  ASSUME Sound, Next, NEW c \in Cells, pool[c] = 0, Waiting(c),
         ~((AbortDone \/ AbortReady) /\ dispatch.cell = c),
         ~((PollDone \/ PollReady) /\ pcell = c)
  PROVE  Waiting(c)'
<1> USE DEF Sound, CellsInv, TypeOK, Waiting, cellVars, goVars, slotVars, kernelVars, pollVars, ghostVars, Goto, Put
<1>1. ASSUME NEW g \in Goroutines, NEW d \in Cells, NEW k \in Kinds, Arm(g, d, k) PROVE Waiting(c)'
  <2>1. /\ d # c /\ owner' = [owner EXCEPT ![d] = g] /\ cellOf' = [cellOf EXCEPT ![g] = d]
        /\ taskState' = [taskState EXCEPT ![d] = "InCore"] /\ pc' = [pc EXCEPT ![g] = "submit"]
        /\ pc[g] = "idle"
    BY <1>1 DEF Arm
  <2>2. owner[c] # g
    BY <2>1
  <2>3. owner'[c] = owner[c] /\ taskState'[c] = taskState[c]
        /\ cellOf'[owner[c]] = c /\ pc'[owner[c]] = pc[owner[c]]
    BY <2>1, <2>2
  <2> QED
    BY <2>3
<1>2. ASSUME NEW g \in Goroutines, HandOver(g) PROVE Waiting(c)'
  BY <1>2 DEF HandOver
<1>3. ASSUME NEW g \in Goroutines, NEW i \in Idx, AddDirect(g, i) PROVE Waiting(c)'
  BY <1>3 DEF AddDirect
<1>4. ASSUME NEW g \in Goroutines, Park(g) PROVE Waiting(c)'
  BY <1>4 DEF Park, OwnerInv
<1>5. ASSUME NEW g \in Goroutines, ReadResult(g) \/ PutCell(g) PROVE Waiting(c)'
  <2>1. /\ pc[g] \in {"awake", "put"} /\ \E w \in {"put", "idle"} : pc' = [pc EXCEPT ![g] = w]
        /\ UNCHANGED <<owner, cellOf, taskState>>
    BY <1>5 DEF ReadResult, PutCell
  <2>2. owner[c] # g
    BY <2>1
  <2>3. pc'[owner[c]] = pc[owner[c]]
    BY <2>1, <2>2
  <2> QED
    BY <2>1, <2>3
<1>6. ASSUME NEW d \in handed, NEW i \in Idx, AddHanded(d, i) PROVE Waiting(c)'
  BY <1>6 DEF AddHanded
<1>7. CASE Push \/ PushFails
  <2>1. UNCHANGED <<owner, cellOf, taskState>> /\ pc' \in {pc, [h \in Goroutines |-> Returned(h)]}
    BY <1>7 DEF Push, PushFails
  <2>2. pc[owner[c]] \in {"park", "asleep"} /\ owner[c] \in Goroutines
    OBVIOUS
  <2>3. Returned(owner[c]) = pc[owner[c]]
    BY <2>2 DEF Returned
  <2>4. pc'[owner[c]] = pc[owner[c]]
    BY <2>1, <2>2, <2>3
  <2> QED
    BY <2>1, <2>4
<1>8. CASE AbortDone
  BY <1>8, DispatchCell DEF AbortDone, Returned, NoDispatch
<1>9. CASE AbortReady
  <2>1. dispatch.cell \in Cells /\ dispatch.cell # c /\ dispatch.cell # None
    BY <1>9, DispatchCell DEF AbortReady, NoDispatch
  <2>2. cellOf[owner[dispatch.cell]] = dispatch.cell
    BY <1>9, <2>1 DEF AbortReady, DispatchInv, Dispatching
  <2>3. owner[c] # owner[dispatch.cell]
    BY <2>1, <2>2
  <2> QED
    BY <1>9, <2>3 DEF AbortReady, Returned
<1>10. CASE PollTake \/ PollWait \/ PollWaited \/ PollInterrupted \/ PollUnknown \/ PollGet
  BY <1>10 DEF PollTake, PollWait, PollWaited, PollInterrupted, PollUnknown, PollGet
<1>11. CASE PollDone
  BY <1>11 DEF PollDone
<1>12. CASE PollReady
  <2>1. pcell # c /\ cellOf[owner[pcell]] = pcell
    BY <1>12 DEF PollReady, PolledInv
  <2>2. owner[c] # owner[pcell]
    BY <2>1
  <2> QED
    BY <1>12, <2>2 DEF PollReady
<1>13. CASE PollPut \/ PollDel
  BY <1>13 DEF PollPut, PollDel
<1>14. ASSUME NEW e \in flight, Answer(e) PROVE Waiting(c)'
  BY <1>14 DEF Answer
<1> QED
  BY <1>1, <1>2, <1>3, <1>4, <1>5, <1>6, <1>7, <1>8, <1>9, <1>10, <1>11, <1>12, <1>13, <1>14
     DEF Next, Start, Go, FallbackLoop, Dispatch, Poll, Kernel

\* A busy goroutine keeps its cell for itself, and out of the pool.
LEMMA OwnerStep ==
  ASSUME Sound, Next
  PROVE  OwnerInv'
<1> USE DEF Sound, CellsInv, TypeOK, HasCellInv, OwnerInv, cellVars, goVars, slotVars, kernelVars,
            pollVars, ghostVars, Goto, Put
<1>1. ASSUME NEW g \in Goroutines, NEW c \in Cells, NEW k \in Kinds, Arm(g, c, k) PROVE OwnerInv'
  <2>1. pool[c] \in Nat /\ pool[c] > 0 /\ pool[c] - 1 = 0
    BY <1>1 DEF Arm, PoolInv
  <2>2. \A f \in Goroutines : pc[f] # "idle" => cellOf[f] # c
    BY <2>1
  <2>3. /\ pc' = [pc EXCEPT ![g] = "submit"] /\ cellOf' = [cellOf EXCEPT ![g] = c]
        /\ mine' = [mine EXCEPT ![g] = ops + 1] /\ op' = [op EXCEPT ![c] = ops + 1]
        /\ owner' = [owner EXCEPT ![c] = g] /\ pool' = [pool EXCEPT ![c] = 0]
        /\ opCode' = [opCode EXCEPT ![c] = k]
    BY <1>1, <2>1 DEF Arm
  <2> QED
    BY <2>2, <2>3
<1>2. ASSUME NEW g \in Goroutines, HandOver(g) PROVE OwnerInv'
  BY <1>2 DEF HandOver, AfterSubmit, Kinds
<1>3. ASSUME NEW g \in Goroutines, NEW i \in Idx, AddDirect(g, i) PROVE OwnerInv'
  BY <1>3 DEF AddDirect
<1>4. ASSUME NEW g \in Goroutines, Park(g) PROVE OwnerInv'
  BY <1>4 DEF Park
<1>5. ASSUME NEW g \in Goroutines, ReadResult(g) PROVE OwnerInv'
  BY <1>5 DEF ReadResult
<1>6. ASSUME NEW g \in Goroutines, PutCell(g) PROVE OwnerInv'
  BY <1>6 DEF PutCell
<1>7. ASSUME NEW c \in handed, NEW i \in Idx, AddHanded(c, i) PROVE OwnerInv'
  BY <1>7 DEF AddHanded
<1>8. CASE Push \/ AbortDone
  BY <1>8 DEF Push, AbortDone, Returned, AfterSubmit, Kinds
<1>9. CASE PushFails
  BY <1>9 DEF PushFails
<1>10. CASE AbortReady
  BY <1>10 DEF AbortReady, Returned, AfterSubmit, Kinds
<1>11. CASE PollTake \/ PollWait \/ PollWaited \/ PollInterrupted \/ PollUnknown \/ PollGet
  BY <1>11 DEF PollTake, PollWait, PollWaited, PollInterrupted, PollUnknown, PollGet
<1>12. CASE PollDone
  BY <1>12 DEF PollDone
<1>13. CASE PollReady
  BY <1>13 DEF PollReady
<1>14. CASE PollPut
  <2>1. opCode[pcell] = "send" /\ Polled(pcell)
    BY <1>14 DEF PollPut, PolledInv, Polled
  <2>2. \A g \in Goroutines : pc[g] # "idle" => cellOf[g] # pcell
    BY <2>1 DEF SubmitInv, DispatchInv
  <2> QED
    BY <1>14, <2>2 DEF PollPut
<1>15. CASE PollDel
  BY <1>15 DEF PollDel
<1>16. ASSUME NEW e \in flight, Answer(e) PROVE OwnerInv'
  BY <1>16 DEF Answer
<1> QED
  BY <1>1, <1>2, <1>3, <1>4, <1>5, <1>6, <1>7, <1>8, <1>9, <1>10, <1>11, <1>12, <1>13, <1>14,
     <1>15, <1>16
     DEF Next, Start, Go, FallbackLoop, Dispatch, Poll, Kernel

\* A cell that is armed and not yet submitted is nowhere else.
LEMMA SubmitStep ==
  ASSUME Sound, Next, ~misled'
  PROVE  SubmitInv'
<1> SUFFICES ASSUME NEW g \in Goroutines, pc'[g] = "submit"
             PROVE  /\ Fresh(cellOf[g])' /\ cellOf'[g] \notin handed' /\ dispatch'.cell # cellOf'[g]
                    /\ ~Polled(cellOf[g])' /\ taskState'[cellOf'[g]] = "InCore"
  BY DEF SubmitInv
<1>f. ASSUME NEW c \in Cells, pool[c] = 0, Fresh(c), dispatch.cell # c PROVE Fresh(c)'
  BY <1>f, FreshStep
<1>p. \A c : Polled(c)' => Polled(c) \/ (resp \in Unanswered /\ op[c] = resp.res)
  BY PolledStep, GetAnswers
<1> USE DEF Sound, CellsInv, TypeOK, HasCellInv, OwnerInv, cellVars, goVars, slotVars, kernelVars,
            pollVars, ghostVars, Goto, Put
<1>1. CASE pc[g] # "submit"
  <2>1. PICK c \in Cells, k \in Kinds : Arm(g, c, k)
    <3>1. ASSUME NEW f \in Goroutines, Go(f) PROVE FALSE
      BY <1>1, <3>1 DEF Go, HandOver, AddDirect, Park, ReadResult, PutCell, AfterSubmit
    <3>2. ~Dispatch
      <4>1. Returned(g) # "submit"
        BY <1>1 DEF Returned, AfterSubmit
      <4> QED
        BY <1>1, <4>1 DEF Dispatch, Push, PushFails, AbortDone, AbortReady
    <3>3. ~Poll
      BY <1>1 DEF Poll, PollTake, PollWait, PollWaited, PollInterrupted, PollUnknown, PollGet,
        PollDone, PollReady, PollPut, PollDel
    <3>4. ~FallbackLoop /\ ~Kernel
      BY <1>1 DEF FallbackLoop, Kernel, AddHanded, Answer
    <3>5. PICK f \in Goroutines, c \in Cells, k \in Kinds : Arm(f, c, k)
      BY <3>1, <3>2, <3>3, <3>4 DEF Next, Start
    <3>6. f = g
      BY <1>1, <3>5 DEF Arm
    <3> QED
      BY <3>5, <3>6
  <2>2. cellOf'[g] = c /\ taskState'[c] = "InCore" /\ op'[c] = ops + 1 /\ pool[c] \in Nat /\ pool[c] > 0
    BY <2>1 DEF Arm
  <2>3. c \notin handed /\ dispatch.cell # c /\ ~Polled(c)
    BY <2>2 DEF HandedInv, DispatchInv, PolledInv, Polled
  <2>4. UNCHANGED <<handed, dispatch, poller, pcell, aborted>>
    BY <2>1 DEF Arm
  <2>5. Unanswered' \subseteq Unanswered
    BY <2>1, UnansweredLess DEF Arm
  <2>6. Fresh(c)'
    BY <2>2, <2>4, <2>5 DEF Fresh, NumbersInv
  <2> QED
    BY <2>2, <2>3, <2>4, <2>6 DEF Polled
<1>2. CASE pc[g] = "submit"
  <2>0. PICK c \in Cells : c = cellOf[g]
    BY <1>2
  <2>1. c = cellOf[g] /\ c \in Cells /\ op[c] # 0 /\ pool[c] = 0 /\ owner[c] = g
    BY <1>2, <2>0
  <2>2. /\ Fresh(c) /\ c \notin handed /\ dispatch.cell # c /\ ~Polled(c)
        /\ taskState[c] = "InCore"
    BY <1>2, <2>0 DEF SubmitInv
  <2>3. Fresh(c)'
    BY <1>f, <2>1, <2>2
  <2>4. ~Polled(c)'
    BY <1>p, <2>2 DEF Fresh, Polled
  <2>5. ASSUME NEW f \in Goroutines, NEW d \in Cells, NEW k \in Kinds, Arm(f, d, k)
        PROVE  cellOf'[g] = c /\ c \notin handed' /\ dispatch'.cell # c /\ taskState'[c] = "InCore"
    BY <1>2, <2>1, <2>2, <2>5 DEF Arm
  <2>6. ASSUME NEW f \in Goroutines, HandOver(f) \/ Park(f) \/ ReadResult(f) \/ PutCell(f)
        PROVE  cellOf'[g] = c /\ c \notin handed' /\ dispatch'.cell # c /\ taskState'[c] = "InCore"
    <3>1. f # g
      BY <1>2, <2>6 DEF HandOver, Park, ReadResult, PutCell, AfterSubmit
    <3>2. cellOf[f] # c
      BY <2>1, <2>6, <3>1 DEF HandOver, Park, ReadResult, PutCell
    <3> QED
      BY <2>1, <2>2, <2>6, <3>2 DEF HandOver, Park, ReadResult, PutCell
  <2>7. ASSUME NEW f \in Goroutines, NEW i \in Idx, AddDirect(f, i)
        PROVE  cellOf'[g] = c /\ c \notin handed' /\ dispatch'.cell # c /\ taskState'[c] = "InCore"
    <3>1. f # g
      BY <1>2, <2>7 DEF AddDirect
    <3>2. cellOf[f] # c
      BY <2>1, <2>7, <3>1 DEF AddDirect
    <3> QED
      BY <2>1, <2>2, <2>7, <3>2 DEF AddDirect, AddSlot
  <2>8. ASSUME NEW d \in handed, NEW i \in Idx, AddHanded(d, i)
        PROVE  cellOf'[g] = c /\ c \notin handed' /\ dispatch'.cell # c /\ taskState'[c] = "InCore"
    BY <2>1, <2>2, <2>8 DEF AddHanded, AddSlot
  <2>9. ASSUME Dispatch
        PROVE  cellOf'[g] = c /\ c \notin handed' /\ dispatch'.cell # c /\ taskState'[c] = "InCore"
    BY <2>1, <2>2, <2>9 DEF Dispatch, Push, PushFails, AbortDone, AbortReady, NoDispatch
  <2>10. ASSUME Poll
        PROVE  cellOf'[g] = c /\ c \notin handed' /\ dispatch'.cell # c /\ taskState'[c] = "InCore"
    <3>1. ~(PollDone /\ pcell = c)
      BY <2>2 DEF PollDone, Polled
    <3> QED
      BY <2>1, <2>2, <2>10, <3>1 DEF Poll, PollTake, PollWait, PollWaited, PollInterrupted, PollUnknown,
        PollGet, PollDone, PollReady, PollPut, PollDel
  <2>11. ASSUME NEW e \in flight, Answer(e)
        PROVE  cellOf'[g] = c /\ c \notin handed' /\ dispatch'.cell # c /\ taskState'[c] = "InCore"
    BY <2>1, <2>2, <2>11 DEF Answer
  <2>12. cellOf'[g] = c /\ c \notin handed' /\ dispatch'.cell # c /\ taskState'[c] = "InCore"
    BY <2>1, <2>2, <2>5, <2>6, <2>7, <2>8, <2>9, <2>10, <2>11
       DEF Next, Start, Go, FallbackLoop, Kernel
  <2> QED
    BY <2>3, <2>4, <2>12
<1> QED
  BY <1>1, <1>2

\* What is written into a cell when it is armed stays, and the cell out of
\* the pool, until its owner or the poller has put it there.
LEMMA KeptStep ==
  ASSUME Sound, Next, NEW c \in Cells, pool[c] = 0, ~(PollPut /\ pcell = c),
         \A g \in Goroutines : pc[g] = "put" => cellOf[g] # c
  PROVE  /\ pool'[c] = 0
         /\ op'[c] = op[c] /\ opCode'[c] = opCode[c] /\ owner'[c] = owner[c]
<1> USE DEF Sound, TypeOK, cellVars, goVars, slotVars, kernelVars, pollVars, ghostVars, Goto, Put
<1>1. ASSUME NEW g \in Goroutines, NEW d \in Cells, NEW k \in Kinds, Arm(g, d, k)
      PROVE  c # d
  BY <1>1 DEF Arm
<1>2. ASSUME NEW g \in Goroutines, NEW d \in Cells, NEW k \in Kinds, Arm(g, d, k)
      PROVE  pool'[c] = 0 /\ op'[c] = op[c] /\ opCode'[c] = opCode[c] /\ owner'[c] = owner[c]
  BY <1>1, <1>2 DEF Arm
<1>3. ASSUME NEW g \in Goroutines, Go(g)
      PROVE  pool'[c] = 0 /\ op'[c] = op[c] /\ opCode'[c] = opCode[c] /\ owner'[c] = owner[c]
  BY <1>3 DEF Go, HandOver, AddDirect, Park, ReadResult, PutCell
<1>4. ASSUME FallbackLoop \/ Dispatch \/ Kernel
      PROVE  pool'[c] = 0 /\ op'[c] = op[c] /\ opCode'[c] = opCode[c] /\ owner'[c] = owner[c]
  BY <1>4 DEF FallbackLoop, AddHanded, Dispatch, Push, PushFails, AbortDone, AbortReady, Kernel, Answer
<1>5. ASSUME Poll
      PROVE  pool'[c] = 0 /\ op'[c] = op[c] /\ opCode'[c] = opCode[c] /\ owner'[c] = owner[c]
  BY <1>5 DEF Poll, PollTake, PollWait, PollWaited, PollInterrupted, PollUnknown,
    PollGet, PollDone, PollReady, PollPut, PollDel
<1> QED
  BY <1>2, <1>3, <1>4, <1>5 DEF Next, Start

\* A cell that is handed over is nowhere else, and who parks waits for it.
LEMMA HandedStep ==
  ASSUME Sound, Next, ~misled'
  PROVE  HandedInv'
<1> SUFFICES ASSUME NEW c \in handed'
             PROVE  /\ pool'[c] = 0 /\ Fresh(c)' /\ dispatch'.cell # c /\ ~Polled(c)'
                    /\ opCode'[c] = "park" => Waiting(c)'
  BY DEF HandedInv
<1>t. TypeOK /\ HasCellInv /\ CellsInv
  BY DEF Sound
<1>p. Polled(c)' => Polled(c) \/ (resp \in Unanswered /\ op[c] = resp.res)
  BY PolledStep, GetAnswers
<1>1. CASE c \in handed
  <2>1. c \in Cells /\ op[c] # 0
    BY <1>1, <1>t DEF TypeOK, HasCellInv
  <2>2. pool[c] = 0 /\ Fresh(c) /\ dispatch.cell # c /\ ~Polled(c) /\ (opCode[c] = "park" => Waiting(c))
    BY <1>1, <1>t DEF CellsInv, HandedInv
  <2>3. \A g \in Goroutines : pc[g] = "put" => cellOf[g] # c
    BY <1>1, <1>t DEF CellsInv, SettledInv, Settled
  <2>4. pool'[c] = 0 /\ op'[c] = op[c] /\ opCode'[c] = opCode[c]
    BY <2>1, <2>2, <2>3, KeptStep DEF PollPut, Polled
  <2>5. Fresh(c)'
    BY <2>1, <2>2, FreshStep
  <2>6. ~Polled(c)'
    BY <1>p, <2>2 DEF Fresh, Polled
  <2>7. opCode'[c] = "park" => Waiting(c)'
    BY <2>1, <2>2, <2>4, WaitingStep DEF PollDone, PollReady, Polled
  <2>8. dispatch'.cell # c
    <3> USE <1>1, <2>1, <2>2, <1>t DEF TypeOK, slotVars
    <3>1. ASSUME NEW g \in Goroutines, NEW i \in Idx, AddDirect(g, i) PROVE dispatch'.cell # c
      BY <3>1 DEF AddDirect, AddSlot, CellsInv, SubmitInv
    <3>2. ASSUME NEW d \in handed, NEW i \in Idx, AddHanded(d, i) PROVE dispatch'.cell # c
      BY <3>2 DEF AddHanded, AddSlot
    <3>3. ASSUME Start \/ Poll \/ Kernel PROVE dispatch'.cell # c
      BY <3>3 DEF Start, Arm, Poll, PollTake, PollWait, PollWaited, PollInterrupted, PollUnknown,
        PollGet, PollDone, PollReady, PollPut, PollDel, Kernel, Answer
    <3>4. ASSUME Dispatch PROVE dispatch'.cell # c
      BY <3>4 DEF Dispatch, Push, PushFails, AbortDone, AbortReady, NoDispatch
    <3>5. ASSUME NEW g \in Goroutines, HandOver(g) \/ Park(g) \/ ReadResult(g) \/ PutCell(g)
          PROVE  dispatch'.cell # c
      BY <3>5 DEF HandOver, Park, ReadResult, PutCell
    <3> QED
      BY <3>1, <3>2, <3>3, <3>4, <3>5 DEF Next, Go, FallbackLoop
  <2> QED
    BY <2>4, <2>5, <2>6, <2>7, <2>8
<1>2. CASE c \notin handed
  <2>1. PICK g \in Goroutines : HandOver(g) /\ c = cellOf[g]
    <3> USE <1>2 DEF slotVars
    <3>1. ~(Start \/ FallbackLoop \/ Dispatch)
      BY DEF Start, Arm, FallbackLoop, AddHanded, Dispatch, Push, PushFails, AbortDone, AbortReady
    <3>2. ~(Poll \/ Kernel)
      BY DEF Poll, PollTake, PollWait, PollWaited, PollInterrupted, PollUnknown,
        PollGet, PollDone, PollReady, PollPut, PollDel, Kernel, Answer
    <3>3. PICK g \in Goroutines : Go(g)
      BY <3>1, <3>2 DEF Next
    <3>4. HandOver(g)
      BY <3>3 DEF Go, AddDirect, Park, ReadResult, PutCell
    <3> QED
      BY <3>4 DEF HandOver
  <2>2. pc[g] = "submit" /\ c \in Cells /\ op[c] # 0 /\ pool[c] = 0 /\ owner[c] = g
    BY <2>1, <1>t DEF HandOver, HasCellInv, CellsInv, OwnerInv
  <2>3. Fresh(c) /\ dispatch.cell # c /\ ~Polled(c) /\ taskState[c] = "InCore"
    BY <2>1, <2>2, <1>t DEF CellsInv, SubmitInv
  <2>4. /\ UNCHANGED <<pool, dispatch, poller, pcell, opCode, taskState, owner, cellOf>>
        /\ pc' = [pc EXCEPT ![g] = AfterSubmit(c)]
    BY <2>1 DEF HandOver, Goto, cellVars, pollVars
  <2>5. Fresh(c)'
    BY <2>2, <2>3, FreshStep
  <2>6. opCode'[c] = "park" => Waiting(c)'
    BY <2>1, <2>2, <2>3, <2>4, <1>t DEF AfterSubmit, Waiting, TypeOK
  <2> QED
    BY <2>2, <2>3, <2>4, <2>5, <2>6 DEF Polled
<1> QED
  BY <1>1, <1>2

\* What was aborted stays aborted.
LEMMA AbortedStep ==
  ASSUME Next
  PROVE  aborted \subseteq aborted'
<1> USE DEF slotVars
<1>1. ASSUME Start \/ FallbackLoop \/ Kernel PROVE aborted \subseteq aborted'
  BY <1>1 DEF Start, Arm, FallbackLoop, AddHanded, Kernel, Answer
<1>2. ASSUME NEW g \in Goroutines, Go(g) PROVE aborted \subseteq aborted'
  BY <1>2 DEF Go, HandOver, AddDirect, Park, ReadResult, PutCell
<1>3. ASSUME Dispatch PROVE aborted \subseteq aborted'
  BY <1>3 DEF Dispatch, Push, PushFails, AbortDone, AbortReady
<1>4. ASSUME Poll PROVE aborted \subseteq aborted'
  BY <1>4 DEF Poll, PollTake, PollWait, PollWaited, PollInterrupted, PollUnknown,
    PollGet, PollDone, PollReady, PollPut, PollDel
<1> QED
  BY <1>1, <1>2, <1>3, <1>4 DEF Next

\* An entry with the kernel leads to the cell it answers.
LEMMA KernelStep ==
  ASSUME Sound, Next, ~misled'
  PROVE  KernelInv'
<1> SUFFICES ASSUME NEW e \in Unanswered', e.res \notin aborted'
             PROVE  \E c \in Cells :
                      /\ slots'[e.idx] = c /\ op'[c] = e.res /\ pool'[c] = 0 /\ e.idx \notin released'
                      /\ opCode'[c] = "park" => Waiting(c)'
  BY DEF KernelInv, Waiting
<1>t. TypeOK /\ HasCellInv /\ NumbersInv /\ CellsInv
  BY DEF Sound
<1>1. CASE e \in Unanswered
  <2>1. PICK c : c = slots[e.idx]
    OBVIOUS
  <2>2. e \in CQE
    BY <1>1, <1>t DEF TypeOK, Unanswered
  <2>3. e.res \notin aborted
    BY AbortedStep
  <2>4. /\ c \in Cells /\ op[c] = e.res /\ pool[c] = 0 /\ e.idx \notin released
        /\ opCode[c] = "park" => Waiting(c)
    BY <1>1, <1>t, <2>1, <2>2, <2>3 DEF CellsInv, KernelInv, TypeOK, CQE
  <2>5. ~Polled(c) /\ ~(dispatch.cell = c /\ dispatch.failed)
    BY <1>1, <1>t, <2>3, <2>4 DEF CellsInv, PolledInv, DispatchInv, Polled, Fresh
  <2>6. \A g \in Goroutines : pc[g] = "put" => cellOf[g] # c
    BY <1>1, <1>t, <2>3, <2>4 DEF CellsInv, SettledInv, Settled
  <2>7. pool'[c] = 0 /\ op'[c] = op[c] /\ opCode'[c] = opCode[c]
    BY <2>4, <2>5, <2>6, KeptStep DEF PollPut, Polled
  <2>8. opCode'[c] = "park" => Waiting(c)'
    BY <2>4, <2>5, <2>7, WaitingStep DEF PollDone, PollReady, Polled, AbortDone, AbortReady
  <2>9. slots'[e.idx] = c /\ e.idx \notin released'
    <3> USE <1>t, <2>1, <2>2, <2>4 DEF TypeOK, slotVars, CQE
    <3>1. ASSUME NEW d, NEW i \in Idx, AddSlot(d, i) PROVE slots'[e.idx] = c /\ e.idx \notin released'
      BY <3>1 DEF AddSlot
    <3>2. ASSUME Start \/ FallbackLoop \/ Kernel PROVE slots'[e.idx] = c /\ e.idx \notin released'
      BY <3>1, <3>2 DEF Start, Arm, FallbackLoop, AddHanded, Kernel, Answer
    <3>3. ASSUME NEW g \in Goroutines, Go(g) PROVE slots'[e.idx] = c /\ e.idx \notin released'
      BY <3>1, <3>3 DEF Go, HandOver, AddDirect, Park, ReadResult, PutCell
    <3>4. ASSUME Dispatch PROVE slots'[e.idx] = c /\ e.idx \notin released'
      BY <3>4 DEF Dispatch, Push, PushFails, AbortDone, AbortReady
    <3>5. CASE PollDel
      BY <1>1, <2>3, <3>5 DEF PollDel, CellsInv, DelInv
    <3>6. ASSUME Poll, ~PollDel PROVE slots'[e.idx] = c /\ e.idx \notin released'
      BY <3>6 DEF Poll, PollTake, PollWait, PollWaited, PollInterrupted, PollUnknown,
        PollGet, PollDone, PollReady, PollPut
    <3> QED
      BY <3>2, <3>3, <3>4, <3>5, <3>6 DEF Next
  <2> QED
    BY <2>4, <2>7, <2>8, <2>9
<1>2. CASE e \notin Unanswered
  <2>1. Push \/ PushFails
    BY <1>2, UnansweredStep
  <2>2. PICK c \in Cells : c = dispatch.cell
    BY <1>t, <2>1, DispatchCell DEF Push, PushFails
  <2>3. e.res = op[c] /\ e.idx = dispatch.idx
    BY <1>2, <2>1, <2>2, UnansweredPush
  <2>4. Push
    BY <2>1, <2>2, <2>3 DEF PushFails
  <2>5. /\ pool[c] = 0 /\ slots[dispatch.idx] = c /\ dispatch.idx \notin released
        /\ opCode[c] = "park" => Waiting(c) \/ Dispatching(c)
    BY <1>t, <2>2, <2>4 DEF Push, CellsInv, DispatchInv
  <2>6. UNCHANGED <<op, pool, opCode, owner, cellOf, taskState, slots, released>>
    BY <2>4 DEF Push, cellVars
  <2>7. opCode[c] = "park" => Waiting(c)'
    BY <1>t, <2>2, <2>4, <2>5, <2>6 DEF Waiting, Dispatching, Push, Returned, AfterSubmit, TypeOK
  <2> QED
    BY <2>2, <2>3, <2>5, <2>6, <2>7
<1> QED
  BY <1>1, <1>2

\* The cell that is dispatched is nowhere else, and its slot is taken.
LEMMA DispatchStep ==
  ASSUME Sound, Next, ~misled'
  PROVE  DispatchInv'
<1>t. TypeOK /\ HasCellInv /\ NumbersInv /\ CellsInv
  BY DEF Sound
<1>a. ASSUME NEW c \in Cells, NEW i \in Idx, AddSlot(c, i)
      PROVE  /\ dispatch'.cell = c /\ ~dispatch'.failed
             /\ slots'[dispatch'.idx] = c /\ dispatch'.idx \notin released'
  BY <1>a, <1>t DEF AddSlot, TypeOK, CellsInv, DelInv
<1>f. ASSUME NEW c \in Cells, pool[c] = 0, Fresh(c), dispatch.cell # c PROVE Fresh(c)'
  BY <1>f, FreshStep
<1>1. ASSUME NEW g \in Goroutines, NEW i \in Idx, AddDirect(g, i) PROVE DispatchInv'
  <2>1. PICK c \in Cells : c = cellOf[g]
    BY <1>1, <1>t DEF AddDirect, HasCellInv
  <2>2. pc[g] = "submit" /\ pool[c] = 0 /\ op[c] # 0 /\ owner[c] = g
    BY <1>1, <1>t, <2>1 DEF AddDirect, HasCellInv, CellsInv, OwnerInv
  <2>3. Fresh(c) /\ dispatch.cell # c /\ ~Polled(c) /\ taskState[c] = "InCore"
    BY <1>t, <2>1, <2>2 DEF CellsInv, SubmitInv
  <2>4. Fresh(c)'
    BY <1>f, <2>2, <2>3
  <2>5. /\ UNCHANGED <<pool, poller, pcell, owner, cellOf, taskState>>
        /\ pc' = [pc EXCEPT ![g] = "dispatch"]
    BY <1>1 DEF AddDirect, cellVars, pollVars, Goto
  <2>6. Dispatching(c)'
    BY <1>t, <2>1, <2>2, <2>3, <2>5 DEF Dispatching, TypeOK
  <2>7. c = dispatch'.cell /\ ~dispatch'.failed /\ slots'[dispatch'.idx] = c /\ dispatch'.idx \notin released'
    BY <1>1, <1>a, <2>1 DEF AddDirect
  <2> QED
    BY <2>2, <2>3, <2>4, <2>5, <2>6, <2>7 DEF DispatchInv, Polled, Fresh, Dispatching
<1>2. ASSUME NEW c \in handed, NEW i \in Idx, AddHanded(c, i) PROVE DispatchInv'
  <2>1. c \in Cells /\ op[c] # 0
    BY <1>t DEF TypeOK, HasCellInv
  <2>2. pool[c] = 0 /\ Fresh(c) /\ dispatch.cell # c /\ ~Polled(c) /\ (opCode[c] = "park" => Waiting(c))
    BY <1>t DEF CellsInv, HandedInv
  <2>3. Fresh(c)'
    BY <1>f, <2>1, <2>2
  <2>4. UNCHANGED <<pool, poller, pcell, opCode, owner, cellOf, taskState, pc>>
    BY <1>2 DEF AddHanded, cellVars, goVars, pollVars
  <2>5. c = dispatch'.cell /\ ~dispatch'.failed /\ slots'[dispatch'.idx] = c /\ dispatch'.idx \notin released'
    BY <1>2, <1>a, <2>1 DEF AddHanded
  <2> QED
    BY <2>2, <2>3, <2>4, <2>5 DEF DispatchInv, Polled, Fresh, Waiting
<1>3. CASE Push \/ AbortDone \/ AbortReady
  BY <1>3 DEF Push, AbortDone, AbortReady, NoDispatch, DispatchInv
<1>4. CASE PushFails
  <2>1. PICK c \in Cells : c = dispatch.cell
    BY <1>t, <1>4, DispatchCell DEF PushFails
  <2>2. pool[c] = 0 /\ ~Polled(c) /\ (Waiting(c) \/ Dispatching(c)) /\ opCode[c] = "park"
    BY <1>t, <1>4, <2>1 DEF CellsInv, DispatchInv, PushFails
  <2>3. UNCHANGED <<pool, poller, pcell, op, opCode, owner, cellOf, taskState, pc>>
    BY <1>4 DEF PushFails, cellVars, goVars, pollVars
  <2>4. c = dispatch'.cell /\ dispatch'.failed /\ op[c] \in aborted'
    BY <1>t, <1>4, <2>1 DEF PushFails, TypeOK
  <2> QED
    BY <2>2, <2>3, <2>4 DEF DispatchInv, Polled, Waiting, Dispatching
<1>5. ASSUME UNCHANGED dispatch, dispatch.cell # None,
             ~Dispatch, \A c, i : ~AddSlot(c, i)
      PROVE  DispatchInv'
  <2>1. PICK c \in Cells : c = dispatch.cell
    BY <1>t, <1>5 DEF TypeOK
  <2>2. /\ pool[c] = 0 /\ op[c] # 0 /\ ~Polled(c)
        /\ opCode[c] = "park" => Waiting(c) \/ Dispatching(c)
    BY <1>t, <1>5, <2>1 DEF CellsInv, DispatchInv, HasCellInv
  <2>3. \A g \in Goroutines : pc[g] = "put" => cellOf[g] # c
    BY <1>t, <2>1 DEF CellsInv, SettledInv, Settled
  <2>4. pool'[c] = 0 /\ op'[c] = op[c] /\ opCode'[c] = opCode[c] /\ owner'[c] = owner[c]
    BY <2>2, <2>3, KeptStep DEF PollPut, Polled
  <2>5. ~Polled(c)'
    <3>1. Polled(c)' => resp \in Unanswered /\ op[c] = resp.res /\ resp.res \notin aborted
      BY <2>2, PolledStep, GetAnswers
    <3> QED
      BY <1>t, <1>5, <2>1, <3>1 DEF CellsInv, DispatchInv, Fresh, Polled
  <2>6. Waiting(c) => Waiting(c)'
    BY <1>5, <2>2, WaitingStep DEF PollDone, PollReady, Polled, Dispatch
  <2>7. Dispatching(c) => Dispatching(c)'
    <3> SUFFICES ASSUME Dispatching(c) PROVE Dispatching(c)'
      OBVIOUS
    <3> USE <1>t, <2>4 DEF Dispatching, TypeOK, goVars, cellVars, Goto
    <3>1. ASSUME NEW g \in Goroutines, NEW d \in Cells, NEW k \in Kinds, Arm(g, d, k)
          PROVE  Dispatching(c)'
      BY <2>2, <3>1 DEF Arm
    <3>2. ASSUME NEW g \in Goroutines, HandOver(g) \/ Park(g) \/ ReadResult(g) \/ PutCell(g)
          PROVE  Dispatching(c)'
      <4>1. g # owner[c]
        BY <3>2 DEF HandOver, Park, ReadResult, PutCell
      <4>2. Park(g) => cellOf[g] # c
        BY <4>1 DEF Park, CellsInv, OwnerInv
      <4> QED
        BY <3>2, <4>1, <4>2 DEF HandOver, Park, ReadResult, PutCell
    <3>3. ASSUME Poll PROVE Dispatching(c)'
      <4>1. ~(PollDone /\ pcell = c)
        BY <2>2 DEF PollDone, Polled
      <4>2. PollReady => pc[owner[c]] = pc'[owner[c]]
        BY DEF PollReady
      <4> QED
        BY <3>3, <4>1, <4>2 DEF Poll, PollTake, PollWait, PollWaited, PollInterrupted, PollUnknown,
          PollGet, PollDone, PollReady, PollPut, PollDel
    <3>4. ASSUME Kernel PROVE Dispatching(c)'
      BY <3>4 DEF Kernel, Answer
    <3> QED
      BY <1>5, <3>1, <3>2, <3>3, <3>4 DEF Next, Start, Go, FallbackLoop, AddDirect, AddHanded
  <2>8. ~dispatch.failed => Fresh(c)'
    BY <1>f, <1>t, <1>5, <2>1, <2>2, FreshStep DEF CellsInv, DispatchInv, Dispatch
  <2>9. dispatch.failed => op[c] \in aborted' /\ opCode[c] = "park"
    BY <1>t, <1>5, <2>1, AbortedStep DEF CellsInv, DispatchInv
  <2>10. ~dispatch.failed => slots'[dispatch.idx] = c /\ dispatch.idx \notin released'
    <3>1. UNCHANGED slots
      BY <1>5 DEF Next, Start, Arm, Go, HandOver, AddDirect, Park, ReadResult, PutCell, FallbackLoop,
        AddHanded, Poll, PollTake, PollWait, PollWaited, PollInterrupted, PollUnknown, PollGet,
        PollDone, PollReady, PollPut, PollDel, Kernel, Answer, slotVars
    <3>2. released' = released \/ (PollDel /\ released' = released \cup {resp.idx})
      BY <1>5 DEF Next, Start, Arm, Go, HandOver, AddDirect, Park, ReadResult, PutCell, FallbackLoop,
        AddHanded, Poll, PollTake, PollWait, PollWaited, PollInterrupted, PollUnknown, PollGet,
        PollDone, PollReady, PollPut, PollDel, Kernel, Answer, slotVars
    <3> QED
      BY <1>t, <1>5, <2>1, <3>1, <3>2 DEF CellsInv, DispatchInv, DelInv, PollDel
  <2> QED
    BY <1>5, <2>1, <2>2, <2>4, <2>5, <2>6, <2>7, <2>8, <2>9, <2>10
       DEF DispatchInv, Waiting, Dispatching, Polled, Fresh
<1>6. ASSUME NEW c, NEW i, AddSlot(c, i) PROVE dispatch = NoDispatch
  BY <1>6 DEF AddSlot
<1>7. CASE dispatch.cell = None /\ UNCHANGED dispatch
  BY <1>7 DEF DispatchInv
<1>8. ASSUME ~Dispatch, \A g \in Goroutines, i \in Idx : ~AddDirect(g, i),
             \A c \in handed, i \in Idx : ~AddHanded(c, i)
      PROVE  UNCHANGED dispatch
  BY <1>8 DEF Next, Start, Arm, Go, HandOver, Park, ReadResult, PutCell, FallbackLoop,
        Poll, PollTake, PollWait, PollWaited, PollInterrupted, PollUnknown, PollGet,
        PollDone, PollReady, PollPut, PollDel, Kernel, Answer, slotVars
<1> QED
  BY <1>1, <1>2, <1>3, <1>4, <1>5, <1>6, <1>7, <1>8 DEF Dispatch, NoDispatch

\* The cell in the hands of the poller is nowhere else, and holds the answer.
LEMMA PollerStep ==
  ASSUME Sound, Next, ~misled'
  PROVE  PolledInv'
<1>t. TypeOK /\ HasCellInv /\ NumbersInv /\ CellsInv
  BY DEF Sound
<1>1. CASE PollGet
  <2>1. PICK c \in Cells : c = pcell'
    BY <1>1, GetAnswers
  <2>2. /\ resp \in Unanswered /\ resp.res \notin aborted /\ \A e \in Unanswered' : e.res # resp.res
        /\ slots[resp.idx] = c /\ op[c] = resp.res
    BY <1>1, <2>1, GetAnswers
  <2>3. pool[c] = 0 /\ (opCode[c] = "park" => Waiting(c))
    BY <1>t, <2>2 DEF CellsInv, KernelInv
  <2>4. /\ UNCHANGED <<taskState, owner, opCode, op, pc, cellOf, pool, aborted>>
        /\ res' = [res EXCEPT ![c] = resp.res]
        /\ poller' = IF opCode[c] = "send" THEN "put" ELSE "wake"
    BY <1>1, <2>2 DEF PollGet, goVars, slotVars
  <2>5. opCode[c] \in {"park", "send"} /\ res'[c] = resp.res
    BY <1>t, <2>4 DEF TypeOK, Kinds
  <2> QED
    BY <2>1, <2>2, <2>3, <2>4, <2>5 DEF PolledInv, Fresh, Waiting
<1>2. ASSUME ~PollGet, poller' \in {"wake", "put"} PROVE PolledInv'
  <2>1. PICK c : c = pcell
    OBVIOUS
  <2>2. /\ UNCHANGED <<poller, pcell>> /\ poller \in {"wake", "put"}
        /\ ~(PollPut \/ PollDone \/ PollReady)
        /\ UNCHANGED res \/ \E g \in Goroutines, d \in Cells, k \in Kinds : Arm(g, d, k)
    BY <1>2 DEF Next, Start, Arm, Go, HandOver, AddDirect, Park, ReadResult, PutCell, FallbackLoop,
        AddHanded, Dispatch, Push, PushFails, AbortDone, AbortReady, Poll, PollTake, PollWait, PollWaited,
        PollInterrupted, PollUnknown, PollGet, PollDone, PollReady, PollPut, PollDel, Kernel, Answer,
        pollVars, cellVars
  <2>3. c \in Cells /\ Polled(c) /\ pool[c] = 0 /\ Fresh(c)
    BY <1>t, <2>1, <2>2 DEF HasCellInv, CellsInv, PolledInv, Polled
  <2>4. dispatch.cell # c
    BY <1>t, <2>3 DEF CellsInv, DispatchInv, TypeOK
  <2>5. \A g \in Goroutines : pc[g] = "put" => cellOf[g] # c
    BY <1>t, <2>3 DEF CellsInv, SettledInv, Settled
  <2>6. pool'[c] = 0 /\ op'[c] = op[c] /\ opCode'[c] = opCode[c]
    BY <2>2, <2>3, <2>5, KeptStep
  <2>7. Fresh(c)'
    BY <2>3, <2>4, FreshStep
  <2>8. Waiting(c) => Waiting(c)'
    BY <2>2, <2>3, <2>4, WaitingStep
  <2>9. res'[c] = res[c]
    BY <1>t, <2>2, <2>3 DEF Arm, TypeOK
  <2> QED
    BY <1>t, <2>1, <2>2, <2>3, <2>6, <2>7, <2>8, <2>9 DEF CellsInv, PolledInv, Fresh, Waiting
<1> QED
  BY <1>1, <1>2 DEF PolledInv

\* The slot of a Send stays taken until Del has released it.
LEMMA DelStep ==
  ASSUME Sound, Next, ~misled'
  PROVE  DelInv'
<1>t. TypeOK /\ HasCellInv /\ NumbersInv /\ CellsInv
  BY DEF Sound
<1> USE DEF DelInv, slotVars
<1>1. ASSUME NEW d \in Cells, NEW i \in Idx, AddSlot(d, i), UNCHANGED <<flight, cq, poller, resp, aborted>>
      PROVE  DelInv'
  <2>1. Unanswered' = Unanswered
    BY <1>1 DEF Unanswered
  <2>2. \A j \in Idx : slots[j] # None /\ j \notin released => slots'[j] = slots[j] /\ j # i /\ j \notin released'
    BY <1>1 DEF AddSlot
  <2>3. \A j \in released' : slots'[j] # None
    BY <1>t, <1>1 DEF AddSlot, CellsInv, TypeOK
  <2>4. dispatch'.idx = i
    BY <1>1 DEF AddSlot
  <2> QED
    BY <1>t, <1>1, <2>1, <2>2, <2>3, <2>4 DEF CellsInv, TypeOK, CQE
<1>2. ASSUME NEW g \in Goroutines, NEW i \in Idx, AddDirect(g, i) PROVE DelInv'
  BY <1>t, <1>1, <1>2 DEF AddDirect, HasCellInv, kernelVars, pollVars
<1>3. ASSUME NEW c \in handed, NEW i \in Idx, AddHanded(c, i) PROVE DelInv'
  BY <1>t, <1>1, <1>3 DEF AddHanded, TypeOK, kernelVars, pollVars
<1>4. ASSUME Push \/ PushFails PROVE DelInv'
  <2>1. \A e \in Unanswered' : e \in Unanswered \/ e.idx = dispatch.idx
    BY <1>4, UnansweredPush
  <2>2. UNCHANGED <<slots, released, poller, resp>> /\ dispatch.cell # None /\ ~dispatch.failed
    BY <1>t, <1>4, DispatchCell DEF Push, PushFails, pollVars
  <2>3. dispatch' = NoDispatch \/ dispatch'.failed
    BY <1>t, <1>4 DEF Push, PushFails, TypeOK
  <2> QED
    BY <1>t, <2>1, <2>2, <2>3, AbortedStep DEF CellsInv, NoDispatch
<1>5. CASE AbortDone \/ AbortReady
  BY <1>t, <1>5, UnansweredLess DEF AbortDone, AbortReady, CellsInv, NoDispatch, kernelVars, pollVars
<1>6. CASE PollGet
  <2>1. /\ resp \in Unanswered /\ resp.res \notin aborted /\ \A e \in Unanswered' : e.res # resp.res
        /\ slots[resp.idx] \in Cells /\ op[slots[resp.idx]] = resp.res
    BY <1>6, GetAnswers
  <2>2. UNCHANGED <<slots, released, resp, dispatch, aborted, op>>
    BY <1>6 DEF PollGet
  <2>3. Unanswered' \subseteq Unanswered
    BY <1>6, UnansweredLess DEF PollGet, kernelVars
  <2>4. resp.idx \notin released
    BY <1>t, <2>1 DEF CellsInv, KernelInv
  <2>5. \A e \in Unanswered' : e.res \notin aborted => e.idx # resp.idx
    BY <1>t, <2>1, <2>3 DEF CellsInv, KernelInv
  <2>6. dispatch.cell # None /\ ~dispatch.failed => dispatch.idx # resp.idx
    BY <1>t, <2>1 DEF CellsInv, DispatchInv, Fresh
  <2> QED
    BY <1>t, <2>1, <2>2, <2>4, <2>5, <2>6 DEF CellsInv
<1>7. CASE PollPut
  BY <1>t, <1>7, UnansweredLess DEF PollPut, CellsInv, kernelVars
<1>8. CASE PollDel
  BY <1>t, <1>8 DEF PollDel, CellsInv
<1>9. CASE PollTake \/ PollWait \/ PollWaited \/ PollInterrupted \/ PollUnknown \/ PollDone \/ PollReady
  BY <1>t, <1>9 DEF PollTake, PollWait, PollWaited, PollInterrupted, PollUnknown, PollDone, PollReady, CellsInv
<1>10. ASSUME NEW e \in flight, Answer(e) PROVE DelInv'
  BY <1>t, <1>10, UnansweredAnswer DEF Answer, CellsInv, pollVars
<1>11. ASSUME NEW g \in Goroutines, NEW c \in Cells, NEW k \in Kinds, Arm(g, c, k) PROVE DelInv'
  BY <1>t, <1>11, UnansweredLess DEF Arm, CellsInv, kernelVars, pollVars
<1>12. ASSUME NEW g \in Goroutines, HandOver(g) \/ Park(g) \/ ReadResult(g) \/ PutCell(g) PROVE DelInv'
  BY <1>t, <1>12, UnansweredLess DEF HandOver, Park, ReadResult, PutCell, CellsInv, kernelVars, pollVars
<1> QED
  BY <1>2, <1>3, <1>4, <1>5, <1>6, <1>7, <1>8, <1>9, <1>10, <1>11, <1>12
     DEF Next, Start, Go, FallbackLoop, Dispatch, Poll, Kernel

\* No cell is put into the pool twice.
LEMMA PoolStep ==
  ASSUME Sound, Next
  PROVE  PoolInv'
<1>t. TypeOK /\ HasCellInv /\ CellsInv
  BY DEF Sound
<1> USE <1>t DEF PoolInv, CellsInv, TypeOK, Put
<1>1. ASSUME NEW g \in Goroutines, NEW c \in Cells, NEW k \in Kinds, Arm(g, c, k) PROVE PoolInv'
  BY <1>1 DEF Arm
<1>2. ASSUME NEW g \in Goroutines, PutCell(g) PROVE PoolInv'
  <2>1. pool[cellOf[g]] = 0
    BY <1>2 DEF PutCell, OwnerInv
  <2> QED
    BY <1>2, <2>1 DEF PutCell, HasCellInv
<1>3. CASE PollPut
  <2>1. pool[pcell] = 0
    BY <1>3 DEF PollPut, PolledInv
  <2> QED
    BY <1>3, <2>1 DEF PollPut, HasCellInv
<1>4. ASSUME UNCHANGED pool PROVE PoolInv'
  BY <1>4
<1>5. ASSUME \A g \in Goroutines, c \in Cells, k \in Kinds : ~Arm(g, c, k),
             \A g \in Goroutines : ~PutCell(g), ~PollPut
      PROVE  UNCHANGED pool
  BY <1>5 DEF Next, Start, Go, HandOver, AddDirect, Park, ReadResult, FallbackLoop, AddHanded,
    Dispatch, Push, PushFails, AbortDone, AbortReady, Poll, PollTake, PollWait, PollWaited,
    PollInterrupted, PollUnknown, PollGet, PollDone, PollReady, PollDel, Kernel, Answer
<1> QED
  BY <1>1, <1>2, <1>3, <1>4, <1>5

\* goready finds its goroutine asleep.
LEMMA ReadyStep ==
  ASSUME Sound, Next, ~misled'
  PROVE  ~thrown'
<1>t. TypeOK /\ HasCellInv /\ CellsInv /\ ~thrown
  BY DEF Sound, Next
<1>1. CASE AbortReady
  <2>1. dispatch.cell # None /\ dispatch.failed /\ taskState[dispatch.cell] # "InCore"
    BY <1>t, <1>1, DispatchCell DEF AbortReady, NoDispatch
  <2>2. Waiting(dispatch.cell)
    BY <1>t, <2>1 DEF CellsInv, DispatchInv, Dispatching
  <2> QED
    BY <1>1, <2>1, <2>2 DEF AbortReady, Waiting
<1>2. CASE PollReady
  BY <1>t, <1>2 DEF PollReady, CellsInv, PolledInv, Waiting
<1>3. ASSUME ~AbortReady, ~PollReady PROVE UNCHANGED thrown
  BY <1>3 DEF Next, Start, Arm, Go, HandOver, AddDirect, Park, ReadResult, PutCell, FallbackLoop, AddHanded,
    Dispatch, Push, PushFails, AbortDone, Poll, PollTake, PollWait, PollWaited,
    PollInterrupted, PollUnknown, PollGet, PollDone, PollPut, PollDel, Kernel, Answer, ghostVars
<1> QED
  BY <1>t, <1>1, <1>2, <1>3

\* The owner has been answered, or its operation has been aborted.
Answered(g) == pc[g] \in {"awake", "put"} \/ (pc[g] = "park" /\ taskState[cellOf[g]] # "InCore")

\* A settled cell stays settled while its owner has it.
LEMMA SettledKept ==
  ASSUME Sound, Next, ~misled', NEW g \in Goroutines, Answered(g), NEW c \in Cells, c = cellOf[g]
  PROVE  Settled(c)' /\ cellOf'[g] = c
<1>t. TypeOK /\ HasCellInv /\ NumbersInv /\ CellsInv
  BY DEF Sound
<1>1. Settled(c) /\ pool[c] = 0 /\ op[c] # 0 /\ owner[c] = g /\ pc[g] # "idle"
  BY <1>t DEF CellsInv, SettledInv, OwnerInv, Answered, HasCellInv
<1>2. ASSUME NEW f \in Goroutines, NEW d \in Cells, NEW k \in Kinds, Arm(f, d, k) PROVE d # c /\ f # g
  BY <1>1, <1>2 DEF Arm
<1>3. cellOf'[g] = c /\ op'[c] = op[c]
  <2>1. ASSUME NEW f \in Goroutines, NEW d \in Cells, NEW k \in Kinds, Arm(f, d, k)
        PROVE  cellOf'[g] = c /\ op'[c] = op[c]
    BY <1>t, <1>2, <2>1 DEF Arm, TypeOK
  <2>2. ASSUME ~Start PROVE UNCHANGED <<cellOf, op>>
    BY <2>2 DEF Next, Go, HandOver, AddDirect, Park, ReadResult, PutCell, FallbackLoop, AddHanded,
      Dispatch, Push, PushFails, AbortDone, AbortReady, Poll, PollTake, PollWait, PollWaited,
      PollInterrupted, PollUnknown, PollGet, PollDone, PollReady, PollPut, PollDel, Kernel, Answer,
      goVars, cellVars
  <2> QED
    BY <2>1, <2>2 DEF Start
<1>4. res'[c] = res[c] \/ (PollGet /\ pcell' = c)
  <2>1. ASSUME NEW f \in Goroutines, NEW d \in Cells, NEW k \in Kinds, Arm(f, d, k) PROVE res'[c] = res[c]
    BY <1>t, <1>2, <2>1 DEF Arm, TypeOK
  <2>2. ASSUME ~Start, ~PollGet PROVE UNCHANGED res
    BY <2>2 DEF Next, Go, HandOver, AddDirect, Park, ReadResult, PutCell, FallbackLoop, AddHanded,
      Dispatch, Push, PushFails, AbortDone, AbortReady, Poll, PollTake, PollWait, PollWaited,
      PollInterrupted, PollUnknown, PollDone, PollReady, PollPut, PollDel, Kernel, Answer,
      cellVars
  <2>3. ASSUME PollGet, pcell' # c PROVE res'[c] = res[c]
    BY <1>t, <2>3 DEF PollGet, TypeOK
  <2> QED
    BY <2>1, <2>2, <2>3 DEF Start
<1>5. PollGet => pcell' # c \/ op[c] \in aborted
  BY <1>1, GetAnswers DEF Settled
<1>6. ~Polled(c)'
  <2>1. Polled(c)' => resp \in Unanswered /\ op[c] = resp.res /\ resp.res \notin aborted
    BY <1>1, PolledStep, GetAnswers DEF Settled
  <2> QED
    BY <1>1, <2>1 DEF Settled, Polled
<1>7. c \notin handed' /\ dispatch'.cell # c
  <2> USE <1>t, <1>1 DEF Settled, slotVars
  <2>1. ASSUME NEW f \in Goroutines, HandOver(f) PROVE c \notin handed' /\ dispatch'.cell # c
    BY <2>1 DEF HandOver, CellsInv, OwnerInv, Answered
  <2>2. ASSUME NEW f \in Goroutines, NEW i \in Idx, AddDirect(f, i)
        PROVE  c \notin handed' /\ dispatch'.cell # c
    BY <2>2 DEF AddDirect, AddSlot, CellsInv, OwnerInv, Answered
  <2>3. ASSUME NEW d \in handed, NEW i \in Idx, AddHanded(d, i)
        PROVE  c \notin handed' /\ dispatch'.cell # c
    BY <2>3 DEF AddHanded, AddSlot
  <2>4. ASSUME Dispatch PROVE c \notin handed' /\ dispatch'.cell # c
    BY <2>4 DEF Dispatch, Push, PushFails, AbortDone, AbortReady, NoDispatch, TypeOK
  <2>5. ASSUME \A f \in Goroutines : ~HandOver(f) /\ \A i \in Idx : ~AddDirect(f, i),
               ~FallbackLoop, ~Dispatch
        PROVE  UNCHANGED <<handed, dispatch>>
    BY <2>5 DEF Next, Start, Arm, Go, Park, ReadResult, PutCell, Poll, PollTake, PollWait, PollWaited,
      PollInterrupted, PollUnknown, PollGet, PollDone, PollReady, PollPut, PollDel, Kernel, Answer
  <2> QED
    BY <2>1, <2>2, <2>3, <2>4, <2>5 DEF FallbackLoop
<1>8. (\A e \in Unanswered : e.res # op[c]) => \A e \in Unanswered' : e.res # op[c]
  <2>1. CASE Unanswered' \subseteq Unanswered
    BY <2>1
  <2>2. CASE Push \/ PushFails
    <3>1. dispatch.cell \in Cells /\ op[dispatch.cell] # op[c]
      BY <1>t, <1>1, <2>2, DispatchCell DEF Push, PushFails, NumbersInv, HasCellInv, Settled
    <3> QED
      BY <2>2, <3>1, UnansweredPush
  <2> QED
    BY <2>1, <2>2, UnansweredStep
<1> QED
  BY <1>1, <1>3, <1>4, <1>5, <1>6, <1>7, <1>8, AbortedStep DEF Settled, Polled

\* Whoever is awake, or will not sleep, has a settled cell.
LEMMA SettledStep ==
  ASSUME Sound, Next, ~misled'
  PROVE  SettledInv'
<1> SUFFICES ASSUME NEW g \in Goroutines, Answered(g)', ~Answered(g)
             PROVE  \E c \in Cells : c = cellOf'[g] /\ Settled(c)'
  <2>1. ASSUME NEW g \in Goroutines, Answered(g) PROVE \E c \in Cells : c = cellOf'[g] /\ Settled(c)'
    <3>1. cellOf[g] \in Cells
      BY <2>1 DEF Sound, HasCellInv, Answered
    <3>2. PICK c \in Cells : c = cellOf[g]
      BY <3>1
    <3> QED
      BY <2>1, <3>2, SettledKept
  <2> QED
    BY <2>1 DEF SettledInv, Answered, Settled, Polled
<1>t. TypeOK /\ HasCellInv /\ NumbersInv /\ CellsInv
  BY DEF Sound
<1> USE DEF cellVars, goVars, slotVars, kernelVars, pollVars, ghostVars, Goto, Put
<1>1. ASSUME NEW f \in Goroutines, NEW c \in Cells, NEW k \in Kinds, Arm(f, c, k) PROVE FALSE
  <2>1. \A h \in Goroutines : pc[h] # "idle" => cellOf[h] # c
    BY <1>t, <1>1 DEF Arm, CellsInv, OwnerInv
  <2> QED
    BY <1>t, <1>1, <2>1 DEF Arm, TypeOK, Answered
<1>2. ASSUME NEW f \in Goroutines, HandOver(f) PROVE FALSE
  BY <1>t, <1>2 DEF HandOver, AfterSubmit, Answered, TypeOK, CellsInv, SubmitInv
<1>3. ASSUME NEW f \in Goroutines, NEW i \in Idx, AddDirect(f, i) PROVE FALSE
  BY <1>t, <1>3 DEF AddDirect, Answered, TypeOK
<1>4. ASSUME NEW f \in Goroutines, Park(f) PROVE FALSE
  <2>1. f # g => cellOf[f] # cellOf[g] \/ pc[g] = "idle"
    BY <1>t, <1>4 DEF Park, CellsInv, OwnerInv
  <2> QED
    BY <1>t, <1>4, <2>1 DEF Park, Answered, TypeOK, HasCellInv
<1>5. ASSUME NEW f \in Goroutines, ReadResult(f) \/ PutCell(f) PROVE FALSE
  BY <1>t, <1>5 DEF ReadResult, PutCell, Answered, TypeOK
<1>6. ASSUME NEW c \in handed, NEW i \in Idx, AddHanded(c, i) PROVE FALSE
  BY <1>6 DEF AddHanded, Answered
<1>d. pc[g] = "dispatch" => /\ dispatch.cell = cellOf[g] /\ dispatch.cell \in Cells
                            /\ owner[dispatch.cell] = g
  BY <1>t DEF HasCellInv, CellsInv, OwnerInv
<1>7. ASSUME Push PROVE FALSE
  <2>1. pc[g] = "dispatch" /\ pc'[g] = "park" /\ opCode[cellOf[g]] = "park"
    <3>1. pc'[g] = Returned(g) /\ UNCHANGED <<cellOf, taskState>>
      BY <1>7 DEF Push
    <3>2. pc[g] = "dispatch" /\ pc'[g] = AfterSubmit(cellOf[g])
      BY <3>1 DEF Returned, Answered
    <3> QED
      BY <1>t, <1>d, <3>2 DEF AfterSubmit, Answered, TypeOK, Kinds
  <2>2. taskState[cellOf[g]] = "InCore"
    BY <1>t, <1>d, <2>1 DEF CellsInv, DispatchInv, Waiting, Dispatching, TypeOK
  <2> QED
    BY <1>7, <2>1, <2>2 DEF Push, Answered
<1>8. ASSUME PushFails \/ Kernel PROVE FALSE
  BY <1>8 DEF PushFails, Kernel, Answer, Answered
<1>9. ASSUME AbortDone \/ AbortReady PROVE \E c \in Cells : c = cellOf'[g] /\ Settled(c)'
  <2>1. PICK c \in Cells : c = dispatch.cell
    BY <1>t, <1>9, DispatchCell DEF AbortDone, AbortReady, NoDispatch
  <2>2. dispatch.failed /\ op[c] \in aborted /\ ~Polled(c) /\ c \notin handed /\ (Waiting(c) \/ Dispatching(c))
    BY <1>t, <1>9, <2>1 DEF AbortDone, AbortReady, CellsInv, DispatchInv, HandedInv, TypeOK
  <2>3. Settled(c)'
    BY <1>9, <2>2 DEF AbortDone, AbortReady, Settled, Polled, NoDispatch
  <2>4. CASE AbortDone
    <3>1. cellOf[g] = c
      BY <1>t, <1>d, <2>1, <2>4 DEF AbortDone, Returned, AfterSubmit, Answered, TypeOK
    <3> QED
      BY <2>3, <2>4, <3>1 DEF AbortDone
  <2>5. CASE AbortReady
    <3>1. Waiting(c)
      BY <2>1, <2>2, <2>5 DEF AbortReady, Dispatching
    <3>2. g = owner[c]
      BY <1>t, <1>d, <2>1, <2>5, <3>1 DEF AbortReady, Returned, Answered, Waiting, TypeOK
    <3> QED
      BY <2>3, <2>5, <3>1, <3>2 DEF AbortReady, Waiting
  <2> QED
    BY <1>9, <2>4, <2>5
<1>10. ASSUME PollTake \/ PollWait \/ PollWaited \/ PollInterrupted \/ PollUnknown \/ PollGet \/ PollPut \/ PollDel
       PROVE  FALSE
  BY <1>10 DEF PollTake, PollWait, PollWaited, PollInterrupted, PollUnknown, PollGet, PollPut, PollDel, Answered
<1>11. ASSUME PollDone \/ PollReady PROVE \E c \in Cells : c = cellOf'[g] /\ Settled(c)'
  <2>1. PICK c \in Cells : c = pcell
    BY <1>t, <1>11 DEF PollDone, PollReady, HasCellInv
  <2>2. Fresh(c) /\ Waiting(c) /\ res[c] = op[c] /\ c \notin handed /\ dispatch.cell # c
    BY <1>t, <1>11, <2>1 DEF PollDone, PollReady, CellsInv, PolledInv, HandedInv, DispatchInv, Polled, TypeOK
  <2>3. Unanswered' \subseteq Unanswered
    BY <1>11, UnansweredLess DEF PollDone, PollReady
  <2>4. Settled(c)'
    BY <1>11, <2>2, <2>3 DEF PollDone, PollReady, Settled, Polled, Fresh
  <2>5. CASE PollDone
    <3>1. cellOf[g] = c
      BY <1>t, <2>1, <2>5 DEF PollDone, Answered, TypeOK
    <3> QED
      BY <2>4, <2>5, <3>1 DEF PollDone
  <2>6. CASE PollReady
    <3>1. g = owner[c]
      BY <1>t, <2>1, <2>6 DEF PollReady, Answered, TypeOK
    <3> QED
      BY <2>2, <2>4, <2>6, <3>1 DEF PollReady, Waiting
  <2> QED
    BY <1>11, <2>5, <2>6
<1> QED
  BY <1>1, <1>2, <1>3, <1>4, <1>5, <1>6, <1>7, <1>8, <1>9, <1>10, <1>11
     DEF Next, Start, Go, FallbackLoop, Dispatch, Poll

\* What a goroutine returned is its own answer.
LEMMA ResultStep ==
  ASSUME Sound, Next
  PROVE  ResultInv'
<1>t. TypeOK /\ HasCellInv /\ NumbersInv /\ CellsInv
  BY DEF Sound
<1>a. aborted \subseteq aborted'
  BY AbortedStep
<1> USE <1>t, <1>a DEF ResultInv, CellsInv, TypeOK, goVars, Goto
<1>1. ASSUME NEW g \in Goroutines, NEW c \in Cells, NEW k \in Kinds, Arm(g, c, k) PROVE ResultInv'
  BY <1>1 DEF Arm
<1>2. ASSUME NEW g \in Goroutines, HandOver(g) PROVE ResultInv'
  BY <1>2 DEF HandOver, AfterSubmit
<1>3. ASSUME NEW g \in Goroutines, NEW i \in Idx, AddDirect(g, i) PROVE ResultInv'
  BY <1>3 DEF AddDirect
<1>4. ASSUME NEW g \in Goroutines, Park(g) PROVE ResultInv'
  BY <1>4 DEF Park
<1>5. ASSUME NEW g \in Goroutines, ReadResult(g) PROVE ResultInv'
  <2>1. op[cellOf[g]] = mine[g] /\ (res[cellOf[g]] = op[cellOf[g]] \/ op[cellOf[g]] \in aborted)
    BY <1>5 DEF ReadResult, OwnerInv, SettledInv, Settled
  <2> QED
    BY <1>5, <2>1 DEF ReadResult
<1>6. ASSUME NEW g \in Goroutines, PutCell(g) PROVE ResultInv'
  BY <1>6 DEF PutCell
<1>7. CASE Push
  BY <1>7 DEF Push, Returned, AfterSubmit
<1>8. CASE AbortDone
  BY <1>8 DEF AbortDone, Returned, AfterSubmit
<1>9. CASE AbortReady
  BY <1>9 DEF AbortReady, Returned, AfterSubmit
<1>10. CASE PollReady
  BY <1>10 DEF PollReady
<1>11. ASSUME UNCHANGED <<pc, got, mine>> PROVE ResultInv'
  BY <1>11
<1>12. ASSUME FallbackLoop \/ Kernel \/ PushFails \/ (Poll /\ ~PollReady) PROVE UNCHANGED <<pc, got, mine>>
  BY <1>12 DEF FallbackLoop, AddHanded, Kernel, Answer, PushFails, Poll, PollTake, PollWait, PollWaited,
    PollInterrupted, PollUnknown, PollGet, PollDone, PollPut, PollDel
<1> QED
  BY <1>1, <1>2, <1>3, <1>4, <1>5, <1>6, <1>7, <1>8, <1>9, <1>10, <1>11, <1>12
     DEF Next, Start, Go, Dispatch

\* No operation is with the kernel, or answered, twice.
LEMMA OnceStep ==
  ASSUME Sound, Next
  PROVE  OnceInv'
<1>t. TypeOK /\ HasCellInv /\ NumbersInv /\ CellsInv
  BY DEF Sound
<1>u. \A e : e \in flight \/ (\E i \in DOMAIN cq : e = cq[i]) => e \in Unanswered
  BY DEF Unanswered
<1>c. cq \in Seq(CQE) /\ Len(cq) \in Nat /\ DOMAIN cq = 1 .. Len(cq)
  BY <1>t DEF TypeOK
<1> USE DEF OnceInv
<1>1. CASE Push \/ PushFails
  <2>1. PICK n, e : n = op[dispatch.cell] /\ e = [idx |-> dispatch.idx, res |-> n]
    OBVIOUS
  <2>2. flight' = flight \cup {e} /\ UNCHANGED <<cq, poller, resp>> /\ e.res = n
    BY <1>1, <2>1 DEF Push, PushFails, Publish, pollVars
  <2>3. n # 0 /\ \A f \in Unanswered : f.res # n
    BY <1>t, <1>1, <2>1, DispatchCell DEF Push, PushFails, CellsInv, DispatchInv, Fresh, HasCellInv
  <2>4. poller = "get" => resp.res # n
    BY <2>3 DEF Unanswered, ZeroCQE
  <2> QED
    BY <1>t, <1>u, <2>2, <2>3, <2>4 DEF CellsInv
<1>2. ASSUME NEW e \in flight, Answer(e) PROVE OnceInv'
  <2>1. flight' = flight \ {e} /\ cq' = Append(cq, e) /\ UNCHANGED <<poller, resp>> /\ e \in CQE
    BY <1>t, <1>2 DEF Answer, pollVars, TypeOK
  <2>2. /\ DOMAIN cq' = 1 .. Len(cq) + 1 /\ cq'[Len(cq) + 1] = e
        /\ \A i \in 1 .. Len(cq) : cq'[i] = cq[i]
    BY <1>c, <2>1
  <2>3. \A i \in DOMAIN cq' : (i \in DOMAIN cq /\ cq'[i] = cq[i]) \/ (i = Len(cq) + 1 /\ cq'[i] = e)
    <3>1. 1 .. Len(cq) + 1 = (1 .. Len(cq)) \cup {Len(cq) + 1}
      BY <1>c
    <3>2. DOMAIN cq = 1 .. Len(cq)
      BY <1>c
    <3> QED
      BY <2>2, <3>1, <3>2, Zenon
  <2>4. \A i \in DOMAIN cq : cq[i].res # e.res
    BY <1>t, <1>2 DEF CellsInv
  <2>5. \A f \in flight' : f \in flight /\ f.res # e.res
    BY <1>t, <1>2, <2>1 DEF CellsInv
  <2>6. \A i, j \in DOMAIN cq' : cq'[i].res = cq'[j].res => i = j
    BY <1>t, <2>3, <2>4 DEF CellsInv
  <2>7. \A f \in flight', i \in DOMAIN cq' : f.res # cq'[i].res
    BY <1>t, <2>3, <2>5 DEF CellsInv
  <2>8. poller' = "get" => /\ \A f \in flight' : f.res # resp'.res
                          /\ \A i \in DOMAIN cq' : cq'[i].res # resp'.res
    BY <1>t, <1>2, <2>1, <2>3, <2>5 DEF CellsInv
  <2> QED
    BY <1>t, <2>5, <2>6, <2>7, <2>8 DEF CellsInv
<1>3. CASE PollTake
  <2>1. UNCHANGED flight /\ cq # << >> /\ resp' = Head(cq) /\ cq' = Tail(cq)
    BY <1>3 DEF PollTake
  <2>2. /\ DOMAIN cq' = 1 .. Len(cq) - 1 /\ resp' = cq[1] /\ 1 \in DOMAIN cq
        /\ \A i \in DOMAIN cq' : cq'[i] = cq[i + 1]
    BY <1>c, <2>1
  <2>3. \A i \in DOMAIN cq' : i + 1 \in DOMAIN cq /\ i + 1 # 1
    BY <1>c, <2>2
  <2>4. \A i, j \in DOMAIN cq' : i + 1 = j + 1 => i = j
    BY <1>c, <2>2
  <2> QED
    BY <1>t, <2>1, <2>2, <2>3, <2>4 DEF CellsInv
<1>4. CASE PollWait
  BY <1>t, <1>4 DEF PollWait, CellsInv, kernelVars
<1>5. CASE PollWaited
  <2>1. resp.res = 0 /\ \A e \in Unanswered : e.res # 0
    BY <1>t, <1>5 DEF PollWaited, HasCellInv, NumbersInv, ZeroCQE
  <2> QED
    BY <1>t, <1>u, <1>5, <2>1 DEF PollWaited, CellsInv, kernelVars
<1>6. ASSUME UNCHANGED <<flight, cq>>, poller' # "get" \/ UNCHANGED <<poller, resp>> PROVE OnceInv'
  BY <1>t, <1>6 DEF CellsInv
<1>7. ASSUME ~Push, ~PushFails, ~Kernel, ~PollTake, ~PollWait, ~PollWaited
      PROVE  UNCHANGED <<flight, cq>> /\ (poller' # "get" \/ UNCHANGED <<poller, resp>>)
  BY <1>7 DEF Next, Start, Arm, Go, HandOver, AddDirect, Park, ReadResult, PutCell, FallbackLoop, AddHanded,
    Dispatch, AbortDone, AbortReady, Poll, PollInterrupted, PollUnknown, PollGet, PollDone, PollReady,
    PollPut, PollDel, kernelVars, pollVars
<1> QED
  BY <1>1, <1>2, <1>3, <1>4, <1>5, <1>6, <1>7 DEF Kernel

(***************************************************************************)
(* The theorems.                                                           *)
(***************************************************************************)

\* The invariant holds in every reachable state.
THEOREM Invariance == Spec => []IInv
<1>1. IInv /\ [Next]_vars => IInv'
  <2> SUFFICES ASSUME IInv, [Next]_vars PROVE IInv'
    OBVIOUS
  <2>1. TypeOK' /\ NumbersInv' /\ HasCellInv'
    BY TypeStep, NumbersStep, HasCellStep DEF IInv
  <2>2. CASE UNCHANGED vars
    BY <2>1, <2>2 DEF IInv, CellsInv, OwnerInv, SubmitInv, HandedInv, DispatchInv, KernelInv, PolledInv,
      DelInv, SettledInv, ResultInv, OnceInv, PoolInv, Polled, Fresh, Waiting, Dispatching, Settled,
      Unanswered, vars, cellVars, goVars, slotVars, kernelVars, pollVars, ghostVars
  <2>3. CASE Next
    <3>1. ~misled' => ~misled
      BY <2>3 DEF Next, Start, Arm, Go, HandOver, AddDirect, Park, ReadResult, PutCell, FallbackLoop,
        AddHanded, Dispatch, Push, PushFails, AbortDone, AbortReady, Poll, PollTake, PollWait, PollWaited,
        PollInterrupted, PollUnknown, PollGet, PollDone, PollReady, PollPut, PollDel, Kernel, Answer, ghostVars
    <3>2. ~misled' => Sound
      BY <3>1 DEF IInv, Sound
    <3>3. ~misled' => CellsInv' /\ ~thrown'
      BY <2>3, <3>2, OwnerStep, SubmitStep, HandedStep, DispatchStep, KernelStep, PollerStep, DelStep,
         SettledStep, ResultStep, OnceStep, PoolStep, ReadyStep DEF CellsInv
    <3> QED
      BY <2>1, <3>3 DEF IInv
  <2> QED
    BY <2>2, <2>3
<1> QED
  BY InitIInv, <1>1, PTL DEF Spec

\* Every goroutine, cell, slot and queue stays in range.
THEOREM TypeCorrect == Spec => []TypeOK
<1>1. IInv => TypeOK
  BY DEF IInv
<1> QED
  BY Invariance, <1>1, PTL

\* "goready: bad g state" cannot happen unless a completion that nobody
\* waits for was dispatched to a cell.
THEOREM Goready == Spec => []GoreadySafeIfAnswered
<1>1. IInv => GoreadySafeIfAnswered
  BY DEF IInv, GoreadySafeIfAnswered
<1> QED
  BY Invariance, <1>1, PTL

\* A method returns the answer to its own operation, however cells and slots
\* are used again.
THEOREM OwnResult == Spec => []ResultIsOwn
<1>1. IInv => ResultIsOwn
  BY DEF IInv, CellsInv, ResultInv, ResultIsOwn
<1> QED
  BY Invariance, <1>1, PTL

\* The slot of an operation that is not answered leads to its cell, which
\* nobody else can take from the pool.
THEOREM NotShared == Spec => []CellsNotShared
<1>1. IInv => CellsNotShared
  BY DEF IInv, CellsInv, KernelInv, PoolInv, CellsNotShared
<1> QED
  BY Invariance, <1>1, PTL
=============================================================================
