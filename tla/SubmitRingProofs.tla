------------------------- MODULE SubmitRingProofs -------------------------
(***************************************************************************)
(* IInv is an invariant of SubmitRing, and with it the exclusive use of    *)
(* dispatch, the bound of the queue and the drained exit, for every finite *)
(* set of calls and every size of the queue and of the channel.  With      *)
(* FifoInv, which says what the entries are, SubmitRing implements         *)
(* SubmitQueue: a step of the code is a step of the queue or none.         *)
(***************************************************************************)
EXTENDS MCSubmitRing, Remainders, FiniteSetTheorems, SequenceTheorems, TLAPS

USE TasksAssumption, SQEntriesAssumption, ChanBufferAssumption,
    MayStopAssumption, NoneAssumption

(***************************************************************************)
(* The invariant holds initially.                                          *)
(***************************************************************************)

\* The state after New satisfies the invariant: every counter is zero and
\* no task has been announced.
LEMMA InitIInv == Init => IInv
<1> SUFFICES ASSUME Init PROVE IInv
  OBVIOUS
<1> USE DEF Init
<1>1. TypeOK
  <2>1. SQ \in [0 .. SQEntries - 1 -> Tasks \cup {None}]
    OBVIOUS
  <2>2. fallbackChan \in Seq(Tasks) /\ taken \in Seq(Tasks \cup {None})
    OBVIOUS
  <2>3. pc \in [Tasks -> SubmitPC] /\ loop \in LoopPC
    BY DEF SubmitPC, LoopPC
  <2>4. barrier \in BarrierType /\ oldBarrier \in BarrierType
    BY DEF BarrierType
  <2>5. tail \in [Tasks -> Nat]
    OBVIOUS
  <2>6. finishedPushes \in Nat /\ ticketTail \in Nat /\ SQTail \in Nat /\ SQHead \in Nat
        /\ M \in Int /\ pushTail \in Nat
    OBVIOUS
  <2>7. stop \in BOOLEAN /\ slots \in SUBSET Tasks /\ task \in Tasks \cup {None}
    OBVIOUS
  <2> HIDE DEF Init
  <2> QED
    BY <2>1, <2>2, <2>3, <2>4, <2>5, <2>6, <2>7 DEF TypeOK
<1>2. Started = {} /\ Pushed = {} /\ Uncounted = {} /\ TicketHolders = {} /\ Dispatching = {}
  BY DEF Started, Pushed, Uncounted, TicketHolders, Dispatching, TicketPC, DispatchPC
<1>3. CountInv
  BY <1>2, FS_EmptySet DEF CountInv
<1>4. TicketInv /\ ModeInv /\ HandInv /\ RoomInv
  BY <1>2 DEF TicketInv, ModeInv, LoopBusy, HandInv, RoomInv, QueueNeverOverflows, DispatchPC
<1>5. LoopInv
  BY <1>2, FS_EmptySet DEF LoopInv, LoopBusy, FinishedNeverAhead, LoopCountPositive, DispatchPC
<1> QED
  BY <1>1, <1>3, <1>4, <1>5 DEF IInv

\* The index Push computes is an index of the queue.
LEMMA SlotIndex == \A n \in Nat : n % SQEntries \in 0 .. SQEntries - 1
  OBVIOUS

(***************************************************************************)
(* Type correctness.                                                       *)
(***************************************************************************)

\* A step of submit, fallbackLoop or the kernel keeps the state well typed.
LEMMA TypeStep == IInv /\ [Next]_vars => TypeOK'
<1> SUFFICES ASSUME TypeOK, HandInv, [Next]_vars PROVE TypeOK'
  BY DEF IInv
<1> USE DEF TypeOK, BarrierType, SubmitPC, LoopPC, TicketPC, DispatchPC,
            Goto, LoopGoto, submitVars, syncVars, queueVars, loopVars
<1>1. ASSUME NEW t \in Tasks, SubmitIntention(t) PROVE TypeOK'
  BY <1>1 DEF SubmitIntention
<1>2. ASSUME NEW t \in Tasks, LoadTicket(t) PROVE TypeOK'
  BY <1>2 DEF LoadTicket
<1>3. ASSUME NEW t \in Tasks, LoadTail(t) PROVE TypeOK'
  BY <1>3 DEF LoadTail
<1>4. ASSUME NEW t \in Tasks, TakeTicket(t) PROVE TypeOK'
  BY <1>4 DEF TakeTicket
<1>4a. ASSUME NEW t \in Tasks, LoseTicket(t) PROVE TypeOK'
  BY <1>4a DEF LoseTicket
<1>5. ASSUME NEW t \in Tasks, RecheckStatus(t) PROVE TypeOK'
  BY <1>5 DEF RecheckStatus
<1>6. ASSUME NEW t \in Tasks, CheckFull(t) PROVE TypeOK'
  BY <1>6 DEF CheckFull
<1>7. ASSUME NEW t \in Tasks, SetFallbackActive(t) PROVE TypeOK'
  BY <1>7 DEF SetFallbackActive
<1>8. ASSUME NEW t \in Tasks, SendToFallback(t) PROVE TypeOK'
  BY <1>8 DEF SendToFallback
<1>9. ASSUME NEW t \in Tasks, RefuseOnStop(t) PROVE TypeOK'
  BY <1>9 DEF RefuseOnStop
<1>10. ASSUME NEW t \in Tasks, SubmitAdd(t) PROVE TypeOK'
  BY <1>10 DEF SubmitAdd
<1>11. ASSUME NEW t \in Tasks, SubmitWrite(t) PROVE TypeOK'
  BY <1>11, SlotIndex DEF SubmitWrite
<1>12. ASSUME NEW t \in Tasks, SubmitPublish(t) PROVE TypeOK'
  BY <1>12 DEF SubmitPublish
<1>13. ASSUME NEW t \in Tasks, CountPush(t) PROVE TypeOK'
  BY <1>13 DEF CountPush
<1>14. CASE LoopReceive
  <2>1. Head(fallbackChan) \in Tasks /\ Tail(fallbackChan) \in Seq(Tasks)
    BY <1>14 DEF LoopReceive
  <2>2. loop' \in LoopPC /\ pc' \in [Tasks -> SubmitPC]
    BY <1>14, <2>1 DEF LoopReceive
  <2>3. /\ task' = Head(fallbackChan) /\ fallbackChan' = Tail(fallbackChan)
        /\ UNCHANGED <<tail, barrier, finishedPushes, ticketTail, stop, slots, SQ, SQTail, SQHead,
                       taken, oldBarrier, M, pushTail>>
    BY <1>14 DEF LoopReceive
  <2> HIDE DEF SubmitPC, LoopPC, BarrierType
  <2> QED
    BY <2>1, <2>2, <2>3
<1>15. CASE LoopSnapshot \/ LoopCountM \/ LoopSpace \/ LoopTicket
  <2>1. CASE LoopSnapshot
    BY <2>1 DEF LoopSnapshot
  <2>2. CASE LoopCountM
    BY <2>2 DEF LoopCountM
  <2>3. CASE LoopSpace
    BY <2>3 DEF LoopSpace
  <2>4. CASE LoopTicket
    BY <2>4 DEF LoopTicket
  <2> QED
    BY <1>15, <2>1, <2>2, <2>3, <2>4
<1>16. CASE LoopAdd
  BY <1>16 DEF LoopAdd, HandInv
<1>17. CASE LoopWrite
  BY <1>17, SlotIndex DEF LoopWrite, HandInv
<1>18. CASE LoopPublish
  BY <1>18 DEF LoopPublish, HandInv
<1>19. CASE LoopDecrement
  BY <1>19 DEF LoopDecrement
<1>20. CASE LoopStore \/ LoopStay \/ LoopLower \/ LoopStopped
  <2>1. CASE LoopStore
    BY <2>1 DEF LoopStore
  <2>2. CASE LoopStay
    BY <2>2 DEF LoopStay
  <2>3. CASE LoopLower
    BY <2>3 DEF LoopLower
  <2>4. CASE LoopStopped
    BY <2>4 DEF LoopStopped
  <2> QED
    BY <1>20, <2>1, <2>2, <2>3, <2>4
<1>21. CASE LoopExit
  BY <1>21 DEF LoopExit
<1>22. CASE DrainAsync
  BY <1>22 DEF DrainAsync
<1>22a. CASE DrainOther
  BY <1>22a DEF DrainOther
<1>23. CASE KernelTake
  <2>1. SQ[SQHead % SQEntries] \in Tasks \cup {None}
    BY SlotIndex
  <2> QED
    BY <1>23, <2>1 DEF KernelTake
<1>24. CASE Stop \/ UNCHANGED vars
  BY <1>24 DEF Stop, vars
<1> QED
  BY <1>1, <1>2, <1>3, <1>4, <1>5, <1>6, <1>7, <1>8, <1>9, <1>10, <1>11, <1>12,
     <1>13, <1>14, <1>15, <1>16, <1>17, <1>18, <1>19, <1>20, <1>21, <1>22,
     <1>4a, <1>22a, <1>23, <1>24 DEF Next, Submit, FallbackLoop

(***************************************************************************)
(* The counters.                                                           *)
(***************************************************************************)

\* The sets the counters count are finite.
LEMMA FiniteSets ==
  /\ IsFiniteSet(Started) /\ IsFiniteSet(Pushed) /\ IsFiniteSet(Uncounted)
  /\ Cardinality(Started) \in Nat /\ Cardinality(Pushed) \in Nat
  /\ Cardinality(Uncounted) \in Nat
<1>1. Started \in SUBSET Tasks /\ Pushed \in SUBSET Tasks /\ Uncounted \in SUBSET Tasks
  BY DEF Started, Pushed, Uncounted
<1>2. IsFiniteSet(Started) /\ IsFiniteSet(Pushed) /\ IsFiniteSet(Uncounted)
  BY <1>1, FS_Subset
<1> QED
  BY <1>2, FS_CardinalityType

\* A task that moves enters and leaves them according to where it goes.
LEMMA Moves ==
  ASSUME TypeOK, NEW t \in Tasks, NEW w \in SubmitPC, Goto(t, w), w # "idle"
  PROVE  /\ Started' = Started \cup {t}
         /\ w \in {"count", "pushed"} => Pushed' = Pushed \cup {t}
         /\ w \notin {"count", "pushed"} => Pushed' = Pushed \ {t}
         /\ w = "count" => Uncounted' = Uncounted \cup {t}
         /\ w # "count" => Uncounted' = Uncounted \ {t}
<1> USE DEF TypeOK, Goto
<1>1. Started' = Started \cup {t}
  BY DEF Started
<1>2. w \in {"count", "pushed"} => Pushed' = Pushed \cup {t}
  BY DEF Pushed
<1>3. w \notin {"count", "pushed"} => Pushed' = Pushed \ {t}
  BY DEF Pushed
<1>4. w = "count" => Uncounted' = Uncounted \cup {t}
  BY DEF Uncounted
<1>5. w # "count" => Uncounted' = Uncounted \ {t}
  BY DEF Uncounted
<1> QED
  BY <1>1, <1>2, <1>3, <1>4, <1>5

\* A move that neither announces a task nor pushes one.
LEMMA QuietMove ==
  ASSUME TypeOK, NEW t \in Tasks, NEW w \in SubmitPC, Goto(t, w),
         pc[t] \notin {"idle", "count", "pushed"}, w \notin {"idle", "count", "pushed"}
  PROVE  Started' = Started /\ Pushed' = Pushed /\ Uncounted' = Uncounted
<1>1. t \in Started /\ t \notin Pushed /\ t \notin Uncounted
  BY DEF Started, Pushed, Uncounted
<1> QED
  BY <1>1, Moves

\* A step of fallbackLoop that moves no task.
LEMMA NoMove ==
  ASSUME UNCHANGED pc
  PROVE  Started' = Started /\ Pushed' = Pushed /\ Uncounted' = Uncounted
  BY DEF Started, Pushed, Uncounted

\* The submitters' steps that move a task without announcing or pushing it.
QuietStep(t) ==
  \/ LoadTicket(t) \/ LoadTail(t) \/ TakeTicket(t) \/ LoseTicket(t)
  \/ RecheckStatus(t) \/ CheckFull(t) \/ SetFallbackActive(t)
  \/ SendToFallback(t) \/ RefuseOnStop(t) \/ SubmitAdd(t) \/ SubmitWrite(t)

\* The steps that receive a task from the channel.
TakesFromChannel == LoopReceive \/ DrainAsync \/ DrainOther

\* The steps that leave every task where it is.
StillStep ==
  \/ LoopSnapshot \/ LoopCountM \/ LoopSpace \/ LoopTicket \/ LoopAdd
  \/ LoopWrite \/ LoopDecrement \/ LoopStore \/ LoopStay \/ LoopExit
  \/ LoopLower \/ LoopStopped \/ KernelTake \/ Stop \/ UNCHANGED vars

\* These steps announce and push nothing.
LEMMA QuietSets ==
  ASSUME IInv, StillStep \/ TakesFromChannel \/ \E t \in Tasks : QuietStep(t)
  PROVE  Started' = Started /\ Pushed' = Pushed /\ Uncounted' = Uncounted
<1> USE DEF IInv
<1>1. CASE StillStep
  <2>1. UNCHANGED pc
    BY <1>1 DEF StillStep, submitVars, vars, LoopSnapshot, LoopCountM, LoopSpace,
       LoopTicket, LoopAdd, LoopWrite, LoopDecrement, LoopStore, LoopStay, LoopExit,
       LoopLower, LoopStopped, KernelTake, Stop
  <2> QED
    BY <2>1, NoMove
<1>2. CASE TakesFromChannel
  <2>1. Head(fallbackChan) \in Tasks /\ pc[Head(fallbackChan)] = "queued"
    BY <1>2 DEF TakesFromChannel, LoopReceive, DrainAsync, DrainOther, TypeOK, HandInv
  <2>2. \E w \in {"held", "woken", "dropped"} : Goto(Head(fallbackChan), w)
    BY <1>2 DEF TakesFromChannel, LoopReceive, DrainAsync, DrainOther
  <2>3. {"held", "woken", "dropped"} \subseteq SubmitPC
    BY DEF SubmitPC
  <2> QED
    BY <2>1, <2>2, <2>3, QuietMove
<1>3. ASSUME NEW t \in Tasks, QuietStep(t)
      PROVE Started' = Started /\ Pushed' = Pushed /\ Uncounted' = Uncounted
  <2> DEFINE W == {"loadTicket", "loadTail", "cas", "restat", "full", "setActive",
                   "chan", "queued", "refused", "add", "write", "publish"}
  <2>1. pc[t] \in W
    BY <1>3 DEF QuietStep, LoadTicket, LoadTail, TakeTicket, LoseTicket, RecheckStatus,
       CheckFull, SetFallbackActive, SendToFallback, RefuseOnStop, SubmitAdd, SubmitWrite
  <2>2. \E w \in W : Goto(t, w)
    BY <1>3 DEF QuietStep, LoadTicket, LoadTail, TakeTicket, LoseTicket, RecheckStatus,
       CheckFull, SetFallbackActive, SendToFallback, RefuseOnStop, SubmitAdd, SubmitWrite
  <2>3. W \subseteq SubmitPC
    BY DEF SubmitPC, TicketPC, DispatchPC
  <2> QED
    BY <2>1, <2>2, <2>3, QuietMove
<1> QED
  BY <1>1, <1>2, <1>3

\* Next, by what its steps do to the counted sets.
LEMMA NextCases ==
  ASSUME [Next]_vars
  PROVE  \/ \E t \in Tasks : SubmitIntention(t) \/ SubmitPublish(t) \/ CountPush(t)
         \/ LoopPublish
         \/ StillStep \/ TakesFromChannel \/ \E t \in Tasks : QuietStep(t)
  BY DEF Next, Submit, FallbackLoop, QuietStep, StillStep, TakesFromChannel

\* The barrier counts the announced tasks and the tail the pushed ones.
LEMMA CountStep == IInv /\ [Next]_vars => CountInv'
<1> SUFFICES ASSUME IInv, [Next]_vars PROVE CountInv'
  OBVIOUS
<1>0. TypeOK /\ CountInv
  BY DEF IInv
<1>1. ASSUME NEW t \in Tasks, SubmitIntention(t) PROVE CountInv'
  <2>1. Started' = Started \cup {t} /\ t \notin Started /\ Pushed' = Pushed
    <3>1. PICK w \in {"chan", "loadTicket"} : Goto(t, w)
      BY <1>1 DEF SubmitIntention
    <3>2. w \in SubmitPC /\ t \notin Pushed /\ t \notin Started
      BY <1>1 DEF SubmitPC, SubmitIntention, Pushed, Started
    <3> QED
      BY <1>0, <3>1, <3>2, Moves
  <2>2. Cardinality(Started') = Cardinality(Started) + 1
    BY <2>1, FiniteSets, FS_AddElement
  <2> QED
    BY <1>0, <1>1, <2>1, <2>2 DEF CountInv, SubmitIntention, queueVars
<1>2. ASSUME NEW t \in Tasks, SubmitPublish(t) PROVE CountInv'
  <2>1. Started' = Started /\ Pushed' = Pushed \cup {t} /\ t \notin Pushed
    <3>1. t \in Started /\ t \notin Pushed
      BY <1>2 DEF SubmitPublish, Started, Pushed
    <3>2. Goto(t, "count") /\ "count" \in SubmitPC
      BY <1>2 DEF SubmitPublish, SubmitPC
    <3> QED
      BY <1>0, <3>1, <3>2, Moves
  <2>2. Cardinality(Pushed') = Cardinality(Pushed) + 1
    BY <2>1, FiniteSets, FS_AddElement
  <2>3. tail[t] = SQTail
    BY <1>2 DEF IInv, TicketInv, TicketHolders, TicketPC, DispatchPC, SubmitPublish
  <2> QED
    BY <1>0, <1>2, <2>1, <2>2, <2>3 DEF CountInv, SubmitPublish, syncVars
<1>3. ASSUME NEW t \in Tasks, CountPush(t) PROVE CountInv'
  <2>1. Started' = Started /\ Pushed' = Pushed
    <3>1. t \in Started /\ t \in Pushed
      BY <1>3 DEF CountPush, Started, Pushed
    <3>2. Goto(t, "pushed") /\ "pushed" \in SubmitPC
      BY <1>3 DEF CountPush, SubmitPC
    <3> QED
      BY <1>0, <3>1, <3>2, Moves
  <2> QED
    BY <1>0, <1>3, <2>1 DEF CountInv, CountPush, queueVars
<1>4. CASE LoopPublish
  <2>1. task \in Tasks /\ pc[task] = "held" /\ pushTail = SQTail
    BY <1>4 DEF IInv, HandInv, RoomInv, LoopPublish, LoopGoto, DispatchPC
  <2>2. Started' = Started /\ Pushed' = Pushed \cup {task} /\ task \notin Pushed
    <3>1. task \in Started /\ task \notin Pushed
      BY <2>1 DEF Started, Pushed
    <3>2. Goto(task, "pushed") /\ "pushed" \in SubmitPC
      BY <1>4 DEF LoopPublish, SubmitPC
    <3> QED
      BY <1>0, <2>1, <3>1, <3>2, Moves
  <2>3. Cardinality(Pushed') = Cardinality(Pushed) + 1
    BY <2>2, FiniteSets, FS_AddElement
  <2> QED
    BY <1>0, <1>4, <2>1, <2>2, <2>3 DEF CountInv, LoopPublish, syncVars
<1>5. ASSUME StillStep \/ TakesFromChannel \/ \E t \in Tasks : QuietStep(t) PROVE CountInv'
  <2>1. Started' = Started /\ Pushed' = Pushed
    BY <1>5, QuietSets
  <2>2. SQTail' = SQTail /\ barrier'.epoch = barrier.epoch
    <3> USE DEF queueVars, syncVars, vars
    <3>1. ASSUME NEW t \in Tasks, QuietStep(t) PROVE SQTail' = SQTail /\ barrier'.epoch = barrier.epoch
      BY <3>1 DEF QuietStep, LoadTicket, LoadTail, TakeTicket, LoseTicket, RecheckStatus,
       CheckFull, SetFallbackActive, SendToFallback, RefuseOnStop, SubmitAdd, SubmitWrite
    <3>2. CASE TakesFromChannel
      BY <3>2 DEF TakesFromChannel, LoopReceive, DrainAsync, DrainOther
    <3>3. CASE StillStep
      BY <3>3 DEF StillStep, LoopSnapshot, LoopCountM, LoopSpace,
       LoopTicket, LoopAdd, LoopWrite, LoopDecrement, LoopStore, LoopStay, LoopExit,
       LoopLower, LoopStopped, KernelTake, Stop
    <3> QED
      BY <1>5, <3>1, <3>2, <3>3
  <2> QED
    BY <1>0, <2>1, <2>2 DEF CountInv
<1> QED
  BY <1>1, <1>2, <1>3, <1>4, <1>5, NextCases

(***************************************************************************)
(* The ticket.                                                             *)
(***************************************************************************)

\* A step leaves at most one holder of the ticket.
LEMMA TicketStep == IInv /\ [Next]_vars => TicketInv'
<1> SUFFICES ASSUME IInv, [Next]_vars PROVE TicketInv'
  OBVIOUS
<1>0. TypeOK /\ TicketInv /\ ModeInv /\ HandInv /\ RoomInv
  BY DEF IInv
<1> USE DEF TicketInv, TicketHolders, ModeInv, LoopBusy, HandInv, RoomInv, TypeOK, BarrierType, Goto, LoopGoto, TicketPC, DispatchPC,
            submitVars, syncVars, queueVars, loopVars
<1>1. ASSUME NEW t \in Tasks, SubmitIntention(t) PROVE TicketInv'
  BY <1>0, <1>1 DEF SubmitIntention
<1>2. ASSUME NEW t \in Tasks, LoadTicket(t) PROVE TicketInv'
  BY <1>0, <1>2 DEF LoadTicket
<1>3. ASSUME NEW t \in Tasks, LoadTail(t) PROVE TicketInv'
  BY <1>0, <1>3 DEF LoadTail
<1>4. ASSUME NEW t \in Tasks, TakeTicket(t) PROVE TicketInv'
  BY <1>0, <1>4 DEF TakeTicket
<1>5. ASSUME NEW t \in Tasks, LoseTicket(t) PROVE TicketInv'
  BY <1>0, <1>5 DEF LoseTicket
<1>6. ASSUME NEW t \in Tasks, RecheckStatus(t) PROVE TicketInv'
  BY <1>0, <1>6 DEF RecheckStatus
<1>7. ASSUME NEW t \in Tasks, CheckFull(t) PROVE TicketInv'
  BY <1>0, <1>7 DEF CheckFull
<1>8. ASSUME NEW t \in Tasks, SetFallbackActive(t) PROVE TicketInv'
  BY <1>0, <1>8 DEF SetFallbackActive
<1>9. ASSUME NEW t \in Tasks, SendToFallback(t) PROVE TicketInv'
  BY <1>0, <1>9 DEF SendToFallback
<1>10. ASSUME NEW t \in Tasks, RefuseOnStop(t) PROVE TicketInv'
  BY <1>0, <1>10 DEF RefuseOnStop
<1>11. ASSUME NEW t \in Tasks, SubmitAdd(t) PROVE TicketInv'
  BY <1>0, <1>11 DEF SubmitAdd
<1>12. ASSUME NEW t \in Tasks, SubmitWrite(t) PROVE TicketInv'
  BY <1>0, <1>12 DEF SubmitWrite
<1>13. ASSUME NEW t \in Tasks, SubmitPublish(t) PROVE TicketInv'
  BY <1>0, <1>13 DEF SubmitPublish
<1>14. ASSUME NEW t \in Tasks, CountPush(t) PROVE TicketInv'
  BY <1>0, <1>14 DEF CountPush
<1>15. CASE LoopReceive
  BY <1>0, <1>15 DEF LoopReceive
<1>16. CASE LoopSnapshot
  BY <1>0, <1>16 DEF LoopSnapshot
<1>17. CASE LoopCountM
  BY <1>0, <1>17 DEF LoopCountM
<1>18. CASE LoopSpace
  BY <1>0, <1>18 DEF LoopSpace
<1>19. CASE LoopTicket
  BY <1>0, <1>19 DEF LoopTicket
<1>20. CASE LoopAdd
  BY <1>0, <1>20 DEF LoopAdd
<1>21. CASE LoopWrite
  BY <1>0, <1>21 DEF LoopWrite
<1>22. CASE LoopPublish
  BY <1>0, <1>22 DEF LoopPublish
<1>23. CASE LoopDecrement
  BY <1>0, <1>23 DEF LoopDecrement
<1>24. CASE LoopStore
  BY <1>0, <1>24 DEF LoopStore
<1>25. CASE LoopStay
  BY <1>0, <1>25 DEF LoopStay
<1>26. CASE LoopExit
  BY <1>0, <1>26 DEF LoopExit
<1>27. CASE LoopLower
  BY <1>0, <1>27 DEF LoopLower
<1>28. CASE LoopStopped
  BY <1>0, <1>28 DEF LoopStopped
<1>29. CASE DrainAsync
  BY <1>0, <1>29 DEF DrainAsync
<1>30. CASE DrainOther
  BY <1>0, <1>30 DEF DrainOther
<1>31. CASE KernelTake
  BY <1>0, <1>31 DEF KernelTake
<1>32. CASE Stop
  BY <1>0, <1>32 DEF Stop
<1>33. CASE UNCHANGED vars
  BY <1>0, <1>33 DEF vars
<1> HIDE DEF TicketInv, TicketHolders, ModeInv, LoopBusy, HandInv, RoomInv, TypeOK, BarrierType, Goto, LoopGoto, TicketPC, DispatchPC,
            submitVars, syncVars, queueVars, loopVars
<1> QED
  BY <1>1, <1>2, <1>3, <1>4, <1>5, <1>6, <1>7, <1>8, <1>9, <1>10, <1>11,
     <1>12, <1>13, <1>14, <1>15, <1>16, <1>17, <1>18, <1>19, <1>20, <1>21, <1>22,
     <1>23, <1>24, <1>25, <1>26, <1>27, <1>28, <1>29, <1>30, <1>31, <1>32, <1>33
     DEF Next, Submit, FallbackLoop

(***************************************************************************)
(* The fallback.                                                           *)
(***************************************************************************)

\* When the CAS of fallbackLoop can succeed, every announced task is pushed:
\* the epoch it compares is the number of announced tasks and at most the
\* number of entries.
LEMMA ExitMeansDrained ==
  ASSUME IInv, loop = "exit", barrier = oldBarrier
  PROVE  Started = Pushed
<1>1. Pushed \in SUBSET Started
  BY DEF Pushed, Started
<1>2. Cardinality(Started) <= Cardinality(Pushed)
  BY FiniteSets DEF IInv, CountInv, LoopInv, TypeOK
<1>3. Cardinality(Started) = Cardinality(Pushed)
  BY <1>1, <1>2, FiniteSets, FS_Subset
<1> QED
  BY <1>1, <1>3, FiniteSets, FS_Subset

\* A step leaves the active bit set as long as anybody uses the fallback.
LEMMA ModeStep == IInv /\ [Next]_vars => ModeInv'
<1> SUFFICES ASSUME IInv, [Next]_vars PROVE ModeInv'
  OBVIOUS
<1>0. TypeOK /\ TicketInv /\ ModeInv /\ HandInv /\ RoomInv
  BY DEF IInv
<1> USE DEF TicketInv, TicketHolders, ModeInv, LoopBusy, HandInv, RoomInv, TypeOK, BarrierType, Goto, LoopGoto, TicketPC, DispatchPC,
            submitVars, syncVars, queueVars, loopVars
<1>1. ASSUME NEW t \in Tasks, SubmitIntention(t) PROVE ModeInv'
  BY <1>0, <1>1 DEF SubmitIntention
<1>2. ASSUME NEW t \in Tasks, LoadTicket(t) PROVE ModeInv'
  BY <1>0, <1>2 DEF LoadTicket
<1>3. ASSUME NEW t \in Tasks, LoadTail(t) PROVE ModeInv'
  BY <1>0, <1>3 DEF LoadTail
<1>4. ASSUME NEW t \in Tasks, TakeTicket(t) PROVE ModeInv'
  BY <1>0, <1>4 DEF TakeTicket
<1>5. ASSUME NEW t \in Tasks, LoseTicket(t) PROVE ModeInv'
  BY <1>0, <1>5 DEF LoseTicket
<1>6. ASSUME NEW t \in Tasks, RecheckStatus(t) PROVE ModeInv'
  BY <1>0, <1>6 DEF RecheckStatus
<1>7. ASSUME NEW t \in Tasks, CheckFull(t) PROVE ModeInv'
  BY <1>0, <1>7 DEF CheckFull
<1>8. ASSUME NEW t \in Tasks, SetFallbackActive(t) PROVE ModeInv'
  BY <1>0, <1>8 DEF SetFallbackActive
<1>9. ASSUME NEW t \in Tasks, SendToFallback(t) PROVE ModeInv'
  BY <1>0, <1>9 DEF SendToFallback
<1>10. ASSUME NEW t \in Tasks, RefuseOnStop(t) PROVE ModeInv'
  BY <1>0, <1>10 DEF RefuseOnStop
<1>11. ASSUME NEW t \in Tasks, SubmitAdd(t) PROVE ModeInv'
  BY <1>0, <1>11 DEF SubmitAdd
<1>12. ASSUME NEW t \in Tasks, SubmitWrite(t) PROVE ModeInv'
  BY <1>0, <1>12 DEF SubmitWrite
<1>13. ASSUME NEW t \in Tasks, SubmitPublish(t) PROVE ModeInv'
  BY <1>0, <1>13 DEF SubmitPublish
<1>14. ASSUME NEW t \in Tasks, CountPush(t) PROVE ModeInv'
  BY <1>0, <1>14 DEF CountPush
<1>15. CASE LoopReceive
  BY <1>0, <1>15 DEF LoopReceive
<1>16. CASE LoopSnapshot
  BY <1>0, <1>16 DEF LoopSnapshot
<1>17. CASE LoopCountM
  BY <1>0, <1>17 DEF LoopCountM
<1>18. CASE LoopSpace
  BY <1>0, <1>18 DEF LoopSpace
<1>19. CASE LoopTicket
  BY <1>0, <1>19 DEF LoopTicket
<1>20. CASE LoopAdd
  BY <1>0, <1>20 DEF LoopAdd
<1>21. CASE LoopWrite
  BY <1>0, <1>21 DEF LoopWrite
<1>22. CASE LoopPublish
  BY <1>0, <1>22 DEF LoopPublish
<1>23. CASE LoopDecrement
  BY <1>0, <1>23 DEF LoopDecrement
<1>24. CASE LoopStore
  BY <1>0, <1>24 DEF LoopStore
<1>25. CASE LoopStay
  BY <1>0, <1>25 DEF LoopStay
<1>26. CASE LoopExit
  <2>1. Started = Pushed
    BY <1>26, ExitMeansDrained DEF LoopExit
  <2>2. \A t \in Tasks : pc[t] \notin {"chan", "queued", "held"}
    BY <2>1 DEF Started, Pushed
  <2> QED
    BY <1>0, <1>26, <2>2 DEF LoopExit
<1>27. CASE LoopLower
  BY <1>0, <1>27 DEF LoopLower
<1>28. CASE LoopStopped
  BY <1>0, <1>28 DEF LoopStopped
<1>29. CASE DrainAsync
  BY <1>0, <1>29 DEF DrainAsync
<1>30. CASE DrainOther
  BY <1>0, <1>30 DEF DrainOther
<1>31. CASE KernelTake
  BY <1>0, <1>31 DEF KernelTake
<1>32. CASE Stop
  BY <1>0, <1>32 DEF Stop
<1>33. CASE UNCHANGED vars
  BY <1>0, <1>33 DEF vars
<1> HIDE DEF TicketInv, TicketHolders, ModeInv, LoopBusy, HandInv, RoomInv, TypeOK, BarrierType, Goto, LoopGoto, TicketPC, DispatchPC,
            submitVars, syncVars, queueVars, loopVars
<1> QED
  BY <1>1, <1>2, <1>3, <1>4, <1>5, <1>6, <1>7, <1>8, <1>9, <1>10, <1>11,
     <1>12, <1>13, <1>14, <1>15, <1>16, <1>17, <1>18, <1>19, <1>20, <1>21, <1>22,
     <1>23, <1>24, <1>25, <1>26, <1>27, <1>28, <1>29, <1>30, <1>31, <1>32, <1>33
     DEF Next, Submit, FallbackLoop

\* The task at the head of the channel waits there, and nowhere behind.
LEMMA HeadOfChannel ==
  ASSUME TypeOK, HandInv, fallbackChan # << >>
  PROVE  /\ Head(fallbackChan) \in Tasks
         /\ pc[Head(fallbackChan)] = "queued"
         /\ \A i \in DOMAIN Tail(fallbackChan) :
              /\ Tail(fallbackChan)[i] \in Tasks
              /\ Tail(fallbackChan)[i] # Head(fallbackChan)
              /\ pc[Tail(fallbackChan)[i]] = "queued"
         /\ \A i, j \in DOMAIN Tail(fallbackChan) :
              Tail(fallbackChan)[i] = Tail(fallbackChan)[j] => i = j
<1>1. fallbackChan \in Seq(Tasks)
  BY DEF TypeOK
<1>2. /\ Head(fallbackChan) = fallbackChan[1]
      /\ 1 \in DOMAIN fallbackChan
      /\ \A i \in DOMAIN Tail(fallbackChan) :
           /\ i \in Nat \ {0}
           /\ i + 1 \in DOMAIN fallbackChan
           /\ Tail(fallbackChan)[i] = fallbackChan[i + 1]
  BY <1>1
<1>3. \A i \in DOMAIN fallbackChan : fallbackChan[i] \in Tasks
  BY <1>1
<1> QED
  BY <1>2, <1>3 DEF HandInv

\* A step leaves each task in at most one place of the channel or in hand.
LEMMA HandStep == IInv /\ [Next]_vars => HandInv'
<1> SUFFICES ASSUME IInv, [Next]_vars PROVE HandInv'
  OBVIOUS
<1>0. TypeOK /\ HandInv
  BY DEF IInv
<1> USE DEF HandInv, TypeOK, BarrierType, Goto, LoopGoto, TicketPC, DispatchPC,
            submitVars, syncVars, queueVars, loopVars
<1>1. ASSUME NEW t \in Tasks, SubmitIntention(t) PROVE HandInv'
  BY <1>0, <1>1 DEF SubmitIntention
<1>2. ASSUME NEW t \in Tasks, LoadTicket(t) PROVE HandInv'
  BY <1>0, <1>2 DEF LoadTicket
<1>3. ASSUME NEW t \in Tasks, LoadTail(t) PROVE HandInv'
  BY <1>0, <1>3 DEF LoadTail
<1>4. ASSUME NEW t \in Tasks, TakeTicket(t) PROVE HandInv'
  BY <1>0, <1>4 DEF TakeTicket
<1>5. ASSUME NEW t \in Tasks, LoseTicket(t) PROVE HandInv'
  BY <1>0, <1>5 DEF LoseTicket
<1>6. ASSUME NEW t \in Tasks, RecheckStatus(t) PROVE HandInv'
  BY <1>0, <1>6 DEF RecheckStatus
<1>7. ASSUME NEW t \in Tasks, CheckFull(t) PROVE HandInv'
  BY <1>0, <1>7 DEF CheckFull
<1>8. ASSUME NEW t \in Tasks, SetFallbackActive(t) PROVE HandInv'
  BY <1>0, <1>8 DEF SetFallbackActive
<1>9. ASSUME NEW t \in Tasks, SendToFallback(t) PROVE HandInv'
  <2>1. /\ fallbackChan' = Append(fallbackChan, t) /\ pc[t] = "chan"
        /\ pc'[t] = "queued" /\ \A u \in Tasks : u # t => pc'[u] = pc[u]
        /\ UNCHANGED <<loop, task>>
    BY <1>0, <1>9 DEF SendToFallback
  <2> DEFINE n == Len(fallbackChan)
  <2>2. /\ n \in Nat /\ DOMAIN fallbackChan = 1 .. n /\ DOMAIN fallbackChan' = 1 .. n + 1
        /\ \A i \in 1 .. n : fallbackChan'[i] = fallbackChan[i] /\ fallbackChan[i] \in Tasks
        /\ fallbackChan'[n + 1] = t
    BY <1>0, <2>1
  <2>3. \A i \in 1 .. n : fallbackChan[i] # t
    BY <1>0, <2>1, <2>2
  <2> HIDE DEF n
  <2>4. \A i \in 1 .. n + 1 : i \in 1 .. n \/ i = n + 1
    BY <2>2
  <2>5. /\ \A i \in DOMAIN fallbackChan' : pc'[fallbackChan'[i]] = "queued"
        /\ \A i, j \in DOMAIN fallbackChan' : fallbackChan'[i] = fallbackChan'[j] => i = j
    BY <1>0, <2>1, <2>2, <2>3, <2>4
  <2> QED
    BY <1>0, <2>1, <2>5
<1>10. ASSUME NEW t \in Tasks, RefuseOnStop(t) PROVE HandInv'
  BY <1>0, <1>10 DEF RefuseOnStop
<1>11. ASSUME NEW t \in Tasks, SubmitAdd(t) PROVE HandInv'
  BY <1>0, <1>11 DEF SubmitAdd
<1>12. ASSUME NEW t \in Tasks, SubmitWrite(t) PROVE HandInv'
  BY <1>0, <1>12 DEF SubmitWrite
<1>13. ASSUME NEW t \in Tasks, SubmitPublish(t) PROVE HandInv'
  BY <1>0, <1>13 DEF SubmitPublish
<1>14. ASSUME NEW t \in Tasks, CountPush(t) PROVE HandInv'
  BY <1>0, <1>14 DEF CountPush
<1>15. CASE LoopReceive
  BY <1>0, <1>15, HeadOfChannel DEF LoopReceive
<1>16. CASE LoopSnapshot
  BY <1>0, <1>16 DEF LoopSnapshot
<1>17. CASE LoopCountM
  BY <1>0, <1>17 DEF LoopCountM
<1>18. CASE LoopSpace
  BY <1>0, <1>18 DEF LoopSpace
<1>19. CASE LoopTicket
  BY <1>0, <1>19 DEF LoopTicket
<1>20. CASE LoopAdd
  BY <1>0, <1>20 DEF LoopAdd
<1>21. CASE LoopWrite
  BY <1>0, <1>21 DEF LoopWrite
<1>22. CASE LoopPublish
  BY <1>0, <1>22 DEF LoopPublish
<1>23. CASE LoopDecrement
  BY <1>0, <1>23 DEF LoopDecrement
<1>24. CASE LoopStore
  BY <1>0, <1>24 DEF LoopStore
<1>25. CASE LoopStay
  BY <1>0, <1>25 DEF LoopStay
<1>26. CASE LoopExit
  BY <1>0, <1>26 DEF LoopExit
<1>27. CASE LoopLower
  BY <1>0, <1>27 DEF LoopLower
<1>28. CASE LoopStopped
  BY <1>0, <1>28 DEF LoopStopped
<1>29. CASE DrainAsync
  BY <1>0, <1>29, HeadOfChannel DEF DrainAsync
<1>30. CASE DrainOther
  BY <1>0, <1>30, HeadOfChannel DEF DrainOther
<1>31. CASE KernelTake
  BY <1>0, <1>31 DEF KernelTake
<1>32. CASE Stop
  BY <1>0, <1>32 DEF Stop
<1>33. CASE UNCHANGED vars
  BY <1>0, <1>33 DEF vars
<1> HIDE DEF HandInv, TypeOK, BarrierType, Goto, LoopGoto, TicketPC, DispatchPC,
            submitVars, syncVars, queueVars, loopVars
<1> QED
  BY <1>1, <1>2, <1>3, <1>4, <1>5, <1>6, <1>7, <1>8, <1>9, <1>10, <1>11,
     <1>12, <1>13, <1>14, <1>15, <1>16, <1>17, <1>18, <1>19, <1>20, <1>21, <1>22,
     <1>23, <1>24, <1>25, <1>26, <1>27, <1>28, <1>29, <1>30, <1>31, <1>32, <1>33
     DEF Next, Submit, FallbackLoop

(***************************************************************************)
(* The room in the queue.                                                  *)
(***************************************************************************)

\* A step never takes the queue past its size.
LEMMA RoomStep == IInv /\ [Next]_vars => RoomInv'
<1> SUFFICES ASSUME IInv, [Next]_vars PROVE RoomInv'
  OBVIOUS
<1>0. TypeOK /\ TicketInv /\ ModeInv /\ HandInv /\ RoomInv
  BY DEF IInv
<1> USE DEF TicketInv, TicketHolders, ModeInv, LoopBusy, HandInv, RoomInv,
            QueueNeverOverflows, Dispatching, TypeOK, BarrierType, Goto, LoopGoto, TicketPC, DispatchPC,
            submitVars, syncVars, queueVars, loopVars
<1>1. ASSUME NEW t \in Tasks, SubmitIntention(t) PROVE RoomInv'
  BY <1>0, <1>1 DEF SubmitIntention
<1>2. ASSUME NEW t \in Tasks, LoadTicket(t) PROVE RoomInv'
  BY <1>0, <1>2 DEF LoadTicket
<1>3. ASSUME NEW t \in Tasks, LoadTail(t) PROVE RoomInv'
  BY <1>0, <1>3 DEF LoadTail
<1>4. ASSUME NEW t \in Tasks, TakeTicket(t) PROVE RoomInv'
  BY <1>0, <1>4 DEF TakeTicket
<1>5. ASSUME NEW t \in Tasks, LoseTicket(t) PROVE RoomInv'
  BY <1>0, <1>5 DEF LoseTicket
<1>6. ASSUME NEW t \in Tasks, RecheckStatus(t) PROVE RoomInv'
  BY <1>0, <1>6 DEF RecheckStatus
<1>7. ASSUME NEW t \in Tasks, CheckFull(t) PROVE RoomInv'
  BY <1>0, <1>7 DEF CheckFull
<1>8. ASSUME NEW t \in Tasks, SetFallbackActive(t) PROVE RoomInv'
  BY <1>0, <1>8 DEF SetFallbackActive
<1>9. ASSUME NEW t \in Tasks, SendToFallback(t) PROVE RoomInv'
  BY <1>0, <1>9 DEF SendToFallback
<1>10. ASSUME NEW t \in Tasks, RefuseOnStop(t) PROVE RoomInv'
  BY <1>0, <1>10 DEF RefuseOnStop
<1>11. ASSUME NEW t \in Tasks, SubmitAdd(t) PROVE RoomInv'
  BY <1>0, <1>11 DEF SubmitAdd
<1>12. ASSUME NEW t \in Tasks, SubmitWrite(t) PROVE RoomInv'
  BY <1>0, <1>12 DEF SubmitWrite
<1>13. ASSUME NEW t \in Tasks, SubmitPublish(t) PROVE RoomInv'
  BY <1>0, <1>13 DEF SubmitPublish
<1>14. ASSUME NEW t \in Tasks, CountPush(t) PROVE RoomInv'
  BY <1>0, <1>14 DEF CountPush
<1>15. CASE LoopReceive
  BY <1>0, <1>15 DEF LoopReceive
<1>16. CASE LoopSnapshot
  BY <1>0, <1>16 DEF LoopSnapshot
<1>17. CASE LoopCountM
  BY <1>0, <1>17 DEF LoopCountM
<1>18. CASE LoopSpace
  BY <1>0, <1>18 DEF LoopSpace
<1>19. CASE LoopTicket
  BY <1>0, <1>19 DEF LoopTicket
<1>20. CASE LoopAdd
  BY <1>0, <1>20 DEF LoopAdd
<1>21. CASE LoopWrite
  BY <1>0, <1>21 DEF LoopWrite
<1>22. CASE LoopPublish
  BY <1>0, <1>22 DEF LoopPublish
<1>23. CASE LoopDecrement
  BY <1>0, <1>23 DEF LoopDecrement
<1>24. CASE LoopStore
  BY <1>0, <1>24 DEF LoopStore
<1>25. CASE LoopStay
  BY <1>0, <1>25 DEF LoopStay
<1>26. CASE LoopExit
  BY <1>0, <1>26 DEF LoopExit
<1>27. CASE LoopLower
  BY <1>0, <1>27 DEF LoopLower
<1>28. CASE LoopStopped
  BY <1>0, <1>28 DEF LoopStopped
<1>29. CASE DrainAsync
  BY <1>0, <1>29 DEF DrainAsync
<1>30. CASE DrainOther
  BY <1>0, <1>30 DEF DrainOther
<1>31. CASE KernelTake
  <2>1. SQHead < SQTail /\ SQHead' = SQHead + 1 /\ UNCHANGED <<pc, SQTail, loop, pushTail>>
    BY <1>31 DEF KernelTake
  <2> QED
    BY <1>0, <2>1
<1>32. CASE Stop
  BY <1>0, <1>32 DEF Stop
<1>33. CASE UNCHANGED vars
  BY <1>0, <1>33 DEF vars
<1> HIDE DEF TicketInv, TicketHolders, ModeInv, LoopBusy, HandInv, RoomInv,
            QueueNeverOverflows, Dispatching, TypeOK, BarrierType, Goto, LoopGoto, TicketPC, DispatchPC,
            submitVars, syncVars, queueVars, loopVars
<1> QED
  BY <1>1, <1>2, <1>3, <1>4, <1>5, <1>6, <1>7, <1>8, <1>9, <1>10, <1>11,
     <1>12, <1>13, <1>14, <1>15, <1>16, <1>17, <1>18, <1>19, <1>20, <1>21, <1>22,
     <1>23, <1>24, <1>25, <1>26, <1>27, <1>28, <1>29, <1>30, <1>31, <1>32, <1>33
     DEF Next, Submit, FallbackLoop

(***************************************************************************)
(* The count of pushes.                                                    *)
(***************************************************************************)

\* When fallbackLoop has a task in hand, fewer tasks are pushed than announced.
LEMMA HeldIsNotPushed ==
  ASSUME IInv, loop = "snapshot"
  PROVE  SQTail < barrier.epoch
<1>1. Pushed \in SUBSET Started
  BY DEF Pushed, Started
<1>2. task \in Started \ Pushed
  BY DEF IInv, HandInv, Started, Pushed
<1>3. Cardinality(Pushed) <= Cardinality(Started) /\ Cardinality(Pushed) # Cardinality(Started)
  BY <1>1, <1>2, FiniteSets, FS_Subset
<1> QED
  BY <1>3, FiniteSets DEF IInv, CountInv

\* A step never lets finishedPushes run ahead of the queue, nor fallbackLoop
\* stop pushing too early.
LEMMA LoopStep == IInv /\ [Next]_vars => LoopInv'
<1> SUFFICES ASSUME IInv, [Next]_vars PROVE LoopInv'
  OBVIOUS
<1>0. TypeOK /\ TicketInv /\ ModeInv /\ HandInv /\ RoomInv /\ LoopInv
  BY DEF IInv
<1> DEFINE U == Cardinality(Uncounted)
<1>u. U \in Nat
  BY FiniteSets
<1> HIDE DEF U
<1>l. LoopInv <=> /\ loop # "drain" => finishedPushes + U <= SQTail
                  /\ LoopBusy /\ loop \notin {"snapshot", "again"} => oldBarrier.active
                  /\ loop = "countM" => SQTail < oldBarrier.epoch
                  /\ loop \in {"space", "ticket", "next", "dec"} \cup DispatchPC => M > 0
                  /\ loop \in {"space", "ticket", "next"} \cup DispatchPC
                       => oldBarrier.epoch + U <= SQTail + M
                  /\ loop = "dec" => oldBarrier.epoch + U < SQTail + M
                  /\ loop \in {"store", "exit"} => oldBarrier.epoch + U <= SQTail
  BY DEF LoopInv, FinishedNeverAhead, LoopCountPositive, U
<1>m. LoopInv' <=> /\ loop' # "drain" => finishedPushes' + U' <= SQTail'
                   /\ LoopBusy' /\ loop' \notin {"snapshot", "again"} => oldBarrier'.active
                   /\ loop' = "countM" => SQTail' < oldBarrier'.epoch
                   /\ loop' \in {"space", "ticket", "next", "dec"} \cup DispatchPC => M' > 0
                   /\ loop' \in {"space", "ticket", "next"} \cup DispatchPC
                        => oldBarrier'.epoch + U' <= SQTail' + M'
                   /\ loop' = "dec" => oldBarrier'.epoch + U' < SQTail' + M'
                   /\ loop' \in {"store", "exit"} => oldBarrier'.epoch + U' <= SQTail'
  BY DEF LoopInv, FinishedNeverAhead, LoopCountPositive, U
<1> USE DEF LoopBusy, TypeOK, BarrierType, LoopGoto, DispatchPC,
            submitVars, syncVars, queueVars, loopVars
<1>1. ASSUME NEW t \in Tasks, SubmitIntention(t) PROVE LoopInv'
  <2>1. PICK w \in {"chan", "loadTicket"} : Goto(t, w)
    BY <1>1 DEF SubmitIntention
  <2>2. w \in SubmitPC /\ t \notin Uncounted
    BY <1>1 DEF SubmitPC, SubmitIntention, Uncounted
  <2>3. Uncounted' = Uncounted
    <3> HIDE DEF TypeOK
    <3> QED
      BY <1>0, <2>1, <2>2, Moves
  <2>4. U' = U
    BY <2>3 DEF U
  <2> QED
    BY <1>0, <1>u, <1>l, <1>m, <1>1, <2>4 DEF SubmitIntention
<1>2. ASSUME NEW t \in Tasks, SubmitPublish(t) PROVE LoopInv'
  <2>1. loop \in {"recv", "drain"} /\ tail[t] = SQTail
    BY <1>0, <1>2 DEF SubmitPublish, TicketInv, TicketHolders, TicketPC
  <2>2. Goto(t, "count") /\ "count" \in SubmitPC /\ t \notin Uncounted
    BY <1>2 DEF SubmitPublish, SubmitPC, Uncounted
  <2>3. Uncounted' = Uncounted \cup {t}
    BY <1>0, <2>2, Moves
  <2>4. U' = U + 1
    BY <2>2, <2>3, FiniteSets, FS_AddElement DEF U
  <2> QED
    BY <1>0, <1>u, <1>l, <1>m, <1>2, <2>1, <2>4 DEF SubmitPublish
<1>3. ASSUME NEW t \in Tasks, CountPush(t) PROVE LoopInv'
  <2>1. Goto(t, "pushed") /\ "pushed" \in SubmitPC /\ t \in Uncounted
    BY <1>3 DEF CountPush, SubmitPC, Uncounted
  <2>2. Uncounted' = Uncounted \ {t}
    BY <1>0, <2>1, Moves
  <2>3. U' = U - 1
    BY <2>1, <2>2, FiniteSets, FS_RemoveElement DEF U
  <2> QED
    BY <1>0, <1>u, <1>l, <1>m, <1>3, <2>3 DEF CountPush
<1>4. CASE LoopPublish
  <2>1. task \in Tasks /\ pc[task] = "held" /\ pushTail = SQTail
    BY <1>0, <1>4 DEF HandInv, RoomInv, LoopPublish
  <2>2. Goto(task, "pushed") /\ "pushed" \in SubmitPC /\ task \notin Uncounted
    BY <1>4, <2>1 DEF LoopPublish, SubmitPC, Uncounted
  <2>3. Uncounted' = Uncounted
    <3> HIDE DEF TypeOK
    <3> QED
      BY <1>0, <2>1, <2>2, Moves
  <2>4. U' = U
    BY <2>3 DEF U
  <2> QED
    BY <1>0, <1>u, <1>l, <1>m, <1>4, <2>1, <2>4 DEF LoopPublish
<1>5. ASSUME StillStep \/ TakesFromChannel \/ \E t \in Tasks : QuietStep(t) PROVE LoopInv'
  <2>1. U' = U
    BY <1>5, QuietSets DEF U
  <2>2. ASSUME NEW t \in Tasks, QuietStep(t) PROVE LoopInv'
    <3>1. UNCHANGED <<loop, M, oldBarrier, SQTail, finishedPushes>>
      BY <2>2 DEF QuietStep, LoadTicket, LoadTail, TakeTicket, LoseTicket, RecheckStatus,
         CheckFull, SetFallbackActive, SendToFallback, RefuseOnStop, SubmitAdd, SubmitWrite
    <3> QED
      BY <1>0, <1>l, <1>m, <2>1, <3>1
  <2>3. CASE LoopReceive
    BY <1>0, <1>u, <1>l, <1>m, <2>1, <2>3 DEF LoopReceive
  <2>4. CASE DrainAsync \/ DrainOther
    <3>1. loop = "drain" /\ loop' = "drain"
      BY <2>4 DEF DrainAsync, DrainOther
    <3> QED
      BY <1>m, <3>1
  <2>5. CASE LoopSnapshot
    <3>1. SQTail < barrier.epoch /\ barrier.active
      BY <1>0, <2>5, HeldIsNotPushed DEF LoopSnapshot, ModeInv
    <3> QED
      BY <1>0, <1>u, <1>l, <1>m, <2>1, <2>5, <3>1 DEF LoopSnapshot
  <2>6. CASE LoopCountM
    BY <1>0, <1>u, <1>l, <1>m, <2>1, <2>6 DEF LoopCountM
  <2>7. CASE LoopSpace \/ LoopTicket \/ LoopAdd \/ LoopWrite
    BY <1>0, <1>u, <1>l, <1>m, <2>1, <2>7 DEF LoopSpace, LoopTicket, LoopAdd, LoopWrite
  <2>8. CASE LoopDecrement
    BY <1>0, <1>u, <1>l, <1>m, <2>1, <2>8 DEF LoopDecrement
  <2>9. CASE LoopStore
    BY <1>0, <1>u, <1>l, <1>m, <2>1, <2>9 DEF LoopStore
  <2>10. CASE LoopStay \/ LoopLower \/ LoopStopped
    BY <1>0, <1>u, <1>l, <1>m, <2>1, <2>10 DEF LoopStay, LoopLower, LoopStopped
  <2>11. CASE LoopExit
    BY <1>0, <1>u, <1>l, <1>m, <2>1, <2>11 DEF LoopExit
  <2>12. CASE KernelTake \/ Stop \/ UNCHANGED vars
    BY <1>0, <1>u, <1>l, <1>m, <2>1, <2>12 DEF KernelTake, Stop, vars
  <2> QED
    BY <1>5, <2>2, <2>3, <2>4, <2>5, <2>6, <2>7, <2>8, <2>9, <2>10, <2>11, <2>12
       DEF StillStep, TakesFromChannel
<1> HIDE DEF LoopBusy, TypeOK, BarrierType, LoopGoto, DispatchPC,
             submitVars, syncVars, queueVars, loopVars
<1> QED
  BY <1>1, <1>2, <1>3, <1>4, <1>5, NextCases

(***************************************************************************)
(* The theorems.                                                           *)
(***************************************************************************)

\* The counting argument of submit and fallbackLoop is inductive: their
\* invariant holds in every reachable state.
THEOREM Invariance == Spec => []IInv
<1>1. IInv /\ [Next]_vars => IInv'
  BY TypeStep, CountStep, TicketStep, ModeStep, HandStep, RoomStep, LoopStep DEF IInv
<1> QED
  BY InitIInv, <1>1, PTL DEF Spec

\* The state of submit and fallbackLoop is always well typed.
THEOREM TypeCorrect == Spec => []TypeOK
<1>1. IInv => TypeOK
  BY DEF IInv
<1> QED
  BY Invariance, <1>1, PTL

\* Two goroutines are never inside dispatch together, whichever of the two
\* ways led them there: the slot table has a single user.
THEOREM Exclusion == Spec => []DispatchExclusive
<1>1. IInv => DispatchExclusive
  <2> SUFFICES ASSUME IInv PROVE DispatchExclusive
    OBVIOUS
  <2>1. Dispatching \subseteq TicketHolders
    BY DEF Dispatching, TicketHolders, TicketPC
  <2>2. loop \in DispatchPC => TicketHolders = {}
    BY DEF IInv, TicketInv, DispatchPC
  <2> QED
    BY <2>1, <2>2 DEF IInv, TicketInv, DispatchExclusive
<1> QED
  BY Invariance, <1>1, PTL

\* The submission queue never holds more than SQEntries entries although
\* Push itself does not look at the head.
THEOREM Bounded == Spec => []QueueNeverOverflows
<1>1. IInv => QueueNeverOverflows
  BY DEF IInv, RoomInv
<1> QED
  BY Invariance, <1>1, PTL

\* finishedPushes never runs ahead of the pushes it counts.
THEOREM FinishedLags == Spec => []FinishedNeverAhead
<1>1. IInv => FinishedNeverAhead
  BY DEF IInv, LoopInv
<1> QED
  BY Invariance, <1>1, PTL

\* The number of pushes left never reaches zero early, and so never wraps.
THEOREM CountNeverWraps == Spec => []LoopCountPositive
<1>1. IInv => LoopCountPositive
  BY DEF IInv, LoopInv
<1> QED
  BY Invariance, <1>1, PTL

\* The fallback is left only with every announced task in the queue.
THEOREM DrainedExit == Spec => ExitOnlyWhenDrained
<1>1. IInv /\ [Next]_vars => [barrier.active /\ ~barrier'.active
                                => fallbackChan = << >> /\ Started = Pushed]_vars
  <2> SUFFICES ASSUME IInv, [Next]_vars, barrier.active, ~barrier'.active
               PROVE  fallbackChan = << >> /\ Started = Pushed
    OBVIOUS
  <2>1. LoopExit
    BY DEF Next, Submit, FallbackLoop, vars, submitVars, syncVars, queueVars, loopVars,
       SubmitIntention, LoadTicket, LoadTail, TakeTicket, LoseTicket, RecheckStatus,
       CheckFull, SetFallbackActive, SendToFallback, RefuseOnStop, SubmitAdd, SubmitWrite,
       SubmitPublish, CountPush, LoopReceive, LoopSnapshot, LoopCountM, LoopSpace,
       LoopTicket, LoopAdd, LoopWrite, LoopPublish, LoopDecrement, LoopStore, LoopStay,
       LoopLower, LoopStopped, DrainAsync, DrainOther, KernelTake, Stop
  <2>2. Started = Pushed
    BY <2>1, ExitMeansDrained DEF LoopExit, LoopGoto
  <2>3. fallbackChan = << >>
    <3> SUFFICES ASSUME fallbackChan # << >> PROVE FALSE
      OBVIOUS
    <3>1. Head(fallbackChan) \in Started \ Pushed
      BY HeadOfChannel DEF IInv, Started, Pushed
    <3> QED
      BY <2>2, <3>1
  <2> QED
    BY <2>2, <2>3
<1> QED
  BY Invariance, <1>1, PTL DEF Spec, ExitOnlyWhenDrained

(***************************************************************************)
(* The queue.                                                              *)
(***************************************************************************)

\* The place of an index in the ring.
Slot(n) == n % SQEntries

\* Each index has its place.
LEMMA SlotRange == \A n \in Nat : Slot(n) \in 0 .. SQEntries - 1
  BY SlotIndex DEF Slot

\* The entries between a head and a tail.
Contents(h, tl, f) == [i \in 1 .. tl - h |-> f[Slot(h + i - 1)]]

\* What an entry may be.
Entry == Tasks \cup {None}

\* A sequence of those entries.
IsContents(s, h, tl, f) ==
  /\ s \in Seq(Entry) /\ Len(s) = tl - h
  /\ \A i \in 1 .. tl - h : s[i] = f[Slot(h + i - 1)]

\* A head and a tail that is not behind it give one.
LEMMA ContentsSeq ==
  ASSUME NEW h \in Nat, NEW tl \in Nat, h <= tl, NEW f \in [0 .. SQEntries - 1 -> Entry]
  PROVE  IsContents(Contents(h, tl, f), h, tl, f)
<1>1. \A i \in 1 .. tl - h : Slot(h + i - 1) \in 0 .. SQEntries - 1
  BY SlotRange
<1>2. \A i \in 1 .. tl - h : f[Slot(h + i - 1)] \in Entry
  BY <1>1
<1>n. tl - h \in Nat
  OBVIOUS
<1> DEFINE n == tl - h
           e(i) == f[Slot(h + i - 1)]
<1>3. Contents(h, tl, f) = [i \in 1 .. n |-> e(i)] /\ n \in Nat /\ \A i \in 1 .. n : e(i) \in Entry
  BY <1>2, <1>n DEF Contents
<1> HIDE DEF n, e
<1> DEFINE s == [i \in 1 .. n |-> e(i)]
<1>4. s \in [1 .. n -> Entry] /\ \A i \in 1 .. n : s[i] = e(i)
  BY <1>3
<1> HIDE DEF s
<1>5. s \in Seq(Entry) /\ Len(s) = n
  BY <1>3, <1>4
<1> QED
  BY <1>3, <1>4, <1>5 DEF n, e, s, IsContents

\* A tail one further appends the entry at the tail.
LEMMA ContentsAppend ==
  ASSUME NEW h \in Nat, NEW tl \in Nat, h <= tl, NEW f \in [0 .. SQEntries - 1 -> Entry],
         NEW tl2 \in Nat, tl2 = tl + 1
  PROVE  Contents(h, tl2, f) = Append(Contents(h, tl, f), f[Slot(tl)])
<1> DEFINE e == f[Slot(tl)]
           s == Contents(h, tl, f)
           s2 == Contents(h, tl2, f)
<1>0. h <= tl2
  OBVIOUS
<1>1. IsContents(s, h, tl, f)
  BY ContentsSeq
<1>2. IsContents(s2, h, tl2, f)
  BY <1>0, ContentsSeq
<1>3. e \in Entry
  BY SlotRange
<1> HIDE DEF e, s, s2
<1> USE DEF IsContents
<1>4. /\ Append(s, e) \in Seq(Entry) /\ Len(Append(s, e)) = Len(s) + 1
      /\ Append(s, e)[Len(s) + 1] = e /\ \A i \in 1 .. Len(s) : Append(s, e)[i] = s[i]
  <2>1. s \in Seq(Entry) /\ e \in Entry
    BY <1>1, <1>3
  <2> QED
    BY <2>1, AppendProperties
<1>5. ASSUME NEW i \in 1 .. tl2 - h PROVE s2[i] = Append(s, e)[i]
  <2>1. CASE i = tl2 - h
    <3>1. h + i - 1 = tl /\ i = Len(s) + 1
      BY <1>1, <2>1
    <3> QED
      BY <1>2, <1>4, <3>1 DEF e
  <2>2. CASE i # tl2 - h
    <3>1. i \in 1 .. tl - h
      BY <2>2
    <3> QED
      BY <1>1, <1>2, <1>4, <3>1
  <2> QED
    BY <2>1, <2>2
<1>6. s2 = Append(s, e)
  BY <1>1, <1>2, <1>4, <1>5, SeqEqual
<1> QED
  BY <1>6 DEF e, s, s2

\* A head one further removes the entry at the head.
LEMMA ContentsTail ==
  ASSUME NEW h \in Nat, NEW tl \in Nat, h < tl, NEW f \in [0 .. SQEntries - 1 -> Entry],
         NEW h2 \in Nat, h2 = h + 1
  PROVE  /\ Contents(h, tl, f) # << >>
         /\ Head(Contents(h, tl, f)) = f[Slot(h)]
         /\ Contents(h2, tl, f) = Tail(Contents(h, tl, f))
<1> DEFINE s == Contents(h, tl, f)
           s2 == Contents(h2, tl, f)
<1>0. h <= tl /\ h2 <= tl
  OBVIOUS
<1>1. IsContents(s, h, tl, f)
  BY <1>0, ContentsSeq
<1>2. IsContents(s2, h2, tl, f)
  BY <1>0, ContentsSeq
<1>3. h + 1 - 1 = h /\ 1 \in 1 .. tl - h
  OBVIOUS
<1> HIDE DEF s, s2
<1> USE DEF IsContents
<1>4. s # << >> /\ Head(s) = s[1]
  <2>1. s \in Seq(Entry) /\ Len(s) # 0
    BY <1>1
  <2>2. s # << >>
    BY <2>1
  <2> QED
    BY <2>1, <2>2
<1>5. Head(s) = f[Slot(h)]
  BY <1>1, <1>3, <1>4
<1>6. /\ Tail(s) \in Seq(Entry) /\ Len(Tail(s)) = Len(s) - 1
      /\ \A i \in 1 .. Len(Tail(s)) : Tail(s)[i] = s[i + 1]
  BY <1>1, <1>4, HeadTailProperties
<1>7. ASSUME NEW i \in 1 .. tl - h2 PROVE s2[i] = Tail(s)[i]
  <2> DEFINE j == i + 1
  <2>1. j \in 1 .. tl - h /\ h + j - 1 = h2 + i - 1 /\ i \in 1 .. Len(Tail(s))
    BY <1>1, <1>6
  <2>2. Tail(s)[i] = s[j]
    BY <1>6, <2>1
  <2> HIDE DEF j
  <2>3. s[j] = f[Slot(h2 + i - 1)]
    BY <1>1, <2>1
  <2> QED
    BY <1>2, <2>2, <2>3
<1>8. s2 = Tail(s)
  BY <1>1, <1>2, <1>6, <1>7, SeqEqual
<1> QED
  BY <1>4, <1>5, <1>8 DEF s, s2

\* As long as there is room a write at the tail changes no entry.
LEMMA WriteApart ==
  ASSUME NEW h \in Nat, NEW tl \in Nat, h <= tl, tl - h < SQEntries, NEW i \in h .. tl - 1
  PROVE  Slot(i) # Slot(tl)
<1>1. i \in Int /\ tl \in Int /\ tl - i < SQEntries /\ i - tl < SQEntries /\ i # tl
  OBVIOUS
<1> QED
  BY <1>1, ModApart DEF Slot

(***************************************************************************)
(* What is in it.                                                          *)
(***************************************************************************)

\* What the kernel took, what is in the queue and what is about to be
\* published are tasks that were pushed, and that one task; and the channel is
\* drained on Stop only.
FifoInv ==
  /\ loop = "drain" => stop
  /\ \A i \in DOMAIN taken : taken[i] \in Pushed
  /\ \A i \in SQHead .. SQTail - 1 : SQ[Slot(i)] \in Pushed
  /\ \A t \in Tasks : pc[t] = "publish" => SQ[Slot(SQTail)] = t
  /\ loop = "publish" => SQ[Slot(SQTail)] = task

\* A pushed task stays pushed.
LEMMA PushedGrows ==
  ASSUME IInv, [Next]_vars
  PROVE  Pushed \subseteq Pushed'
<1>1. ASSUME NEW t \in Tasks, SubmitIntention(t) \/ SubmitPublish(t) \/ CountPush(t)
      PROVE  Pushed \subseteq Pushed'
  BY <1>1 DEF IInv, TypeOK, SubmitIntention, SubmitPublish, CountPush, Goto, Pushed
<1>2. CASE LoopPublish
  BY <1>2 DEF IInv, TypeOK, LoopPublish, Goto, Pushed
<1>3. CASE StillStep \/ TakesFromChannel \/ \E t \in Tasks : QuietStep(t)
  BY <1>3, QuietSets
<1> QED
  BY <1>1, <1>2, <1>3, NextCases

\* The steps that neither write the queue nor move its ends.
LEMMA FifoQuiet ==
  ASSUME IInv, FifoInv, [Next]_vars, UNCHANGED <<SQ, SQTail, SQHead, taken>>,
         loop' = "drain" => stop', \A t \in Tasks : pc'[t] = "publish" => pc[t] = "publish",
         loop' = "publish" => loop = "publish" /\ task' = task
  PROVE  FifoInv'
<1>1. Pushed \subseteq Pushed'
  BY PushedGrows
<1> QED
  BY <1>1 DEF FifoInv

\* Each step keeps it.
LEMMA FifoStep == IInv /\ FifoInv /\ [Next]_vars => FifoInv'
<1> SUFFICES ASSUME IInv, FifoInv, [Next]_vars PROVE FifoInv'
  OBVIOUS
<1>t. /\ pc \in [Tasks -> SubmitPC] /\ SQ \in [0 .. SQEntries - 1 -> Tasks \cup {None}]
      /\ SQTail \in Nat /\ SQHead \in Nat /\ SQHead <= SQTail /\ taken \in Seq(Tasks \cup {None})
      /\ SQEntries \in Nat \ {0}
  BY SQEntriesAssumption DEF IInv, TypeOK, RoomInv
<1>g. Pushed \subseteq Pushed'
  BY PushedGrows
<1>o. \A t, u \in Tasks : pc[t] \in TicketPC /\ pc[u] \in TicketPC => t = u
  BY DEF IInv, TicketInv, TicketHolders
<1>p. \A t \in Tasks : pc[t] \in TicketPC => tail[t] = SQTail /\ loop \in {"recv", "drain"}
  BY DEF IInv, TicketInv, TicketHolders
<1>r. /\ \A t \in Tasks : pc[t] \in DispatchPC => SQTail - SQHead < SQEntries
      /\ loop \in DispatchPC => SQTail - SQHead < SQEntries
      /\ loop = "publish" => pushTail = SQTail
      /\ loop \in DispatchPC => task \in Tasks /\ pc[task] = "held"
  BY DEF IInv, RoomInv, Dispatching, HandInv
<1>w. SQTail - SQHead < SQEntries =>
        \A i \in SQHead .. SQTail - 1 : Slot(i) # Slot(SQTail)
  BY <1>t, WriteApart
<1>s. \A n \in Nat : Slot(n) \in 0 .. SQEntries - 1
  BY SlotRange
<1>1. ASSUME NEW t \in Tasks, SubmitWrite(t) PROVE FifoInv'
  <2>1. /\ SQ' = [SQ EXCEPT ![Slot(SQTail)] = t] /\ pc' = [pc EXCEPT ![t] = "publish"]
        /\ UNCHANGED <<SQTail, SQHead, taken, loop, task, stop>> /\ pc[t] = "write"
    BY <1>1 DEF SubmitWrite, Goto, Slot, syncVars, loopVars
  <2>2. /\ SQTail - SQHead < SQEntries /\ loop # "publish"
        /\ \A u \in Tasks : u # t => pc[u] # "publish"
    BY <1>o, <1>p, <1>r, <2>1 DEF TicketPC, DispatchPC
  <2>3. ASSUME NEW i \in SQHead .. SQTail - 1 PROVE SQ'[Slot(i)] = SQ[Slot(i)]
    <3>1. i \in Nat /\ Slot(i) # Slot(SQTail)
      BY <1>t, <1>w, <2>2
    <3>2. Slot(i) \in 0 .. SQEntries - 1
      BY <1>s, <3>1
    <3> QED
      BY <1>t, <2>1, <3>1, <3>2
  <2>4. SQ'[Slot(SQTail)] = t
    BY <1>t, <1>s, <2>1
  <2>5. \A u \in Tasks : pc'[u] = "publish" => u = t
    BY <1>t, <2>1, <2>2
  <2> QED
    BY <1>g, <2>1, <2>2, <2>3, <2>4, <2>5 DEF FifoInv
<1>2. CASE LoopWrite
  <2>1. /\ SQ' = [SQ EXCEPT ![Slot(SQTail)] = task] /\ pc' = pc
        /\ UNCHANGED <<SQTail, SQHead, taken, task, stop>> /\ loop = "write" /\ loop' = "publish"
    BY <1>2 DEF LoopWrite, LoopGoto, Slot, syncVars, submitVars
  <2>2. /\ SQTail - SQHead < SQEntries /\ task \in Tasks
        /\ \A u \in Tasks : pc[u] # "publish"
    BY <1>p, <1>r, <2>1 DEF TicketPC, DispatchPC
  <2>3. ASSUME NEW i \in SQHead .. SQTail - 1 PROVE SQ'[Slot(i)] = SQ[Slot(i)]
    <3>1. i \in Nat /\ Slot(i) # Slot(SQTail)
      BY <1>t, <1>w, <2>2
    <3>2. Slot(i) \in 0 .. SQEntries - 1
      BY <1>s, <3>1
    <3> QED
      BY <1>t, <2>1, <3>1, <3>2
  <2>4. SQ'[Slot(SQTail)] = task
    BY <1>t, <1>s, <2>1
  <2> QED
    BY <1>g, <2>1, <2>2, <2>3, <2>4 DEF FifoInv
<1>3. ASSUME NEW t \in Tasks, SubmitPublish(t) PROVE FifoInv'
  <2>1. /\ SQTail' = tail[t] + 1 /\ pc' = [pc EXCEPT ![t] = "count"] /\ pc[t] = "publish"
        /\ UNCHANGED <<SQ, SQHead, taken, loop, task, stop>>
    BY <1>3 DEF SubmitPublish, Goto, syncVars, loopVars
  <2>2. /\ SQTail' = SQTail + 1 /\ loop # "publish" /\ SQ[Slot(SQTail)] = t
        /\ \A u \in Tasks : u # t => pc[u] # "publish"
    BY <1>o, <1>p, <2>1 DEF TicketPC, DispatchPC, FifoInv
  <2>3. t \in Pushed' /\ \A u \in Tasks : pc'[u] # "publish"
    BY <1>t, <2>1, <2>2 DEF Pushed
  <2>4. \A i \in SQHead .. SQTail : i \in SQHead .. SQTail - 1 \/ i = SQTail
    BY <1>t
  <2>5. \A i \in SQHead' .. SQTail' - 1 : i \in SQHead .. SQTail
    BY <1>t, <2>1, <2>2
  <2>6. \A i \in SQHead' .. SQTail' - 1 : SQ'[Slot(i)] \in Pushed'
    BY <1>g, <2>1, <2>2, <2>3, <2>4, <2>5 DEF FifoInv
  <2> QED
    BY <1>g, <2>1, <2>2, <2>3, <2>5, <2>6 DEF FifoInv
<1>4. CASE LoopPublish
  <2>1. /\ SQTail' = pushTail + 1 /\ pc' = [pc EXCEPT ![task] = "pushed"] /\ loop = "publish"
        /\ loop' = "dec" /\ UNCHANGED <<SQ, SQHead, taken, task, stop>>
    BY <1>4 DEF LoopPublish, Goto, LoopGoto, syncVars
  <2>2. /\ SQTail' = SQTail + 1 /\ SQ[Slot(SQTail)] = task /\ task \in Tasks
        /\ \A u \in Tasks : pc[u] # "publish"
    BY <1>p, <1>r, <2>1 DEF TicketPC, DispatchPC, FifoInv
  <2>3. task \in Pushed' /\ \A u \in Tasks : pc'[u] # "publish"
    BY <1>t, <2>1, <2>2 DEF Pushed
  <2>4. \A i \in SQHead .. SQTail : i \in SQHead .. SQTail - 1 \/ i = SQTail
    BY <1>t
  <2>5. \A i \in SQHead' .. SQTail' - 1 : i \in SQHead .. SQTail
    BY <1>t, <2>1, <2>2
  <2>6. \A i \in SQHead' .. SQTail' - 1 : SQ'[Slot(i)] \in Pushed'
    BY <1>g, <2>1, <2>2, <2>3, <2>4, <2>5 DEF FifoInv
  <2> QED
    BY <1>g, <2>1, <2>2, <2>3, <2>5, <2>6 DEF FifoInv
<1>5. CASE KernelTake
  <2>1. /\ SQHead < SQTail /\ SQHead' = SQHead + 1
        /\ taken' = Append(taken, SQ[Slot(SQHead)])
        /\ UNCHANGED <<SQ, SQTail, pc, loop, task, stop>>
    BY <1>5 DEF KernelTake, Slot, submitVars, syncVars, loopVars
  <2>2. SQHead \in SQHead .. SQTail - 1 /\ \A i \in SQHead + 1 .. SQTail - 1 : i \in SQHead .. SQTail - 1
    BY <1>t, <2>1
  <2>3. SQ[Slot(SQHead)] \in Pushed /\ SQ[Slot(SQHead)] \in Tasks \cup {None}
    BY <1>t, <1>s, <2>2 DEF FifoInv
  <2>4. \A i \in DOMAIN taken' : taken'[i] \in Pushed
    <3>1. /\ DOMAIN taken = 1 .. Len(taken) /\ DOMAIN taken' = 1 .. Len(taken) + 1 /\ Len(taken) \in Nat
          /\ \A i \in 1 .. Len(taken) : taken'[i] = taken[i]
          /\ taken'[Len(taken) + 1] = SQ[Slot(SQHead)]
      BY <1>t, <2>1, <2>3, AppendProperties
    <3>2. \A i \in 1 .. Len(taken) + 1 : i \in 1 .. Len(taken) \/ i = Len(taken) + 1
      BY <3>1
    <3> QED
      BY <2>3, <3>1, <3>2 DEF FifoInv
  <2> QED
    BY <1>g, <2>1, <2>2, <2>4 DEF FifoInv
<1>6. ASSUME NEW t \in Tasks,
             \/ SubmitIntention(t) \/ LoadTicket(t) \/ LoadTail(t) \/ TakeTicket(t) \/ LoseTicket(t)
             \/ RecheckStatus(t) \/ CheckFull(t) \/ SetFallbackActive(t) \/ SendToFallback(t)
             \/ RefuseOnStop(t) \/ SubmitAdd(t) \/ CountPush(t)
      PROVE  FifoInv'
  <2>1. UNCHANGED <<SQ, SQTail, SQHead, taken, loop, task, stop>>
    BY <1>6 DEF SubmitIntention, LoadTicket, LoadTail, TakeTicket, LoseTicket, RecheckStatus,
       CheckFull, SetFallbackActive, SendToFallback, RefuseOnStop, SubmitAdd, CountPush,
       queueVars, loopVars, syncVars
  <2>2. \E w \in {"chan", "loadTicket", "loadTail", "cas", "restat", "full", "setActive", "add",
                  "queued", "refused", "write", "pushed"} : pc' = [pc EXCEPT ![t] = w]
    BY <1>6 DEF SubmitIntention, LoadTicket, LoadTail, TakeTicket, LoseTicket, RecheckStatus,
       CheckFull, SetFallbackActive, SendToFallback, RefuseOnStop, SubmitAdd, CountPush, Goto
  <2>3. \A u \in Tasks : pc'[u] = "publish" => pc[u] = "publish"
    BY <1>t, <2>2
  <2> QED
    BY <2>1, <2>3, FifoQuiet DEF FifoInv
<1>7. CASE TakesFromChannel
  <2>1. /\ UNCHANGED <<SQ, SQTail, SQHead, taken, stop>>
        /\ loop' # "publish"
        /\ loop' = "drain" => loop = "drain"
    BY <1>7 DEF TakesFromChannel, LoopReceive, DrainAsync, DrainOther, LoopGoto, queueVars, loopVars
  <2>2. \E u, w : w # "publish" /\ pc' = [pc EXCEPT ![u] = w]
    BY <1>7 DEF TakesFromChannel, LoopReceive, DrainAsync, DrainOther, Goto
  <2>3. \A u \in Tasks : pc'[u] = "publish" => pc[u] = "publish"
    BY <1>t, <2>2
  <2> QED
    BY <2>1, <2>3, FifoQuiet DEF FifoInv
<1>8. CASE \/ LoopSnapshot \/ LoopCountM \/ LoopSpace \/ LoopTicket \/ LoopAdd \/ LoopDecrement
           \/ LoopStore \/ LoopStay \/ LoopExit \/ LoopLower \/ LoopStopped \/ Stop
           \/ UNCHANGED vars
  <2>1. /\ UNCHANGED <<SQ, SQTail, SQHead, taken, pc, task>>
        /\ loop' = "publish" => loop = "publish"
        /\ loop' = "drain" => loop = "drain" \/ stop
        /\ stop => stop'
    BY <1>8 DEF LoopSnapshot, LoopCountM, LoopSpace, LoopTicket, LoopAdd, LoopDecrement, LoopStore,
       LoopStay, LoopExit, LoopLower, LoopStopped, Stop, LoopGoto,
       vars, submitVars, syncVars, queueVars, loopVars
  <2> QED
    BY <2>1, FifoQuiet DEF FifoInv
<1> QED
  BY <1>1, <1>2, <1>3, <1>4, <1>5, <1>6, <1>7, <1>8
     DEF Next, Submit, FallbackLoop, TakesFromChannel

\* It holds of the empty queue.
LEMMA FifoInit == Init => FifoInv
<1> SUFFICES ASSUME Init PROVE FifoInv
  OBVIOUS
<1>1. SQHead .. SQTail - 1 = {} /\ DOMAIN taken = {} /\ loop = "recv"
  BY DEF Init
<1>2. \A t \in Tasks : pc[t] = "idle"
  BY DEF Init
<1> QED
  BY <1>1, <1>2 DEF FifoInv

\* It holds of every reachable state.
LEMMA FifoInvariance == Spec => [](IInv /\ FifoInv)
<1>1. IInv /\ FifoInv /\ [Next]_vars => FifoInv'
  BY FifoStep
<1> QED
  BY Invariance, FifoInit, <1>1, PTL DEF Spec

(***************************************************************************)
(* submit and fallbackLoop implement the bounded FIFO of SubmitQueue.      *)
(***************************************************************************)

\* What the two variables of the abstract queue stand for.
Settled == {"idle", "count", "pushed", "refused", "dropped", "woken"}
Waiting == {t \in Tasks : pc[t] \notin Settled}
Queue   == Contents(SQHead, SQTail, SQ)

\* A task starts or ceases to wait when its call gets to another place.
LEMMA WaitingMoves ==
  ASSUME TypeOK, NEW t \in Tasks, NEW w, pc' = [pc EXCEPT ![t] = w]
  PROVE  /\ w \in Settled => Waiting' = Waiting \ {t}
         /\ w \notin Settled => Waiting' = Waiting \cup {t}
<1>1. pc'[t] = w /\ \A u \in Tasks : u # t => pc'[u] = pc[u]
  BY DEF TypeOK
<1>2. Waiting' = {u \in Tasks : pc'[u] \notin Settled}
  BY DEF Waiting
<1> QED
  BY <1>1, <1>2 DEF Waiting

\* A task that has not called submit() yet is in neither of the sequences.
LEMMA IdleIsNowhere ==
  ASSUME IInv, FifoInv, NEW t \in Tasks, pc[t] = "idle"
  PROVE  /\ \A i \in DOMAIN Queue : Queue[i] # t
         /\ \A i \in DOMAIN taken : taken[i] # t
<1>1. t \notin Pushed
  BY DEF Pushed
<1>2. SQHead \in Nat /\ SQTail \in Nat /\ SQHead <= SQTail
      /\ SQ \in [0 .. SQEntries - 1 -> Entry]
  BY DEF IInv, TypeOK, RoomInv, Entry
<1>3. /\ DOMAIN Queue = 1 .. SQTail - SQHead
      /\ \A i \in 1 .. SQTail - SQHead : Queue[i] = SQ[Slot(SQHead + i - 1)]
  BY DEF Queue, Contents
<1>4. \A i \in 1 .. SQTail - SQHead : SQHead + i - 1 \in SQHead .. SQTail - 1
  BY <1>2
<1>5. \A i \in 1 .. SQTail - SQHead : Queue[i] \in Pushed
  BY <1>3, <1>4 DEF FifoInv
<1> QED
  BY <1>1, <1>3, <1>5 DEF FifoInv

\* A push is an Enqueue, whoever does it.
LEMMA PushEnqueues ==
  ASSUME IInv, FifoInv, NEW t \in Tasks, pc[t] \notin Settled,
         SQTail - SQHead < SQEntries, SQ[Slot(SQTail)] = t,
         SQTail' = SQTail + 1, UNCHANGED <<SQ, SQHead, taken, stop>>,
         NEW w \in Settled, pc' = [pc EXCEPT ![t] = w]
  PROVE  /\ t \in Waiting /\ Len(Queue) < SQEntries
         /\ Waiting' = Waiting \ {t} /\ Queue' = Append(Queue, t)
<1>1. SQHead \in Nat /\ SQTail \in Nat /\ SQHead <= SQTail
      /\ SQ \in [0 .. SQEntries - 1 -> Entry] /\ SQTail' \in Nat
  BY DEF IInv, TypeOK, RoomInv, Entry
<1>2. Len(Queue) = SQTail - SQHead
  BY <1>1, ContentsSeq DEF Queue, IsContents
<1>3. Queue' = Contents(SQHead, SQTail', SQ)
  BY DEF Queue, Contents
<1>4. Contents(SQHead, SQTail', SQ) = Append(Contents(SQHead, SQTail, SQ), SQ[Slot(SQTail)])
  BY <1>1, ContentsAppend
<1>5. Waiting' = Waiting \ {t}
  BY WaitingMoves DEF IInv
<1> QED
  BY <1>2, <1>3, <1>4, <1>5 DEF Queue, Waiting

\* The abstract queue, over the two named expressions.
Abs == INSTANCE SubmitQueue WITH waiting <- Waiting, queue <- Queue

\* A write at the tail changes no entry of the queue.
LEMMA WriteChangesNothing ==
  ASSUME IInv, SQTail - SQHead < SQEntries, NEW t \in Tasks, UNCHANGED <<SQTail, SQHead>>,
         SQ' = [SQ EXCEPT ![Slot(SQTail)] = t]
  PROVE  Queue' = Queue
<1>t. /\ SQTail \in Nat /\ SQHead \in Nat /\ SQHead <= SQTail
      /\ SQ \in [0 .. SQEntries - 1 -> Entry]
  BY DEF IInv, TypeOK, RoomInv, Entry
<1>1. ASSUME NEW i \in 1 .. SQTail - SQHead PROVE SQ'[Slot(SQHead + i - 1)] = SQ[Slot(SQHead + i - 1)]
  <2> DEFINE j == SQHead + i - 1
  <2>1. j \in SQHead .. SQTail - 1 /\ j \in Nat
    BY <1>t
  <2> HIDE DEF j
  <2>2. Slot(j) # Slot(SQTail) /\ Slot(j) \in 0 .. SQEntries - 1
    BY <1>t, <2>1, WriteApart, SlotRange
  <2>3. SQ'[Slot(j)] = SQ[Slot(j)]
    BY <1>t, <2>2
  <2> QED
    BY <2>3 DEF j
<1> QED
  BY <1>1 DEF Queue, Contents

\* The steps that move one call to another place and touch no entry.
MovesOnly(t, w) ==
  /\ pc' = [pc EXCEPT ![t] = w]
  /\ UNCHANGED <<SQ, SQTail, SQHead, taken, stop>>

\* A call that only moves on from one place where it waits to another.
LEMMA StillWaiting ==
  ASSUME TypeOK, NEW t \in Tasks, NEW w, MovesOnly(t, w),
         \/ pc[t] \notin Settled /\ w \notin Settled
         \/ pc[t] \in Settled /\ w \in Settled
  PROVE  UNCHANGED Abs!qvars
<1>1. t \in Waiting <=> pc[t] \notin Settled
  BY DEF Waiting
<1>2. Waiting' = Waiting
  <2>1. pc' = [pc EXCEPT ![t] = w]
    BY DEF MovesOnly
  <2>2. /\ w \in Settled => Waiting' = Waiting \ {t}
        /\ w \notin Settled => Waiting' = Waiting \cup {t}
    BY <2>1, WaitingMoves
  <2> QED
    BY <1>1, <2>2
<1>3. UNCHANGED <<Queue, taken, stop>>
  BY DEF MovesOnly, Queue, Contents
<1> QED
  BY <1>2, <1>3 DEF Abs!qvars

\* After Stop a call that waits may give up.
LEMMA GivesUp ==
  ASSUME TypeOK, NEW t \in Tasks, NEW w \in Settled, MovesOnly(t, w), pc[t] \notin Settled, stop
  PROVE  Abs!GiveUp(t)
<1>1. Waiting' = Waiting \ {t} /\ t \in Waiting
  BY WaitingMoves DEF MovesOnly, Waiting
<1>2. UNCHANGED <<Queue, taken, stop>>
  BY DEF MovesOnly, Queue, Contents
<1> QED
  BY <1>1, <1>2 DEF Abs!GiveUp

\* Each step of the code is a step of the queue, or none.
LEMMA FifoSimulates == IInv /\ FifoInv /\ [Next]_vars => [Abs!QNext]_Abs!qvars
<1> SUFFICES ASSUME IInv, FifoInv, [Next]_vars PROVE Abs!QNext \/ UNCHANGED Abs!qvars
  BY DEF Abs!qvars
<1>t. /\ TypeOK /\ pc \in [Tasks -> SubmitPC] /\ SQTail \in Nat /\ SQHead \in Nat /\ SQHead <= SQTail
      /\ SQ \in [0 .. SQEntries - 1 -> Entry]
  BY DEF IInv, TypeOK, RoomInv, Entry
<1>p. \A t \in Tasks : pc[t] \in TicketPC => tail[t] = SQTail
  BY DEF IInv, TicketInv, TicketHolders
<1>r. /\ \A t \in Tasks : pc[t] \in DispatchPC => SQTail - SQHead < SQEntries
      /\ loop \in DispatchPC => SQTail - SQHead < SQEntries
      /\ loop = "publish" => pushTail = SQTail
      /\ loop \in DispatchPC => task \in Tasks /\ pc[task] = "held"
  BY DEF IInv, RoomInv, Dispatching, HandInv
<1>1. ASSUME NEW t \in Tasks, SubmitIntention(t) PROVE Abs!Announce(t)
  <2>1. /\ pc[t] = "idle" /\ UNCHANGED <<SQ, SQTail, SQHead, taken, stop>>
        /\ \E w \in {"chan", "loadTicket"} : pc' = [pc EXCEPT ![t] = w]
    BY <1>1 DEF SubmitIntention, Goto, queueVars
  <2>2. Waiting' = Waiting \cup {t} /\ t \notin Waiting
    BY <1>t, <2>1, WaitingMoves DEF Waiting, Settled
  <2>3. UNCHANGED <<Queue, taken, stop>>
    BY <2>1 DEF Queue, Contents
  <2> QED
    BY <2>1, <2>2, <2>3, IdleIsNowhere DEF Abs!Announce
<1>2. ASSUME NEW t \in Tasks, SubmitPublish(t) PROVE Abs!Enqueue(t)
  <2>1. /\ SQTail' = tail[t] + 1 /\ pc' = [pc EXCEPT ![t] = "count"] /\ pc[t] = "publish"
        /\ UNCHANGED <<SQ, SQHead, taken, stop>>
    BY <1>2 DEF SubmitPublish, Goto, syncVars
  <2>2. /\ SQTail' = SQTail + 1 /\ SQ[Slot(SQTail)] = t /\ SQTail - SQHead < SQEntries
        /\ pc[t] \notin Settled /\ "count" \in Settled
    BY <1>p, <1>r, <2>1 DEF TicketPC, DispatchPC, FifoInv, Settled
  <2> QED
    BY <2>1, <2>2, PushEnqueues DEF Abs!Enqueue
<1>3. CASE LoopPublish
  <2>1. /\ SQTail' = pushTail + 1 /\ pc' = [pc EXCEPT ![task] = "pushed"] /\ loop = "publish"
        /\ UNCHANGED <<SQ, SQHead, taken, stop>>
    BY <1>3 DEF LoopPublish, Goto, LoopGoto, syncVars
  <2>2. /\ SQTail' = SQTail + 1 /\ SQ[Slot(SQTail)] = task /\ SQTail - SQHead < SQEntries
        /\ task \in Tasks /\ pc[task] \notin Settled /\ "pushed" \in Settled
    BY <1>r, <2>1 DEF DispatchPC, FifoInv, Settled
  <2>3. Abs!Enqueue(task)
    BY <2>1, <2>2, PushEnqueues DEF Abs!Enqueue
  <2> QED
    BY <2>2, <2>3 DEF Abs!QNext
<1>4. CASE KernelTake
  <2>1. /\ SQHead < SQTail /\ SQHead' = SQHead + 1
        /\ taken' = Append(taken, SQ[Slot(SQHead)])
        /\ UNCHANGED <<SQ, SQTail, pc, stop>>
    BY <1>4 DEF KernelTake, Slot, submitVars, syncVars
  <2>2. Queue' = Contents(SQHead', SQTail, SQ) /\ SQHead' \in Nat /\ Waiting' = Waiting
    BY <1>t, <2>1 DEF Queue, Contents, Waiting
  <2>3. /\ Queue # << >> /\ Head(Queue) = SQ[Slot(SQHead)]
        /\ Contents(SQHead', SQTail, SQ) = Tail(Queue)
    BY <1>t, <2>1, <2>2, ContentsTail DEF Queue
  <2> QED
    BY <2>1, <2>2, <2>3 DEF Abs!Take, Abs!QNext
<1>5. ASSUME NEW t \in Tasks, SubmitWrite(t) PROVE UNCHANGED Abs!qvars
  <2>1. /\ SQ' = [SQ EXCEPT ![Slot(SQTail)] = t] /\ pc' = [pc EXCEPT ![t] = "publish"]
        /\ UNCHANGED <<SQTail, SQHead, taken, stop>> /\ pc[t] = "write"
    BY <1>5 DEF SubmitWrite, Goto, Slot, syncVars
  <2>2. SQTail - SQHead < SQEntries
    BY <1>r, <2>1 DEF DispatchPC
  <2>3. Waiting' = Waiting
    BY <1>t, <2>1, WaitingMoves DEF Settled, Waiting
  <2>4. Queue' = Queue
    BY <1>t, <2>1, <2>2, WriteChangesNothing
  <2> QED
    BY <2>1, <2>3, <2>4 DEF Abs!qvars
<1>6. CASE LoopWrite
  <2>1. /\ SQ' = [SQ EXCEPT ![Slot(SQTail)] = task]
        /\ UNCHANGED <<pc, SQTail, SQHead, taken, stop>> /\ loop = "write"
    BY <1>6 DEF LoopWrite, LoopGoto, Slot, syncVars, submitVars
  <2>2. SQTail - SQHead < SQEntries /\ task \in Tasks
    BY <1>r, <2>1 DEF DispatchPC
  <2>3. Waiting' = Waiting
    BY <2>1 DEF Waiting
  <2>4. Queue' = Queue
    BY <1>t, <2>1, <2>2, WriteChangesNothing
  <2> QED
    BY <2>1, <2>3, <2>4 DEF Abs!qvars
<1>7. ASSUME NEW t \in Tasks,
             \/ LoadTicket(t) \/ LoadTail(t) \/ TakeTicket(t) \/ LoseTicket(t)
             \/ RecheckStatus(t) \/ CheckFull(t) \/ SetFallbackActive(t) \/ SendToFallback(t)
             \/ SubmitAdd(t) \/ CountPush(t)
      PROVE  UNCHANGED Abs!qvars
  <2>1. UNCHANGED <<SQ, SQTail, SQHead, taken, stop>>
    BY <1>7 DEF LoadTicket, LoadTail, TakeTicket, LoseTicket, RecheckStatus,
       CheckFull, SetFallbackActive, SendToFallback, SubmitAdd, CountPush, queueVars, syncVars
  <2>2. CASE CountPush(t)
    <3>1. MovesOnly(t, "pushed") /\ pc[t] \in Settled /\ "pushed" \in Settled
      BY <2>1, <2>2 DEF CountPush, Goto, MovesOnly, Settled
    <3> QED
      BY <1>t, <3>1, StillWaiting
  <2>3. CASE ~CountPush(t)
    <3>1. \E w \in {"loadTail", "cas", "restat", "full", "chan", "loadTicket", "setActive", "add",
                    "queued", "write"} : pc' = [pc EXCEPT ![t] = w]
      BY <1>7, <2>3 DEF LoadTicket, LoadTail, TakeTicket, LoseTicket, RecheckStatus,
         CheckFull, SetFallbackActive, SendToFallback, SubmitAdd, Goto
    <3>2. pc[t] \notin Settled
      BY <1>7, <2>3 DEF LoadTicket, LoadTail, TakeTicket, LoseTicket, RecheckStatus,
         CheckFull, SetFallbackActive, SendToFallback, SubmitAdd, Settled
    <3>3. \E w : MovesOnly(t, w) /\ w \notin Settled
      BY <2>1, <3>1 DEF MovesOnly, Settled
    <3> QED
      BY <1>t, <3>2, <3>3, StillWaiting
  <2> QED
    BY <2>2, <2>3
<1>8. ASSUME NEW t \in Tasks, RefuseOnStop(t) PROVE Abs!GiveUp(t)
  <2>1. MovesOnly(t, "refused") /\ pc[t] \notin Settled /\ stop /\ "refused" \in Settled
    BY <1>8 DEF RefuseOnStop, Goto, MovesOnly, Settled, queueVars, syncVars
  <2> QED
    BY <1>t, <2>1, GivesUp
<1>9. CASE TakesFromChannel
  <2> DEFINE t == Head(fallbackChan)
  <2>1. t \in Tasks /\ pc[t] = "queued"
    <3>1. fallbackChan # << >> /\ TypeOK /\ HandInv
      BY <1>9 DEF TakesFromChannel, LoopReceive, DrainAsync, DrainOther, IInv
    <3> QED
      BY <3>1, HeadOfChannel
  <2>2. CASE LoopReceive
    <3>1. MovesOnly(t, "held")
      BY <2>2 DEF LoopReceive, Goto, MovesOnly, queueVars
    <3>2. pc[t] \notin Settled /\ "held" \notin Settled
      BY <2>1 DEF Settled
    <3> HIDE DEF t
    <3> QED
      BY <1>t, <2>1, <3>1, <3>2, StillWaiting
  <2>3. CASE DrainAsync \/ DrainOther
    <3>1. \E w \in Settled : MovesOnly(t, w)
      BY <2>3 DEF DrainAsync, DrainOther, Goto, MovesOnly, Settled, queueVars
    <3>2. pc[t] \notin Settled /\ stop
      BY <2>1, <2>3 DEF Settled, DrainAsync, DrainOther, FifoInv
    <3> HIDE DEF t
    <3>3. Abs!GiveUp(t)
      BY <1>t, <2>1, <3>1, <3>2, GivesUp
    <3> QED
      BY <2>1, <3>3 DEF Abs!QNext
  <2> QED
    BY <1>9, <2>2, <2>3 DEF TakesFromChannel
<1>10. CASE Stop
  <2>1. ~stop /\ stop' = TRUE /\ UNCHANGED <<pc, SQ, SQTail, SQHead, taken>>
    BY <1>10 DEF Stop, submitVars, queueVars
  <2>2. UNCHANGED <<Waiting, Queue, taken>>
    BY <2>1 DEF Waiting, Queue, Contents
  <2> QED
    BY <2>1, <2>2 DEF Abs!QStop, Abs!QNext
<1>11. CASE \/ LoopSnapshot \/ LoopCountM \/ LoopSpace \/ LoopTicket \/ LoopAdd \/ LoopDecrement
            \/ LoopStore \/ LoopStay \/ LoopExit \/ LoopLower \/ LoopStopped
            \/ UNCHANGED vars
  <2>1. UNCHANGED <<pc, SQ, SQTail, SQHead, taken, stop>>
    BY <1>11 DEF LoopSnapshot, LoopCountM, LoopSpace, LoopTicket, LoopAdd, LoopDecrement, LoopStore,
       LoopStay, LoopExit, LoopLower, LoopStopped, vars, submitVars, syncVars, queueVars
  <2>2. UNCHANGED <<Waiting, Queue, taken, stop>>
    BY <2>1 DEF Waiting, Queue, Contents
  <2> QED
    BY <2>2 DEF Abs!qvars
<1> QED
  BY <1>1, <1>2, <1>3, <1>4, <1>5, <1>6, <1>7, <1>8, <1>9, <1>10, <1>11
     DEF Next, Submit, FallbackLoop, TakesFromChannel, Abs!QNext

\* However the direct pushes and those of fallbackLoop interleave, tasks
\* enter a bounded FIFO, each at most once and none overwritten, and the
\* kernel takes them in that order.
THEOREM FifoImplemented == Spec => ImplementsSubmitQueue
<1>1. Init => Abs!QInit
  <2> SUFFICES ASSUME Init PROVE Abs!QInit
    OBVIOUS
  <2>1. SQHead = 0 /\ SQTail = 0 /\ taken = << >> /\ stop = FALSE /\ \A t \in Tasks : pc[t] = "idle"
    BY DEF Init
  <2>2. Waiting = {}
    BY <2>1 DEF Waiting, Settled
  <2>3. Queue = << >>
    <3>1. 0 \in Nat /\ 0 <= 0 /\ SQ \in [0 .. SQEntries - 1 -> Entry]
      BY DEF Init, Entry
    <3>2. Contents(0, 0, SQ) \in Seq(Entry) /\ Len(Contents(0, 0, SQ)) = 0 - 0
      BY <3>1, ContentsSeq DEF IsContents
    <3>3. Queue = Contents(0, 0, SQ)
      BY <2>1 DEF Queue
    <3> QED
      BY <3>2, <3>3, EmptySeq
  <2> QED
    BY <2>1, <2>2, <2>3 DEF Abs!QInit
<1>2. Abs!QInit => Q!QInit
  BY DEF Abs!QInit, Q!QInit, Waiting, Settled, Queue, Contents, Slot
<1>3. [Abs!QNext]_Abs!qvars => [Q!QNext]_Q!qvars
  BY DEF Abs!QNext, Abs!Announce, Abs!Enqueue, Abs!Take, Abs!GiveUp, Abs!QStop, Abs!qvars,
         Q!QNext, Q!Announce, Q!Enqueue, Q!Take, Q!GiveUp, Q!QStop, Q!qvars,
         Waiting, Settled, Queue, Contents, Slot
<1>4. IInv /\ FifoInv /\ [Next]_vars => [Q!QNext]_Q!qvars
  BY FifoSimulates, <1>3
<1> QED
  BY FifoInvariance, <1>1, <1>2, <1>4, PTL DEF Spec, ImplementsSubmitQueue, Q!QSpec
=============================================================================
