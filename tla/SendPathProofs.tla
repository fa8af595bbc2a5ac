--------------------------- MODULE SendPathProofs ---------------------------
(***************************************************************************)
(* The cell of a descriptor serves one send at a time, whatever happens;   *)
(* and as long as no message is cut short twice and the descriptor is      *)
(* closed after a flush, the bytes on the wire are those of the messages,  *)
(* for every length and every number of them.                              *)
(***************************************************************************)
EXTENDS SendPath, Remainders, SequenceTheorems, TLAPS

(***************************************************************************)
(* The inductive invariant.                                                *)
(***************************************************************************)

\* queued is ahead of finished by the one send that is under way, or that
\* Stop has thrown away.
CountExact ==
  /\ queued <= finished + 1
  /\ pc \in {"compare", "fill"} => queued = finished
  /\ pc \in {"submit", "resubmit"} => queued = finished + 1

\* A dropped rest is one more that is never finished: no call gets past the
\* comparison of the two again.
CountDropped ==
  /\ Pending < queued - finished
  /\ pc \notin {"compare", "resubmit"}
  /\ pc = "submit" => finished + 2 <= queued

CountInv ==
  /\ Pending <= 1 /\ Pending <= queued - finished
  /\ pc \in {"compare", "fill", "submit", "resubmit"} => Pending = 0
  /\ pc = "err" => seen <= finished
  /\ IF dropped THEN CountDropped ELSE CountExact

\* A result is a length or an error.
ResultsInv == \A i \in 1 .. Len(cq) : cq[i] \in Nat \cup {-1}

\* The cell's length is that of the task, and its sent is within it.
SizeInv ==
  /\ sent <= len
  /\ queued = 0 => len = 0
  /\ flight # << >> => sent = 0 /\ Head(flight).len = len
  /\ cq # << >> => sent = 0 /\ Head(cq) <= len
  /\ pc \in {"submit", "resubmit"} => sent = 0 /\ rest.len = len

\* A cell without an outcome has no error, nor has one that is looked into.
ErrInv ==
  /\ pc \in {"compare", "fill", "submit", "resubmit"} => ~err
  /\ queued = 0 => ~err
  /\ queued # finished /\ poller = "take" /\ ~dropped => ~err

\* The errors in the cell, and those on their way to it, are of this socket.
OwnErrors ==
  FlushFirst /\ (err \/ \E i \in 1 .. Len(cq) : cq[i] = -1) => failed

Sound == TypeOK /\ CountInv /\ ResultsInv /\ SizeInv /\ ErrInv /\ OwnErrors

\* The i-th byte of the accepted messages, and how many of them the kernel
\* has not taken.
Byte(i) == <<asked[((i - 1) \div MsgLen) + 1], ((i - 1) % MsgLen) + 1>>
Owed    == Len(asked) * MsgLen - Len(stream)

PrefixInv == Owed >= 0 /\ \A i \in 1 .. Len(stream) : stream[i] = Byte(i)

\* No error in the cell nor on its way to it.
Clean == ~err /\ \A i \in 1 .. Len(cq) : cq[i] # -1

\* What is owed is the end of the last message.
OwedLast == Owed > 0 => asked # << >> /\ asked[Len(asked)] = msgs

\* A task p covers what is owed.
Covers(p) == p.len = Owed /\ p.len > 0 /\ p.ptr = <<msgs, MsgLen - Owed + 1>>

\* The cell describes the whole message, and not the rest of one.
Whole == len = MsgLen /\ buf = <<msgs, 1>>

\* What the cell says of the send, from the flight of its task to the next
\* call's look at it.
CellInv ==
  /\ len <= MsgLen
  /\ flight # << >> => Covers(Head(flight)) /\ (Whole \/ partials >= MaxPartials)
  /\ cq # << >> => Owed = len - Head(cq)
  /\ poller = "finish" \/ queued = finished => Owed = len - sent
  /\ cq # << >> \/ poller = "finish" \/ queued = finished
       => Owed = 0 \/ (Whole /\ partials >= MaxPartials)
  /\ pc = "submit" => /\ Owed = 0 /\ Whole
                      /\ rest = [ptr |-> <<msgs, 1>>, len |-> MsgLen]
  /\ pc = "resubmit" => Covers(rest) /\ partials >= MaxPartials
  /\ pc = "fill" => Owed = 0
  /\ Pending = 0 /\ queued # finished => sent < len

LedgerInv == PrefixInv /\ OwedLast /\ (Clean => CellInv)

\* What the code is right about: one short send of a message, and no
\* descriptor reused before its last send has been flushed.
Disciplined == FlushFirst /\ MaxPartials <= 1

IInv == Sound /\ (Disciplined /\ ~dropped => LedgerInv)

(***************************************************************************)
(* A queue of at most one task or result.                                  *)
(***************************************************************************)
Task == [ptr : Ptr, len : Nat]

\* What leaves such a queue is all there was.
LEMMA TakeOnly ==
  ASSUME NEW S, NEW q \in Seq(S), Len(q) <= 1
  PROVE  /\ Len(q) \in Nat
         /\ q = << >> <=> Len(q) = 0
         /\ q # << >> => /\ Head(q) \in S /\ Head(q) = q[1]
                         /\ Tail(q) = << >> /\ Len(q) = 1
<1>1. Len(q) \in Nat /\ (q = << >> <=> Len(q) = 0)
  BY EmptySeq, LenProperties
<1>2. ASSUME q # << >> PROVE Head(q) \in S /\ Head(q) = q[1] /\ Tail(q) = << >> /\ Len(q) = 1
  <2>1. Head(q) \in S /\ Tail(q) \in Seq(S) /\ Len(Tail(q)) = Len(q) - 1
    BY <1>2, HeadTailProperties
  <2>2. Len(q) = 1
    <3> DEFINE n == Len(q)
    <3>1. n \in Nat /\ n # 0 /\ n <= 1
      BY <1>1, <1>2
    <3> HIDE DEF n
    <3>2. n = 1
      BY <3>1
    <3> QED
      BY <3>2 DEF n
  <2>3. Tail(q) = << >>
    <3>1. Len(Tail(q)) = 0
      BY <2>1, <2>2
    <3> QED
      BY <2>1, <3>1, EmptySeq, Zenon
  <2> QED
    BY <1>2, <2>1, <2>2, <2>3
<1> QED
  BY <1>1, <1>2

\* What enters an empty queue is all there is.
LEMMA PutOnly ==
  ASSUME NEW S, NEW e \in S
  PROVE  /\ Append(<< >>, e) \in Seq(S) /\ Append(<< >>, e) # << >>
         /\ Len(Append(<< >>, e)) = 1
         /\ Head(Append(<< >>, e)) = e /\ Append(<< >>, e)[1] = e
<1>1. << >> \in Seq(S) /\ Len(<< >>) = 0
  BY EmptySeq
<1>2. /\ Append(<< >>, e) \in Seq(S) /\ Append(<< >>, e) # << >>
      /\ Len(Append(<< >>, e)) = 1 /\ Append(<< >>, e)[1] = e
  BY <1>1, AppendProperties
<1>3. Head(Append(<< >>, e)) = e
  BY <1>1, HeadTailAppend
<1> QED
  BY <1>2, <1>3

\* The one send under way is in one place.
LEMMA OnePlace ==
  ASSUME TypeOK, CountInv
  PROVE  /\ Len(flight) \in Nat /\ Len(flight) <= 1 /\ Len(cq) \in Nat /\ Len(cq) <= 1
         /\ Pending \in Nat
         /\ flight # << >> => /\ cq = << >> /\ poller = "take" /\ Pending = 1
                              /\ Len(flight) = 1 /\ Tail(flight) = << >>
                              /\ Head(flight) \in Task
         /\ cq # << >> => /\ flight = << >> /\ poller = "take" /\ Pending = 1
                          /\ Len(cq) = 1 /\ Tail(cq) = << >>
                          /\ Head(cq) = cq[1] /\ Head(cq) \in Int
         /\ poller = "finish" => flight = << >> /\ cq = << >> /\ Pending = 1
         /\ Pending = 0 => flight = << >> /\ cq = << >> /\ poller = "take"
         /\ flight = << >> => Len(flight) = 0
         /\ cq = << >> => Len(cq) = 0
<1>1. /\ flight \in Seq(Task) /\ cq \in Seq(Int) /\ poller \in {"take", "finish"}
      /\ queued \in Nat /\ finished \in Nat
  BY DEF TypeOK, Task
<1>3. Len(flight) \in Nat /\ Len(cq) \in Nat
  BY <1>1, LenProperties
<1>p. Pending \in Nat
  BY <1>3 DEF Pending
<1>2. Pending <= 1
  BY DEF CountInv
<1>4. Len(flight) <= 1 /\ Len(cq) <= 1 /\ Pending \in Nat
  BY <1>1, <1>2, <1>3 DEF Pending
<1>5. /\ flight = << >> <=> Len(flight) = 0
      /\ flight # << >> => /\ Tail(flight) = << >> /\ Len(flight) = 1
                           /\ Head(flight) \in Task
  BY <1>1, <1>4, TakeOnly
<1>6. /\ cq = << >> <=> Len(cq) = 0
      /\ cq # << >> => /\ Head(cq) \in Int /\ Head(cq) = cq[1]
                       /\ Tail(cq) = << >> /\ Len(cq) = 1
  BY <1>1, <1>4, TakeOnly
<1> QED
  BY <1>1, <1>2, <1>3, <1>4, <1>5, <1>6 DEF Pending

(***************************************************************************)
(* The initial state.                                                      *)
(***************************************************************************)

\* Nothing has been sent, and nothing is owed.
LEMMA InitIInv == Init => IInv
<1> SUFFICES ASSUME Init PROVE IInv
  OBVIOUS
<1>e. Len(<< >>) = 0
  BY EmptySeq
<1>1. TypeOK
  <2>1. flight \in Seq(Task) /\ cq \in Seq(Int) /\ asked \in Seq(Nat) /\ stream \in Seq(Ptr)
    <3>1. \A S : << >> \in Seq(S)
      BY EmptySeq
    <3>2. flight = << >> /\ cq = << >> /\ asked = << >> /\ stream = << >>
      BY DEF Init
    <3> QED
      BY <3>1, <3>2, Zenon
  <2>2. <<0, 0>> \in Ptr
    BY DEF Ptr
  <2>3. {seen, queued, finished, len, sent, msgs, partials, reuses} \subseteq Nat
    BY DEF Init
  <2>4. {err, failed, unwoken, stop, dropped} \subseteq BOOLEAN
    BY DEF Init
  <2>5. buf \in Ptr /\ rest \in Task
    BY <2>2 DEF Init, Task
  <2> QED
    BY <2>1, <2>3, <2>4, <2>5 DEF Init, TypeOK, Task
<1>p. Pending = 0
  BY <1>e DEF Init, Pending
<1>2. CountInv /\ ResultsInv /\ SizeInv /\ ErrInv /\ OwnErrors
  BY <1>e, <1>p DEF Init, CountInv, CountExact, ResultsInv, SizeInv, ErrInv, OwnErrors
<1>3. Owed = 0
  BY <1>e, MsgLenAssumption DEF Init, Owed
<1>4. PrefixInv /\ OwedLast /\ CellInv
  BY <1>e, <1>3, MsgLenAssumption DEF Init, PrefixInv, OwedLast, CellInv
<1> QED
  BY <1>1, <1>2, <1>4 DEF IInv, Sound, LedgerInv

(***************************************************************************)
(* Steps: types and sizes.                                                 *)
(***************************************************************************)

\* The types, one by one.
LEMMA Types ==
  ASSUME TypeOK
  PROVE  /\ seen \in Nat /\ queued \in Nat /\ finished \in Nat /\ len \in Nat
         /\ sent \in Nat /\ msgs \in Nat /\ partials \in Nat /\ reuses \in Nat
         /\ err \in BOOLEAN /\ failed \in BOOLEAN /\ stop \in BOOLEAN
         /\ unwoken \in BOOLEAN /\ dropped \in BOOLEAN /\ result \in {"ok", "error"}
         /\ buf \in Ptr /\ rest \in Task /\ flight \in Seq(Task) /\ cq \in Seq(Int)
         /\ asked \in Seq(Nat) /\ stream \in Seq(Ptr)
         /\ pc \in {"idle", "finished", "err", "compare", "fill", "submit", "resubmit"}
         /\ call \in {"send", "flush"} /\ poller \in {"take", "finish"}
  BY DEF TypeOK, Task

\* A position in a message moved forward is one.
LEMMA PlusPtr == \A p \in Ptr, n \in Nat : Plus(p, n) \in Ptr
  BY DEF Ptr, Plus

\* The bytes from a position are as many as are asked for.
LEMMA BytesSeq ==
  ASSUME NEW p \in Ptr, NEW n \in Nat
  PROVE  /\ Bytes(p, n) \in Seq(Ptr) /\ Len(Bytes(p, n)) = n
         /\ \A i \in 1 .. n : Bytes(p, n)[i] = Plus(p, i - 1)
<1>1. \A i \in 1 .. n : Plus(p, i - 1) \in Ptr
  <2>1. \A i \in 1 .. n : i - 1 \in Nat
    OBVIOUS
  <2> QED
    BY <2>1, PlusPtr
<1>2. Bytes(p, n) \in [1 .. n -> Ptr] /\ \A i \in 1 .. n : Bytes(p, n)[i] = Plus(p, i - 1)
  BY <1>1 DEF Bytes
<1>3. Bytes(p, n) \in Seq(Ptr)
  BY <1>2
<1>4. DOMAIN Bytes(p, n) = 1 .. n /\ DOMAIN Bytes(p, n) = 1 .. Len(Bytes(p, n))
  BY <1>2, <1>3, LenProperties
<1>5. Len(Bytes(p, n)) = n
  BY <1>3, <1>4, LenProperties
<1> QED
  BY <1>2, <1>3, <1>5

\* Every step keeps the cell and the queues well typed.
LEMMA TypeStep == Sound /\ [Next]_vars => TypeOK'
<1> SUFFICES ASSUME Sound, [Next]_vars PROVE TypeOK'
  OBVIOUS
<1>s. TypeOK /\ CountInv /\ ResultsInv /\ SizeInv /\ ErrInv
  BY DEF Sound
<1>t. /\ seen \in Nat /\ queued \in Nat /\ finished \in Nat /\ len \in Nat
      /\ sent \in Nat /\ msgs \in Nat /\ partials \in Nat /\ reuses \in Nat
      /\ err \in BOOLEAN /\ failed \in BOOLEAN /\ stop \in BOOLEAN
      /\ unwoken \in BOOLEAN /\ dropped \in BOOLEAN /\ result \in {"ok", "error"}
      /\ buf \in Ptr /\ rest \in Task /\ flight \in Seq(Task) /\ cq \in Seq(Int)
      /\ asked \in Seq(Nat) /\ stream \in Seq(Ptr)
      /\ pc \in {"idle", "finished", "err", "compare", "fill", "submit", "resubmit"}
      /\ call \in {"send", "flush"} /\ poller \in {"take", "finish"}
  BY <1>s, Types
<1>o. /\ flight # << >> => Tail(flight) = << >> /\ Head(flight) \in Task
      /\ cq # << >> => Tail(cq) = << >> /\ Head(cq) = cq[1] /\ Head(cq) \in Int /\ Len(cq) = 1
      /\ \A S : << >> \in Seq(S)
  BY <1>s, OnePlace, EmptySeq
<1> USE DEF cellVars, callVars, kernelVars, envVars, Task
<1>1. ASSUME NEW c \in {"send", "flush"}, Call(c) PROVE TypeOK'
  BY <1>s, <1>1 DEF TypeOK, Call
<1>2. CASE LoadFinished
  BY <1>s, <1>2 DEF TypeOK, LoadFinished
<1>3. CASE ReturnError \/ CheckFinished \/ PreviousDone \/ Refuse \/ Stop
  BY <1>s, <1>3 DEF TypeOK, ReturnError, CheckFinished, PreviousDone, PreviousWhen,
     Refuse, RefuseWithError, RefuseSilently, Stop
<1>4. CASE Compensate
  <2>1. len - sent \in Nat /\ Plus(buf, sent) \in Ptr /\ Plus(buf, len) \in Ptr
    BY <1>s, <1>t, PlusPtr DEF SizeInv
  <2>2. /\ rest' = [ptr |-> Plus(buf, sent), len |-> len - sent] /\ queued' = queued + 1
        /\ buf' = Plus(buf, len) /\ len' = len - sent /\ sent' = 0 /\ pc' = "resubmit"
        /\ UNCHANGED <<finished, err, call, result, seen, msgs, kernelVars, poller, asked,
                       envVars>>
    BY <1>4 DEF Compensate, CompensateFrom
  <2>3. rest' \in [ptr : Ptr, len : Nat] /\ buf' \in Ptr /\ {queued', len', sent'} \subseteq Nat
    BY <1>t, <2>1, <2>2
  <2> QED
    BY <1>s, <2>2, <2>3 DEF TypeOK
<1>5. CASE Fill
  <2>1. <<msgs + 1, 1>> \in Ptr /\ msgs + 1 \in Nat
    BY <1>t DEF Ptr
  <2>2. /\ msgs' = msgs + 1 /\ len' = MsgLen /\ sent' = 0 /\ buf' = <<msgs + 1, 1>>
        /\ queued' = queued + 1 /\ partials' = 0 /\ pc' = "submit"
        /\ rest' = [ptr |-> <<msgs + 1, 1>>, len |-> MsgLen]
        /\ UNCHANGED <<finished, err, call, result, seen, flight, unwoken, cq, stream, failed,
                        poller, asked, envVars>>
    BY <1>5 DEF Fill
  <2>3. rest' \in [ptr : Ptr, len : Nat] /\ buf' \in Ptr /\ UNCHANGED envVars
    BY <2>1, <2>2, MsgLenAssumption
  <2>4. {seen', queued', finished', len', sent', msgs', partials', reuses'} \subseteq Nat
    BY <1>t, <2>1, <2>2, MsgLenAssumption
  <2> QED
    BY <1>s, <2>2, <2>3, <2>4 DEF TypeOK
<1>6. CASE Submit
  <2>1. flight' \in Seq(Task) /\ asked' \in Seq(Nat)
    BY <1>t, <1>6, AppendProperties DEF Submit
  <2> QED
    BY <1>s, <1>6, <2>1 DEF TypeOK, Submit
<1>7. ASSUME NEW n \in 0 .. MsgLen, Transfer(n) PROVE TypeOK'
  <2>1. n \in Nat /\ n \in Int /\ Head(flight).ptr \in Ptr
    BY <1>o, <1>7, MsgLenAssumption DEF Transfer
  <2>2. flight' \in Seq(Task) /\ cq' \in Seq(Int)
    BY <1>t, <1>o, <1>7, <2>1, AppendProperties DEF Transfer
  <2>3. stream' \in Seq(Ptr)
    BY <1>t, <1>7, <2>1, BytesSeq, ConcatProperties DEF Transfer
  <2>4. partials' \in Nat
    BY <1>t, <1>7 DEF Transfer
  <2> QED
    BY <1>s, <1>7, <2>2, <2>3, <2>4 DEF TypeOK, Transfer
<1>8. CASE Fail
  <2>1. flight' \in Seq(Task) /\ cq' \in Seq(Int)
    BY <1>t, <1>o, <1>8, AppendProperties DEF Fail
  <2> QED
    BY <1>s, <1>8, <2>1 DEF TypeOK, Fail
<1>9. CASE PollWrite
  <2>1. cq' \in Seq(Int)
    BY <1>o, <1>9 DEF PollWrite, PollTake
  <2>2. sent' \in Nat
    <3>1. cq[1] \in Nat \cup {-1}
      BY <1>s, <1>o, <1>9 DEF ResultsInv, PollWrite, PollTake
    <3> QED
      BY <1>t, <1>o, <1>9, <3>1 DEF PollWrite, PollTake
  <2>3. err' \in BOOLEAN
    BY <1>t, <1>9 DEF PollWrite, PollTake
  <2> QED
    BY <1>s, <1>9, <2>1, <2>2, <2>3 DEF TypeOK, PollWrite, PollTake
<1>10. CASE PollFinish
  BY <1>s, <1>10 DEF TypeOK, PollFinish
<1>11. CASE Reuse
  <2>1. asked' \in Seq(Nat) /\ stream' \in Seq(Ptr) /\ reuses' \in Nat /\ failed' \in BOOLEAN
    <3>1. asked' = << >> /\ stream' = << >> /\ reuses' = reuses + 1 /\ failed' = FALSE
      BY <1>11 DEF Reuse
    <3>2. << >> \in Seq(Nat) /\ << >> \in Seq(Ptr)
      BY <1>o, Zenon
    <3>3. reuses + 1 \in Nat /\ FALSE \in BOOLEAN
      BY <1>t
    <3> QED
      BY <3>1, <3>2, <3>3, Zenon
  <2> QED
    BY <1>s, <1>11, <2>1 DEF TypeOK, Reuse
<1>12. CASE Drain
  BY <1>s, <1>o, <1>12 DEF TypeOK, Drain
<1>13. CASE UNCHANGED vars
  BY <1>s, <1>13 DEF TypeOK, vars
<1>14. CASE Next
  BY <1>1, <1>2, <1>3, <1>4, <1>5, <1>6, <1>7, <1>8, <1>9, <1>10, <1>11, <1>12, <1>14, Zenon
     DEF Next, Wait, Kernel, Poll
<1> QED
  BY <1>13, <1>14

\* The steps that leave the send under way where it is.
Elsewhere ==
  \/ \E c \in {"send", "flush"} : Call(c)
  \/ LoadFinished \/ ReturnError \/ CheckFinished \/ PreviousDone \/ Compensate
  \/ Fill \/ Refuse \/ Reuse \/ Stop

\* A step is one of those, or moves the send on.
LEMMA StepKinds ==
  ASSUME [Next]_vars
  PROVE  \/ Elsewhere \/ UNCHANGED vars \/ Submit \/ Fail \/ PollWrite \/ PollFinish \/ Drain
         \/ \E n \in 0 .. MsgLen : Transfer(n)
  BY Zenon DEF Next, Wait, Kernel, Poll, Elsewhere

\* Where the send is afterwards.
LEMMA PlaceStep ==
  ASSUME Sound, [Next]_vars
  PROVE  /\ Elsewhere \/ UNCHANGED vars
              => UNCHANGED <<flight, cq, poller>> /\ Pending' = Pending
         /\ Submit => /\ flight = << >> /\ cq = << >> /\ poller = "take"
                      /\ flight' = <<rest>> /\ UNCHANGED <<cq, poller>> /\ Pending' = 1
                      /\ Head(flight') = rest /\ flight' # << >>
         /\ Fail \/ (\E n \in 0 .. MsgLen : Transfer(n))
              => /\ flight # << >> /\ Head(flight) \in Task /\ cq = << >> /\ poller = "take"
                 /\ flight' = << >> /\ poller' = poller /\ Pending = 1 /\ Pending' = 1
                 /\ Len(cq') = 1 /\ Head(cq') = cq'[1] /\ cq' # << >>
         /\ Fail => cq'[1] = -1
         /\ \A n \in 0 .. MsgLen : Transfer(n) => cq'[1] = n
         /\ PollWrite => /\ cq # << >> /\ flight = << >> /\ poller = "take" /\ Len(cq) = 1
                         /\ Head(cq) = cq[1] /\ cq[1] \in Nat \cup {-1}
                         /\ cq' = << >> /\ flight' = flight /\ poller' = "finish"
                         /\ Pending = 1 /\ Pending' = 1
         /\ PollFinish => /\ flight = << >> /\ cq = << >> /\ poller = "finish"
                          /\ UNCHANGED <<flight, cq>> /\ poller' = "take"
                          /\ Pending = 1 /\ Pending' = 0
         /\ Drain => /\ flight # << >> /\ cq = << >> /\ poller = "take" /\ flight' = << >>
                     /\ UNCHANGED <<cq, poller>> /\ Pending = 1 /\ Pending' = 0
<1>s. TypeOK /\ CountInv /\ ResultsInv
  BY DEF Sound
<1>e. Len(<< >>) = 0
  BY EmptySeq
<1>o. /\ flight # << >> => /\ cq = << >> /\ poller = "take" /\ Pending = 1
                           /\ Tail(flight) = << >> /\ Head(flight) \in Task
      /\ cq # << >> => /\ flight = << >> /\ poller = "take" /\ Pending = 1
                       /\ Len(cq) = 1 /\ Tail(cq) = << >> /\ Head(cq) = cq[1]
      /\ poller = "finish" => flight = << >> /\ cq = << >> /\ Pending = 1
      /\ Pending = 0 => flight = << >> /\ cq = << >> /\ poller = "take"
  BY <1>s, OnePlace
<1>1. ASSUME Elsewhere \/ UNCHANGED vars
      PROVE  UNCHANGED <<flight, cq, poller>> /\ Pending' = Pending
  <2>1. UNCHANGED <<flight, cq, poller>>
    BY <1>1 DEF Elsewhere, Call, LoadFinished, ReturnError, CheckFinished, PreviousDone,
       PreviousWhen, Compensate, CompensateFrom, Fill, Refuse, RefuseWithError, RefuseSilently,
       Reuse, Stop, kernelVars, vars
  <2> QED
    BY <2>1 DEF Pending
<1>2. ASSUME Submit
      PROVE  /\ flight = << >> /\ cq = << >> /\ poller = "take"
             /\ flight' = <<rest>> /\ UNCHANGED <<cq, poller>> /\ Pending' = 1
             /\ Head(flight') = rest /\ flight' # << >>
  <2>1. flight = << >> /\ cq = << >> /\ poller = "take"
    BY <1>s, <1>o, <1>2 DEF CountInv, Submit
  <2>2. flight' = Append(<< >>, rest) /\ UNCHANGED <<cq, poller>>
    BY <1>2, <2>1 DEF Submit
  <2>3. rest \in Task
    BY <1>s, Types
  <2>4. Len(flight') = 1 /\ Head(flight') = rest /\ flight' # << >>
    BY <2>2, <2>3, PutOnly
  <2>5. flight' = <<rest>>
    BY <2>2
  <2> QED
    BY <1>e, <2>1, <2>2, <2>4, <2>5 DEF Pending
<1>3. ASSUME Fail \/ (\E n \in 0 .. MsgLen : Transfer(n))
      PROVE  /\ flight # << >> /\ Head(flight) \in Task /\ cq = << >> /\ poller = "take"
             /\ flight' = << >> /\ poller' = poller /\ Pending = 1 /\ Pending' = 1
             /\ Len(cq') = 1 /\ Head(cq') = cq'[1] /\ cq' # << >>
             /\ Fail => cq'[1] = -1
             /\ \A n \in 0 .. MsgLen : Transfer(n) => cq'[1] = n
  <2>1. /\ flight # << >> /\ Head(flight) \in Task /\ cq = << >> /\ poller = "take"
        /\ flight' = << >> /\ poller' = poller /\ Pending = 1
    BY <1>o, <1>3 DEF Fail, Transfer
  <2>2. PICK n \in Int : /\ cq' = Append(<< >>, n)
                         /\ Fail => n = -1
                         /\ \A m \in 0 .. MsgLen : Transfer(m) => cq' = Append(<< >>, m)
    <3>1. ASSUME Fail PROVE cq' = Append(<< >>, -1)
      BY <2>1, <3>1 DEF Fail
    <3>2. \A m \in 0 .. MsgLen : Transfer(m) => cq' = Append(<< >>, m)
      BY <2>1 DEF Transfer
    <3>3. ASSUME Fail PROVE \A m \in 0 .. MsgLen : ~ Transfer(m)
      <4> SUFFICES ASSUME NEW m \in 0 .. MsgLen, Transfer(m) PROVE FALSE
        OBVIOUS
      <4>1. Append(<< >>, -1) = Append(<< >>, m) /\ m \in Int /\ -1 \in Int /\ m # -1
        BY <3>1, <3>2, <3>3, MsgLenAssumption
      <4>2. << >> \in Seq(Int)
        BY EmptySeq
      <4> QED
        BY <4>1, <4>2, AppendInjective
    <3>4. CASE Fail
      BY <3>1, <3>2, <3>4
    <3>5. ASSUME ~ Fail PROVE \E n \in 0 .. MsgLen : cq' = Append(<< >>, n)
      BY <1>3, <3>2, <3>5
    <3> QED
      BY <3>2, <3>4, <3>5, MsgLenAssumption
  <2>3. Len(cq') = 1 /\ Head(cq') = n /\ cq'[1] = n /\ cq' # << >>
    BY <2>2, PutOnly
  <2>4. \A m \in 0 .. MsgLen : Transfer(m) => cq'[1] = m
    <3> SUFFICES ASSUME NEW m \in 0 .. MsgLen, Transfer(m) PROVE cq'[1] = m
      OBVIOUS
    <3>1. m \in Int /\ cq' = Append(<< >>, m)
      BY <2>2, MsgLenAssumption
    <3> QED
      BY <3>1, PutOnly
  <2>5. Pending' = 1
    BY <1>e, <2>1, <2>3 DEF Pending
  <2> QED
    BY <2>1, <2>2, <2>3, <2>4, <2>5
<1>4. ASSUME PollWrite
      PROVE  /\ cq # << >> /\ flight = << >> /\ poller = "take" /\ Len(cq) = 1
             /\ Head(cq) = cq[1] /\ cq[1] \in Nat \cup {-1}
             /\ cq' = << >> /\ flight' = flight /\ poller' = "finish"
             /\ Pending = 1 /\ Pending' = 1
  <2>1. /\ cq # << >> /\ flight = << >> /\ poller = "take" /\ Len(cq) = 1
        /\ Head(cq) = cq[1] /\ cq' = << >> /\ flight' = flight /\ poller' = "finish"
        /\ Pending = 1
    BY <1>o, <1>4 DEF PollWrite, PollTake
  <2>2. cq[1] \in Nat \cup {-1}
    BY <1>s, <2>1 DEF ResultsInv
  <2>3. Pending' = 1
    BY <1>e, <2>1 DEF Pending
  <2> QED
    BY <2>1, <2>2, <2>3
<1>5. ASSUME PollFinish
      PROVE  /\ flight = << >> /\ cq = << >> /\ poller = "finish"
             /\ UNCHANGED <<flight, cq>> /\ poller' = "take"
             /\ Pending = 1 /\ Pending' = 0
  <2>1. /\ flight = << >> /\ cq = << >> /\ poller = "finish"
        /\ UNCHANGED <<flight, cq>> /\ poller' = "take" /\ Pending = 1
    BY <1>o, <1>5 DEF PollFinish, kernelVars
  <2> QED
    BY <1>e, <2>1 DEF Pending
<1>6. ASSUME Drain
      PROVE  /\ flight # << >> /\ cq = << >> /\ poller = "take" /\ flight' = << >>
             /\ UNCHANGED <<cq, poller>> /\ Pending = 1 /\ Pending' = 0
  <2>1. /\ flight # << >> /\ cq = << >> /\ poller = "take" /\ flight' = << >>
        /\ UNCHANGED <<cq, poller>> /\ Pending = 1
    BY <1>o, <1>6 DEF Drain
  <2> QED
    BY <1>e, <2>1 DEF Pending
<1> QED
  BY <1>1, <1>2, <1>3, <1>4, <1>5, <1>6

\* One send at a time: queued and finished stay within one of each other, and
\* the cell is refilled only between sends.
LEMMA CountStep == Sound /\ [Next]_vars => CountInv'
<1> SUFFICES ASSUME Sound, [Next]_vars PROVE CountInv'
  OBVIOUS
<1>s. /\ Pending <= 1 /\ Pending <= queued - finished
      /\ pc \in {"compare", "fill", "submit", "resubmit"} => Pending = 0
      /\ pc = "err" => seen <= finished
      /\ IF dropped THEN CountDropped ELSE CountExact
  BY DEF Sound, CountInv
<1>t. /\ queued \in Nat /\ finished \in Nat /\ seen \in Nat /\ Pending \in Nat
      /\ dropped \in BOOLEAN
  BY OnePlace, Types DEF Sound
<1>p. Elsewhere \/ UNCHANGED vars => Pending' = Pending
  BY PlaceStep
<1> USE DEF CountInv, CountDropped, CountExact, cellVars, callVars, kernelVars, envVars
<1>1. ASSUME NEW c \in {"send", "flush"}, Call(c) PROVE CountInv'
  <2>1. dropped => queued # 0
    BY <1>s, <1>t
  <2> QED
    BY <1>1, <1>s, <1>t, <1>p, <2>1 DEF Elsewhere, Call
<1>2. CASE LoadFinished
  BY <1>2, <1>s, <1>t, <1>p DEF Elsewhere, LoadFinished
<1>3. CASE ReturnError \/ PreviousDone
  BY <1>3, <1>s, <1>t, <1>p DEF Elsewhere, ReturnError, PreviousDone, PreviousWhen
<1>r. CASE Refuse
  <2>1. Pending' = Pending /\ UNCHANGED <<queued, finished>>
    BY <1>r, <1>p DEF Elsewhere, Refuse, RefuseWithError, RefuseSilently
  <2>2. CASE RefuseWithError
    <3>1. pc' = "idle" /\ dropped' = dropped
      BY <2>2 DEF RefuseWithError
    <3> QED
      BY <1>s, <1>t, <2>1, <3>1
  <2>3. CASE RefuseSilently
    <3>1. pc = "resubmit" /\ pc' \in {"fill", "idle"} /\ dropped'
      BY <2>3 DEF RefuseSilently
    <3> QED
      BY <1>s, <1>t, <2>1, <3>1
  <2> QED
    BY <1>r, <2>2, <2>3 DEF Refuse
<1>4. CASE CheckFinished
  BY <1>4, <1>s, <1>t, <1>p DEF Elsewhere, CheckFinished
<1>5. CASE Compensate
  BY <1>5, <1>s, <1>t, <1>p DEF Elsewhere, Compensate, CompensateFrom
<1>6. CASE Fill
  BY <1>6, <1>s, <1>t, <1>p DEF Elsewhere, Fill
<1>7. CASE Submit
  <2>1. Pending' = 1
    BY <1>7, PlaceStep
  <2> QED
    BY <1>7, <1>s, <1>t, <2>1 DEF Submit
<1>8. CASE Fail \/ \E n \in 0 .. MsgLen : Transfer(n)
  <2>1. Pending' = 1 /\ Pending = 1
    BY <1>8, PlaceStep
  <2>2. UNCHANGED <<queued, finished, pc, seen, dropped>>
    BY <1>8 DEF Fail, Transfer
  <2> QED
    BY <1>s, <1>t, <2>1, <2>2
<1>9. CASE PollWrite
  <2>1. Pending' = 1 /\ Pending = 1
    BY <1>9, PlaceStep
  <2>2. UNCHANGED <<queued, finished, pc, seen, dropped>>
    BY <1>9 DEF PollWrite, PollTake
  <2> QED
    BY <1>s, <1>t, <2>1, <2>2
<1>10. CASE PollFinish
  <2>1. Pending = 1 /\ Pending' = 0
    BY <1>10, PlaceStep
  <2>2. UNCHANGED <<queued, pc, seen, dropped>> /\ finished' = finished + 1
    BY <1>10 DEF PollFinish
  <2> QED
    BY <1>s, <1>t, <2>1, <2>2
<1>11. CASE Drain
  <2>1. Pending = 1 /\ Pending' = 0
    BY <1>11, PlaceStep
  <2>2. UNCHANGED <<queued, finished, pc, seen, dropped>>
    BY <1>11 DEF Drain
  <2> QED
    BY <1>s, <1>t, <2>1, <2>2
<1>12. CASE Reuse \/ Stop
  BY <1>12, <1>s, <1>t, <1>p DEF Elsewhere, Reuse, Stop
<1>13. CASE UNCHANGED vars
  BY <1>13, <1>s, <1>t, <1>p DEF vars
<1> QED
  BY <1>1, <1>2, <1>3, <1>r, <1>4, <1>5, <1>6, <1>7, <1>8, <1>9, <1>10, <1>11, <1>12, <1>13,
     StepKinds, Zenon DEF Elsewhere

\* A result is what the kernel answers.
LEMMA ResultsStep == Sound /\ [Next]_vars => ResultsInv'
<1> SUFFICES ASSUME Sound, [Next]_vars PROVE ResultsInv'
  OBVIOUS
<1>e. Len(<< >>) = 0
  BY EmptySeq
<1>1. CASE Elsewhere \/ UNCHANGED vars \/ Submit \/ PollFinish \/ Drain
  <2>1. cq' = cq
    BY <1>1, PlaceStep
  <2> QED
    BY <2>1 DEF Sound, ResultsInv
<1>2. CASE Fail
  <2>1. Len(cq') = 1 /\ cq'[1] = -1
    BY <1>2, PlaceStep
  <2> QED
    BY <2>1 DEF ResultsInv
<1>3. ASSUME NEW n \in 0 .. MsgLen, Transfer(n) PROVE ResultsInv'
  <2>1. Len(cq') = 1 /\ cq'[1] = n
    BY <1>3, PlaceStep
  <2> QED
    BY <2>1, MsgLenAssumption DEF ResultsInv
<1>4. CASE PollWrite
  <2>1. cq' = << >>
    BY <1>4, PlaceStep
  <2> QED
    BY <1>e, <2>1 DEF ResultsInv
<1> QED
  BY <1>1, <1>2, <1>3, <1>4, StepKinds

\* The cell's length stays that of its task, and what is sent within it.
LEMMA SizeStep == Sound /\ [Next]_vars => SizeInv'
<1> SUFFICES ASSUME Sound, [Next]_vars PROVE SizeInv'
  OBVIOUS
<1>s. /\ sent <= len
      /\ queued = 0 => len = 0
      /\ flight # << >> => sent = 0 /\ Head(flight).len = len
      /\ cq # << >> => sent = 0 /\ Head(cq) <= len
      /\ pc \in {"submit", "resubmit"} => sent = 0 /\ rest.len = len
  BY DEF Sound, SizeInv
<1>t. /\ len \in Nat /\ sent \in Nat /\ queued \in Nat
      /\ pc \in {"compare", "fill"} => flight = << >> /\ cq = << >>
  BY OnePlace, Types DEF Sound, CountInv
<1>p. Elsewhere \/ UNCHANGED vars => UNCHANGED <<flight, cq>>
  BY PlaceStep
<1> USE DEF SizeInv, cellVars, callVars, kernelVars, envVars
<1>1. ASSUME NEW c \in {"send", "flush"}, Call(c) PROVE SizeInv'
  BY <1>1, <1>s, <1>p DEF Elsewhere, Call
<1>2. CASE LoadFinished \/ ReturnError \/ CheckFinished \/ PreviousDone \/ Refuse \/ Stop
  <2>1. pc' \notin {"submit", "resubmit"} \/ pc' = pc
    BY <1>2, <1>p DEF Elsewhere, LoadFinished, ReturnError, CheckFinished, PreviousDone, PreviousWhen,
       Refuse, RefuseWithError, RefuseSilently, Stop
  <2>2. UNCHANGED <<queued, sent, len, flight, cq, rest>>
    BY <1>2, <1>p DEF Elsewhere, LoadFinished, ReturnError, CheckFinished, PreviousDone, PreviousWhen,
       Refuse, RefuseWithError, RefuseSilently, Stop
  <2> QED
    BY <1>s, <2>1, <2>2
<1>3. CASE Compensate
  <2>1. flight' = << >> /\ cq' = << >>
    BY <1>3, <1>t, <1>p DEF Elsewhere, Compensate, CompensateFrom
  <2>2. sent' = 0 /\ len' = len - sent /\ rest'.len = len - sent /\ queued' = queued + 1
    BY <1>3 DEF Compensate, CompensateFrom
  <2> QED
    BY <1>s, <1>t, <2>1, <2>2
<1>4. CASE Fill
  <2>1. flight' = << >> /\ cq' = << >>
    BY <1>4, <1>t, <1>p DEF Elsewhere, Fill
  <2>2. sent' = 0 /\ len' = MsgLen /\ rest'.len = MsgLen /\ queued' = queued + 1
    BY <1>4 DEF Fill
  <2> QED
    BY <1>t, <2>1, <2>2, MsgLenAssumption
<1>5. CASE Submit
  <2>1. Head(flight') = rest /\ cq' = << >>
    BY <1>5, PlaceStep
  <2> QED
    BY <1>5, <1>s, <2>1 DEF Submit
<1>6. CASE Fail
  <2>1. flight' = << >> /\ Head(cq') = -1 /\ flight # << >>
    BY <1>6, PlaceStep
  <2>2. UNCHANGED <<queued, sent, len, pc, rest>>
    BY <1>6 DEF Fail
  <2> QED
    BY <1>s, <1>t, <2>1, <2>2
<1>7. ASSUME NEW n \in 0 .. MsgLen, Transfer(n) PROVE SizeInv'
  <2>1. flight' = << >> /\ Head(cq') = n /\ flight # << >> /\ Head(flight) \in Task
    BY <1>7, PlaceStep
  <2>2. UNCHANGED <<queued, sent, len, pc, rest>> /\ n \in 0 .. Head(flight).len
    BY <1>7 DEF Transfer
  <2> QED
    BY <1>s, <1>t, <2>1, <2>2
<1>8. CASE PollWrite
  <2>1. cq' = << >> /\ flight' = << >> /\ cq # << >> /\ Head(cq) \in Nat \cup {-1}
    BY <1>8, PlaceStep
  <2>2. sent' = IF Head(cq) < 0 THEN sent ELSE sent + Head(cq)
    BY <1>8, <2>1 DEF PollWrite, PollTake
  <2>3. sent' <= len
    BY <1>s, <1>t, <2>1, <2>2
  <2>4. UNCHANGED <<queued, len, pc, rest>> /\ pc \notin {"submit", "resubmit"}
    <3>1. Pending = 1
      BY <1>8, PlaceStep
    <3> QED
      BY <1>8, <3>1 DEF PollWrite, PollTake, Sound, CountInv
  <2> QED
    BY <1>s, <2>1, <2>3, <2>4
<1>9. CASE PollFinish
  <2>1. UNCHANGED <<flight, cq>>
    BY <1>9, PlaceStep
  <2> QED
    BY <1>9, <1>s, <2>1 DEF PollFinish
<1>10. CASE Drain
  <2>1. flight' = << >> /\ cq' = cq
    BY <1>10, PlaceStep
  <2> QED
    BY <1>10, <1>s, <2>1 DEF Drain
<1>11. CASE Reuse
  BY <1>11, <1>s, <1>p DEF Elsewhere, Reuse
<1>12. CASE UNCHANGED vars
  BY <1>12, <1>s DEF vars
<1> QED
  BY <1>1, <1>2, <1>3, <1>4, <1>5, <1>6, <1>7, <1>8, <1>9, <1>10, <1>11, <1>12,
     StepKinds, Zenon DEF Elsewhere

\* The cell has an error only with an outcome in it.
LEMMA ErrStep == Sound /\ [Next]_vars => ErrInv'
<1> SUFFICES ASSUME Sound, [Next]_vars PROVE ErrInv'
  OBVIOUS
<1>s. /\ pc \in {"compare", "fill", "submit", "resubmit"} => ~err
      /\ queued = 0 => ~err
      /\ queued # finished /\ poller = "take" /\ ~dropped => ~err
  BY DEF Sound, ErrInv
<1>t. /\ queued \in Nat /\ finished \in Nat /\ poller \in {"take", "finish"}
      /\ Pending \in Nat /\ Pending <= queued - finished /\ dropped \in BOOLEAN
      /\ ~dropped => queued <= finished + 1
      /\ pc \in {"compare", "fill", "submit", "resubmit"} => Pending = 0
  BY OnePlace, Types DEF Sound, CountInv, CountExact
<1>p. /\ Elsewhere \/ UNCHANGED vars => poller' = poller
      /\ Submit \/ Drain \/ Fail \/ (\E n \in 0 .. MsgLen : Transfer(n)) => poller' = poller
  BY PlaceStep
<1> USE DEF ErrInv, cellVars, callVars, kernelVars, envVars
<1>1. ASSUME NEW c \in {"send", "flush"}, Call(c) PROVE ErrInv'
  BY <1>1, <1>s, <1>p DEF Elsewhere, Call
<1>2. CASE LoadFinished \/ ReturnError \/ CheckFinished \/ Refuse
  BY <1>2, <1>s, <1>p DEF Elsewhere, LoadFinished, ReturnError, CheckFinished, Refuse,
     RefuseWithError, RefuseSilently
<1>3. CASE PreviousDone
  BY <1>3, <1>s, <1>p DEF Elsewhere, PreviousDone, PreviousWhen
<1>4. CASE Compensate
  BY <1>4, <1>s, <1>t, <1>p DEF Elsewhere, Compensate, CompensateFrom
<1>5. CASE Fill
  BY <1>5, <1>s, <1>t, <1>p DEF Elsewhere, Fill
<1>6. CASE Submit
  BY <1>6, <1>s, <1>p DEF Submit
<1>7. CASE Drain \/ Fail \/ (\E n \in 0 .. MsgLen : Transfer(n))
  <2>1. UNCHANGED <<pc, err, queued, finished, poller>>
    BY <1>7, <1>p DEF Drain, Fail, Transfer
  <2>2. dropped' = dropped
    BY <1>7 DEF Drain, Fail, Transfer
  <2> QED
    BY <1>s, <2>1, <2>2
<1>8. CASE PollWrite
  <2>1. Pending = 1 /\ poller' = "finish"
    BY <1>8, PlaceStep
  <2>2. UNCHANGED <<pc, queued, finished>>
    BY <1>8 DEF PollWrite, PollTake
  <2>3. queued # finished /\ queued # 0
    BY <1>t, <2>1
  <2> QED
    BY <1>t, <2>1, <2>2, <2>3
<1>9. CASE PollFinish
  <2>1. Pending = 1
    BY <1>9, PlaceStep
  <2>2. UNCHANGED <<queued, pc, err, dropped>> /\ finished' = finished + 1
    BY <1>9 DEF PollFinish
  <2>3. queued # 0 /\ pc \notin {"compare", "fill", "submit", "resubmit"}
    BY <1>t, <2>1
  <2>4. ~dropped => queued = finished + 1
    BY <1>t, <2>1
  <2> QED
    BY <2>2, <2>3, <2>4
<1>10. CASE Reuse \/ Stop
  BY <1>10, <1>s, <1>p DEF Elsewhere, Reuse, Stop
<1>11. CASE UNCHANGED vars
  BY <1>11, <1>s DEF vars
<1> QED
  BY <1>1, <1>2, <1>3, <1>4, <1>5, <1>6, <1>7, <1>8, <1>9, <1>10, <1>11,
     StepKinds, Zenon DEF Elsewhere

\* An error in the cell, or on its way to it, is one of this socket, when the
\* previous one was closed after a flush without an error.
LEMMA OwnStep == Sound /\ [Next]_vars => OwnErrors'
<1> SUFFICES ASSUME Sound, [Next]_vars PROVE OwnErrors'
  OBVIOUS
<1>s. OwnErrors /\ err \in BOOLEAN /\ failed \in BOOLEAN
  BY Types DEF Sound
<1>e. Len(<< >>) = 0
  BY EmptySeq
<1> USE DEF OwnErrors, cellVars, callVars, kernelVars, envVars
<1>1. CASE \/ \E c \in {"send", "flush"} : Call(c)
           \/ LoadFinished \/ ReturnError \/ CheckFinished \/ PreviousDone \/ Compensate
           \/ Fill \/ Refuse \/ Stop \/ UNCHANGED vars \/ Submit \/ PollFinish \/ Drain
  <2>1. UNCHANGED <<err, failed>>
    BY <1>1 DEF Call, LoadFinished, ReturnError, CheckFinished, PreviousDone, PreviousWhen, Compensate,
       CompensateFrom, Fill, Refuse, RefuseWithError, RefuseSilently, Stop, Submit, PollFinish,
       Drain, vars
  <2>2. cq' = cq
    BY <1>1, PlaceStep DEF Elsewhere
  <2> QED
    BY <1>s, <2>1, <2>2
<1>2. CASE Fail
  BY <1>2 DEF Fail
<1>3. ASSUME NEW n \in 0 .. MsgLen, Transfer(n) PROVE OwnErrors'
  <2>1. Len(cq') = 1 /\ cq'[1] = n /\ n # -1
    BY <1>3, PlaceStep, MsgLenAssumption
  <2>2. UNCHANGED <<err, failed>>
    BY <1>3 DEF Transfer
  <2> QED
    BY <1>s, <2>1, <2>2
<1>4. CASE PollWrite
  <2>1. cq' = << >> /\ Len(cq) = 1 /\ Head(cq) = cq[1] /\ cq[1] \in Nat \cup {-1}
    BY <1>4, PlaceStep
  <2>2. failed' = failed /\ err' = (err \/ cq[1] < 0)
    BY <1>4, <2>1 DEF PollWrite, PollTake
  <2>3. cq[1] < 0 => cq[1] = -1
    BY <2>1
  <2> QED
    BY <1>s, <1>e, <2>1, <2>2, <2>3
<1>5. CASE Reuse
  <2>1. FlushFirst => ~err'
    BY <1>5 DEF Reuse
  <2>2. cq' = << >>
    BY <1>5 DEF Reuse
  <2> QED
    BY <1>e, <2>1, <2>2
<1> QED
  BY <1>1, <1>2, <1>3, <1>4, <1>5, StepKinds, Zenon DEF Elsewhere

(***************************************************************************)
(* Theorems about one send at a time.                                      *)
(***************************************************************************)

\* The bookkeeping of the cell outlives every step.
LEMMA SoundInvariance == Spec => []Sound
<1>1. Init => Sound
  BY InitIInv DEF IInv
<1>2. Sound /\ [Next]_vars => Sound'
  BY TypeStep, CountStep, ResultsStep, SizeStep, ErrStep, OwnStep DEF Sound
<1> QED
  BY <1>1, <1>2, PTL DEF Spec

\* The counters never go backwards past each other and no length becomes
\* negative, whatever the kernel answers and whenever Stop is called.
THEOREM TypeCorrect == Spec => []TypeOK
<1>1. Sound => TypeOK
  BY DEF Sound
<1> QED
  BY <1>1, SoundInvariance, PTL

\* previousSendWait lets the cell be refilled only when no task, result or
\* poller will touch it any more, however often sends are cut short, fail, are
\* refused or thrown away.
THEOREM OneAtATimeHolds == Spec => []OneAtATime
<1>1. Sound => OneAtATime
  <2> SUFFICES ASSUME Sound PROVE OneAtATime
    OBVIOUS
  <2> QED
    BY DEF Sound, CountInv, OneAtATime
<1> QED
  BY <1>1, SoundInvariance, PTL

\* A call returns with the previous send's error, with the previous send done,
\* with its own submitted, or refused.
LEMMA ReturnsFrom ==
  ASSUME [Next]_vars, pc # "idle", pc' = "idle"
  PROVE  /\ ReturnError \/ PreviousDone \/ (Submit /\ pc = "submit") \/ Refuse
         /\ result' = "error" => ReturnError \/ Refuse
         /\ result' = "ok" => ~ ReturnError
<1>1. ReturnError \/ PreviousDone \/ (Submit /\ pc = "submit") \/ Refuse
  BY DEF Next, Wait, Kernel, Poll, Call, LoadFinished, ReturnError, CheckFinished,
     PreviousDone, PreviousWhen, Compensate, CompensateFrom, Fill, Submit, Refuse,
     RefuseWithError, RefuseSilently, Transfer,
     Fail, PollWrite, PollTake, PollFinish, Reuse, Stop, Drain, callVars, vars
<1>2. PreviousDone => result' = "ok"
  BY DEF PreviousDone, PreviousWhen
<1>3. Submit /\ pc = "submit" => result' = "ok"
  BY DEF Submit
<1>4. ReturnError => result' = "error"
  BY DEF ReturnError
<1> QED
  BY <1>1, <1>2, <1>3, <1>4

\* A call gives back an error only when a send of this very socket failed or
\* Stop was called, provided the socket that had the number before was flushed
\* and closed.
THEOREM ErrorOwn ==
  ASSUME FlushFirst
  PROVE  Spec => ErrorIsOwn
<1>1. Sound /\ [Next]_vars
        => [pc # "idle" /\ pc' = "idle" /\ result' = "error" => failed \/ stop]_vars
  <2> SUFFICES ASSUME Sound, [Next]_vars, pc # "idle", pc' = "idle", result' = "error"
               PROVE  failed \/ stop
    OBVIOUS
  <2>1. ReturnError \/ Refuse
    BY ReturnsFrom
  <2>2. CASE ReturnError
    BY <2>2 DEF Sound, OwnErrors, ReturnError
  <2>3. CASE Refuse
    BY <2>3 DEF Refuse, RefuseWithError, RefuseSilently
  <2> QED
    BY <2>1, <2>2, <2>3
<1> QED
  BY <1>1, SoundInvariance, PTL DEF Spec, ErrorIsOwn

(***************************************************************************)
(* The ledger: the initial bytes of the messages, and what is owed.        *)
(***************************************************************************)

\* Where a byte is that lies below the m-th message's end.
LEMMA ByteMessage ==
  ASSUME NEW m \in Nat, NEW i \in Nat \ {0}, i <= m * MsgLen
  PROVE  ((i - 1) \div MsgLen) + 1 \in 1 .. m
<1>1. i - 1 \in Nat /\ i - 1 < MsgLen * m /\ MsgLen \in Nat \ {0}
  BY MsgLenAssumption
<1>2. (i - 1) \div MsgLen \in 0 .. m - 1
  BY <1>1, DivBelow, Zenon
<1> QED
  BY <1>2

\* The bytes owed are those of the last message, in their place.
LEMMA ByteOwed ==
  ASSUME NEW m \in Nat \ {0}, NEW owed \in 1 .. MsgLen, NEW k \in 0 .. owed - 1
  PROVE  /\ ((m * MsgLen - owed + k) \div MsgLen) + 1 = m
         /\ ((m * MsgLen - owed + k) % MsgLen) + 1 = MsgLen - owed + 1 + k
<1> DEFINE x == m * MsgLen - owed + k
           r == MsgLen - owed + k
           q == m - 1
<1>1. /\ MsgLen \in Nat \ {0} /\ x \in Int /\ r \in 0 .. MsgLen - 1 /\ q \in Int
      /\ x = MsgLen * q + r
  BY MsgLenAssumption
<1> HIDE DEF x, r, q
<1>2. x \div MsgLen = q /\ x % MsgLen = r
  BY <1>1, DivIs, SMT
<1>3. q + 1 = m /\ r + 1 = MsgLen - owed + 1 + k
  BY MsgLenAssumption DEF q, r
<1> QED
  BY <1>2, <1>3 DEF x

\* The accepted bytes, the bytes taken and the difference are numbers.
LEMMA OwedInt ==
  ASSUME TypeOK
  PROVE  /\ Owed \in Int /\ Len(asked) \in Nat /\ Len(stream) \in Nat
         /\ Len(stream) = Len(asked) * MsgLen - Owed
<1>1. asked \in Seq(Nat) /\ stream \in Seq(Ptr)
  BY Types
<1>2. Len(asked) \in Nat /\ Len(stream) \in Nat
  BY <1>1, LenProperties
<1> QED
  BY <1>2, MsgLenAssumption DEF Owed

\* No error appears where there was one before, but on a reused descriptor.
LEMMA CleanBefore ==
  ASSUME Sound, Disciplined, [Next]_vars, Clean'
  PROVE  Clean
<1>t. err \in BOOLEAN /\ Len(<< >>) = 0
  BY Types, EmptySeq DEF Sound
<1> USE DEF Clean, cellVars, callVars, kernelVars, envVars
<1>1. CASE \/ \E c \in {"send", "flush"} : Call(c)
           \/ LoadFinished \/ ReturnError \/ CheckFinished \/ PreviousDone \/ Compensate
           \/ Fill \/ Refuse \/ Stop \/ UNCHANGED vars \/ Submit \/ PollFinish \/ Drain
  <2>1. err' = err
    BY <1>1 DEF Call, LoadFinished, ReturnError, CheckFinished, PreviousDone, PreviousWhen, Compensate,
       CompensateFrom, Fill, Refuse, RefuseWithError, RefuseSilently, Stop, Submit, PollFinish,
       Drain, vars
  <2>2. cq' = cq
    BY <1>1, PlaceStep DEF Elsewhere
  <2> QED
    BY <2>1, <2>2
<1>2. CASE Fail
  <2>1. Len(cq') = 1 /\ cq'[1] = -1
    BY <1>2, PlaceStep
  <2> QED
    BY <2>1
<1>3. ASSUME NEW n \in 0 .. MsgLen, Transfer(n) PROVE Clean
  <2>1. cq = << >>
    BY <1>3, PlaceStep
  <2>2. err' = err
    BY <1>3 DEF Transfer
  <2> QED
    BY <1>t, <2>1, <2>2
<1>4. CASE PollWrite
  <2>1. Len(cq) = 1 /\ Head(cq) = cq[1] /\ cq # << >>
    BY <1>4, PlaceStep
  <2>2. err' = (err \/ cq[1] < 0)
    BY <1>4, <2>1 DEF PollWrite, PollTake
  <2>3. ~ (err \/ cq[1] < 0)
    BY <2>2
  <2>4. -1 < 0
    OBVIOUS
  <2>5. ~err /\ cq[1] # -1
    BY <2>3, <2>4
  <2>6. \A i \in 1 .. Len(cq) : i = 1
    BY <2>1
  <2> QED
    BY <2>5, <2>6
<1>5. CASE Reuse
  BY <1>5, <1>t DEF Reuse, Disciplined
<1> QED
  BY <1>1, <1>2, <1>3, <1>4, <1>5, StepKinds, Zenon DEF Elsewhere

\* A send that is about to be filled, resubmitted or taken by the kernel has
\* no error behind it.
LEMMA CleanPlaces ==
  ASSUME Sound, ~dropped
  PROVE  /\ pc \in {"compare", "fill", "submit", "resubmit"} => Clean
         /\ flight # << >> => Clean
<1>1. /\ queued \in Nat /\ finished \in Nat /\ Pending \in Nat /\ Len(<< >>) = 0
      /\ Pending <= queued - finished
      /\ flight # << >> => cq = << >> /\ poller = "take" /\ Pending = 1
      /\ Pending = 0 => cq = << >> /\ poller = "take"
      /\ pc \in {"compare", "fill"} => queued = finished
      /\ pc \in {"compare", "fill", "submit", "resubmit"} => Pending = 0
      /\ pc \in {"compare", "fill", "submit", "resubmit"} => ~err
      /\ queued # finished /\ poller = "take" => ~err
  BY OnePlace, Types, EmptySeq DEF Sound, CountInv, CountExact, ErrInv
<1>2. pc \in {"compare", "fill"} => Pending = 0
  BY <1>1
<1> QED
  BY <1>1, <1>2 DEF Clean

\* Steps that change neither what is accepted, nor the stream, nor the cell,
\* nor where the send is.
LEMMA QuietLedger ==
  ASSUME Sound, Disciplined, LedgerInv, ~dropped, Clean,
         \/ \E c \in {"send", "flush"} : Call(c)
         \/ LoadFinished \/ ReturnError \/ CheckFinished \/ PreviousDone \/ Refuse \/ Stop
         \/ UNCHANGED vars,
         [Next]_vars, ~dropped'
  PROVE  CellInv'
<1>u. /\ UNCHANGED <<queued, finished, buf, len, sent, rest, stream, partials, msgs, asked>>
      /\ UNCHANGED <<flight, cq, poller>> /\ Pending' = Pending
  BY PlaceStep DEF Elsewhere, Call, LoadFinished, ReturnError, CheckFinished, PreviousDone, PreviousWhen,
     Refuse, RefuseWithError, RefuseSilently, Stop, cellVars, callVars, kernelVars, envVars, vars
<1>o. Owed' = Owed /\ Whole' = Whole
  BY <1>u DEF Owed, Whole
<1>c. CellInv
  BY DEF LedgerInv
<1>p. /\ pc' \in {"submit", "resubmit"} => pc' = pc
      /\ pc' = "fill" => pc = "fill" \/ (pc = "idle" /\ queued = 0) \/ (pc = "compare" /\ sent = len)
  BY DEF Call, LoadFinished, ReturnError, CheckFinished, PreviousDone, PreviousWhen,
     Refuse, RefuseWithError, RefuseSilently, Stop,
     callVars, vars
<1>t. /\ queued \in Nat /\ finished \in Nat /\ finished <= queued /\ len \in Nat /\ sent \in Nat
      /\ pc \in {"compare", "fill"} => queued = finished
      /\ queued = 0 => len = 0 /\ sent <= len
  BY OnePlace, Types DEF Sound, CountInv, CountExact, SizeInv
<1>f. pc' = "fill" => Owed = 0
  <2>1. ASSUME queued = 0 PROVE Owed = 0
    <3>1. finished = 0 /\ len = 0 /\ sent = 0
      BY <1>t, <2>1
    <3> QED
      BY <1>c, <2>1, <3>1 DEF CellInv
  <2>2. ASSUME pc = "compare", sent = len PROVE Owed = 0
    BY <1>c, <1>t, <2>2 DEF CellInv
  <2> QED
    BY <1>p, <1>c, <2>1, <2>2 DEF CellInv
<1>v. \A p : Covers(p)' <=> Covers(p)
  BY <1>u, <1>o DEF Covers
<1> QED
  BY <1>u, <1>o, <1>c, <1>p, <1>f DEF CellInv, Covers

\* The rest of a short send is resubmitted from the first byte not taken.
LEMMA CompensateLedger ==
  ASSUME Sound, Disciplined, LedgerInv, ~dropped, Compensate, [Next]_vars
  PROVE  CellInv'
<1>k. /\ pc = "compare" /\ sent # len /\ pc' = "resubmit"
      /\ rest' = [ptr |-> Plus(buf, sent), len |-> len - sent]
      /\ queued' = queued + 1 /\ finished' = finished
      /\ len' = len - sent /\ sent' = 0
      /\ UNCHANGED <<asked, stream, msgs, partials>>
  BY DEF Compensate, CompensateFrom, kernelVars
<1>t. /\ queued \in Nat /\ finished \in Nat /\ len \in Nat /\ sent \in Nat /\ sent <= len
      /\ queued = finished /\ Pending = 0 /\ msgs \in Nat
  BY <1>k, OnePlace, Types DEF Sound, CountInv, CountExact, SizeInv
<1>c. CellInv
  BY <1>k, CleanPlaces DEF LedgerInv
<1>w. /\ Owed = len - sent /\ len <= MsgLen
      /\ Owed = 0 \/ (Whole /\ partials >= MaxPartials)
  BY <1>c, <1>t DEF CellInv
<1>1. Owed # 0 /\ Owed \in Nat
  BY <1>k, <1>t, <1>w
<1>2. Whole /\ partials >= MaxPartials
  BY <1>w, <1>1
<1>3. Plus(buf, sent) = <<msgs, MsgLen - Owed + 1>>
  <2>1. Plus(buf, sent) = <<msgs, 1 + sent>>
    BY <1>2 DEF Whole, Plus
  <2>2. 1 + sent = MsgLen - Owed + 1
    BY <1>2, <1>w, <1>t, MsgLenAssumption DEF Whole
  <2> QED
    BY <2>1, <2>2
<1>4. Owed' = Owed
  BY <1>k DEF Owed
<1>5. Covers(rest)'
  BY <1>k, <1>1, <1>3, <1>4, <1>w DEF Covers
<1>6. flight' = << >> /\ cq' = << >> /\ poller' = "take"
  BY <1>t, OnePlace, PlaceStep DEF Elsewhere, Sound
<1>7. len' <= MsgLen /\ queued' # finished' /\ sent' < len' /\ partials' >= MaxPartials
  BY <1>k, <1>t, <1>w, <1>1, <1>2, MsgLenAssumption
<1> QED
  BY <1>k, <1>5, <1>6, <1>7 DEF CellInv

\* A cell is filled when nothing is owed.
LEMMA FillLedger ==
  ASSUME Sound, Disciplined, LedgerInv, ~dropped, Fill, [Next]_vars
  PROVE  CellInv' /\ Owed' = 0
<1>k. /\ pc = "fill" /\ pc' = "submit"
      /\ rest' = [ptr |-> <<msgs + 1, 1>>, len |-> MsgLen]
      /\ queued' = queued + 1 /\ finished' = finished
      /\ len' = MsgLen /\ sent' = 0 /\ buf' = <<msgs + 1, 1>> /\ msgs' = msgs + 1
      /\ UNCHANGED <<asked, stream>>
  BY DEF Fill
<1>t. queued \in Nat /\ finished \in Nat /\ queued = finished /\ Pending = 0
  BY <1>k, OnePlace, Types DEF Sound, CountInv, CountExact
<1>c. CellInv
  BY <1>k, CleanPlaces DEF LedgerInv
<1>1. Owed' = 0 /\ Whole'
  BY <1>k, <1>c DEF CellInv, Owed, Whole
<1>2. flight' = << >> /\ cq' = << >> /\ poller' = "take"
  BY <1>t, OnePlace, PlaceStep DEF Elsewhere, Sound
<1>3. len' <= MsgLen /\ queued' # finished' /\ sent' < len'
  BY <1>k, <1>t, MsgLenAssumption
<1> QED
  BY <1>k, <1>1, <1>2, <1>3 DEF CellInv

\* An accepted message is owed whole, an accepted rest as it was.
LEMMA SubmitLedger ==
  ASSUME Sound, Disciplined, LedgerInv, ~dropped, Submit, [Next]_vars
  PROVE  LedgerInv'
<1>k. /\ pc \in {"submit", "resubmit"} /\ pc' = IF pc = "submit" THEN "idle" ELSE "finished"
      /\ asked' = IF pc = "submit" THEN Append(asked, msgs) ELSE asked
      /\ UNCHANGED <<queued, finished, buf, len, sent, rest, msgs, stream, partials>>
  BY DEF Submit, cellVars
<1>f. /\ Head(flight') = rest /\ cq' = << >> /\ poller' = "take" /\ Pending' = 1
  BY PlaceStep
<1>t. /\ queued \in Nat /\ finished \in Nat /\ queued = finished + 1 /\ msgs \in Nat
      /\ asked \in Seq(Nat) /\ Len(asked) \in Nat /\ Owed \in Int /\ Len(stream) \in Nat
      /\ Len(stream) = Len(asked) * MsgLen - Owed
  BY <1>k, OwedInt, Types DEF Sound, CountInv, CountExact
<1>c. CellInv /\ PrefixInv /\ OwedLast
  BY <1>k, CleanPlaces DEF LedgerInv
<1>1. ASSUME pc = "submit"
      PROVE  /\ Owed = 0 /\ Owed' = MsgLen /\ Len(asked') = Len(asked) + 1
             /\ \A i \in 1 .. Len(asked) : asked'[i] = asked[i]
             /\ asked'[Len(asked')] = msgs /\ asked' # << >>
  <2>1. asked' = Append(asked, msgs)
    BY <1>1, <1>k
  <2>2. /\ Len(asked') = Len(asked) + 1 /\ asked' # << >>
        /\ \A i \in 1 .. Len(asked) : asked'[i] = asked[i]
        /\ asked'[Len(asked) + 1] = msgs
    BY <1>t, <2>1, AppendProperties
  <2>3. Owed = 0
    BY <1>1, <1>c DEF CellInv
  <2>4. Owed' = (Len(asked) + 1) * MsgLen - Len(stream)
    BY <1>k, <2>2 DEF Owed
  <2>5. Owed' = MsgLen
    BY <1>t, <2>3, <2>4, MsgLenAssumption
  <2> QED
    BY <2>2, <2>3, <2>5
<1>2. ASSUME pc = "resubmit" PROVE asked' = asked /\ Owed' = Owed
  BY <1>2, <1>k DEF Owed
<1>3. OwedLast'
  BY <1>1, <1>2, <1>k, <1>c DEF OwedLast
<1>4. PrefixInv'
  <2>1. ASSUME pc = "submit" PROVE PrefixInv'
    <3>1. Owed' >= 0
      BY <1>1, <2>1, MsgLenAssumption
    <3>2. ASSUME NEW i \in 1 .. Len(stream') PROVE stream'[i] = Byte(i)'
      <4>1. i \in 1 .. Len(stream) /\ i \in Nat \ {0} /\ i <= Len(asked) * MsgLen
        BY <1>1, <1>t, <1>k, <2>1, <3>2, MsgLenAssumption
      <4>2. ((i - 1) \div MsgLen) + 1 \in 1 .. Len(asked)
        BY <4>1, <1>t, ByteMessage
      <4>3. asked'[((i - 1) \div MsgLen) + 1] = asked[((i - 1) \div MsgLen) + 1]
        BY <1>1, <2>1, <4>2
      <4>4. stream'[i] = Byte(i)
        BY <1>c, <1>k, <4>1 DEF PrefixInv
      <4> QED
        BY <4>3, <4>4 DEF Byte
    <3> QED
      BY <3>1, <3>2 DEF PrefixInv
  <2>2. ASSUME pc = "resubmit" PROVE PrefixInv'
    BY <1>2, <1>k, <1>c, <2>2 DEF PrefixInv, Byte
  <2> QED
    BY <1>k, <2>1, <2>2
<1>5. CellInv'
  <2>1. ASSUME pc = "submit" PROVE Covers(rest)' /\ Whole'
    <3>1. Whole /\ rest = [ptr |-> <<msgs, 1>>, len |-> MsgLen]
      BY <2>1, <1>c DEF CellInv
    <3>2. MsgLen - MsgLen + 1 = 1 /\ MsgLen > 0
      BY MsgLenAssumption
    <3>3. Covers(rest)'
      BY <1>1, <1>k, <2>1, <3>1, <3>2 DEF Covers
    <3> QED
      BY <1>k, <3>1, <3>3 DEF Whole
  <2>2. ASSUME pc = "resubmit" PROVE Covers(rest)' /\ partials' >= MaxPartials
    BY <1>2, <1>k, <1>c, <2>2 DEF CellInv, Covers
  <2>3. len' <= MsgLen /\ queued' # finished'
    BY <1>c, <1>k, <1>t DEF CellInv
  <2>4. Covers(Head(flight))' /\ (Whole' \/ partials' >= MaxPartials)
    BY <1>f, <1>k, <2>1, <2>2 DEF Covers
  <2>5. pc' \in {"idle", "finished"}
    BY <1>k
  <2> QED
    BY <1>f, <2>3, <2>4, <2>5 DEF CellInv
<1> QED
  BY <1>3, <1>4, <1>5 DEF LedgerInv

\* A byte after the first l is the k-th of n, and the k-th that is owed.
LEMMA AfterStream ==
  \A l, n \in Nat, bytes, owed, i, k \in Int :
    l = bytes - owed /\ i \in 1 .. l + n /\ ~ (i <= l) /\ k = i - l - 1
      => k \in 0 .. n - 1 /\ i - 1 = bytes - owed + k /\ i - l = k + 1
  OBVIOUS

\* The kernel takes the next bytes that are owed.
LEMMA TransferLedger ==
  ASSUME Sound, Disciplined, LedgerInv, ~dropped, NEW n \in 0 .. MsgLen, Transfer(n), [Next]_vars
  PROVE  LedgerInv'
<1> DEFINE p == Head(flight).ptr
           owed == Owed
           m == Len(asked)
<1>k. /\ flight # << >> /\ n \in 0 .. Head(flight).len
      /\ n < Head(flight).len => partials < MaxPartials
      /\ partials' = IF n < Head(flight).len THEN partials + 1 ELSE partials
      /\ stream' = stream \o Bytes(p, n)
      /\ UNCHANGED <<queued, finished, buf, len, sent, pc, rest, msgs, asked>>
  BY DEF Transfer, cellVars, callVars
<1>f. /\ flight' = << >> /\ Head(cq') = n /\ cq' # << >> /\ poller' = "take" /\ Pending = 1
      /\ Pending' = 1 /\ Head(flight) \in Task
  BY PlaceStep
<1>t. /\ queued \in Nat /\ finished \in Nat /\ Pending <= queued - finished /\ msgs \in Nat
      /\ asked \in Seq(Nat) /\ m \in Nat /\ owed \in Int /\ Len(stream) \in Nat
      /\ Len(stream) = m * MsgLen - owed /\ stream \in Seq(Ptr) /\ partials \in Nat
      /\ pc \in {"compare", "fill"} => queued = finished
      /\ pc \in {"submit", "resubmit"} => Pending = 0
  BY OwedInt, Types DEF Sound, CountInv, CountExact
<1>c. CellInv /\ PrefixInv /\ OwedLast
  BY <1>k, CleanPlaces DEF LedgerInv
<1>r. /\ Head(flight).len = owed /\ owed > 0 /\ p = <<msgs, MsgLen - owed + 1>>
      /\ Whole \/ partials >= MaxPartials
      /\ len = owed /\ len <= MsgLen
  BY <1>k, <1>c DEF CellInv, Covers, Sound, SizeInv
<1>a. asked # << >> /\ asked[m] = msgs /\ m # 0
  BY <1>r, <1>c, <1>t, EmptySeq DEF OwedLast
<1>b. /\ p \in Ptr /\ n \in Nat /\ n <= owed
      /\ Bytes(p, n) \in Seq(Ptr) /\ Len(Bytes(p, n)) = n
      /\ \A i \in 1 .. n : Bytes(p, n)[i] = Plus(p, i - 1)
  <2>1. p \in Ptr /\ n \in Nat /\ n <= owed
    BY <1>f, <1>k, <1>r DEF Task
  <2> QED
    BY <2>1, BytesSeq
<1>s. /\ Len(stream') = Len(stream) + n
      /\ \A i \in 1 .. Len(stream) + n :
           stream'[i] = IF i <= Len(stream) THEN stream[i] ELSE Bytes(p, n)[i - Len(stream)]
  <2> DEFINE s == Bytes(p, n)
  <2>1. s \in Seq(Ptr) /\ Len(s) = n /\ stream \in Seq(Ptr) /\ stream' = stream \o s
    BY <1>t, <1>k, <1>b
  <2> HIDE DEF s
  <2>2. /\ Len(stream \o s) = Len(stream) + Len(s)
        /\ \A i \in 1 .. Len(stream) + Len(s) :
             (stream \o s)[i] = IF i <= Len(stream) THEN stream[i] ELSE s[i - Len(stream)]
    BY <2>1, ConcatProperties
  <2> QED
    BY <2>1, <2>2 DEF s
<1>o. Owed' = owed - n
  <2> DEFINE bytes == m * MsgLen
  <2>1. owed = bytes - Len(stream) /\ Owed' = bytes - Len(stream')
    BY <1>k DEF Owed
  <2>2. bytes \in Int
    BY <1>t, MsgLenAssumption
  <2> HIDE DEF bytes
  <2>3. bytes - (Len(stream) + n) = (bytes - Len(stream)) - n
    BY <2>2, <1>t, <1>b
  <2> QED
    BY <2>1, <2>3, <1>s
<1> HIDE DEF p, owed, m
<1>1. PrefixInv'
  <2>1. Owed' >= 0
    BY <1>o, <1>b, <1>t
  <2>2. ASSUME NEW i \in 1 .. Len(stream'), i <= Len(stream) PROVE stream'[i] = Byte(i)'
    <3>1. i \in 1 .. Len(stream) /\ stream'[i] = stream[i]
      BY <1>s, <1>t, <1>b, <2>2
    <3> QED
      BY <1>c, <1>k, <3>1 DEF PrefixInv, Byte
  <2>3. ASSUME NEW i \in 1 .. Len(stream'), ~ (i <= Len(stream)) PROVE stream'[i] = Byte(i)'
    <3> DEFINE k == i - Len(stream) - 1
    <3>1. k \in 0 .. n - 1 /\ i - 1 = m * MsgLen - owed + k /\ i - Len(stream) = k + 1
      <4> DEFINE l == Len(stream)
                 bytes == m * MsgLen
      <4>1. l \in Nat /\ bytes \in Int /\ owed \in Int /\ l = bytes - owed
        BY <1>t, MsgLenAssumption
      <4>2. i \in 1 .. l + n /\ ~ (i <= l) /\ n \in Nat
        BY <1>s, <1>b, <2>3
      <4>3. k = i - l - 1
        OBVIOUS
      <4> HIDE DEF l, bytes, k
      <4>4. k \in 0 .. n - 1 /\ i - 1 = bytes - owed + k /\ i - l = k + 1
        BY <4>1, <4>2, <4>3, AfterStream, SMT
      <4> QED
        BY <4>4 DEF l, bytes
    <3> HIDE DEF k
    <3>2. m \in Nat \ {0} /\ owed \in 1 .. MsgLen /\ k \in 0 .. owed - 1
      BY <1>a, <1>t, <1>r, <1>b, <3>1, MsgLenAssumption
    <3>3. /\ ((i - 1) \div MsgLen) + 1 = m
          /\ ((i - 1) % MsgLen) + 1 = MsgLen - owed + 1 + k
      <4>1. /\ ((m * MsgLen - owed + k) \div MsgLen) + 1 = m
            /\ ((m * MsgLen - owed + k) % MsgLen) + 1 = MsgLen - owed + 1 + k
        BY <3>2, ByteOwed, Zenon
      <4> QED
        BY <3>1, <4>1
    <3>4. Byte(i)' = <<msgs, MsgLen - owed + 1 + k>>
      BY <1>k, <1>a, <3>3 DEF Byte
    <3>5. stream'[i] = Bytes(p, n)[k + 1]
      BY <1>s, <2>3, <3>1
    <3>6. Bytes(p, n)[k + 1] = Plus(p, k)
      <4>1. k + 1 \in 1 .. n /\ (k + 1) - 1 = k
        BY <3>1, <1>b
      <4>2. Bytes(p, n)[k + 1] = Plus(p, (k + 1) - 1)
        BY <1>b, <4>1
      <4> QED
        BY <4>1, <4>2
    <3>7. Plus(p, k) = <<msgs, MsgLen - owed + 1 + k>>
      BY <1>r DEF Plus
    <3> QED
      BY <3>4, <3>5, <3>6, <3>7
  <2> QED
    BY <2>1, <2>2, <2>3 DEF PrefixInv
<1>2. OwedLast'
  BY <1>k, <1>a DEF OwedLast, m
<1>3. CellInv'
  <2>1. Owed' = len' - Head(cq')
    BY <1>o, <1>k, <1>r, <1>f
  <2>2. Owed' = 0 \/ (Whole' /\ partials' >= MaxPartials)
    <3>1. ASSUME n < owed PROVE Whole' /\ partials' >= MaxPartials
      <4>1. partials < MaxPartials /\ partials' = partials + 1
        BY <1>k, <1>r, <3>1
      <4>2. MaxPartials \in Nat /\ MaxPartials <= 1
        BY BoundsAssumption DEF Disciplined
      <4>3. ~ (partials >= MaxPartials) /\ partials' >= MaxPartials
        BY <4>1, <4>2, <1>t
      <4> QED
        BY <1>r, <1>k, <4>3 DEF Whole
    <3>2. ASSUME ~ (n < owed) PROVE Owed' = 0
      BY <1>o, <1>b, <1>t, <3>2
    <3> QED
      BY <3>1, <3>2
  <2>3. len' <= MsgLen /\ pc' \notin {"submit", "resubmit", "fill"} /\ queued' # finished'
    BY <1>k, <1>r, <1>t, <1>f
  <2> QED
    BY <1>f, <2>1, <2>2, <2>3 DEF CellInv
<1> QED
  BY <1>1, <1>2, <1>3 DEF LedgerInv

\* An outcome that reaches the cell settles what is owed.
LEMMA PollLedger ==
  ASSUME Sound, Disciplined, LedgerInv, ~dropped, Clean, PollWrite \/ PollFinish, [Next]_vars
  PROVE  Clean' => CellInv'
<1>c. CellInv
  BY DEF LedgerInv
<1>t. /\ queued \in Nat /\ finished \in Nat /\ Pending \in Nat /\ Pending <= queued - finished
      /\ queued <= finished + 1
      /\ pc \in {"compare", "fill"} => queued = finished
      /\ pc \in {"submit", "resubmit"} => Pending = 0
      /\ cq # << >> => sent = 0
      /\ sent \in Nat /\ len \in Nat
  BY OnePlace, Types DEF Sound, CountInv, CountExact, SizeInv
<1>1. ASSUME PollWrite, Clean' PROVE CellInv'
  <2>1. /\ cq # << >> /\ flight' = << >> /\ Head(cq) = cq[1] /\ Len(cq) = 1
        /\ cq[1] \in Nat \cup {-1} /\ cq' = << >> /\ poller' = "finish"
        /\ Pending = 1 /\ Pending' = 1
    BY <1>1, PlaceStep
  <2>2. /\ UNCHANGED <<queued, finished, buf, len, pc, rest, msgs, stream, partials, asked>>
        /\ sent' = IF cq[1] < 0 THEN sent ELSE sent + cq[1]
    BY <1>1, <2>1 DEF PollWrite, PollTake, callVars
  <2>3. cq[1] \in Nat
    BY <2>1 DEF Clean
  <2>4. sent' = cq[1]
    BY <1>t, <2>1, <2>2, <2>3
  <2>5. Owed' = Owed /\ Whole' = Whole
    BY <2>2 DEF Owed, Whole
  <2>6. Owed = len - cq[1] /\ (Owed = 0 \/ (Whole /\ partials >= MaxPartials)) /\ len <= MsgLen
    BY <1>c, <2>1 DEF CellInv
  <2>7. queued # finished /\ pc \notin {"compare", "fill", "submit", "resubmit"}
    BY <1>t, <2>1
  <2> QED
    BY <2>1, <2>2, <2>4, <2>5, <2>6, <2>7 DEF CellInv
<1>2. ASSUME PollFinish PROVE CellInv'
  <2>1. /\ flight' = << >> /\ cq' = << >> /\ poller = "finish" /\ poller' = "take"
        /\ Pending = 1 /\ Pending' = 0
    BY <1>2, PlaceStep
  <2>2. /\ UNCHANGED <<queued, buf, len, sent, pc, rest, msgs, stream, partials, asked>>
        /\ finished' = finished + 1
    BY <1>2 DEF PollFinish, callVars, kernelVars
  <2>3. queued' = finished' /\ pc \notin {"compare", "fill", "submit", "resubmit"}
    BY <1>t, <2>1, <2>2
  <2>4. Owed' = Owed /\ Whole' = Whole
    BY <2>2 DEF Owed, Whole
  <2>5. /\ Owed = len - sent /\ len <= MsgLen
        /\ Owed = 0 \/ (Whole /\ partials >= MaxPartials)
    BY <1>c, <2>1 DEF CellInv
  <2> QED
    BY <2>1, <2>2, <2>3, <2>4, <2>5 DEF CellInv
<1> QED
  BY <1>1, <1>2

\* A task thrown away leaves its cell waiting for good.
LEMMA DrainLedger ==
  ASSUME Sound, Disciplined, LedgerInv, ~dropped, Drain, [Next]_vars
  PROVE  CellInv'
<1>1. /\ flight # << >> /\ flight' = << >> /\ cq' = << >> /\ poller' = "take"
      /\ Pending = 1 /\ Pending' = 0
  BY PlaceStep
<1>2. UNCHANGED <<queued, finished, buf, len, sent, pc, rest, msgs, stream, partials, asked>>
  BY DEF Drain, cellVars, callVars
<1>c. CellInv /\ Head(flight).len = len /\ sent = 0
  BY <1>1, CleanPlaces DEF LedgerInv, Sound, SizeInv
<1>t. /\ queued \in Nat /\ finished \in Nat /\ Pending <= queued - finished
      /\ pc \in {"compare", "fill"} => queued = finished
      /\ pc \in {"submit", "resubmit"} => Pending = 0
  BY Types DEF Sound, CountInv, CountExact
<1>3. queued # finished /\ pc \notin {"compare", "fill", "submit", "resubmit"}
  BY <1>1, <1>t
<1>4. len > 0 /\ len <= MsgLen
  BY <1>1, <1>c DEF CellInv, Covers
<1> QED
  BY <1>1, <1>2, <1>3, <1>4, <1>c DEF CellInv

\* A flushed descriptor owes nothing when its number is given to a new socket.
LEMMA ReuseLedger ==
  ASSUME Sound, Disciplined, LedgerInv, ~dropped, Reuse, [Next]_vars
  PROVE  LedgerInv'
<1>1. /\ sent = len /\ ~err /\ pc = "idle" /\ flight = << >> /\ cq = << >> /\ poller = "take"
      /\ asked' = << >> /\ stream' = << >>
      /\ UNCHANGED <<queued, finished, err, buf, len, sent, pc, msgs, flight, cq, partials, poller>>
  BY DEF Reuse, Disciplined, cellVars, callVars
<1>e. Len(<< >>) = 0
  BY EmptySeq
<1>2. Clean /\ Pending = 0
  BY <1>1, <1>e DEF Clean, Pending
<1>3. CellInv
  BY <1>2 DEF LedgerInv
<1>4. sent \in Nat /\ len \in Nat
  BY Types DEF Sound
<1>5. queued = finished /\ len <= MsgLen
  BY <1>1, <1>2, <1>3, <1>4 DEF CellInv
<1>6. Owed' = 0
  BY <1>1, <1>e, MsgLenAssumption DEF Owed
<1>7. PrefixInv' /\ OwedLast'
  BY <1>1, <1>e, <1>6 DEF PrefixInv, OwedLast
<1>8. CellInv'
  BY <1>1, <1>4, <1>5, <1>6 DEF CellInv
<1> QED
  BY <1>7, <1>8 DEF LedgerInv

\* What is owed is always the end of the last message, and the stream never
\* anything but the beginning of all.
LEMMA LedgerStep ==
  ASSUME Sound, Disciplined, LedgerInv, ~dropped, [Next]_vars, ~dropped'
  PROVE  LedgerInv'
<1>b. Clean' => Clean
  BY CleanBefore
<1> USE DEF cellVars, callVars, kernelVars, envVars
<1>1. CASE Submit
  BY <1>1, SubmitLedger
<1>2. ASSUME NEW n \in 0 .. MsgLen, Transfer(n) PROVE LedgerInv'
  BY <1>2, TransferLedger
<1>3. CASE Reuse
  BY <1>3, ReuseLedger
<1>4. ASSUME \/ \E c \in {"send", "flush"} : Call(c)
             \/ LoadFinished \/ ReturnError \/ CheckFinished \/ PreviousDone \/ Refuse \/ Stop
             \/ UNCHANGED vars \/ Compensate \/ Fail \/ PollWrite \/ PollFinish \/ Drain
      PROVE  LedgerInv'
  <2>1. UNCHANGED <<asked, stream, msgs>>
    BY <1>4 DEF Call, LoadFinished, ReturnError, CheckFinished, PreviousDone, PreviousWhen,
     Refuse, RefuseWithError, RefuseSilently, Stop,
       Compensate, CompensateFrom, Fail, PollWrite, PollTake, PollFinish, Drain, vars
  <2>2. PrefixInv' /\ OwedLast'
    BY <2>1 DEF LedgerInv, PrefixInv, OwedLast, Owed, Byte
  <2>3. ASSUME Fail PROVE ~ Clean'
    <3>1. Len(cq') = 1 /\ cq'[1] = -1
      BY <2>3, PlaceStep
    <3> QED
      BY <3>1 DEF Clean
  <2>4. Clean' => CellInv'
    BY <1>4, <1>b, <2>3, QuietLedger, CompensateLedger, PollLedger, DrainLedger
  <2> QED
    BY <2>2, <2>4 DEF LedgerInv
<1>5. CASE Fill
  <2>1. UNCHANGED <<asked, stream>>
    BY <1>5 DEF Fill
  <2>2. Owed' = 0 /\ CellInv'
    BY <1>5, FillLedger
  <2>3. PrefixInv' /\ OwedLast'
    BY <2>1, <2>2 DEF LedgerInv, PrefixInv, OwedLast, Byte
  <2> QED
    BY <2>2, <2>3 DEF LedgerInv
<1> QED
  BY <1>1, <1>2, <1>3, <1>4, <1>5, StepKinds, Zenon DEF Elsewhere

(***************************************************************************)
(* Theorems about the bytes on the wire.                                   *)
(***************************************************************************)

\* A dropped rest stays dropped.
LEMMA DroppedStays ==
  ASSUME TypeOK, [Next]_vars, dropped
  PROVE  dropped'
<1> USE DEF cellVars, callVars, kernelVars, envVars
<1>1. CASE \/ \E c \in {"send", "flush"} : Call(c)
           \/ LoadFinished \/ ReturnError \/ CheckFinished \/ PreviousDone \/ Compensate
           \/ Fill \/ Submit
  BY <1>1 DEF Call, LoadFinished, ReturnError, CheckFinished, PreviousDone, PreviousWhen,
     Compensate, CompensateFrom, Fill, Submit
<1>2. CASE Refuse
  BY <1>2 DEF Refuse, RefuseWithError, RefuseSilently
<1>3. CASE \/ Fail \/ PollWrite \/ PollFinish \/ Drain \/ Reuse \/ Stop
           \/ \E n \in 0 .. MsgLen : Transfer(n)
  BY <1>3 DEF Fail, PollWrite, PollTake, PollFinish, Drain, Reuse, Stop, Transfer
<1>4. CASE UNCHANGED vars
  BY <1>4 DEF vars
<1> QED
  BY <1>1, <1>2, <1>3, <1>4, StepKinds, Zenon DEF Elsewhere

\* The ledger is kept as long as a message is cut short once at most, a
\* descriptor is flushed before it is closed and no rest is dropped.
LEMMA Invariance == Spec => []IInv
<1>1. Init => IInv
  BY InitIInv
<1>2. IInv /\ [Next]_vars => IInv'
  <2> SUFFICES ASSUME IInv, [Next]_vars PROVE IInv'
    OBVIOUS
  <2>1. Sound /\ TypeOK
    BY DEF IInv, Sound
  <2>2. Sound'
    BY <2>1, TypeStep, CountStep, ResultsStep, SizeStep, ErrStep, OwnStep DEF Sound
  <2>3. ASSUME Disciplined, ~dropped' PROVE LedgerInv'
    <3>1. ~dropped
      BY <2>1, <2>3, DroppedStays
    <3>2. LedgerInv
      BY <2>3, <3>1 DEF IInv
    <3> QED
      BY <2>1, <2>3, <3>1, <3>2, LedgerStep
  <2>4. Disciplined' => Disciplined
    BY DEF Disciplined
  <2> QED
    BY <2>2, <2>3, <2>4 DEF IInv
<1> QED
  BY <1>1, <1>2, PTL DEF Spec

\* The stream is the beginning of the messages, byte by byte.
LEMMA StreamPrefix ==
  ASSUME TypeOK, PrefixInv
  PROVE  /\ stream = SubSeq(Expected, 1, Len(stream))
         /\ Owed = 0 => stream = Expected
<1> DEFINE T == Len(asked) * MsgLen
<1>1. /\ asked \in Seq(Nat) /\ stream \in Seq(Ptr) /\ Len(asked) \in Nat /\ Len(stream) \in Nat
      /\ T \in Nat /\ Owed = T - Len(stream) /\ Len(stream) <= T
  BY OwedInt, Types, MsgLenAssumption DEF PrefixInv, Owed
<1>2. Expected = [i \in 1 .. T |-> Byte(i)]
  BY DEF Expected, Byte
<1>3. \A i \in 1 .. T : Byte(i) \in Ptr
  <2> SUFFICES ASSUME NEW i \in 1 .. T PROVE Byte(i) \in Ptr
    OBVIOUS
  <2>1. ((i - 1) \div MsgLen) + 1 \in 1 .. Len(asked)
    BY <1>1, ByteMessage
  <2>2. i - 1 \in Int /\ MsgLen \in Nat \ {0}
    BY <1>1, MsgLenAssumption
  <2>3. (i - 1) % MsgLen \in 0 .. MsgLen - 1
    BY <2>2, Division, Zenon
  <2>4. asked[((i - 1) \div MsgLen) + 1] \in Nat /\ ((i - 1) % MsgLen) + 1 \in Nat
    BY <1>1, <2>1, <2>3, MsgLenAssumption, ElementOfSeq
  <2> QED
    BY <2>4 DEF Byte, Ptr
<1> HIDE DEF T
<1>4. Expected \in Seq(Ptr) /\ \A i \in 1 .. T : Expected[i] = Byte(i)
  BY <1>1, <1>2, <1>3
<1>5. Len(Expected) = T
  <2>1. DOMAIN Expected = 1 .. T /\ DOMAIN Expected = 1 .. Len(Expected)
    BY <1>2, <1>4, LenProperties
  <2>2. Len(Expected) \in Nat
    BY <1>4, LenProperties
  <2> QED
    BY <1>1, <2>1, <2>2
<1>6. stream = SubSeq(Expected, 1, Len(stream))
  <2> DEFINE P == SubSeq(Expected, 1, Len(stream))
  <2>1. \A i \in 1 .. Len(stream) : Expected[i] \in Ptr /\ Expected[i] = stream[i]
    BY <1>1, <1>3, <1>4 DEF PrefixInv
  <2>2. /\ P \in Seq(Ptr)
        /\ Len(P) = IF 1 <= Len(stream) THEN Len(stream) - 1 + 1 ELSE 0
        /\ \A i \in 1 .. Len(stream) - 1 + 1 : P[i] = Expected[1 + i - 1]
    BY <1>1, <2>1, SubSeqProperties
  <2> HIDE DEF P
  <2>3. Len(P) = Len(stream) /\ \A i \in 1 .. Len(stream) : P[i] = stream[i]
    BY <1>1, <2>1, <2>2
  <2>4. stream = P
    BY <1>1, <2>2, <2>3, SeqEqual
  <2> QED
    BY <2>4 DEF P
<1>7. Owed = 0 => stream = Expected
  <2> SUFFICES ASSUME Owed = 0 PROVE stream = Expected
    OBVIOUS
  <2>1. Len(stream) = Len(Expected) /\ \A i \in 1 .. Len(stream) : stream[i] = Expected[i]
    BY <1>1, <1>4, <1>5 DEF PrefixInv
  <2> QED
    BY <1>1, <1>4, <2>1, SeqEqual
<1> QED
  BY <1>6, <1>7

\* What the kernel takes is a prefix of what Send was given, when no message is
\* cut short twice, no descriptor is closed without a flush and no rest was
\* dropped after Stop: for every length
\* of a message and every number of messages and reuses.
THEOREM StreamPrefixHolds ==
  ASSUME Disciplined
  PROVE  Spec => []StreamIsPrefix
<1>1. IInv => StreamIsPrefix
  BY StreamPrefix DEF IInv, Sound, LedgerInv, StreamIsPrefix
<1> QED
  BY <1>1, Invariance, PTL

\* Only Send fills the cell and submits a message: a flush has nothing to wait
\* for when the cell was never used.
LEMMA OnlySendFills == Spec => [](pc \in {"fill", "submit"} => call = "send")
<1> DEFINE P == pc \in {"fill", "submit"} => call = "send"
<1>1. Init => P
  BY DEF Init
<1>2. P /\ [Next]_vars => P'
  BY DEF Next, Wait, Kernel, Poll, Call, LoadFinished, ReturnError, CheckFinished,
     PreviousDone, PreviousWhen, Compensate, CompensateFrom, Fill, Submit, Refuse,
     RefuseWithError, RefuseSilently, Transfer,
     Fail, PollWrite, PollTake, PollFinish, Reuse, Stop, Drain, callVars, vars
<1> QED
  BY <1>1, <1>2, PTL DEF Spec

\* FlushFDSends returns without an error only when the kernel has every byte, or
\* when Stop has just refused the rest of a partial send.
THEOREM FlushDelivered ==
  ASSUME Disciplined
  PROVE  Spec => FlushDelivers
<1> DEFINE P == pc \in {"fill", "submit"} => call = "send"
<1>1. IInv /\ P /\ [Next]_vars
        => [call = "flush" /\ pc # "idle" /\ pc' = "idle" /\ result' = "ok"
              => stream = Expected \/ (stop /\ pc = "resubmit")]_vars
  <2> SUFFICES ASSUME IInv, P, [Next]_vars, call = "flush", pc # "idle", pc' = "idle",
                      result' = "ok"
               PROVE  stream = Expected \/ (stop /\ pc = "resubmit")
    OBVIOUS
  <2>1. Sound
    BY DEF IInv
  <2>2. PreviousDone \/ Refuse
    BY ReturnsFrom
  <2>3. CASE Refuse
    BY <2>3 DEF Refuse, RefuseWithError, RefuseSilently
  <2>4. CASE PreviousDone
    <3>1. pc = "compare" /\ sent = len
      BY <2>4 DEF PreviousDone, PreviousWhen
    <3>d. ~dropped /\ LedgerInv
      BY <2>1, <3>1 DEF IInv, Sound, CountInv, CountDropped
    <3>2. CellInv
      BY <2>1, <3>1, <3>d, CleanPlaces DEF LedgerInv
    <3>3. queued = finished /\ sent \in Nat /\ len \in Nat
      BY <2>1, <3>1, <3>d, Types DEF Sound, CountInv, CountExact
    <3>4. Owed = 0
      BY <3>1, <3>2, <3>3 DEF CellInv
    <3> QED
      BY <2>1, <3>d, <3>4, StreamPrefix DEF Sound, LedgerInv
  <2> QED
    BY <2>2, <2>3, <2>4
<1> QED
  BY <1>1, Invariance, OnlySendFills, PTL DEF Spec, FlushDelivers
=============================================================================
