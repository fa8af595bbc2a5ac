----------------------------- MODULE SendPath ------------------------------
(***************************************************************************)
(* Send and FlushFDSends on one descriptor.                                *)
(*                                                                         *)
(* A Send returns when its task is submitted.  The sendCell of the         *)
(* descriptor remembers the payload, and the next Send, or the flush,      *)
(* first waits for the poller to have written the outcome into the cell,   *)
(* and resubmits what a partial send has left over.                        *)
(*                                                                         *)
(* One goroutine uses the descriptor.  A message is MsgLen bytes, its k-th *)
(* byte is <<message, k>>, and a pointer is the byte it points to.  The    *)
(* way of a task to the kernel is that of SubmitRing: here it is accepted, *)
(* or, after Stop, refused or thrown away.                                 *)
(***************************************************************************)
EXTENDS Integers, Sequences

CONSTANTS
  MsgLen,       \* bytes of a message
  MaxMsgs,      \* bound on the messages
  MaxPartials,  \* bound on the partial sends of one message
  MaxReuses,    \* bound on the times the descriptor is closed and reused
  FlushFirst,   \* whether it is closed only after a flush that found all sent
  MayStop       \* whether Stop may be called

ASSUME MsgLenAssumption == MsgLen \in Nat \ {0}
ASSUME BoundsAssumption == {MaxMsgs, MaxPartials, MaxReuses} \subseteq Nat
ASSUME FlagsAssumption == {FlushFirst, MayStop} \subseteq BOOLEAN

VARIABLES
  pc,        \* where the goroutine is
  call,      \* its call
  result,    \* what the last call that returned has returned
  seen,      \* its copy of finished
  queued,    \* sendCell.queued
  finished,  \* sendCell.finished
  err,       \* sendCell.err # nil
  buf,       \* sendCell.buf
  len,       \* sendCell.len
  sent,      \* sendCell.sent
  rest,      \* the task being submitted: [ptr, len]
  flight,    \* tasks submitted and not answered
  unwoken,   \* whether the push of the task in flight failed to wake the kernel
  cq,        \* results the poller has not seen, -1 for an error
  poller,    \* where the poller is
  msgs,      \* messages so far
  asked,     \* those accepted for this connection
  stream,    \* the bytes the kernel has taken for this connection
  failed,    \* whether a send of this connection has failed
  partials,  \* partial sends of the last message
  reuses,    \* times the descriptor was reused
  stop,      \* whether NetRing.stop is closed
  dropped    \* whether a rest was refused and the call went on without an error

cellVars   == <<queued, finished, err, buf, len, sent>>
callVars   == <<pc, call, result, seen, rest, msgs>>
kernelVars == <<flight, unwoken, cq, stream, failed, partials>>
envVars    == <<reuses, stop, dropped>>
vars == <<cellVars, callVars, kernelVars, poller, asked, envVars>>

Plus(p, n) == <<p[1], p[2] + n>>
Bytes(p, n) == [i \in 1 .. n |-> Plus(p, i - 1)]

Init ==
  /\ pc = "idle"
  /\ call = "send"
  /\ result = "ok"
  /\ seen = 0
  /\ queued = 0
  /\ finished = 0
  /\ err = FALSE
  /\ buf = <<0, 0>>
  /\ len = 0
  /\ sent = 0
  /\ rest = [ptr |-> <<0, 0>>, len |-> 0]
  /\ flight = << >>
  /\ unwoken = FALSE
  /\ cq = << >>
  /\ poller = "take"
  /\ msgs = 0
  /\ asked = << >>
  /\ stream = << >>
  /\ failed = FALSE
  /\ partials = 0
  /\ reuses = 0
  /\ stop = FALSE
  /\ dropped = FALSE

(***************************************************************************)
(* previousSendWait.                                                       *)
(***************************************************************************)

\* A call finds an empty history, or waits for the previous send.
Call(c) ==
  /\ pc = "idle"
  /\ c = "send" => msgs < MaxMsgs
  /\ c = "flush" => queued # 0
  /\ call' = c
  /\ pc' = IF queued = 0 THEN "fill" ELSE "finished"
  /\ UNCHANGED <<cellVars, result, seen, rest, msgs, kernelVars, poller, asked, envVars>>

LoadFinished ==
  /\ pc = "finished"
  /\ seen' = finished
  /\ pc' = "err"
  /\ UNCHANGED <<cellVars, call, result, rest, msgs, kernelVars, poller, asked, envVars>>

\* The previous send failed: so does this call.
ReturnError ==
  /\ pc = "err"
  /\ err
  /\ pc' = "idle"
  /\ result' = "error"
  /\ UNCHANGED <<cellVars, call, seen, rest, msgs, kernelVars, poller, asked, envVars>>

\* Mutant of CheckFinished: whether it is finished is not looked at.
CheckNothing ==
  /\ pc = "err"
  /\ ~err
  /\ pc' = "compare"
  /\ UNCHANGED <<cellVars, call, result, seen, rest, msgs, kernelVars, poller, asked, envVars>>

CheckFinished ==
  /\ pc = "err"
  /\ ~err
  /\ pc' = IF seen = queued THEN "compare" ELSE "finished"
  /\ UNCHANGED <<cellVars, call, result, seen, rest, msgs, kernelVars, poller, asked, envVars>>

PreviousWhen(done) ==
  /\ pc = "compare"
  /\ done
  /\ pc' = IF call = "send" THEN "fill" ELSE "idle"
  /\ result' = IF call = "send" THEN result ELSE "ok"
  /\ UNCHANGED <<cellVars, call, seen, rest, msgs, kernelVars, poller, asked, envVars>>

\* Mutant of PreviousDone: some of it is enough.
PreviousBegun == PreviousWhen(sent > 0)

\* All of it was sent.
PreviousDone == PreviousWhen(sent = len)

\* The task for what is left, and the cell for the time after it.
CompensateFrom(ptr, sentBefore) ==
  /\ pc = "compare"
  /\ sent # len
  /\ rest' = [ptr |-> ptr, len |-> len - sent]
  /\ queued' = queued + 1
  /\ buf' = Plus(buf, len)
  /\ len' = len - sent
  /\ sent' = sentBefore
  /\ pc' = "resubmit"
  /\ UNCHANGED <<finished, err, call, result, seen, msgs, kernelVars, poller, asked, envVars>>

\* Mutants of Compensate: the payload from its beginning; sent is not reset,
\* and the difference of the lengths is below zero the next time.
CompensateAll     == CompensateFrom(buf, 0)
CompensateUnreset == CompensateFrom(Plus(buf, sent), sent)

Compensate == CompensateFrom(Plus(buf, sent), 0)

(***************************************************************************)
(* Send: the cell is filled, the task submitted.                           *)
(***************************************************************************)
Fill ==
  /\ pc = "fill"
  /\ rest' = [ptr |-> <<msgs + 1, 1>>, len |-> MsgLen]
  /\ msgs' = msgs + 1
  /\ len' = MsgLen
  /\ sent' = 0
  /\ buf' = <<msgs + 1, 1>>
  /\ queued' = queued + 1
  /\ partials' = 0
  /\ pc' = "submit"
  /\ UNCHANGED <<finished, err, call, result, seen, flight, unwoken, cq, stream, failed, poller,
                 asked, envVars>>

\* submit, of a new message or of a rest; Send returns, the wait goes on.  If
\* the push, this goroutine's or the fallback loop's, cannot wake a sleeping
\* kernel, the entry is in the ring all the same; abortIssuer notes the error
\* in the task's cell, where no Send looks, and wakes nobody.
Submit ==
  /\ pc \in {"submit", "resubmit"}
  /\ flight' = Append(flight, rest)
  /\ unwoken' \in BOOLEAN
  /\ asked' = IF pc = "submit" THEN Append(asked, msgs) ELSE asked
  /\ pc' = IF pc = "submit" THEN "idle" ELSE "finished"
  /\ result' = IF pc = "submit" THEN "ok" ELSE result
  /\ UNCHANGED <<cellVars, call, seen, rest, msgs, cq, stream, failed, partials, poller, envVars>>

\* After Stop submit may return false, and the call an error; the cell stays.
RefuseWithError ==
  /\ pc \in {"submit", "resubmit"}
  /\ stop
  /\ pc' = "idle"
  /\ result' = "error"
  /\ UNCHANGED <<cellVars, call, seen, rest, msgs, kernelVars, poller, asked, envVars>>

\* For a rest, previousSendWait returns beer.Wrap of the cell's error, which is
\* nil.  If Wrap (external) keeps a nil, the previous send looks done: Send
\* goes on to its message, FlushFDSends returns without an error.
RefuseSilently ==
  /\ pc = "resubmit"
  /\ stop
  /\ pc' = IF call = "send" THEN "fill" ELSE "idle"
  /\ result' = IF call = "send" THEN result ELSE "ok"
  /\ dropped' = TRUE
  /\ UNCHANGED <<cellVars, call, seen, rest, msgs, kernelVars, poller, asked, reuses, stop>>

Refuse == RefuseWithError \/ RefuseSilently

(***************************************************************************)
(* The kernel (external) and the poller.                                   *)
(***************************************************************************)
\* A kernel nobody woke may be woken by another push, or not.
Transfer(n) ==
  /\ flight # << >>
  /\ n \in 0 .. Head(flight).len
  /\ n < Head(flight).len => partials < MaxPartials
  /\ partials' = IF n < Head(flight).len THEN partials + 1 ELSE partials
  /\ stream' = stream \o Bytes(Head(flight).ptr, n)
  /\ flight' = Tail(flight)
  /\ unwoken' = FALSE
  /\ cq' = Append(cq, n)
  /\ UNCHANGED <<cellVars, callVars, failed, poller, asked, envVars>>

Fail ==
  /\ flight # << >>
  /\ flight' = Tail(flight)
  /\ unwoken' = FALSE
  /\ cq' = Append(cq, -1)
  /\ failed' = TRUE
  /\ UNCHANGED <<cellVars, callVars, stream, partials, poller, asked, envVars>>

\* The poller takes a result, and the cell gets an error or a length.
PollTake(isError) ==
  /\ poller = "take"
  /\ cq # << >>
  /\ cq' = Tail(cq)
  /\ err' = (err \/ isError)
  /\ sent' = IF isError THEN sent ELSE sent + Head(cq)
  /\ poller' = "finish"
  /\ UNCHANGED <<queued, finished, buf, len, callVars, flight, unwoken, stream, failed,
                 partials, asked, envVars>>

\* Mutant of PollWrite: a partial send is an error.
PollWriteShort == PollTake(cq # << >> /\ Head(cq) # len)

\* Poll writes the outcome into the cell ...
PollWrite == PollTake(cq # << >> /\ Head(cq) < 0)

\* Mutant of PollFinish: a partial send is not finished.
PollFinishAll ==
  /\ poller = "finish"
  /\ sent = len
  /\ finished' = finished + 1
  /\ poller' = "take"
  /\ UNCHANGED <<queued, err, buf, len, sent, callVars, kernelVars, asked, envVars>>

\* ... and then, the cell and the slot given back, counts it.
PollFinish ==
  /\ poller = "finish"
  /\ finished' = finished + 1
  /\ poller' = "take"
  /\ UNCHANGED <<queued, err, buf, len, sent, callVars, kernelVars, asked, envVars>>

(***************************************************************************)
(* Close and Stop.                                                         *)
(***************************************************************************)

\* Nothing is in flight, the socket is closed, and a new one gets its
\* number.  Nobody resets the cell.
Reuse ==
  /\ reuses < MaxReuses
  /\ FlushFirst => call = "flush" /\ sent = len /\ ~err
  /\ pc = "idle" /\ flight = << >> /\ cq = << >> /\ poller = "take"
  /\ asked' = << >>
  /\ stream' = << >>
  /\ failed' = FALSE
  /\ reuses' = reuses + 1
  /\ UNCHANGED <<cellVars, callVars, flight, unwoken, cq, partials, poller, stop, dropped>>

Stop ==
  /\ MayStop
  /\ ~stop
  /\ stop' = TRUE
  /\ UNCHANGED <<cellVars, callVars, kernelVars, poller, asked, reuses, dropped>>

\* drainFallback takes a task off the channel, one that was not pushed yet; the
\* cell does not hear of it.
Drain ==
  /\ stop
  /\ ~unwoken
  /\ flight # << >>
  /\ flight' = Tail(flight)
  /\ UNCHANGED <<cellVars, callVars, unwoken, cq, stream, failed, partials, poller, asked,
                 envVars>>

(***************************************************************************)
(* Specification.                                                          *)
(***************************************************************************)
Wait ==
  \/ LoadFinished \/ ReturnError \/ CheckFinished \/ PreviousDone \/ Compensate
  \/ Fill \/ Submit \/ Refuse

Kernel == (\E n \in 0 .. MsgLen : Transfer(n)) \/ Fail

Poll == PollWrite \/ PollFinish

Next ==
  \/ \E c \in {"send", "flush"} : Call(c)
  \/ Wait \/ Kernel \/ Poll \/ Reuse \/ Stop \/ Drain

Spec == Init /\ [][Next]_vars

\* The goroutine in its call, the poller, and a kernel that is awake go on.
FairSpec == Spec /\ WF_vars(Wait) /\ WF_vars(~unwoken /\ Kernel) /\ WF_vars(Poll)

(***************************************************************************)
(* Properties.                                                             *)
(***************************************************************************)
Ptr == Nat \X Nat

TypeOK ==
  /\ pc \in {"idle", "finished", "err", "compare", "fill", "submit", "resubmit"}
  /\ call \in {"send", "flush"}
  /\ {seen, queued, finished, len, sent, msgs, partials, reuses} \subseteq Nat
  /\ result \in {"ok", "error"}
  /\ {err, failed, unwoken, stop, dropped} \subseteq BOOLEAN
  /\ buf \in Ptr
  /\ rest \in [ptr : Ptr, len : Nat]
  /\ flight \in Seq([ptr : Ptr, len : Nat])
  /\ cq \in Seq(Int)
  /\ poller \in {"take", "finish"}
  /\ asked \in Seq(Nat)
  /\ stream \in Seq(Ptr)

\* The bytes of the messages accepted for this connection, in their order.
Expected ==
  [i \in 1 .. Len(asked) * MsgLen |-> <<asked[((i - 1) \div MsgLen) + 1], ((i - 1) % MsgLen) + 1>>]

\* What the kernel takes for a connection is a prefix of what Send was given
\* for it: a short send is "retried with the remaining tail", before anything
\* else is sent.  After Stop has had a tail refused without an error this is
\* over: what follows is sent without it.
StreamIsPrefix == ~dropped => stream = SubSeq(Expected, 1, Len(stream))

\* Sends that are submitted, answered or being dispatched by the poller.
Pending == Len(flight) + Len(cq) + (IF poller = "finish" THEN 1 ELSE 0)

\* The cell serves one send at a time: while it is refilled nothing is under
\* way that the poller would still write into it.
OneAtATime ==
  /\ Pending <= 1
  /\ pc \in {"compare", "fill", "submit", "resubmit"} => Pending = 0

\* A flush that returns without an error has everything delivered, unless Stop
\* had submit refuse the rest of a partial send: then nothing in the code makes
\* the result an error, see Refuse.
FlushDelivers ==
  [][call = "flush" /\ pc # "idle" /\ pc' = "idle" /\ result' = "ok"
       => stream = Expected \/ (stop /\ pc = "resubmit")]_vars

\* A call returns an error only if a send on this socket has failed, or Stop
\* was called.
ErrorIsOwn ==
  [][pc # "idle" /\ pc' = "idle" /\ result' = "error" => failed \/ stop]_vars

\* Send and FlushFDSends return, again and again, unless Stop intervenes or the
\* kernel is for ever not woken for the send they wait for: the error of its push
\* is not reported to them.
CallReturns == []<>(pc = "idle") \/ <>[](stop \/ unwoken)
=============================================================================
