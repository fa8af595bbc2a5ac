---------------------------- MODULE SubmitQueue ----------------------------
(***************************************************************************)
(* What submit() promises: the tasks of concurrent callers enter a bounded *)
(* FIFO one at a time, each at most once, and the kernel takes exactly     *)
(* those tasks in exactly that order.  After Stop() a task may be refused  *)
(* or lost instead.                                                        *)
(***************************************************************************)
EXTENDS Naturals, Sequences

CONSTANTS Tasks, SQEntries

VARIABLES
  waiting,   \* tasks announced and not in the queue
  queue,     \* the submission queue
  taken,     \* what the kernel took
  stop       \* whether the ring is being stopped

qvars == <<waiting, queue, taken, stop>>

QInit == waiting = {} /\ queue = << >> /\ taken = << >> /\ stop = FALSE

\* Each task is announced once: it must be nowhere yet.
Announce(t) ==
  /\ t \notin waiting
  /\ \A i \in DOMAIN queue : queue[i] # t
  /\ \A i \in DOMAIN taken : taken[i] # t
  /\ waiting' = waiting \cup {t}
  /\ UNCHANGED <<queue, taken, stop>>

Enqueue(t) ==
  /\ t \in waiting
  /\ Len(queue) < SQEntries
  /\ waiting' = waiting \ {t}
  /\ queue' = Append(queue, t)
  /\ UNCHANGED <<taken, stop>>

Take ==
  /\ queue # << >>
  /\ taken' = Append(taken, Head(queue))
  /\ queue' = Tail(queue)
  /\ UNCHANGED <<waiting, stop>>

GiveUp(t) ==
  /\ stop
  /\ t \in waiting
  /\ waiting' = waiting \ {t}
  /\ UNCHANGED <<queue, taken, stop>>

QStop == ~stop /\ stop' = TRUE /\ UNCHANGED <<waiting, queue, taken>>

QNext ==
  \/ \E t \in Tasks : Announce(t) \/ Enqueue(t) \/ GiveUp(t)
  \/ Take
  \/ QStop

QSpec == QInit /\ [][QNext]_qvars
=============================================================================
