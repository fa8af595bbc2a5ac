----------------------------- MODULE TimerSet ------------------------------
(***************************************************************************)
(* What a timing wheel promises: a timer fires once, on the tick that ends *)
(* its time and on no other; timers may be added while others fire.        *)
(***************************************************************************)
EXTENDS Integers

CONSTANTS
  Timers,  \* names for the timers
  MaxTtl   \* the longest time

VARIABLES
  left,    \* the ticks left of each timer, 0 if it is not pending
  due      \* the timers of this tick that have yet to fire

vars == <<left, due>>

Init == left = [t \in Timers |-> 0] /\ due = {}

\* The tick under way does not count, and neither does the part of a second
\* before the next one: a timer never fires early.
Add(t, ttl) ==
  /\ left[t] = 0
  /\ t \notin due
  /\ left' = [left EXCEPT ![t] = ttl + 1]
  /\ UNCHANGED due

Tick ==
  /\ due = {}
  /\ due' = {t \in Timers : left[t] = 1}
  /\ left' = [t \in Timers |-> IF left[t] = 0 THEN 0 ELSE left[t] - 1]

Fire(t) ==
  /\ t \in due
  /\ due' = due \ {t}
  /\ UNCHANGED left

Next ==
  \/ \E t \in Timers, ttl \in 1 .. MaxTtl : Add(t, ttl)
  \/ Tick
  \/ \E t \in Timers : Fire(t)

Spec == Init /\ [][Next]_vars
=============================================================================
