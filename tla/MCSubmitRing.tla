---------------------------- MODULE MCSubmitRing ----------------------------
(***************************************************************************)
(* Instances of SubmitRing for TLC.                                        *)
(***************************************************************************)
EXTENDS SubmitRing

\* The entries between head and tail are the abstract queue; a task that was
\* announced and is not pushed, refused or drained is waiting.
Q == INSTANCE SubmitQueue WITH
       waiting <- {t \in Tasks :
                     pc[t] \notin {"idle", "count", "pushed", "refused", "dropped", "woken"}},
       queue   <- [i \in 1 .. SQTail - SQHead |-> SQ[(SQHead + i - 1) % SQEntries]]

\* submit and fallbackLoop together implement the bounded FIFO: however
\* their pushes interleave, no entry is lost, doubled, reordered or
\* overwritten.
ImplementsSubmitQueue == Q!QSpec
=============================================================================
