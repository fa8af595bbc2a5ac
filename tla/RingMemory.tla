---------------------------- MODULE RingMemory -----------------------------
(***************************************************************************)
(* The memory shared with the kernel: the mappings of the two queues, and  *)
(* of each provided buffer ring the descriptors and the data.              *)
(*                                                                         *)
(* The system calls are external and each may fail.  The kernel uses what  *)
(* is registered at any time, so RegisterBufferRing and Unregister are one *)
(* step for each system call; New and Close are one step.  One goroutine   *)
(* sets up and tears down.                                                 *)
(***************************************************************************)
EXTENDS Naturals, Sequences

CONSTANTS
  Classes,  \* size classes, which are the kernel's buffer groups
  NoClass

ASSUME NoClassAssumption == NoClass \notin Classes

VARIABLES
  ring,     \* "none", "failed": New returned an error, "open", "closed"
  queues,   \* the mappings of the queues, each a <<NoClass, name>>
  pbrs,     \* NetRing.pbrs: the classes with a ring
  mapped,   \* the mappings of the buffer rings, each a <<class, block>>
  pinned,   \* the classes registered in the kernel
  stuck,    \* mappings munmap has failed for
  wild,     \* whether something was unmapped that was not mapped
  step,     \* the next system call of the call under way, or "none"
  class     \* its class

ringVars   == <<ring, queues>>
memoryVars == <<ringVars, pbrs, mapped, pinned, stuck, wild, step, class>>

\* What New maps, in this order, with and without SINGLE_MMAP.
QueueMaps == {<<"sq", "sqes">>, <<"sq", "sqes", "cq">>}

MemoryInit ==
  /\ ring = "none"
  /\ queues = {}
  /\ pbrs = {}
  /\ mapped = {}
  /\ pinned = {}
  /\ stuck = {}
  /\ wild = FALSE
  /\ step = "none"
  /\ class = NoClass

\* New: the mappings succeed up to the n-th.  When one fails, what was made
\* before it, the descriptor of the ring included, is left behind.
NewRing ==
  /\ ring = "none"
  /\ \E maps \in QueueMaps : \E n \in 0 .. Len(maps) :
       /\ queues' = {<<NoClass, maps[i]>> : i \in 1 .. n}
       /\ ring' = IF n = Len(maps) THEN "open" ELSE "failed"
  /\ UNCHANGED <<pbrs, mapped, pinned, stuck, wild, step, class>>

\* Close: errors do not stop it.  The kernel drops what was registered.
CloseRing ==
  /\ ring = "open"
  /\ step = "none"
  /\ \E S \in SUBSET queues : queues' = S /\ stuck' = stuck \cup S
  /\ wild' = (wild \/ queues = {})
  /\ pinned' = {}
  /\ ring' = "closed"
  /\ UNCHANGED <<pbrs, mapped, step, class>>

(***************************************************************************)
(* Calls for one class.                                                    *)
(***************************************************************************)
Begin(c, s) == step = "none" /\ class' = c /\ step' = s
Proceed(from, to) == step = from /\ step' = to /\ UNCHANGED class
Return(from) == step = from /\ step' = "none" /\ class' = NoClass

Map(c, b) == mapped' = mapped \cup {<<c, b>>} /\ UNCHANGED <<stuck, wild>>

Munmap(b) ==
  /\ mapped' = mapped \ {<<class, b>>}
  /\ wild' = (wild \/ <<class, b>> \notin mapped)
  /\ UNCHANGED stuck

MunmapFails(b) == stuck' = stuck \cup {<<class, b>>} /\ UNCHANGED <<mapped, wild>>

(***************************************************************************)
(* RegisterBufferRing.                                                     *)
(***************************************************************************)
RegisterData(c) ==
  /\ ring \in {"open", "closed"}
  /\ c \notin pbrs
  /\ Begin(c, "map desc")
  /\ Map(c, "data")
  /\ UNCHANGED <<ringVars, pbrs, pinned>>

RegisterDesc ==
  /\ Proceed("map desc", "register")
  /\ Map(class, "desc")
  /\ UNCHANGED <<ringVars, pbrs, pinned>>

RegisterDescFails ==
  /\ Proceed("map desc", "drop data")
  /\ UNCHANGED <<ringVars, pbrs, mapped, pinned, stuck, wild>>

Register ==
  /\ Return("register")
  /\ ring = "open"
  /\ class \notin pinned
  /\ pinned' = pinned \cup {class}
  /\ pbrs' = pbrs \cup {class}
  /\ UNCHANGED <<ringVars, mapped, stuck, wild>>

\* Mutant of RegisterFails: only one of the blocks is given back.
RegisterFailsHalf ==
  /\ Proceed("register", "drop data")
  /\ UNCHANGED <<ringVars, pbrs, mapped, pinned, stuck, wild>>

RegisterFails ==
  /\ Proceed("register", "drop desc")
  /\ UNCHANGED <<ringVars, pbrs, mapped, pinned, stuck, wild>>

\* The errors of these munmaps are not looked at.
DropDesc ==
  /\ Proceed("drop desc", "drop data")
  /\ Munmap("desc") \/ MunmapFails("desc")
  /\ UNCHANGED <<ringVars, pbrs, pinned>>

DropData ==
  /\ Return("drop data")
  /\ Munmap("data") \/ MunmapFails("data")
  /\ UNCHANGED <<ringVars, pbrs, pinned>>

(***************************************************************************)
(* UnregisterBufferRing.  With an error the class keeps its ring.          *)
(***************************************************************************)

\* Mutant of Unregister: the kernel is not asked.
UnregisterUnasked(c) ==
  /\ c \in pbrs
  /\ Begin(c, "free desc")
  /\ UNCHANGED <<ringVars, pbrs, mapped, pinned, stuck, wild>>

Unregister(c) ==
  /\ c \in pbrs
  /\ ring = "open"
  /\ c \in pinned
  /\ pinned' = pinned \ {c}
  /\ Begin(c, "free desc")
  /\ UNCHANGED <<ringVars, pbrs, mapped, stuck, wild>>

FreeDesc ==
  /\ Proceed("free desc", "free data")
  /\ Munmap("desc")
  /\ UNCHANGED <<ringVars, pbrs, pinned>>

FreeDescFails ==
  /\ Return("free desc")
  /\ MunmapFails("desc")
  /\ UNCHANGED <<ringVars, pbrs, pinned>>

FreeData ==
  /\ Return("free data")
  /\ Munmap("data")
  /\ pbrs' = pbrs \ {class}
  /\ UNCHANGED <<ringVars, pinned>>

FreeDataFails ==
  /\ Return("free data")
  /\ MunmapFails("data")
  /\ UNCHANGED <<ringVars, pbrs, pinned>>

MemoryNext ==
  \/ NewRing
  \/ CloseRing
  \/ \E c \in Classes : RegisterData(c) \/ Unregister(c)
  \/ RegisterDesc \/ RegisterDescFails \/ Register \/ RegisterFails
  \/ DropDesc \/ DropData
  \/ FreeDesc \/ FreeDescFails \/ FreeData \/ FreeDataFails

MemorySpec == MemoryInit /\ [][MemoryNext]_memoryVars

(***************************************************************************)
(* Properties.                                                             *)
(***************************************************************************)

\* What the kernel may write to is mapped, at every moment of a set-up or a
\* teardown, whichever system call fails: "otherwise the kernel would be
\* writing into unmapped memory".
PinnedIsMapped == \A c \in pinned : {<<c, "desc">>, <<c, "data">>} \subseteq mapped

\* Nothing is unmapped twice, and nothing is forgotten: a mapping is that of
\* a class with a ring or of the call under way, or munmap has failed for
\* it; and Close leaves no mapping of the queues.
MappingsAccounted ==
  /\ ~wild
  /\ \A m \in mapped : m[1] \in pbrs \cup {class} \/ m \in stuck
  /\ ring = "closed" => queues \subseteq stuck
=============================================================================
