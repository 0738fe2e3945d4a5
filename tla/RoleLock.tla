------------------------------ MODULE RoleLock ------------------------------
(***************************************************************************)
(* What the lock of a myFIFO promises its users: at most one process holds *)
(* it, only a free lock is taken, and it is given back by the process that *)
(* holds it.  `holder' is the process the lock word names, `owns' the      *)
(* processes that are between a successful waitlock() and their unlock().  *)
(* Nothing is promised once the lock is `broken'.                          *)
(***************************************************************************)
CONSTANTS Procs,      \* the processes attached to one FIFO
          NoProc      \* the holder of a free lock, not one of them

VARIABLES holder, owns, broken

Init == holder = NoProc /\ owns = {}

Take(p) == holder = NoProc /\ holder' = p /\ UNCHANGED owns

Enter(p) == holder = p /\ owns' = owns \cup {p} /\ UNCHANGED holder

Leave(p) == p \in owns /\ owns' = owns \ {p} /\ UNCHANGED holder

GiveBack(p) == holder = p /\ p \notin owns /\ holder' = NoProc /\ UNCHANGED owns

Move == \E p \in Procs : Take(p) \/ Enter(p) \/ Leave(p) \/ GiveBack(p)

Next == broken' \/ (~ broken /\ Move)

Spec == Init /\ [][Next]_<<holder, owns>>

=============================================================================
