---------------------------- MODULE MCFifoAttach ----------------------------
EXTENDS FifoAttach, TLC

(* Processes of one role that may not die or fail are alike.               *)
Symmetry == UNION {Permutations(r \ (Killable \cup Failing)) :
                     r \in {Writers, Readers, Samplers}}

(* Two states that differ only in what nobody will read again are one: the *)
(* contents of a segment that is gone, the flags of the samplers, the      *)
(* address of one who has left its slot, a copy that has been used, and    *)
(* what else went wrong once the protection is lost.                       *)
LiveSegment(d) ==
  IF ~DataExists(d) THEN Blank
  ELSE [data[d] EXCEPT
          !.user = [s \in {RdSlot, WrSlot} |-> data[d].user[s] = "PRESENT"],
          !.start = [s \in Slots |->
                       IF @[s] \in Procs /\ pc[@[s]] \in InDtor \cup {"gone"}
                       THEN NoProc ELSE @[s]]]

LiveLocal(p) ==
  LET inside == {"in", "invalid", "leave", "count", "stat", "rmfifo", "shmdt"} IN
  [my[p] EXCEPT !.n = IF pc[p] \in {"bump", "count"} THEN @ ELSE 0,
                !.none = IF pc[p] \in {"rmfifo", "shmdt", "stat2"} THEN @ ELSE FALSE,
                !.sem = IF pc[p] \in inside THEN 0 ELSE @,
                !.sam_ind = IF pc[p] \in {"bump", "in"} THEN @ ELSE 0]

View == <<semKey, sem0, nsets, dataKey, [d \in DOMAIN data |-> LiveSegment(d)], fifoKey, nfifos,
          pc, [p \in Procs |-> LiveLocal(p)], IF Orderly THEN harm ELSE {"overlap"}>>

=============================================================================
