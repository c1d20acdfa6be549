----------------------------- MODULE BatchOrder -----------------------------
(***************************************************************************)
(* What a batch of requests may do to a memory (memory_interface.hpp):     *)
(* requests are ordered by barriers and by the end of batch_access only,   *)
(* so within a batch any order of the requests will do.                    *)
(***************************************************************************)
EXTENDS Integers, Sequences, SequencesExt, FiniteSets

(* A request reads or writes the cells from its address on.                *)
CellsOf(r) == r.address .. r.address + r.size - 1

AfterWrite(cells, r) ==
  IF r.type = "READ" THEN cells
  ELSE [a \in DOMAIN cells |-> IF a \in CellsOf(r) THEN r.data[a - r.address] ELSE cells[a]]

DataRead(cells, r) == [i \in 0 .. r.size - 1 |-> cells[r.address + i]]

(* What the cells are after the first n requests, done one after the other. *)
CellsAfter(before, requests) ==
  LET cells[n \in 0 .. Len(requests)] ==
        IF n = 0 THEN before ELSE AfterWrite(cells[n - 1], requests[n])
  IN  cells

(* The requests one after the other, and the data of each READ.            *)
InOrder(before, requests) ==
  LET cells == CellsAfter(before, requests)
  IN  [cells |-> cells[Len(requests)],
       data |-> [i \in 1 .. Len(requests) |->
                   IF requests[i].type = "READ" THEN DataRead(cells[i - 1], requests[i])
                                                ELSE requests[i].data]]

(* The requests in an order of their own.                                   *)
InSomeOrder(before, requests, after, data) ==
  \E order \in SetToSeqs(1 .. Len(requests)) :
    LET done == InOrder(before, [i \in 1 .. Len(requests) |-> requests[order[i]]])
    IN  /\ done.cells = after
        /\ \A i \in 1 .. Len(requests) : done.data[i] = data[order[i]]
=============================================================================
