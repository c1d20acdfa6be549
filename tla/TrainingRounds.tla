--------------------------- MODULE TrainingRounds ---------------------------
(***************************************************************************)
(* What a RecSysBuffer promises to recsys_sim: an entry is brought into    *)
(* the buffer, takes one gradient per call of aggregate(), and goes back   *)
(* to the memory when the round is flushed; a round that is over has left  *)
(* nothing behind.  A buffer that loads its entries in advance may drop    *)
(* some, whose gradients are lost.                                         *)
(***************************************************************************)
EXTENDS SimLoop

CONSTANT CounterValues  \* the 16-bit counter of gradients wraps at this value

VARIABLES
  held,  \* the entries that are in the buffer
  sums   \* sums[e]: the gradients entry e has taken in this round

vars == <<phase, step, samples, held, sums>>

TypeOK ==
  /\ phase \in Phases \cup Exceptions
  /\ step \in Nat \ {0} /\ samples \in [Call -> Entry]
  /\ held \in SUBSET Entry
  /\ sums \in [Entry -> 0 .. CounterValues - 1]

Init ==
  /\ LoopInit
  /\ held = {} /\ sums = [e \in Entry |-> 0]

Sample ==
  /\ phase = "sample" /\ \E e \in Entry : Draw(e)
  /\ UNCHANGED <<held, sums>>

Reserve == phase = "reserve" /\ ReserveReturns /\ UNCHANGED <<held, sums>>

Load ==
  /\ phase = "load" /\ (LoadGoesOn \/ LoadReturns)
  /\ \E some \in SUBSET { samples[i] : i \in Call } : held' = held \cup some
  /\ UNCHANGED sums

Download ==
  /\ phase = "download" /\ DownloadReturns
  /\ held' = IF UsesReserve THEN held ELSE held \cup {Current}
  /\ UNCHANGED sums

(* Only a buffer that may drop entries can meet one it does not hold.      *)
Aggregate ==
  /\ phase = "aggregate" /\ AggregateReturns
  /\ Current \in held \/ UsesReserve
  /\ sums' = IF Current \in held
             THEN [sums EXCEPT ![Current] = (@ + 1) % CounterValues] ELSE sums
  /\ UNCHANGED held

SumsCleared(back) == [e \in Entry |-> IF e \in back THEN 0 ELSE sums[e]]

(* Entries go back.  The flush is over when none is left.                  *)
Flush ==
  /\ phase = "flush"
  /\ \E back \in SUBSET held :
       /\ held' = held \ back
       /\ sums' = SumsCleared(back)
  /\ FlushGoesOn \/ (FlushReturns /\ held' = {})

Next == Sample \/ Reserve \/ Load \/ Download \/ Aggregate \/ Flush

Spec == Init /\ [][Next]_vars

-----------------------------------------------------------------------------
(* An entry in the buffer has as many gradients as aggregate() was called   *)
(* for it; when the flush begins, as many as it was sampled.                *)
GradientsCounted ==
  phase = "aggregate" =>
    \A e \in held : sums[e] = Cardinality({ i \in 1 .. step - 1 : samples[i] = e }) % CounterValues
=============================================================================
