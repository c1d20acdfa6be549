------------------------------- MODULE SimLoop -------------------------------
(***************************************************************************)
(* The main loop of recsys_sim_entry_point: a round draws its samples, has *)
(* the buffer reserve and load them (if it works that way), download each, *)
(* aggregate each in another order, and flush.  A buffer module conjoins   *)
(* its handlers with the operators below; an exception ends the program.   *)
(***************************************************************************)
EXTENDS SimPhases, Naturals, FiniteSets

CONSTANTS
  Entry,            \* entry ids 0 .. num_entries - 1
  SamplesPerRound,  \* samples_per_round
  Mode,             \* how samples are drawn: "SAMPLE_FILE" or "REUSE"
  UsesReserve       \* use_reserve: the buffer loads before the download phase

LoopParameters ==
  /\ SamplesPerRound \in Nat \ {0} /\ UsesReserve \in BOOLEAN
  /\ Mode \in {"SAMPLE_FILE", "REUSE"}

VARIABLES
  step,     \* the call of the phase that comes next
  samples   \* samples

loopVars == <<phase, step, samples>>

Call == 1 .. SamplesPerRound

Occurrences(s, e) == Cardinality({ i \in Call : s[i] = e })

(* std::shuffle(samples) *)
Shuffles(s) == { t \in [Call -> Entry] : \A e \in Entry : Occurrences(t, e) = Occurrences(s, e) }

LoopInit ==
  /\ phase = "sample" /\ step = 1
  /\ \E e \in Entry : samples = [i \in Call |-> e]

(* The entries of this round so far; of these the permutation is used up. *)
Drawn == { samples[i] : i \in 1 .. step - 1 }

-----------------------------------------------------------------------------
(* One of the samples_per_round calls of phase p has returned. *)
Followed(p, next) ==
  /\ phase = p
  /\ IF step < SamplesPerRound THEN step' = step + 1 /\ UNCHANGED phase
                               ELSE step' = 1 /\ phase' = next

(* A sample is drawn.  In mode REUSE it is an entry already drawn in this   *)
(* round or the next of the permutation, whose last entry is never reached. *)
Draw(e) ==
  /\ samples' = [samples EXCEPT ![step] = e]
  /\ IF Mode = "REUSE" /\ e \notin Drawn /\ Cardinality(Drawn) + 1 = Cardinality(Entry)
     THEN phase = "sample" /\ phase' = "PermutationEnd" /\ UNCHANGED step
     ELSE Followed("sample", IF UsesReserve THEN "reserve" ELSE "download")

(* The entry a call is about. *)
Current == samples[step]

ReserveReturns == Followed("reserve", "load") /\ UNCHANGED samples

(* load_entries() has done another part of its work, or all of it. *)
LoadGoesOn == phase = "load" /\ UNCHANGED loopVars

LoadReturns == phase = "load" /\ phase' = "download" /\ UNCHANGED <<step, samples>>

(* The samples are shuffled before the aggregation phase. *)
DownloadReturns ==
  /\ Followed("download", "aggregate")
  /\ IF step < SamplesPerRound THEN UNCHANGED samples ELSE samples' \in Shuffles(samples)

AggregateReturns == Followed("aggregate", "flush") /\ UNCHANGED samples

(* update_flush_buffer() has handled another of its entries, or the last.  *)
FlushGoesOn ==
  /\ phase = "flush" /\ step < SamplesPerRound /\ step' = step + 1
  /\ UNCHANGED <<phase, samples>>

FlushReturns == phase = "flush" /\ step' = 1 /\ phase' = "sample" /\ UNCHANGED samples

Throws(exception) == phase' = exception /\ UNCHANGED <<step, samples>>
=============================================================================
