----------------------------- MODULE OramBuffer -----------------------------
(***************************************************************************)
(* OramBuffer in mode POP_N_PUSH: the buffer is a second ORAM, addressed   *)
(* like the first, and the id of every download is recorded.  The flush    *)
(* pops each record from the buffer and pushes it back, so that an entry   *)
(* downloaded several times is found the first time only.  Both memories   *)
(* are the stores of BlockStore; the buffer is a BinaryPathOram2.          *)
(***************************************************************************)
EXTENDS SimLoop, Sequences

CONSTANTS
  NonSecure,     \* enable_non_secure_mode
  ByteValues,    \* 256: the gradient byte wraps at this value
  CounterValues, \* 65536: the counter wraps at this value
  Absent         \* the content of an address that holds no block

Block == [data : Entry, gradient : 0 .. ByteValues - 1, counter : 0 .. CounterValues - 1]

Parameters ==
  /\ LoopParameters /\ ~UsesReserve /\ Absent \notin Entry /\ Absent \notin Block
  /\ {ByteValues, CounterValues} \subseteq Nat \ {0} /\ CounterValues % ByteValues = 0

VARIABLES
  main,     \* memory: entry e holds e
  buffer,   \* buffer: data, gradient and counter of an entry
  recorded, \* entry_id_buffer: the ids of num_downloads downloads
  request   \* main_oram_request: what its data still is, and of which type

bufferVars == <<main, buffer, recorded, request>>

vars == <<phase, step, samples, main, buffer, recorded, request>>

Absents == [e \in Entry |-> Absent]

TypeOK ==
  /\ phase \in Phases \cup Exceptions
  /\ step \in Call /\ samples \in [Call -> Entry]
  /\ main \in [Entry -> Entry \cup {Absent}]
  /\ buffer \in [Entry -> Block \cup {Absent}]
  /\ recorded \in Seq(Entry) /\ Len(recorded) <= SamplesPerRound
  /\ request \in [type : {"POP", "DUMMY_POP", "PUSH", "DUMMY_PUSH"}, data : Entry]

Init ==
  /\ LoopInit
  /\ main = [e \in Entry |-> e] /\ buffer = Absents
  /\ recorded = << >>
  /\ \E e \in Entry : request = [type |-> "POP", data |-> e]

-----------------------------------------------------------------------------
Sample ==
  /\ phase = "sample" /\ \E e \in Entry : Draw(e)
  /\ UNCHANGED bufferVars

Recorded(e) == Append(recorded, e)

(* What goes into the buffer: what was there, or the entry of the memory    *)
(* with a zeroed gradient and counter.                                      *)
Brought(found, e) ==
  IF found THEN buffer[e] ELSE [data |-> main[e], gradient |-> 0, counter |-> 0]

(* download(): POP from the buffer; if it is not there, POP from the memory, *)
(* else a DUMMY_POP, or nothing in the non-secure mode; PUSH to the buffer.  *)
Download ==
  LET e == Current
      found == buffer[e] # Absent
  IN  /\ phase = "download" /\ DownloadReturns
      /\ recorded' = Recorded(e)
      /\ main' = IF found THEN main ELSE [main EXCEPT ![e] = Absent]
      /\ request' = CASE ~found -> [type |-> "POP", data |-> main[e]]
                      [] found /\ ~NonSecure -> [request EXCEPT !.type = "DUMMY_POP"]
                      [] found /\ NonSecure -> request
      /\ buffer' = [buffer EXCEPT ![e] = Brought(found, e)]

(* "Aggregation": 1 is added to the first byte of the gradient and to the counter. *)
Aggregated(block) ==
  [block EXCEPT !.gradient = (@ + 1) % ByteValues, !.counter = (@ + 1) % CounterValues]

(* aggregate(): UPDATE throws for a block that is not in the buffer. *)
Aggregate ==
  LET e == Current
  IN  /\ phase = "aggregate"
      /\ IF buffer[e] = Absent
         THEN Throws("NotInBuffer") /\ UNCHANGED buffer
         ELSE /\ AggregateReturns
              /\ buffer' = [buffer EXCEPT ![e] = Aggregated(@)]
      /\ UNCHANGED <<main, recorded, request>>

Pushed(e) == IF buffer[e] = Absent THEN main ELSE [main EXCEPT ![e] = buffer[e].data]

(* Faulty variant: num_downloads is not set back. *)
NotCleared == recorded

Cleared == << >>

(* update_flush_buffer(), one record at a time: POP from the buffer, and a  *)
(* PUSH to the memory if it was found, else a DUMMY_PUSH.                   *)
Flush ==
  LET e == recorded[step]
      found == buffer[e] # Absent
  IN  /\ phase = "flush"
      /\ main' = Pushed(e)
      /\ buffer' = [buffer EXCEPT ![e] = Absent]
      /\ request' = [type |-> IF found THEN "PUSH" ELSE "DUMMY_PUSH",
                     data |-> IF found THEN buffer[e].data ELSE request.data]
      /\ IF step < Len(recorded)
         THEN FlushGoesOn /\ UNCHANGED recorded
         ELSE FlushReturns /\ recorded' = Cleared

Next == Sample \/ Download \/ Aggregate \/ Flush

Spec == Init /\ [][Next]_vars

-----------------------------------------------------------------------------
(* The buffer does what recsys_sim needs (see TrainingRounds).             *)
Rounds == INSTANCE TrainingRounds
  WITH held <- { e \in Entry : buffer[e] # Absent },
       sums <- [e \in Entry |-> IF buffer[e] = Absent THEN 0 ELSE buffer[e].counter]

ImplementsRounds == Rounds!Spec

(* An entry is in one of the two ORAMs, with its own data: a second record  *)
(* of it is not pushed again, and no request's left-over data gets into it. *)
OneHome ==
  \A e \in Entry :
    \/ main[e] = e /\ buffer[e] = Absent
    \/ main[e] = Absent /\ buffer[e] # Absent /\ buffer[e].data = e
=============================================================================
