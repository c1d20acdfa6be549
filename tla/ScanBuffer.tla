----------------------------- MODULE ScanBuffer -----------------------------
(***************************************************************************)
(* LinearScanBuffer: an array of slots over a memory.  Each handler scans  *)
(* a prefix of the array: as many slots as entries were downloaded, or, in *)
(* the non-secure mode, as many as the buffer holds.                       *)
(***************************************************************************)
EXTENDS SimLoop

CONSTANTS
  MaxSize,       \* max_size
  NonSecure,     \* enable_non_secure_mode
  ByteValues,    \* 256: the gradient byte wraps at this value
  CounterValues, \* 65536: the counter wraps at this value
  Absent,        \* the content of a memory address that holds no block
  Free           \* the id of a free slot, UINT64_MAX

Parameters ==
  /\ LoopParameters /\ {MaxSize, ByteValues, CounterValues} \subseteq Nat \ {0}
  /\ SamplesPerRound <= MaxSize /\ ~UsesReserve
  /\ CounterValues % ByteValues = 0
  /\ Absent \notin Entry /\ Free \notin Entry

VARIABLES
  main,        \* memory: the data of an entry, or Absent; entry e holds e
  slots,       \* entry_id_buffer, data_buffer, gradient_buffer, counter_buffer
  downloaded,  \* num_entries_downloaded
  inBuffer     \* num_entries_in_buffer

bufferVars == <<main, slots, downloaded, inBuffer>>

vars == <<phase, step, samples, main, slots, downloaded, inBuffer>>

Slot == 1 .. MaxSize

Row == [id : Entry \cup {Free}, data : Entry,
        gradient : 0 .. ByteValues - 1, counter : 0 .. CounterValues - 1]

TypeOK ==
  /\ phase \in Phases \cup Exceptions
  /\ step \in Call /\ samples \in [Call -> Entry]
  /\ main \in [Entry -> Entry \cup {Absent}]
  /\ slots \in [Slot -> Row]
  /\ downloaded \in 0 .. MaxSize /\ inBuffer \in 0 .. MaxSize

Init ==
  /\ LoopInit
  /\ main = [e \in Entry |-> e]
  /\ \E e \in Entry : slots = [i \in Slot |-> [id |-> Free, data |-> e, gradient |-> 0, counter |-> 0]]
  /\ downloaded = 0 /\ inBuffer = 0

-----------------------------------------------------------------------------
Scanned(n, k) == Slot \cap (1 .. (IF NonSecure THEN k ELSE n))

(* find_and_remove_block_from_buffer(), into an entry that starts zeroed. *)
Hits(e) == { i \in Scanned(downloaded, inBuffer) : slots[i].id = e }

Removed(e) == [i \in Slot |-> IF i \in Hits(e) THEN [slots[i] EXCEPT !.id = Free] ELSE slots[i]]

(* Faulty variant: data and gradient are copied, the counter is not. *)
PlacedWithoutCounter(rows, row, i) ==
  [rows EXCEPT ![i] = [row EXCEPT !.counter = rows[i].counter]]

(* place_block_on_buffer() *)
Placed(rows, row, i) == [rows EXCEPT ![i] = row]

Sample ==
  /\ phase = "sample" /\ \E e \in Entry : Draw(e)
  /\ UNCHANGED bufferVars

(* download(): the entry is taken out of the buffer, or popped from memory, *)
(* and placed in the first free slot of the scan, which is one longer now.  *)
Download ==
  LET e == Current
      found == Hits(e) # {}
      row == IF found THEN slots[CHOOSE i \in Hits(e) : TRUE]
             ELSE [id |-> e, data |-> main[e], gradient |-> 0, counter |-> 0]
      free == { i \in Scanned(downloaded', inBuffer') : Removed(e)[i].id = Free }
  IN  /\ phase = "download"
      /\ main' = IF found THEN main ELSE [main EXCEPT ![e] = Absent]
      /\ downloaded' = downloaded + 1
      /\ inBuffer' = IF found THEN inBuffer ELSE inBuffer + 1
      /\ \/ /\ free = {} /\ Throws("BufferFull")
            /\ slots' = Removed(e)
         \/ /\ free # {} /\ DownloadReturns
            /\ slots' = Placed(Removed(e), row, CHOOSE i \in free : \A j \in free : i <= j)

(* aggregate(): update_gradient() adds 1 to the byte and to the counter. *)
Aggregate ==
  LET hits == Hits(Current)
  IN  /\ phase = "aggregate"
      /\ slots' = [i \in Slot |->
           IF i \in hits
           THEN [slots[i] EXCEPT !.gradient = (@ + 1) % ByteValues, !.counter = (@ + 1) % CounterValues]
           ELSE slots[i]]
      /\ IF hits = {} THEN Throws("NotInBuffer") ELSE AggregateReturns
      /\ UNCHANGED <<main, downloaded, inBuffer>>

(* Faulty variant: the byte is compared with the whole counter. *)
ValidUnmasked(row) == row.gradient = row.counter

Valid(row) == row.gradient = row.counter % ByteValues

CountsReset == downloaded' = 0 /\ inBuffer' = 0

InUse == { i \in Slot : slots[i].id # Free }

(* update_flush_buffer(): slot after slot is checked, pushed and freed; the *)
(* first that fails the check ends the program.                             *)
Flush ==
  LET bad == { i \in InUse : ~Valid(slots[i]) }
      done == { i \in Slot : \A j \in bad : i < j }
      home(e) == { i \in InUse \cap done : slots[i].id = e }
  IN  /\ phase = "flush"
      /\ main' = [e \in Entry |->
           IF home(e) = {} THEN main[e] ELSE slots[CHOOSE i \in home(e) : TRUE].data]
      /\ slots' = [i \in Slot |-> IF i \in done THEN [slots[i] EXCEPT !.id = Free] ELSE slots[i]]
      /\ IF done = {} THEN UNCHANGED <<downloaded, inBuffer>> ELSE CountsReset
      /\ IF bad = {} THEN FlushReturns ELSE Throws("ValidationFailed")

Next == Sample \/ Download \/ Aggregate \/ Flush

Spec == Init /\ [][Next]_vars

-----------------------------------------------------------------------------
HeldBy(e) == { i \in Slot : slots[i].id = e }

Sums ==
  [e \in Entry |-> IF HeldBy(e) = {} THEN 0 ELSE slots[CHOOSE i \in HeldBy(e) : TRUE].counter]

(* The buffer does what recsys_sim needs: it never throws, holds what was   *)
(* downloaded, counts every gradient once, and empties itself.              *)
Rounds == INSTANCE TrainingRounds WITH held <- { e \in Entry : HeldBy(e) # {} }, sums <- Sums

ImplementsRounds == Rounds!Spec

(* An entry and its data are in the memory or in one slot, never in both    *)
(* and never in neither: downloading an entry again makes no second copy,   *)
(* and no entry comes back with the data of another.                        *)
OneHome ==
  \A e \in Entry :
    /\ main[e] \in {e, Absent}
    /\ Cardinality(HeldBy(e)) = IF main[e] = Absent THEN 1 ELSE 0
    /\ \A i \in HeldBy(e) : slots[i].data = e
=============================================================================
