---------------------------- MODULE OramBuffer3 ----------------------------
(***************************************************************************)
(* OramBuffer3: entries move between two ORAMs as they are downloaded and  *)
(* flushed.  The buffer ORAM has no position map of its own.               *)
(***************************************************************************)
EXTENDS TwoOrams

CONSTANT NonSecure  \* enable_non_secure_mode

Parameters == OramsParameters /\ NonSecure \in BOOLEAN /\ ~UsesReserve

VARIABLES
  posmap,   \* the memory's position map
  scratch,  \* buffer_oram_block_buffer: the block's bytes stay between calls
  recorded  \* entry_id_buffer and is_entry_duplicate

bufferVars == <<posmap, main, buffer, scratch, recorded>>

vars == <<phase, step, samples, posmap, main, buffer, scratch, recorded>>

TypeOK ==
  /\ phase \in Phases \cup Exceptions
  /\ step \in Call /\ samples \in [Call -> Entry]
  /\ posmap \in [Entry -> Index]
  /\ OramsTypeOK
  /\ scratch \in Bytes
  /\ recorded \in Seq([id : Entry, duplicate : BOOLEAN]) /\ Len(recorded) <= SamplesPerRound

Init ==
  /\ LoopInit
  /\ posmap \in [Entry -> MemoryPath]
  /\ main = [e \in Entry |-> [path |-> posmap[e], data |-> e]]
  /\ buffer = [e \in Entry |-> Absent]
  /\ \E e \in Entry : scratch = [data |-> e, gradient |-> 0, counter |-> 0]
  /\ recorded = << >>

-----------------------------------------------------------------------------
Sample ==
  /\ phase = "sample" /\ \E e \in Entry : Draw(e)
  /\ UNCHANGED bufferVars

(* Faulty variant: the gradient alone is cleared. *)
GradientCleared(inBuffer) == [scratch EXCEPT !.gradient = 0]

(* What a search in the buffer starts from.  In the non-secure mode there   *)
(* is no search, and no memset, for an entry that is not in the buffer.     *)
BytesCleared(inBuffer) ==
  IF inBuffer \/ ~NonSecure THEN [scratch EXCEPT !.gradient = 0, !.counter = 0] ELSE scratch

(* download(): the position map's old entry says where to look; the other   *)
(* ORAM is searched on a random path, or not at all in the non-secure mode. *)
Download ==
  LET e == Current
      inBuffer == HasMask(posmap[e])
      path == WithoutMask(posmap[e])
  IN  /\ phase = "download"
      /\ recorded' = Append(recorded, [id |-> e, duplicate |-> inBuffer])
      /\ \E newPath, randomBuffer \in BufferPath, randomMemory \in MemoryPath :
         \E inB \in IF inBuffer \/ ~NonSecure
                    THEN Answers(buffer, e, IF inBuffer THEN path ELSE randomBuffer) ELSE {FALSE} :
         \E inM \in IF ~inBuffer \/ ~NonSecure
                    THEN Answers(main, e, IF inBuffer THEN randomMemory ELSE path) ELSE {FALSE} :
           LET bytes == IF inB THEN buffer[e].bytes ELSE BytesCleared(inBuffer)
               block == IF inBuffer THEN bytes ELSE [bytes EXCEPT !.data = main[e].data]
           IN  /\ posmap' = [posmap EXCEPT ![e] = Stored(WithMask(newPath))]
               /\ \/ /\ IF inBuffer THEN inB ELSE inM
                     /\ main' = Without(main, e, inM)
                     /\ scratch' = block
                     /\ buffer' = [buffer EXCEPT ![e] = [path |-> newPath, bytes |-> block]]
                     /\ DownloadReturns
                  \/ /\ ~(IF inBuffer THEN inB ELSE inM)
                     /\ buffer' = Without(buffer, e, inB)
                     /\ scratch' = bytes
                     /\ main' = IF inBuffer THEN main ELSE Without(main, e, inM)
                     /\ Throws("NotFound")

(* aggregate(): the position map is overwritten before the block is found.  *)
Aggregate ==
  LET e == Current
  IN  /\ phase = "aggregate"
      /\ \E newPath \in BufferPath :
         \E found \in Answers(buffer, e, WithoutMask(posmap[e])) :
           LET summed == Aggregated(buffer[e].bytes)
           IN  /\ posmap' = [posmap EXCEPT ![e] = Stored(WithMask(newPath))]
               /\ IF found
                  THEN /\ scratch' = summed /\ AggregateReturns
                       /\ buffer' = [buffer EXCEPT ![e] = [path |-> newPath, bytes |-> summed]]
                  ELSE UNCHANGED <<scratch, buffer>> /\ Throws("NotInBuffer")
      /\ UNCHANGED <<main, recorded>>

Duplicate(i) == recorded[i].duplicate

LastRecord == Len(recorded)

(* Faulty variant: num_downloads is not set back. *)
NotCleared == recorded

Cleared == << >>

(* update_flush_buffer(), one record at a time: the entry moves from the    *)
(* buffer to the memory.  For a duplicate record the same accesses are made  *)
(* on random paths, or none at all in the non-secure mode.                  *)
Flush ==
  LET e == recorded[step].id
      last == step = LastRecord
  IN  /\ phase = "flush"
      /\ \/ /\ Duplicate(step) /\ NonSecure
            /\ UNCHANGED <<posmap, main, buffer, scratch>>
            /\ IF last THEN FlushReturns ELSE FlushGoesOn
         \/ /\ ~Duplicate(step) \/ ~NonSecure
            /\ \E newPath \in MemoryPath, randomPath \in BufferPath :
               \E found \in Answers(buffer, e, IF Duplicate(step) THEN randomPath
                                               ELSE WithoutMask(posmap[e])) :
                 LET block == IF found THEN buffer[e].bytes ELSE scratch
                 IN  /\ posmap' = IF Duplicate(step) THEN posmap
                                  ELSE [posmap EXCEPT ![e] = Stored(newPath)]
                     /\ scratch' = block
                     /\ buffer' = Without(buffer, e, found)
                     /\ CASE found = Duplicate(step) -> Throws("NotFound") /\ UNCHANGED main
                          [] found /\ ~Duplicate(step) /\ ~Valid(block) ->
                               Throws("ValidationFailed") /\ UNCHANGED main
                          [] found /\ ~Duplicate(step) /\ Valid(block) ->
                               /\ main' = [main EXCEPT ![e] = [path |-> newPath, data |-> block.data]]
                               /\ IF last THEN FlushReturns ELSE FlushGoesOn
                          [] ~found /\ Duplicate(step) ->
                               UNCHANGED main /\ IF last THEN FlushReturns ELSE FlushGoesOn
      /\ recorded' = IF phase' = "sample" THEN Cleared ELSE recorded

Next == Sample \/ Download \/ Aggregate \/ Flush

Spec == Init /\ [][Next]_vars

-----------------------------------------------------------------------------
(* The bit and the path in the position map tell in which ORAM, and on      *)
(* which of its paths, an entry lies.  It lies nowhere else, and has its    *)
(* own data.                                                                *)
MapTellsPlace ==
  ~Failed =>
    \A e \in Entry :
      IF HasMask(posmap[e])
      THEN /\ main[e] = Absent
           /\ buffer[e] # Absent /\ buffer[e].bytes.data = e
           /\ buffer[e].path = WithoutMask(posmap[e])
      ELSE buffer[e] = Absent /\ main[e] = [path |-> posmap[e], data |-> e]
=============================================================================
