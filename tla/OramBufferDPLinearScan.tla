----------------------- MODULE OramBufferDPLinearScan -----------------------
(***************************************************************************)
(* OramBufferDPLinearScan: one union of all requests; the buffer ORAM has a *)
(* position map of its own, an array that is scanned up to k.  The memory's *)
(* position map gets the path an entry will come back to when the entry is  *)
(* taken out.  A block is brought into the buffer with the gradient and the *)
(* counter buffer_oram_block_buffer happens to hold.                        *)
(***************************************************************************)
EXTENDS TwoOrams

CONSTANT Dummy  \* a block id of all ones

Parameters == OramsParameters /\ Dummy \notin Entry /\ UsesReserve

VARIABLES
  posmap,    \* the memory's position map
  requested, \* request_id_buffer
  plan,      \* the ids load_entries() moves: k of them, dummies at the end
  map,       \* buffer_posmap up to the limit, with memory_path_buffer as home
  scratch    \* buffer_oram_block_buffer

bufferVars == <<posmap, main, buffer, requested, plan, map, scratch>>

vars == <<phase, step, samples, posmap, main, buffer, requested, plan, map, scratch>>

MapEntry == [id : Entry \cup {Dummy}, path : BufferPath, home : MemoryPath]

TypeOK ==
  /\ phase \in Phases \cup Exceptions
  /\ step \in Call /\ samples \in [Call -> Entry]
  /\ posmap \in [Entry -> MemoryPath]
  /\ OramsTypeOK
  /\ requested \in Seq(Entry) /\ Len(requested) <= SamplesPerRound
  /\ plan \in Seq(Entry \cup {Dummy}) /\ Len(plan) <= SamplesPerRound
  /\ map \in Seq(MapEntry) /\ Len(map) <= SamplesPerRound
  /\ scratch \in Bytes

Init ==
  /\ LoopInit
  /\ posmap \in [Entry -> MemoryPath]
  /\ main = [e \in Entry |-> [path |-> posmap[e], data |-> e]]
  /\ buffer = [e \in Entry |-> Absent]
  /\ requested = << >> /\ plan = << >> /\ map = << >>
  /\ \E e \in Entry : scratch = [data |-> e, gradient |-> 0, counter |-> 0]

-----------------------------------------------------------------------------
Sample ==
  /\ phase = "sample" /\ \E e \in Entry : Draw(e)
  /\ UNCHANGED bufferVars

Reserve ==
  /\ phase = "reserve" /\ ReserveReturns
  /\ requested' = Append(requested, Current)
  /\ UNCHANGED <<posmap, main, buffer, plan, map, scratch>>

(* load_entries() forms the union and draws k; buffer_posmap is written     *)
(* from its start.                                                          *)
Plan ==
  /\ phase = "load" /\ plan = << >> /\ LoadGoesOn
  /\ \E k \in 1 .. Len(requested) :
       LET union == Union(requested)
       IN  plan' = [i \in 1 .. k |-> IF i <= Len(union) THEN union[i] ELSE Dummy]
  /\ map' = << >>
  /\ UNCHANGED <<posmap, main, buffer, requested, scratch>>

(* The block's first entry_size bytes are copied, the others stay. *)
Brought(data) == [scratch EXCEPT !.data = data]

(* One turn of the loop of load_entries(). *)
MoveToBuffer ==
  LET e == plan[Len(map) + 1]
  IN  /\ phase = "load" /\ Len(map) < Len(plan)
      /\ \E newPath \in BufferPath, home \in MemoryPath :
           /\ map' = Append(map, [id |-> e, path |-> newPath, home |-> home])
           /\ \/ /\ e = Dummy /\ UNCHANGED <<posmap, main, buffer, scratch>>
                 /\ IF Len(map) + 1 < Len(plan) THEN LoadGoesOn ELSE LoadReturns
              \/ /\ e # Dummy
                 /\ posmap' = [posmap EXCEPT ![e] = home]
                 /\ \E found \in Answers(main, e, posmap[e]) :
                      /\ main' = Without(main, e, found)
                      /\ IF found
                         THEN /\ scratch' = Brought(main[e].data)
                              /\ buffer' = [buffer EXCEPT ![e] = [path |-> newPath, bytes |-> scratch']]
                              /\ IF Len(map) + 1 < Len(plan) THEN LoadGoesOn ELSE LoadReturns
                         ELSE UNCHANGED <<scratch, buffer>> /\ Throws("NotFound")
      /\ UNCHANGED <<requested, plan>>

(* bufer_posmap_read_and_update() *)
At(e) == { i \in 1 .. Len(map) : map[i].id = e }

Remapped(e, path) ==
  [i \in 1 .. Len(map) |-> IF i \in At(e) THEN [map[i] EXCEPT !.path = path] ELSE map[i]]

(* download() and aggregate(): the entry is taken from its path, or looked  *)
(* for on a random one, and placed again; placed as a dummy if not found.   *)
Access(e, aggregating) ==
  \E newPath, randomPath \in BufferPath :
  \E found \in Answers(buffer, e,
                       IF At(e) = {} THEN randomPath ELSE map[CHOOSE i \in At(e) : TRUE].path) :
    /\ map' = Remapped(e, newPath)
    /\ LET bytes == IF found THEN buffer[e].bytes ELSE scratch
       IN  scratch' = IF aggregating THEN Aggregated(bytes) ELSE bytes
    /\ buffer' = IF found THEN [buffer EXCEPT ![e] = [path |-> newPath, bytes |-> scratch']]
                 ELSE buffer

Download ==
  /\ phase = "download" /\ DownloadReturns
  /\ Access(Current, FALSE)
  /\ UNCHANGED <<posmap, main, requested, plan>>

Aggregate ==
  /\ phase = "aggregate" /\ AggregateReturns
  /\ Access(Current, TRUE)
  /\ UNCHANGED <<posmap, main, requested, plan>>

(* Faulty variant: request_id_buffer is not cleared. *)
NotCleared == requested

Cleared == << >>

(* The path of an entry in the memory was drawn when it was taken out. *)
Home(i) == {map[i].home}

(* Faulty variant: the loop ends at num_entries_in_buffer_oram - 1. *)
LastButOneUsed == IF Len(plan) > 1 THEN Len(plan) - 1 ELSE 1

LastUsed == Len(plan)

(* update_flush_buffer(), one turn of its loop. *)
Flush ==
  LET e == map[step].id
      over == step = LastUsed
  IN  /\ phase = "flush"
      /\ \/ /\ e = Dummy /\ UNCHANGED <<main, buffer, scratch>>
            /\ IF over THEN FlushReturns ELSE FlushGoesOn
         \/ /\ e # Dummy
            /\ \E found \in Answers(buffer, e, map[step].path) : \E home \in Home(step) :
                 /\ buffer' = Without(buffer, e, found)
                 /\ scratch' = IF found THEN buffer[e].bytes ELSE scratch
                 /\ main' = IF found /\ Valid(scratch')
                            THEN [main EXCEPT ![e] = [path |-> home, data |-> scratch'.data]]
                            ELSE main
                 /\ IF ~found THEN Throws("NotFound")
                    ELSE IF ~Valid(scratch') THEN Throws("ValidationFailed")
                    ELSE IF over THEN FlushReturns ELSE FlushGoesOn
      /\ IF phase' = "sample" THEN requested' = Cleared /\ plan' = << >>
                              ELSE UNCHANGED <<requested, plan>>
      /\ UNCHANGED <<posmap, map>>

Next == Sample \/ Reserve \/ Plan \/ MoveToBuffer \/ Download \/ Aggregate \/ Flush

Spec == Init /\ [][Next]_vars

-----------------------------------------------------------------------------
(* Whatever is dropped or absent, an entry is in the buffer on the path of  *)
(* the scanned map, or in the memory on the path of the position map, which *)
(* is also the path an entry of the buffer will get; never in both.         *)
MapsTellPlace ==
  ~Failed =>
    \A e \in Entry :
      \/ /\ main[e] = [path |-> posmap[e], data |-> e]
         /\ buffer[e] = Absent
      \/ /\ main[e] = Absent /\ buffer[e] # Absent
         /\ buffer[e].bytes.data = e
         /\ \E i \in At(e) : map[i].path = buffer[e].path /\ map[i].home = posmap[e]
=============================================================================
