---------------------------- MODULE OramBufferDP ----------------------------
(***************************************************************************)
(* OramBufferDP: the entries of a round are reserved, and load_entries()   *)
(* takes chunks of the requests, forms the union of each and moves k of    *)
(* its entries to the buffer, where k is drawn: fewer than the union has   *)
(* and some are dropped, more and dummies are moved.  Downloads and        *)
(* aggregations of an entry that was dropped have no effect.               *)
(***************************************************************************)
EXTENDS TwoOrams

CONSTANTS
  ChunkSize,  \* chunk_size
  Dummy       \* an entry id of UINT64_MAX

Parameters ==
  OramsParameters /\ ChunkSize \in Nat \ {0} /\ Dummy \notin Entry /\ UsesReserve

VARIABLES
  posmap,    \* the memory's position map
  requested, \* request_id_buffer
  plan,      \* union_buffer, the first k_union_array[c] ids of every chunk c
  moved      \* how many of them load_entries() has moved

bufferVars == <<posmap, main, buffer, requested, plan, moved>>

vars == <<phase, step, samples, posmap, main, buffer, requested, plan, moved>>

TypeOK ==
  /\ phase \in Phases \cup Exceptions
  /\ step \in Call /\ samples \in [Call -> Entry]
  /\ posmap \in [Entry -> Index]
  /\ OramsTypeOK
  /\ requested \in Seq(Entry) /\ Len(requested) <= SamplesPerRound
  /\ plan \in Seq(Entry \cup {Dummy}) /\ Len(plan) <= SamplesPerRound
  /\ moved \in 0 .. Len(plan)

Init ==
  /\ LoopInit
  /\ posmap \in [Entry -> MemoryPath]
  /\ main = [e \in Entry |-> [path |-> posmap[e], data |-> e]]
  /\ buffer = [e \in Entry |-> Absent]
  /\ requested = << >> /\ plan = << >> /\ moved = 0

-----------------------------------------------------------------------------
Sample ==
  /\ phase = "sample" /\ \E e \in Entry : Draw(e)
  /\ UNCHANGED bufferVars

Reserve ==
  /\ phase = "reserve" /\ ReserveReturns
  /\ requested' = Append(requested, Current)
  /\ UNCHANGED <<posmap, main, buffer, plan, moved>>

NumChunks == (Len(requested) + ChunkSize - 1) \div ChunkSize

Chunk(c) ==
  SubSeq(requested, (c - 1) * ChunkSize + 1,
         IF c < NumChunks THEN c * ChunkSize ELSE Len(requested))

(* The chunk and the place in it of place p of the requests. *)
ChunkOf(p) == ((p - 1) \div ChunkSize) + 1
PlaceInChunk(p) == ((p - 1) % ChunkSize) + 1

(* union_buffer: the union of a chunk lies where its requests do, with      *)
(* dummies after it.                                                        *)
UnionBuffer(p) ==
  LET union == Union(Chunk(ChunkOf(p)))
  IN  IF PlaceInChunk(p) <= Len(union) THEN union[PlaceInChunk(p)] ELSE Dummy

(* The places of union_buffer that are moved if k ids of every chunk are.   *)
Moves(k) == { p \in 1 .. Len(requested) : PlaceInChunk(p) <= k[ChunkOf(p)] }

(* load_entries() draws k from 1 .. chunk size for every chunk. *)
Plan ==
  /\ phase = "load" /\ moved = 0 /\ LoadGoesOn
  /\ \E k \in [1 .. NumChunks -> 1 .. ChunkSize] :
       /\ \A c \in 1 .. NumChunks : k[c] <= Len(Chunk(c))
       /\ plan' = [n \in 1 .. Cardinality(Moves(k)) |-> UnionBuffer(Nth(Moves(k), n))]
  /\ moved' = 1
  /\ UNCHANGED <<posmap, main, buffer, requested>>

InBuffer(e) == HasMask(posmap[e])

(* move_entry_to_buffer_oram(): an entry of two chunks is in the buffer     *)
(* already and moves to another path of it.  A dummy searches both ORAMs on *)
(* random paths and changes nothing.                                        *)
MoveToBuffer ==
  LET e == plan[moved]
  IN  /\ phase = "load" /\ moved > 0
      /\ \/ /\ e = Dummy /\ UNCHANGED <<posmap, main, buffer>>
            /\ IF moved < Len(plan) THEN LoadGoesOn ELSE LoadReturns
         \/ /\ e # Dummy
            /\ \E newPath, randomBuffer \in BufferPath, randomMemory \in MemoryPath :
               \E inB \in Answers(buffer, e, IF InBuffer(e) THEN WithoutMask(posmap[e]) ELSE randomBuffer),
                  inM \in Answers(main, e, IF InBuffer(e) THEN randomMemory ELSE posmap[e]) :
                 LET bytes == IF InBuffer(e) THEN buffer[e].bytes
                              ELSE [data |-> main[e].data, gradient |-> 0, counter |-> 0]
                 IN  /\ posmap' = [posmap EXCEPT ![e] = Stored(WithMask(newPath))]
                     /\ main' = Without(main, e, inM)
                     /\ IF IF InBuffer(e) THEN inB ELSE inM
                        THEN /\ buffer' = [buffer EXCEPT ![e] = [path |-> newPath, bytes |-> bytes]]
                             /\ IF moved < Len(plan) THEN LoadGoesOn ELSE LoadReturns
                        ELSE buffer' = Without(buffer, e, inB) /\ Throws("NotFound")
      /\ moved' = IF phase' = "load" THEN moved + 1 ELSE 0
      /\ UNCHANGED <<requested, plan>>

(* Only an entry whose bit is set gets a new path. *)
Remapped(e, newPath) ==
  IF InBuffer(e) THEN [posmap EXCEPT ![e] = Stored(WithMask(newPath))] ELSE posmap

(* download() and aggregate() take the entry out of the buffer and place it *)
(* on a new path, changed or not.  An entry that was not found is placed as *)
(* a dummy.                                                                 *)
Access(e, bytes) ==
  \E newPath, randomPath \in BufferPath :
  \E found \in Answers(buffer, e, IF InBuffer(e) THEN WithoutMask(posmap[e]) ELSE randomPath) :
    /\ posmap' = Remapped(e, newPath)
    /\ buffer' = IF found
                 THEN [buffer EXCEPT ![e] = [path |-> newPath, bytes |-> bytes]]
                 ELSE buffer

Download ==
  /\ phase = "download" /\ DownloadReturns
  /\ Access(Current, buffer[Current].bytes)
  /\ UNCHANGED <<main, requested, plan, moved>>

Aggregate ==
  /\ phase = "aggregate" /\ AggregateReturns
  /\ Access(Current, Aggregated(buffer[Current].bytes))
  /\ UNCHANGED <<main, requested, plan, moved>>

(* Faulty variant: request_id_buffer is not cleared. *)
NotCleared == requested

Cleared == << >>

LastMove == Len(plan)

(* update_flush_buffer(): move_entry_to_main_oram() for every id of the     *)
(* plan.  An entry of two chunks has moved when its second turn comes, and  *)
(* is then a dummy.                                                         *)
Flush ==
  LET e == plan[step]
      dummy == e = Dummy \/ ~InBuffer(e)
  IN  /\ phase = "flush"
      /\ \/ /\ e = Dummy /\ UNCHANGED <<posmap, main, buffer>>
            /\ IF step = LastMove THEN FlushReturns ELSE FlushGoesOn
         \/ /\ e # Dummy
            /\ \E newPath \in MemoryPath, randomPath \in BufferPath :
               \E found \in Answers(buffer, e, IF dummy THEN randomPath ELSE WithoutMask(posmap[e])) :
                 /\ posmap' = IF dummy THEN posmap ELSE [posmap EXCEPT ![e] = Stored(newPath)]
                 /\ buffer' = Without(buffer, e, found)
                 /\ main' = IF found /\ ~dummy /\ Valid(buffer[e].bytes)
                            THEN [main EXCEPT ![e] = [path |-> newPath, data |-> buffer[e].bytes.data]]
                            ELSE main
                 /\ IF found = dummy THEN Throws("NotFound")
                    ELSE IF found /\ ~Valid(buffer[e].bytes) THEN Throws("ValidationFailed")
                    ELSE IF step = LastMove THEN FlushReturns ELSE FlushGoesOn
      /\ requested' = IF phase' = "sample" THEN Cleared ELSE requested
      /\ UNCHANGED <<plan, moved>>

Next == Sample \/ Reserve \/ Plan \/ MoveToBuffer \/ Download \/ Aggregate \/ Flush

Spec == Init /\ [][Next]_vars

-----------------------------------------------------------------------------
(* The bit and the path in the position map tell in which ORAM, and on      *)
(* which of its paths, an entry lies, dropped or not.  It lies nowhere      *)
(* else, and has its own data.                                              *)
MapTellsPlace ==
  ~Failed =>
    \A e \in Entry :
      IF HasMask(posmap[e])
      THEN /\ main[e] = Absent
           /\ buffer[e] # Absent /\ buffer[e].bytes.data = e
           /\ buffer[e].path = WithoutMask(posmap[e])
      ELSE buffer[e] = Absent /\ main[e] = [path |-> posmap[e], data |-> e]
=============================================================================
