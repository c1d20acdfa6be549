------------------------------ MODULE LruCache ------------------------------
(***************************************************************************)
(* Cache: a fully associative cache of num_blocks pages in front of        *)
(* another memory.  cache_metadata lists the lines from the least to the   *)
(* most recently used.  cache_map, which finds the line of a page, is here *)
(* the position of the valid line that holds the page.                     *)
(***************************************************************************)
EXTENDS Integers, SequencesExt

CONSTANTS
  PageId,     \* the pages of the memory behind the cache
  Value,      \* what a page can hold
  NumBlocks,  \* num_blocks
  NoReply     \* the reply of a WRITE

Parameters == NumBlocks \in Nat \ {0} /\ PageId # {}

VARIABLES
  memory,     \* the memory behind the cache
  lines,      \* cache_metadata with its cache_blocks, front first
  reply,      \* what the last request returned
  written,    \* history: the last value each page was given, since the cache was made
  recency     \* history: the pages used since then, the last one at the end

vars == <<memory, lines, reply, written, recency>>

Line == [page : PageId, data : Value, valid : BOOLEAN, dirty : BOOLEAN]

TypeOK ==
  /\ memory \in [PageId -> Value] /\ written \in [PageId -> Value]
  /\ lines \in [1 .. NumBlocks -> Line]
  /\ reply \in Value \cup {NoReply}
  /\ recency \in Seq(PageId)

(* The block of a line that was never filled is a request for page 0. *)
EmptyLines ==
  LET first == CHOOSE p \in PageId : TRUE
  IN  [i \in 1 .. NumBlocks |->
         [page |-> first, data |-> memory[first], valid |-> FALSE, dirty |-> FALSE]]

Init ==
  /\ memory \in [PageId -> Value]
  /\ lines = EmptyLines
  /\ reply = NoReply
  /\ written = memory
  /\ recency = <<>>

-----------------------------------------------------------------------------
Hits(p) == { i \in 1 .. NumBlocks : lines[i].valid /\ lines[i].page = p }

(* The victim, the front line, is written back if it is valid and dirty. *)
MemoryAfterEviction ==
  LET victim == Head(lines)
  IN  IF victim.valid /\ victim.dirty
      THEN [memory EXCEPT ![victim.page] = victim.data]
      ELSE memory

Fetched(p) ==
  Append(Tail(lines),
         [page |-> p, data |-> MemoryAfterEviction[p], valid |-> TRUE, dirty |-> FALSE])

(* Faulty variant: a hit leaves its line where it is. *)
BroughtOnlyOnMiss(p) == IF Hits(p) = {} THEN Fetched(p) ELSE lines

(* The lines once page p is in the cache and its line at the back. *)
Brought(p) ==
  IF Hits(p) = {} THEN Fetched(p)
  ELSE LET i == CHOOSE i \in Hits(p) : TRUE
       IN  Append(RemoveAt(lines, i), lines[i])

(* The history of uses, without those of page p. *)
UsesOfOthers(p) ==
  LET uses == { i \in 1 .. Len(recency) : recency[i] = p }
  IN  IF uses = {} THEN recency ELSE RemoveAt(recency, CHOOSE i \in uses : TRUE)

Use(p) ==
  /\ memory' = IF Hits(p) = {} THEN MemoryAfterEviction ELSE memory
  /\ recency' = Append(UsesOfOthers(p), p)

(* access(), by request type. *)
Read(p) ==
  /\ Use(p)
  /\ lines' = Brought(p)
  /\ reply' = Brought(p)[NumBlocks].data
  /\ UNCHANGED written

(* The line takes the data; its dirty flag stays as it is. *)
Write(p, v) ==
  /\ Use(p)
  /\ lines' = [Brought(p) EXCEPT ![NumBlocks].data = v]
  /\ reply' = NoReply
  /\ written' = [written EXCEPT ![p] = v]

(* save_to_disk() saves the memory behind the cache and none of the lines; *)
(* what the lines alone held is gone, and the histories start afresh.      *)
SaveAndLoad ==
  /\ lines' = EmptyLines
  /\ recency' = <<>> /\ written' = memory
  /\ UNCHANGED <<memory, reply>>

Next ==
  \/ SaveAndLoad
  \/ \E p \in PageId : Read(p) \/ \E v \in Value : Write(p, v)

Spec == Init /\ [][Next]_vars

-----------------------------------------------------------------------------
(* The cache holds the pages used last, and lists them in the order of     *)
(* their last use: a miss always evicts the least recently used page.      *)
HoldsLastUsedPages ==
  \A n \in 1 .. NumBlocks :
    LET line == lines[NumBlocks + 1 - n]
    IN  /\ line.valid <=> n <= Len(recency)
        /\ line.valid => line.page = recency[Len(recency) + 1 - n]

(* Memory::isBacked, which the cache answers as the memory behind it does: *)
(* "true memory is backed and writes will be reflected in future reads".   *)
WritesReflectedInReads ==
  [][\A p \in PageId : Read(p) => reply' = written[p]]_vars
=============================================================================
