--------------------------- MODULE BlockDiskMemory ---------------------------
(***************************************************************************)
(* BlockDiskMemoryLibAIOCached: a file of pages whose first pages are kept *)
(* in memory.  The requests of a batch for other pages are handed to the   *)
(* kernel together, which does them in any order.  With no pages cached it *)
(* is BlockDiskMemoryLibAIO, and BlockDiskMemory, which uses lio_listio.   *)
(* A cell is a page.                                                       *)
(***************************************************************************)
EXTENDS BatchOrder

CONSTANTS
  NumPages,
  CachedPages,       \* cache.size() / page_size at the start
  AdditionalPages,   \* additional_cache / page_size
  Value,
  MaxEvents,         \* max_events of io_setup()
  MaxBatch           \* the longest batch of the model

Parameters ==
  /\ {NumPages, MaxEvents} \subseteq Nat \ {0}
  /\ {CachedPages, AdditionalPages, MaxBatch} \subseteq Nat
  /\ CachedPages <= NumPages /\ 0 \in Value
  /\ MaxBatch <= MaxEvents   \* io_getevents() waits for what io_submit() did not take

VARIABLES
  file,      \* the pages of the file
  cache,     \* the first of them, as they are in memory
  phase,     \* "idle", or "submitted" until io_getevents() returns
  batch,     \* requests, with their data
  buffer,    \* of the requests that go to the kernel
  inFlight,  \* those not completed
  before     \* the contents before the batch; history

vars == <<file, cache, phase, batch, buffer, inFlight, before>>

Page == 0 .. NumPages - 1

Request ==
  [type : {"READ"}, address : Page, size : {1}, data : {[i \in {0} |-> 0]}]
  \cup [type : {"WRITE"}, address : Page, size : {1}, data : [{0} -> Value]]

IsCached(r) == r.address \in DOMAIN cache

Uncached(requests) == {i \in 1 .. Len(requests) : ~IsCached(requests[i])}

(* Which request has the n-th control block and page of the buffer. *)
PlaceOf(n, requests) ==
  CHOOSE i \in Uncached(requests) : Cardinality({j \in Uncached(requests) : j <= i}) = n

Contents == [p \in Page |-> IF p \in DOMAIN cache THEN cache[p] ELSE file[p]]

TypeOK ==
  /\ file \in [Page -> Value]
  /\ \E n \in 0 .. NumPages : cache \in [0 .. n - 1 -> Value]
  /\ phase \in {"idle", "submitted"}
  /\ batch \in Seq([type : {"READ", "WRITE"}, address : Page, size : {1}, data : [{0} -> Value]])
  /\ buffer \in [1 .. Cardinality(Uncached(batch)) -> Value]
  /\ inFlight \subseteq DOMAIN buffer
  /\ before \in [Page -> Value]

Init ==
  /\ file \in [Page -> Value]
  /\ cache = [p \in 0 .. CachedPages - 1 |-> file[p]]
  /\ phase = "idle" /\ batch = << >> /\ buffer = << >> /\ inFlight = {}
  /\ before = file

-----------------------------------------------------------------------------
(* Faulty variant: all requests of the batch are handed over. *)
AllRequests(requests) == 1 .. Len(requests)

HandedOver(requests) == 1 .. Cardinality(Uncached(requests))

(* Requests for cached pages are done at once, one after the other; the    *)
(* others change none of the cached pages.                                 *)
Submit(requests) ==
  LET cells == CellsAfter(cache, requests)
  IN  /\ phase = "idle" /\ phase' = "submitted"
      /\ cache' = cells[Len(requests)]
      /\ batch' = [i \in 1 .. Len(requests) |->
                     IF requests[i].type = "READ" /\ IsCached(requests[i])
                     THEN [requests[i] EXCEPT !.data = DataRead(cells[i - 1], requests[i])]
                     ELSE requests[i]]
      /\ buffer' = [n \in 1 .. Cardinality(Uncached(requests)) |->
                      requests[PlaceOf(n, requests)].data[0]]
      /\ inFlight' = HandedOver(requests)
      /\ before' = Contents
      /\ UNCHANGED file

(* The kernel completes a request; the file is read or written. *)
Complete(n) ==
  LET r == batch[PlaceOf(n, batch)]
  IN  /\ n \in inFlight
      /\ inFlight' = inFlight \ {n}
      /\ IF r.type = "READ"
         THEN buffer' = [buffer EXCEPT ![n] = file[r.address]] /\ UNCHANGED file
         ELSE file' = [file EXCEPT ![r.address] = buffer[n]] /\ UNCHANGED buffer
      /\ UNCHANGED <<cache, phase, batch, before>>

(* Faulty variant: buffer_offset is advanced at the reads only. *)
BufferOfReads(i) ==
  Cardinality({j \in Uncached(batch) : j <= i /\ batch[j].type = "READ"})

(* buffer_offset is advanced at the requests that went to the kernel only.  *)
BufferOf(i) == Cardinality({j \in Uncached(batch) : j <= i})

EventsAwaited == Cardinality(Uncached(batch))

Completed == EventsAwaited - Cardinality(inFlight)

Return ==
  /\ phase = "submitted" /\ Completed >= EventsAwaited
  /\ batch' = [i \in 1 .. Len(batch) |->
                 IF batch[i].type = "READ" /\ ~IsCached(batch[i])
                 THEN [batch[i] EXCEPT !.data = [j \in {0} |-> buffer[BufferOf(i)]]]
                 ELSE batch[i]]
  /\ phase' = "idle"
  /\ UNCHANGED <<file, cache, buffer, inFlight, before>>

(* Faulty variant: the cached pages stay as they were in the file. *)
FileAsItIs == file

(* save_to_disk() writes the cached pages to the file and copies it. *)
SavedFile == Contents

(* The cache of a loaded memory may be larger, but not than the file. *)
SaveAndLoad ==
  /\ phase = "idle"
  /\ file' = SavedFile
  /\ \E more \in {0, AdditionalPages} :
       /\ Cardinality(DOMAIN cache) + more <= NumPages
       /\ cache' = [p \in 0 .. Cardinality(DOMAIN cache) + more - 1 |-> file'[p]]
  /\ batch' = << >> /\ buffer' = << >>
  /\ before' = file'
  /\ UNCHANGED <<phase, inFlight>>

Next ==
  \/ \E n \in 1 .. MaxBatch : \E requests \in [1 .. n -> Request] : Submit(requests)
  \/ \E n \in inFlight : Complete(n)
  \/ Return
  \/ SaveAndLoad

Spec == Init /\ [][Next]_vars

-----------------------------------------------------------------------------
(* Whatever the kernel does first, the batch read and wrote as if its       *)
(* requests had been done in some order: no request gets another's buffer. *)
BatchDoneInSomeOrder == phase = "idle" => InSomeOrder(before, batch, Contents, [i \in 1 .. Len(batch) |-> batch[i].data])

(* The saved file has what the cache has, and so has the next cache. *)
RestartKeepsContents == [][SaveAndLoad => Contents' = Contents]_vars
=============================================================================
