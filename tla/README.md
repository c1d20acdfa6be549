# A TLA+ model of the FEDORA ORAM simulator

FEDORA-OramSim is a single-threaded C++ program. It builds oblivious memories
(ORAMs), stores them on disk, loads them again, and runs access traces or
rounds of a federated recommendation model against them. This directory holds
TLA+ modules of its ORAMs, of the trees and memories below them and of the
training buffers above them, the TLC runs that check them on small instances,
and proofs for every size that TLAPS checks.

Paths below are relative to the repository (`src/...` and `include/...`).

## 1. The system

Every storage object is a `Memory` (`include/memory_interface.hpp`). It answers
`access(MemoryRequest)` and `batch_access`, and most memories are stacked on
another one.

| component | state | operations | uses |
|---|---|---|---|
| PageOptimizedRAWOram (`src/page_optimized_raw_oram.cpp`) | root_counter, access_counter, the path last read | access_block (READ, WRITE, READ_WRITE, POP, PUSH and their dummies), eviction, init, fast_init, save, load | position map, untrusted memory, valid bit tree, stash, eviction order |
| Stash (`src/stash.cpp`) | a fixed array of slots | add, find and remove, try to evict, save, load | |
| EvictionPathGenerator | one index per level | next_path | |
| ParentCounterValidBitTreeController (`src/valid_bit_tree.cpp`) | pages of valid bits and of counters of child pages, root_counter, the path loaded | read_path, set_valid, write_path, encrypt_contents, save, load | a plain memory |
| BinaryPathOram2 (`src/binary_path_oram_2.cpp`) | pages of buckets and counters, stash, position map, the path left loaded | as the RAW ORAM; loading a path and writing it back are separate | |
| BinaryPathOram (`src/oram.cpp`) | buckets, stash, position map | access_block, eviction, save, load | bucket tree controller |
| Bucket tree controller and layouts | the requests of the path being accessed | read_path, pointers into it, write_path | request coalescer, a plain memory |
| RecSys buffers (`src/recsys_buffer.cpp`) | entries of the current round, gradients, counters, records of downloads | reserve, load_entries, download, aggregate, update_flush_buffer | a main ORAM, for some a buffer ORAM and its position map |
| recsys_sim (`src/recsys_sim.cpp`) | the samples of the round | the loop over rounds | a RecSys buffer |
| Disk memories, adapters, Cache, plain memories | a file and its cached pages, sections, lines | access, batch_access, save, load | another memory, or the file system |
| driver, loader, builders | - | the trace of requests, construction | |

Components interact by calls. A call runs to its end before the next begins:
there are no threads and no callbacks that re-enter an ORAM. Hard behaviour
comes from long sequences of legal calls over several pieces of state that must
agree (position map, metadata, valid bits, stash, counters); from a path that
stays loaded between calls; from exceptions that leave an operation half done;
from saving and loading; from boundary cases of the sizes; and, in one place,
from the kernel, which completes a batch of asynchronous requests in its own
order. Randomness (paths, dummies, samples, k of the private union) is a choice.

What makes each component correct:

- **ORAMs and stash**: a block is where its position says, once; a request sees
  the last value written; a page is always decryptable; eviction empties the
  stash as far as its path permits; a full stash loses nothing but its block.
- **Eviction order**: buckets of a level are rewritten equally often, for ever.
- **Valid bit tree**: a page can be read under the counter its parent holds, no
  counter is used twice, and other paths' bits are unaffected by a write.
- **Bucket tree**: buckets do not overlap and a write-back changes one path.
- **RecSys buffers**: an entry is in the buffer or in the memory, gets every
  gradient once, and is back in the memory when its round is over.
- **Memories**: a batch does what its requests would do one by one; a saved
  memory comes back with what it held.

`PROJECT.json` lists the components with what is modelled of each, the hazards
at their lines, and for every definition the lines it stands for.

## 2. Modules

| module | models |
|---|---|
| `BlockStore` | abstract: what an ORAM promises its client, a partial map from addresses to values |
| `TreePaths` | buckets, paths, eviction order, derived page counters |
| `PathEviction` | slots of buckets and stash, and the scans that fill a path; `EXTENDS TreePaths` |
| `RawOram` | PageOptimizedRAWOram; `EXTENDS PathEviction`, refines `BlockStore` |
| `PathOram2` | BinaryPathOram2; `EXTENDS PathEviction`, refines `BlockStore` |
| `BinaryPathOram` | BinaryPathOram; `EXTENDS PathEviction`, refines `BlockStore` |
| `ValidBitTree` | ParentCounterValidBitTreeController |
| `TreeStore` | abstract: what an ORAM expects of its bucket tree |
| `BucketTree` | UntrustedMemoryController and the two layouts; refines `TreeStore` |
| `RequestCoalescer` | the parts of a request in the blocks it touches |
| `SimPhases`, `SimLoop` | the phases of recsys_sim and its loop; the buffers conjoin their handlers with it |
| `TrainingRounds` | abstract: what recsys_sim expects of a buffer; `EXTENDS SimLoop` |
| `ScanBuffer` | LinearScanBuffer; refines `TrainingRounds` |
| `OramBuffer` | OramBuffer in mode POP_N_PUSH; refines `TrainingRounds` |
| `TwoOrams` | what the next three share: two ORAMs used through LLPathOramInterface |
| `OramBuffer3`, `OramBufferDP`, `OramBufferDPLinearScan` | the buffers of these names |
| `BatchOrder` | what a batch of requests may do to a memory |
| `BlockDiskMemory`, `DiskMemory` | the asynchronous memory with cached pages, and the plain one |
| `MemoryAdapters` | BitfieldAdapter over MultiSplitMemory |
| `LruCache` | Cache |
| `TreePathsProofs`, `PathEvictionProofs` | lemmas about trees, the order of evictions and the scans of an eviction |
| `RawOramProofs`, `BinaryPathOramProofs`, `PathOram2Proofs` | theorems about the module each is named after |
| `TreesProofs` | theorems about `ValidBitTree` and `BucketTree` |
| `RecsysBufferProofs` | theorems about `ScanBuffer`, `OramBuffer`, `OramBuffer3`, `OramBufferDP` and `OramBufferDPLinearScan` |
| `MemoryProofs` | theorems about `LruCache`, `BlockDiskMemory`, `DiskMemory` and `MemoryAdapters` |
| `MCRawOram`, `MCPathOram2`, `MCBinaryPathOram` | one instance for TLC, with its symmetry |
| `MCOramVariants`, `RecsysSim`, `MCTrees`, `MCMemories` | several instances for TLC, one of which is created |

The last row composes instances; `MCTrees` extends `ValidBitTree` and has two
instances of `BucketTree` beside it, and `MCMemories` extends `LruCache` and has
an instance of each of the others. A variable that never changes (`variant`,
`tree`, `type`, `bufferName` and `unsafe`) is chosen by `Init` and says which
of several configurations the program was created with; variables the chosen one
does not have stay `None`, or as they were created. A property of the composition is the one of the
instance that runs. A refinement is stated for each instance as what its
initial state and each of its steps imply, which is the abstract specification
behind a condition that does not change.

### RawOram and the code

| variable | code |
|---|---|
| `posmap` | the memory `position_map`, a path per block address |
| `tree[n][s]` | slot `s` of bucket `n` in `untrusted_memory`, **if its valid bit is set**, else `NoBlock`; the code decides by the valid bit alone |
| `stash` | `Stash::metadata` and `Stash::data_blocks` |
| `accessCounter`, `rootCounter` | `access_counter`, `root_counter` |
| `indices` | `EvictionPathGenerator::level_indices` |
| `pageCounter[n]` | the counter in the nonce the page of bucket `n` was last encrypted with; not stored by the code, which derives it |
| `status` | `"ok"`, or the exception that ended the program |
| `reply` | what the last request put in its data |

An action is one request, from `access` to its return or its exception:
`Read`, `Write`, `ReadWrite`, `Pop`, `Push`, `DummyPop`, `DummyPush`. Each
contains the position map update, the lookup (with the valid bits written back),
`Stash::add_block` and, when `access_counter` reaches its limit, the whole of
`eviction_access`. `LookupThrows`, the `ELSE` of `DummyPop`, the first
alternative of `PlaceBlockOnPath` and the `ELSE` of `EvictionAccess` are the
exceptions, each leaving exactly what had been changed when it is thrown; those of
a page that cannot be decrypted happen in the unary instance of `oram_variants`. After
an exception the program ends. `SaveAndLoad` is `save_to_disk` in one process
followed by `load_from_disk` in the next.

Eviction (`PathEviction`) is described by what the scans compute. All places of
the path buffer and the stash are one function `held`. The round for level `l`
takes, in scan order (levels from `l` up to the root, then the stash), the first
`blocks_per_bucket` candidates that no earlier round has taken, and refills the
bucket with them. The two modes of the code (`unsecure_eviction_buffer` or not)
take the same blocks in the same order, and BinaryPathOram2 and BinaryPathOram
go through the same rounds.

`Push` is enabled only for a block that is not there, as the RecSys buffers use
it: the code does not look, and `OneHome` below shows that the buffers push what
they popped. `fast_init` is modelled for a binary root. With
`top_level_order = 1` it draws paths for the blocks of the root from a range
twice as large as the tree (line 397), and that instance starts from `init`.

### PathOram2 and BinaryPathOram and the code

`PathOram2` keeps everything but the position map in one record `oram`, so that
an access is a composition of the code's functions: `Flushed` (write back what is
still loaded), `ReadPath`, `Removed`, `EvictAndWritePath`. `oram.loaded` is
`currently_loaded_path`, `oram.buffer` the slots of `decrypted_path`; `View` is
the tree with the loaded path in place of the stored one. A `Pop` leaves the path
loaded, with the block gone from the buffer only; a `Push` evicts onto that
path, whichever block it was read for. `under` and `children` are the counters a
page was encrypted under and the counters its parent has for it. A restart gives
up the buffer; `SavesMidPath` says whether it may come while a path is loaded.
The table's `bypass_path_read_on_stash_hit` is read with `value_or("false")`
(line 202), which yields true.

`BinaryPathOram` is the older ORAM: the path is read, searched and evicted onto
in one access, and a stash of as many slots as the tree has levels may overflow.
Its tree is a function of bucket and slot; `BucketTree` is what lies below.

### ValidBitTree, BucketTree and the code

`ValidBitTree.memory[p]` is what page `p` decrypts to and the counter of its
nonce. `EncryptContents` is the bottom-up encryption after filling; `ReadPath`
decrypts a page under the counter in the page above it and is disabled where the
tag would not verify; `SetValid` changes the buffer; `WritePath` advances the
children's counters and encrypts. `GetAddressOf`, by which fast_init fills pages,
is translated separately from `IndexInPage`, by which paths are used; the two
agree as far as `BitsAsWritten` holds. `RawOram`'s valid bits in place are
justified by this module.

`BucketTree` has byte addresses: both layouts' addresses, which kinds of bucket
are read by whole pages, the requests of a path in the order of the code, the
pointers into them, and the write-back request by request. `Fill` is the ORAM's
use of a pointer.

### The RecSys buffers and the code

`SimLoop` is the loop of `recsys_sim_entry_point`: the phases of a round are
sampling, reserving, loading, downloading, aggregating in a shuffled order, and
flushing. It has one operator for each way a phase goes on. A buffer's action is
a handler, one call of `reserve`, `download` or `aggregate`, or one turn of the
loops of `load_entries` and `update_flush_buffer`, conjoined with the
operator of the loop it returns to. `Throws` ends the program with the name of
the exception as its phase.

The bytes of a block are an entry's data, which is the entry's own id, a
gradient byte and a counter. `ByteValues` and `CounterValues` stand for 256 and
65536. `OramBuffer` uses its two ORAMs as `BlockStore`s. The other three call
them with explicit paths, so `TwoOrams` keeps the path of each block, and a
search on another path may find the block or not (it may be in the stash or
in a shared bucket). `Union` is `union_linear_scanning`; `OramBufferDP` lays the
unions of its chunks out in `UnionBuffer` as the code does, and `Plan` takes the
ids of the places that the drawn numbers leave (`Moves`). `InBufferMask` is computed as in the constructor, from the
numbers of paths, and stored values are truncated to `path_index_size` bytes.
`scratch` is `buffer_oram_block_buffer`, which keeps its bytes between calls.

### The memories and the code

`BlockDiskMemory` is BlockDiskMemoryLibAIOCached: requests for cached pages
are done at once (`Submit`), the others are handed to the kernel together, each
completes in a step of its own in any order (`Complete`), and `Return` copies
what was read to its requests. `DiskMemory` reads whole blocks of the touched
range, merges the writes, and writes the blocks back. `MemoryAdapters` has the
sections of MultiSplitMemory as computed by `generate_mapping` and the bits of
BitfieldAdapter over them. `before` is a history variable: the contents before
the batch.

`LruCache.lines` is `cache_metadata` from front to back. `cache_map` is the
position of the valid line that holds a page. `written` and `recency` are history
variables that no guard reads. A save keeps the memory behind the cache and no
line; what a client may expect is restarted there, so that the violation below
is one of a single process.

Abstractions, everywhere: offset and length within a block; the cipher (a page
decrypts exactly if the counters agree); widths that are never reached (64-bit
counters); statistics and logs. Payloads are model values or block numbers.

## 3. Properties and runs

Every run asks one question of one group of components. "Violation" runs state
what the repository says of itself and show that the code does otherwise.

| run | instances | shows |
|---|---|---|
| `core` | `RawOram`: 7 buckets of 1, 2 blocks, stash 2, eviction after 2 placements, 3 evictions | `TypeOK`, `BlocksOnTheirPaths`, `AtMostOneCopy`, `PagesDecryptable`, `EvictionsBalanced`, `EvictionPacksPath`, `ImplementsBlockStore`, from both initialisations |
| `path_oram_2` | `PathOram2`: 3 buckets of 1 with a page each, 2 blocks, 2 payloads, stash 1, with the bypass, counters modulo 2 | `TypeOK`, `BlocksOnTheirPaths`, `AtMostOneCopy`, `OnlyPopAwaitsWriteBack`, `EveryPathReadable`, `ImplementsBlockStore` of the ORAM with a path that stays loaded |
| `binary_path_oram` | `BinaryPathOram`: 7 buckets of 1, 3 blocks, stash 3 | `TypeOK`, `BlocksOnTheirPaths`, `AtMostOneCopy`, `EvictionPacksPath`, `ImplementsBlockStore` of the older ORAM |
| `oram_variants` | `RawOram` with the bypass (3 buckets of 2, 3 blocks); with 15 buckets, 1 block and 17 evictions; with a unary root; `PathOram2` with 7 buckets in pages of 2 levels and 1 block; `BinaryPathOram` with 3 buckets, 3 blocks, 2 payloads, stash 2 and the bypass | placement, uniqueness and the refinement when blocks compete for slots and the stash overflows; `PagesDecryptable` over two cycles of evictions; `EveryPathReadable` where pages hold several levels; that after pages have become undecryptable every exception is still clean |
| `recsys_sim` | all five buffers, three of them in both modes; 2 or 3 entries, 3 or 4 samples a round | `OneHome`, `NeverThrows`, `GradientsCounted`, `ImplementsRounds`, `EntriesComeHome` |
| `trees` | `ValidBitTree` with a chain of three page levels; `BucketTree` in both layouts | `EveryPathReadable`, `BitsAsWritten`, `NoncesNeverRepeat`, `OnePageForEachLevelOfPages`, `ImplementsTreeStore` |
| `memories` | `BlockDiskMemory`, `DiskMemory`, `MemoryAdapters`, `LruCache` | `BatchDoneInSomeOrder`, `BatchDoneInOrder`, `HoldsLastUsedPages`, `RestartKeepsContents` |
| `unary_root_pages` | `RawOram`, `top_level_order = 1` | **violation** of `PagesDecryptable` |
| `reload` | `RawOram`, 3 buckets, 1 block | **violation** of `CounterResetOnlyByEviction` |
| `cache_writes` | `LruCache`, 2 pages, 1 line | **violation** of `WritesReflectedInReads` |
| `path2_midpath` | `PathOram2`, 3 buckets, saved while a path is loaded | **violation** of `RestartKeepsContents` |
| `tree_shared_page` | `BucketTree`, data by buckets of 3, metadata by pages of 8 | **violation** of `ImplementsTreeStore` |

The properties, beyond what their names say:

- `BlocksOnTheirPaths`: a block of the tree lies on the path the position map
  gives it, and its metadata says so; a block of the stash carries that path. Of
  `PathOram2` this is said of `View`, the tree as a write-back would leave it.
- `AtMostOneCopy`: no block is in two places, a stale valid bit counting as one.
- `PagesDecryptable`, `EveryPathReadable`: a page can be decrypted under the
  counter that is derived for it, or that its parent holds.
- `EvictionPacksPath` (action): after an eviction a bucket of its path has room
  only if nothing in the stash or above it on the path could have gone there.
- `EvictionsBalanced`: two buckets of a level were rewritten equally often, give
  or take one. The counters derived from root_counter depend on it.
- `ImplementsBlockStore`: with `Contents`, the value a lookup of each block would
  find, an ORAM is a `BlockStore`: a request never returns anything but the last
  value written, evictions, dummies and restarts change nothing, and an
  exception costs at most the block the request was about.
- `OnlyPopAwaitsWriteBack`: a loaded path differs from the stored one by one
  popped block at most; everything else could be lost without harm.
- `ImplementsTreeStore`: both kinds of buckets are apart from each other, the
  pointers lead to the buckets of the path, and writing it back changes no other.
- `NoncesNeverRepeat` (action): a page that changes gets a larger counter.
- `OneHome`: an entry is in the memory or in the buffer, never in both or
  neither, where the next access looks for it, and with its own data.
- `NeverThrows`: no buffer throws. In two of them a block starts with the gradient
  and counter of whichever block was handled last, and the check of byte
  against counter at the flush still holds.
- `GradientsCounted`: an entry in the buffer has one gradient for each call of
  `aggregate` in this round. Not claimed of `OramBuffer3` in the non-secure mode
  and of `OramBufferDPLinearScan`, which begin with leftovers as just said, nor
  is `ImplementsRounds`; their placement and exceptions are checked.
- `ImplementsRounds`: held entries and their sums behave as `TrainingRounds`.
- `EntriesComeHome` (liveness): an entry that is taken out of the memory comes
  back to it, if the program goes on.
- `BatchDoneInSomeOrder`, `BatchDoneInOrder`: the contents after a batch and the
  data of its reads are those of doing the requests one by one, in some order
  for the disk memories, in the given order for the adapters.

Each property of a passing run has a mutant in `PROJECT.json`: a definition
marked "Faulty variant" next to the one it would replace.

### Bounds and why they are enough

- `MaxEvictions` (`RawOram`): a placement that would start a further eviction is
  not taken. In `core`, three evictions rewrite the root three times, both of its
  children and three of the four leaves, so blocks go to the stash, down, and up
  again. In `oram_variants` the cycle of the eviction order has length 8 and 17
  evictions go round it twice and once more.
- Two blocks suffice for one to be in the way of the other, three for one more
  than a bucket of two has room for. A stash as small as those overflows.
- `PathOram2` has two shapes, one in each of two runs: two blocks and payloads on
  a tree of two levels, where they meet in every bucket and in the stash; and one
  block on a tree of three levels, where a page holds two and has four children,
  so that a write-back changes some counters of a page and not others. What
  larger trees could add is excluded by the proofs (section 4).
- `PathOram2` and `BinaryPathOram` need no bound on accesses: their states are
  finite. `CounterModulus` makes the page counters of `PathOram2` wrap. It is 2,
  so that a counter advanced once too often or not at all is seen.
- `MaxFilled`, `MaxWrites` (`ValidBitTree`): the buckets filled before encryption,
  one of any, and write-backs after the first, two, which go to any two paths and
  meet at the root or below it. Every page holds one level here. Pages of several
  levels, and leaf pages that differ from the others, are covered by the proofs.
- `MaxFilled`, `MaxChanges` (`BucketTree`): at most two buckets hold something and
  one bucket of a path is changed between reading and writing it back. Which
  buckets is free, so every pair of buckets that could overlap is met.
- The samples of `recsys_sim`: with four of two entries an entry comes up to four
  times, which wraps the gradient byte (`ByteValues` 2) and the counter
  (`CounterValues` 4). In `OramBufferDP` a round of three makes two chunks of at
  most two, which can have an entry in common. Rounds are not bounded.
- `MaxBatch` 2, `MaxLength`: two requests are enough for one to read what the other
  writes, or to share its block; the last block of the disk file is not whole,
  and a section of the adapters lies between two others.
- Blocks are interchangeable, and double as payloads or have payloads of their
  own. Symmetry is used in the runs whose properties are all safety properties,
  and not in the others.

`ValidBitTree` and its instances have two or more levels of pages. For a tree
that fits in one leaf page, `levels - levels_per_leaf_page` at line 161 is
unsigned and wraps; no object is built then.

### Fairness and stopping

Only `recsys_sim` states fairness, `WF_vars(Next)`. The loop of
`recsys_sim_entry_point` calls the buffer again as soon as a call returns,
waits for nobody, and ends only at an exception, after which `Next` is
disabled. Nothing is assumed of which sample or path is drawn. The other
components serve their callers' requests and promise nothing while none comes.

`CHECK_DEADLOCK FALSE` stands in the runs where an exception ends the program
(the ORAMs; `recsys_sim`, where in mode REUSE the permutation ends). In the
others a step is always possible and deadlock is checked.

### Divergences

1. *Unary root* (`unary_root_pages`): `compute_parameters` yields
   `top_level_order = 1` whenever the number of buckets is a power of two, while
   `read_path` and `write_path` derive counters for a binary tree. The child of
   the root is rewritten by every eviction but counted as if by every second one:
   after two evictions it fails its authentication, and with it every path.
2. *Restart of the RAW ORAM* (`reload`): `access_counter` is read by the loading
   constructor but not written by `to_toml_self`.
3. *Cache* (`cache_writes`): nothing ever sets a line's dirty flag, so writes
   are lost at their line's eviction.
4. *Restart of BinaryPathOram2* (`path2_midpath`): `save_to_disk` does not write
   back a loaded path. Saved after a POP, the store has the popped block again.
   `path_oram_2` shows how far it goes: saved with no path loaded nothing changes,
   and by `OnlyPopAwaitsWriteBack` no other block is ever concerned.
5. *Shared page* (`tree_shared_page`): when the buckets of data and of metadata
   are read in different ways, a page and a bucket in it are both read, and
   written back one after the other, the stale copy possibly last.

Seen while reading, and not the subject of a run: in recsys_sim the PATTERN
branch falls into the `else` of the test after it (`src/recsys_sim.cpp:206`) and
reads an empty permutation; the mode EMPTY_ORAM of OramBuffer, its default,
ends with "not implemented" (`src/recsys_buffer.cpp:339`); the end of a
permutation is signalled while its last entry is unused
(`src/request_stream.cpp:198`, `src/recsys_sim.cpp:216`); a loaded
BinaryPathOram2 always bypasses the path on a stash hit
(`src/binary_path_oram_2.cpp:202`).

## 4. Proofs

The theorems hold for every value of the CONSTANTS that the named assumptions
allow: at least two levels, a root of one or two children, positive sizes of
buckets, stashes and pages, `NoBlock` not an entry and `NoReply` not a value (and
for `RawOram`, whose `fast_init` writes them, block numbers among the values).
TLC evaluates each assumption in a run.

| theorem | `RawOram` | `BinaryPathOram` | `PathOram2` | `ValidBitTree` |
|---|---|---|---|---|
| `TypeCorrect` (`TypeOK`) | yes | yes | yes | yes |
| `Placement` (`BlocksOnTheirPaths`) | yes | yes | saved with no path loaded | |
| `Uniqueness` (`AtMostOneCopy`) | yes | yes | saved with no path loaded | |
| `PackedPaths` (`EvictionPacksPath`) | yes | yes | | |
| `Refinement` (`ImplementsBlockStore`) | yes | yes | saved with no path loaded | |
| `LittleAwaits` (`OnlyPopAwaitsWriteBack`) | | | saved with no path loaded | |
| `PathsReadable` (`EveryPathReadable`) | | | yes | yes |
| `CountersAgree` (`PagesDecryptable`) | binary root | | | |
| `Balance` (`EvictionsBalanced`) | yes | | | |
| `NoncesAreNew` (`NoncesNeverRepeat`) | | | | yes |
| `BitsFound` (`BitsAsWritten`) | | | | yes |

`RecsysBufferProofs` has the buffers of recsys_sim, with any number of entries,
samples, slots, paths and chunks. A column states of its module what the run
`recsys_sim` checks of its instances, under the `Parameters` of that module, which
the run evaluates: a counter whose range is a multiple of the byte's, for
LinearScanBuffer no more samples than slots, and for two ORAMs the comparison of
index sizes that the constructors make.

| theorem about | `ScanBuffer` | `OramBuffer` | `OramBuffer3` | `OramBufferDP` | `OramBufferDPLinearScan` |
|---|---|---|---|---|---|
| `TypeOK` | `TypeCorrect` | `PushTypeCorrect` | `ThreeTypeCorrect` | `DPTypeCorrect` | `LinearTypeCorrect` |
| one home | `EntriesHaveOneHome` | `EntriesAreInOneOram` | `MapTellsThePlace` | `DPMapTellsThePlace` | `LinearMapsTellThePlace` |
| `NeverThrows` | `NoRoundThrows` | `PushNeverThrows` | `ThreeNeverThrows` | `DPNeverThrows` | `LinearNeverThrows` |
| `Rounds!GradientsCounted` | `EveryGradientCounted` | `PushCountsEveryGradient` | `ThreeCountsEveryGradient` | `DPCountsEveryGradient` | |
| `ImplementsRounds` | `ScanImplementsRounds` | `PushImplementsRounds` | `ThreeImplementsRounds` | `DPImplementsRounds` | |

They hold in both modes of the first three, except that the last two rows of
`OramBuffer3` assume `~NonSecure`. There, and in `OramBufferDPLinearScan`, a block
starts with the counter another left behind, so that it does not count the
gradients of its entry; that it still passes its check is `NeverThrows`.

`TreesProofs` has four theorems about `BucketTree`, for any number of levels and
any sizes that `Parameters` allows:

- `BucketsApart`: two buckets of either kind that share a byte are the same
  bucket. It needs nothing but `Parameters`.
- `BucketsTypeCorrect` (`TypeOK`) and `ControllerKeepsTree`
  (`ImplementsTreeStore`), under `NoSharedPages`: a kind of bucket read in pages
  and one that is not have no page in common, and no bucket read in pages crosses
  a page. Without it the refinement is false, as `tree_shared_page` shows
  (divergence 5). Both instances of `trees` satisfy it, which the run evaluates.
- `PathsReadPageByPage` (`OnePageForEachLevelOfPages`), under `InPages`: the
  two-level layout and buckets whose size divides the pages. `NoSharedPages`
  follows (`PagesNotShared`).

That module extends `ValidBitTree` and has `BucketTree` as an instance, as `MCTrees`
has; the assumption on the valid bit tree can be met for every number of levels.

`MemoryProofs` has five about Cache with any number of pages and lines:
`TypeCorrect`, `LastUsedPagesHeld` (`HoldsLastUsedPages`, which `memories` checks),
`OneLineForAPage`, and what remains of the promise that
`cache_writes` refutes. `NothingWrittenBack`: no line is ever dirty, so the memory
behind the cache never changes. `WritesReflectedUntilFull`: as long as no more
pages are used than the cache has lines, a read returns what was last written.

It has seven more about the disk memories and the adapters, under the `Parameters`
of their modules, of which the run `memories` checks the instances:

| theorem about | `BlockDiskMemory` | `DiskMemory` | `MemoryAdapters` |
|---|---|---|---|
| `TypeOK` | `AsyncTypeCorrect` | `DiskTypeCorrect` | `AdaptersTypeCorrect` |
| `BatchDoneInSomeOrder` | `AsyncDoneInSomeOrder` | `DiskDoneInSomeOrder` | |
| `BatchDoneInOrder` | | | `AdaptersDoneInOrder` |
| `RestartKeepsContents` | `RestartKeepsThePages` | | |

The `Parameters` of the adapters are what their callers have to see to, as the code
does not look at it: split points in ascending order, at whole blocks, and
memories large enough for their sections. With a split point within a block, the
request for that block would go on in the wrong memory.

`CountersAgree` assumes `TopLevelOrder = 2`, and four theorems of `PathOram2`
assume `~SavesMidPath`. Without these they are false: `unary_root_pages` shows
undecryptable pages, and saved while a path is loaded an ORAM brings back a
popped block, which a later push makes the second of its name (divergences 1 and
4; `path2_midpath` is the shortest case).

### Placement, uniqueness, packing

None of these properties is inductive alone. A lookup clears one path, so
uniqueness needs that every copy is on that path; placement under a fresh path
needs that no older copy is left behind; and an eviction needs both, and types.
The invariants are called `IInv`: `TypeOK`, placement and uniqueness together,
with `accessCounter` below its limit for `RawOram`, and for `PathOram2` said of
`View`, the tree with the loaded path in place of the stored one, with the
agreement of page counters and with at most one slot in which the loaded and
the stored path differ.

`PathEvictionProofs` treats what the three ORAMs share, as statements about a
tree `t`, a stash `s` and a position map. `Good` says that they are typed and
agree, `Lacks` that a block is absent.

1. Taking a block out leaves a good state that lacks it (`ErasureGood`); such a
   state is good under any path for it (`RemapGood`), and adding the block under
   its path gives a good state again.
2. `EvictionGood`: `Taken` grows from round to round, a place is taken in one
   round only, and `Refilled` gives every slot the content of one taken place. So
   every block of the result was in one place before and is now on its path. No
   property of the order of scanning is needed, so the argument covers every mode
   of eviction.
3. The proof of each ORAM composes these, one step per action; an exception
   leaves what the last completed step left.

Packing needs the order of scanning after all: `Rank` numbers the candidates of a
round without a gap, so a round that leaves a slot free has taken them all, and
what a later round finds was no candidate. From the same lemmas, an eviction
stores what was stored before it, less what `status` reports as lost.

### Refinement of BlockStore

`Contents` looks a block up; by uniqueness and placement it is what is stored,
wherever that is (`ContentsStored`), and `Stores` turns each action into a
statement about single blocks: one block taken, put or put again, the others
untouched. Each action is then one of the actions of `BlockStore`, and evictions,
dummies, restarts and the flush of a loaded path are steps in which `Contents`
stays. `PathOram2` allows a restart that gives up the loaded path: by the
invariant it differs from the stored one by one popped block, and not even by
that if no path is loaded.

### Counters of pages

In `RawOram` the code derives a page's counter from the number of evictions.
`TreePathsProofs` shows that after `x` evictions the digits of
EvictionPathGenerator are the bits of `x` (`NextOrder`: adding one carries as the
generator does), so that eviction `x` visits bucket `<<l, o>>` exactly if `o`,
its `l` bits reversed, is `x` modulo 2^l (`EvictedBuckets`), which is the test in
`DerivedCounter`. The invariant is `CountersDerived`: `indices` are the bits of
`rootCounter`, and each page's counter is the derived one. `PagesDecryptable`
follows from it; so does `EvictionsBalanced`, since a derived counter is `x`
divided by 2^l, rounded one way or the other. Under a unary root the derivation
is wrong, but two evictions are all there can be (`NoThirdEviction`);
`UnaryCounters` follows the counters through these, which share the two uppermost
buckets and no other (`TopBuckets`, `FirstTwoEvictions`).

In `PathOram2` and `ValidBitTree` a page's counter is in the page above it. The
invariant (`CountersAgree`, `Chained`) is that every page is under the counter
its parent holds. A write-back keeps it because the pages of a path are a chain:
a page changes exactly if its parent's entry for it does. Types are needed, since
a counter must be where `GetAddress` looks for it, and arithmetic on trees of
pages: which page holds a bucket, which child leads on (`PageNesting`, and in
`TreesProofs` the lemmas on shifted paths). That no nonce repeats follows,
because every page that changes is re-encrypted under an increased counter.

`BitsFound` adds where the bits are. `BitsStored` says that each bucket's bits
are in the page and slot which `GetAddressOf` gives it, `BitsBuffered` that
those of the loaded path are in the buffer as set. That two buckets never share a
slot (`AddressesDiffer`), and that the address at which fast_init fills a bucket
is the one by which the path reads it, are facts about division by powers of
two.

### Addresses of buckets

A bucket of the two-level layout is found by its level of pages, its page there
and its index in the heap of that page. Each of the three must be told from a
byte's address alone.

1. The pages divide the levels (`PageLevelsDivide`, `PageLevelOfLevel`,
   `PageLevelUnique`), the page levels lie one behind the other
   (`PageLevelOffsets`, `OffsetsGrow`), and a page has room for its heap, because
   `levels_per_page` is one less than the bits of the number of buckets in it
   (`RoomForLevels`, from `NumBitsIs`).
2. With this `InPageApart` and `BucketsApart`, and both ways the code computes an
   address agree (`AddressIs`, `AddressFromPathIs`): dividing the path by powers
   of two one after the other is to divide it by their product
   (`NestedDivision`, `RemainderOfQuotient`).
3. The i-th page request asks for the i-th smallest page (`NthIs`), so a pointer
   leads to the request and offset of its bucket (`PointerIs`), and no two
   requests cover the same byte (`WantedApart`). Only here `NoSharedPages` is
   needed.

`BucketsInv` says that the requests are those of the loaded path (`Matches`) and
hold for every byte beside its buckets what is in the memory (`Keeps`). It is
because of `Keeps` that writing whole pages back leaves the other buckets alone:
each byte ends up as the one request that covers it has it (`CellsAfterIs`), and
beside the path that is what it was. `ReadPathDoes`, `FillDoes` and
`WritePathDoes` state what each step does to the buckets and the buffer, from
which the invariant and the refinement both follow. One page for each level of
pages: the buckets of a path in a level of pages are in one page
(`PageOfBucket`), the pages of different levels differ (`OnePageEach`), and those
of the metadata lie behind those of the data (`PagesCounted`).

### Rounds of the buffers

A handler of LinearScanBuffer scans a prefix of the slots, so the question is whether what it looks
for is in that prefix. `IInv` says that every slot in use is (`RowsGood`), that an
entry is absent from the memory exactly if one slot has it (`Homes`), and what has
been downloaded by each call of a phase (`Progress`). A download that finds its
entry frees a slot within the scan; one that does not makes the scan longer by a
slot, which was beyond the prefix and is therefore free. An aggregation finds its
entry because the shuffle permutes samples that all were downloaded
(`ShuffleKeeps`). Counters are cardinalities of sets of calls (`Calls`) modulo
their range; the check at the flush passes because adding one commutes with both
remainders (`StillValid`), which needs that the one range divides the other.
`DownloadDoes`, `AggregateDoes` and `FlushDoes` say slot by slot what the handlers
do, and the invariant and the refinement both follow from them.

A buffer over two ORAMs must find each entry where it looks, and must have emptied
the buffer ORAM when the flush is over. So its invariant relates what is in the
buffer to what the flush has still to come to.

- `OramBuffer` (`PushIInv`): an entry in the buffer has a record not yet flushed.
  Of two records of it the first is popped, and the second finds nothing.
- `OramBuffer3` (`ThreeIInv`): it has a first record, marked as no duplicate, and
  that one is still to come; every other record of it is marked. The position map
  tells the place (`ThreePlaces`), by its bit and the path below it.
- `OramBufferDP` (`DPIInv`): it has a place in the plan still to come. An entry of
  two chunks has two; after the first its bit is cleared and the second is a
  dummy. What is in the buffer while it is loaded has counter 0, also when a
  second chunk moves it.
- `OramBufferDPLinearScan` (`LinearIInv`): a turn is `Live` until the flush has
  come to it; an entry is in the buffer exactly if a live turn is its own, and
  that turn has its path and the path of the position map as its `home`. No two
  turns have the same entry, because a union has no entry twice (`UnionDistinct`).

`Move..`, `Access..` and `FlushDoes` say what the handlers do under the invariant,
in particular that every search is on the path of the block (`SearchAnswers`), and
the invariant and the refinement follow from them.

That the bit and a path can be told apart again is arithmetic: the mask is a power
of two above every path (`NumBitsEnough`, `MaskTells`), and with a path added it
fits the bytes of an index (`IndexHasRoom`, `MaskFits`), which is what the
comparison in the constructor is for. The plan of `OramBufferDP` is given by the
n-th place of a set (`Nth`); `NthExists` shows by descent to a least
counterexample that a finite set of numbers has one for each n up to its size,
`DPUnionOf` that a union has only requested ids, and `DPPlanned` with `Chunking`
that a plan is not longer than the requests.

### Lines and uses of the cache

The lines and the history of uses both end with the page used last, so the proof
compares them position by position from the back. A hit at the k-th line takes
out the k-th use, because no page is twice in the history; a miss drops the line
at the front, while its page is no use, or a use beyond the last line. Both put
the page at the back (`MovedToBack`), which moves line and use alike (`Used`).
`Current` adds the data: as long as there are no more uses than lines, the lines
hold what was last written, and the memory does for all other pages.

### Batches in some order

`InSomeOrder` asks for an order of all requests, but only the end of the batch
can say which. `Ordered` says of a part of the requests that they were done in
some order, from the contents before the batch to given ones, with the data that
is there for them; one request more is done after the others (`OneMoreOrdered`),
and what a READ has been given is no part of it (`SameOrdered`). The invariants
follow a batch with it.

- `BlockDiskMemory` (`AsyncIInv`): the part is the cached requests and those the
  kernel has completed. A request that completes comes last, and it needs the
  page of its own in the buffer: `PlaceOf` numbers the requests for pages out of
  the cache without a gap (`NthExists`, `RankFacts`), and the return counts them
  by the same numbers.
- `DiskMemory` (`DiskIInv`): the order is the READs and then the WRITEs. A WRITE
  changes of each block exactly the bytes it has (`PartOf`, `BlockAfterAt`), so
  putting the WRITEs in the blocks one after the other is to do them on the bytes
  (`BytesFollow`), a READ put together from its parts is the bytes it covers
  (`DataIsRead`), and writing the touched blocks, the last perhaps beyond the end
  of the file, leaves these bytes (`Written`).
- `MemoryAdapters` (`AdaptersIInv`): the order is that of the batch. Every address
  is in one section (`InASection`, `SectionsInOrder`), the one `lower_bound` finds
  (`LocatedIs`), and two sections of one memory do not overlap there
  (`SectionsApart`: `ChildOffset` is the sum of the sections before it). So no two
  bits share a place (`PlaceIn`), and a block is in one section
  (`WholeBlocksEnd`, `PlaceInBlock`). A block after the first k requests has the
  bits these leave (`BlocksFollow`), so a READ has what the WRITEs before it
  wrote and nothing after it (`BitsAreRead`), and the blocks written back, in
  whatever memory, leave the bits as the whole batch does (`WrittenBackAt`,
  `BitsWritten`).

### Method and limits

Induction over levels cannot use the library's rule, which takes an operator:
`IntervalInduction` is stated for sets, and `RecursiveFunctionExists` shows from
it that the recursive functions of the model exist and satisfy their equations.
The counters of all runs, which `MaxEvictions`, `MaxWrites` and
`CounterModulus` bound for TLC, keep these bounds as constants in the proofs, so
the theorems hold for any number of evictions and write-backs.

Model-checked only: `EntriesComeHome` is a liveness property under fairness, which
is out of the prover's reach, as is `ENABLED`; no theorem needs them. The
properties of `recsys_sim`, `oram_variants`, `trees` and `memories` that choose
between instances are proved for each of these in its own module, not for the
module that composes the instances. The five violations are TLC's.

## 5. Not modelled

- Ciphers, keys and tags, libsodium: a page decrypts or its counter is wrong.
- Errors and short transfers of system calls (`src/disk_memory.cpp:191` does not
  look at them), and the sizes `compute_parameters` derives: the models take the
  resulting shape as CONSTANTS.
- The recursive position map, NoBuffer (it passes requests on), the mode
  EMPTY_ORAM and `empty_oram` (they throw), the sampling distribution of the
  private union (its result is a free choice).
- Save and load of the adapters, which nothing in the simulator makes. Reading
  them shows that `MultiSplitMemory::load_from_disk`
  (`src/src/memory_adapter.cpp:577`), which the loader calls, hands its table to
  SplitMemory: the saved sections are ignored and the memory loaded has one split
  point, at the size of the lower memory, so its contents are where they were
  only if that was the one split point before.
- The loader and the builders, which have no state; request streams, the driver,
  options and patterns.
- Plain memories (a variable each), constant-time copies, floating point,
  statistics, logs, scripts, tests.

## 6. Plan

Every component that is to be modelled is, and the safety properties are proved
except where section 4 says otherwise. What could follow:

1. Save and load of the adapters and the recursive position map, once the simulator
   uses them.
2. `EntriesComeHome` on larger instances of the buffers, as machines allow.
