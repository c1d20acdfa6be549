----------------------------- MODULE MCMemories -----------------------------
(***************************************************************************)
(* The memories below the ORAMs, for TLC: one of BlockDiskMemory,          *)
(* DiskMemory, MemoryAdapters and LruCache is used.  The variables of the  *)
(* others stay None, and those of the cache stay as they were created.     *)
(***************************************************************************)
EXTENDS LruCache

CONSTANT None

VARIABLES
  type,                             \* which of the memories it is
  batch, before,                    \* of the first three
  file,                             \* BlockDiskMemory, DiskMemory
  cache, phase, buffer, inFlight,   \* BlockDiskMemory
  size,                             \* DiskMemory
  lower, upper, mapping             \* MemoryAdapters

asyncVars == <<cache, phase, buffer, inFlight>>
adapterVars == <<lower, upper, mapping>>
memoriesVars == <<type, batch, before, file, asyncVars, size, adapterVars, vars>>

(* One page is cached from the start, and a load may add another. *)
Async == INSTANCE BlockDiskMemory WITH
  NumPages <- 3, CachedPages <- 1, AdditionalPages <- 1, Value <- {0, 1},
  MaxEvents <- 3, MaxBatch <- 2

(* The last block of the file is not whole. *)
Disk == INSTANCE DiskMemory WITH
  Size <- 3, BlockSize <- 2, Value <- {0, 1}, MaxLength <- 3, MaxBatch <- 2

(* The middle block of three lies in the upper memory. *)
Adapters == INSTANCE MemoryAdapters WITH
  LowerSize <- 4, UpperSize <- 2, SplitPoints <- <<2, 4>>, BlockSize <- 2,
  MaxLength <- 2, MaxBatch <- 2

ASSUME Async!Parameters /\ Disk!Parameters /\ Adapters!Parameters /\ Parameters

NoAsync == cache = None /\ phase = None /\ buffer = None /\ inFlight = None
NoAdapters == lower = None /\ upper = None /\ mapping = None

MemoriesInit ==
  /\ Init
  /\ \/ type = "BlockDiskMemory" /\ Async!Init /\ size = None /\ NoAdapters
     \/ type = "DiskMemory" /\ Disk!Init /\ NoAsync /\ NoAdapters
     \/ type = "BitfieldAdapter" /\ Adapters!Init /\ file = None /\ NoAsync /\ size = None
     \/ /\ type = "Cache"
        /\ batch = None /\ before = None /\ file = None /\ NoAsync /\ size = None /\ NoAdapters

AsyncNext ==
  type = "BlockDiskMemory" /\ Async!Next /\ UNCHANGED <<type, size, adapterVars, vars>>

DiskNext ==
  type = "DiskMemory" /\ Disk!Next /\ UNCHANGED <<type, asyncVars, adapterVars, vars>>

AdaptersNext ==
  type = "BitfieldAdapter" /\ Adapters!Next /\ UNCHANGED <<type, file, asyncVars, size, vars>>

CacheNext ==
  type = "Cache" /\ Next /\ UNCHANGED <<type, batch, before, file, asyncVars, size, adapterVars>>

MemoriesNext == AsyncNext \/ DiskNext \/ AdaptersNext \/ CacheNext

MemoriesSpec == MemoriesInit /\ [][MemoriesNext]_memoriesVars

-----------------------------------------------------------------------------
MemoriesTypeOK ==
  /\ TypeOK
  /\ type = "BlockDiskMemory" => Async!TypeOK
  /\ type = "DiskMemory" => Disk!TypeOK
  /\ type = "BitfieldAdapter" => Adapters!TypeOK

(* A batch reads and writes as if its requests were done in some order,    *)
(* whatever the kernel does first: see BlockDiskMemory and DiskMemory.     *)
BatchDoneInSomeOrder ==
  /\ type = "BlockDiskMemory" => Async!BatchDoneInSomeOrder
  /\ type = "DiskMemory" => Disk!BatchDoneInSomeOrder

(* A batch of bits is done in its own order: see MemoryAdapters. *)
BatchDoneInOrder == type = "BitfieldAdapter" => Adapters!BatchDoneInOrder

(* Saved and loaded, a file has what its cached pages had. *)
RestartKeepsContents ==
  [][type = "BlockDiskMemory" /\ Async!SaveAndLoad => Async!Contents' = Async!Contents]_memoriesVars
=============================================================================
