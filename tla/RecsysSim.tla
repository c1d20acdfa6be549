------------------------------ MODULE RecsysSim ------------------------------
(***************************************************************************)
(* recsys_sim with each of its buffers: the program creates the one that   *)
(* --buffer names, with or without --unsafe_optimization, and runs rounds  *)
(* until an exception ends it.  The variables of the other buffers do not  *)
(* exist then and stay None.                                               *)
(***************************************************************************)
EXTENDS SimPhases, Naturals, FiniteSets

CONSTANTS e1, e2, e3, Absent, Free, Dummy, None

VARIABLES
  bufferName,  \* --buffer
  unsafe,      \* --unsafe_optimization
  step, samples, main,                   \* of every buffer
  slots, downloaded, inBuffer,           \* LinearScanBuffer
  buffer, recorded, request,             \* OramBuffer, OramBuffer3
  posmap, scratch,                       \* OramBuffer3, OramBufferDP*
  requested, plan, moved, map            \* OramBufferDP*

vars == <<bufferName, unsafe, phase, step, samples, main, slots, downloaded, inBuffer, buffer,
          recorded, request, posmap, scratch, requested, plan, moved, map>>

-----------------------------------------------------------------------------
(* A buffer behind a sample file: every entry can come at any time.  Two    *)
(* entries suffice where what happens depends on repetition.                *)
Scan == INSTANCE ScanBuffer WITH
  Entry <- {e1, e2}, SamplesPerRound <- 4, Mode <- "SAMPLE_FILE", UsesReserve <- FALSE,
  MaxSize <- 5, NonSecure <- FALSE, ByteValues <- 2, CounterValues <- 4

(* In mode REUSE the permutation runs out when the last entry is drawn. *)
UnsafeScan == INSTANCE ScanBuffer WITH
  Entry <- {e1, e2, e3}, SamplesPerRound <- 3, Mode <- "REUSE", UsesReserve <- FALSE,
  MaxSize <- 3, NonSecure <- TRUE, ByteValues <- 2, CounterValues <- 4

PopNPush == INSTANCE OramBuffer WITH
  Entry <- {e1, e2}, SamplesPerRound <- 4, Mode <- "SAMPLE_FILE", UsesReserve <- FALSE,
  NonSecure <- FALSE, ByteValues <- 2, CounterValues <- 4

UnsafePopNPush == INSTANCE OramBuffer WITH
  Entry <- {e1, e2, e3}, SamplesPerRound <- 3, Mode <- "SAMPLE_FILE", UsesReserve <- FALSE,
  NonSecure <- TRUE, ByteValues <- 2, CounterValues <- 4

Oram3 == INSTANCE OramBuffer3 WITH
  Entry <- {e1, e2}, SamplesPerRound <- 3, Mode <- "SAMPLE_FILE", UsesReserve <- FALSE,
  NumMemoryPaths <- 2, NumBufferPaths <- 3, BitsPerByte <- 3,
  NonSecure <- FALSE, ByteValues <- 2, CounterValues <- 4

UnsafeOram3 == INSTANCE OramBuffer3 WITH
  Entry <- {e1, e2}, SamplesPerRound <- 3, Mode <- "SAMPLE_FILE", UsesReserve <- FALSE,
  NumMemoryPaths <- 2, NumBufferPaths <- 3, BitsPerByte <- 3,
  NonSecure <- TRUE, ByteValues <- 2, CounterValues <- 4

DP == INSTANCE OramBufferDP WITH
  Entry <- {e1, e2}, SamplesPerRound <- 3, Mode <- "SAMPLE_FILE", UsesReserve <- TRUE,
  NumMemoryPaths <- 2, NumBufferPaths <- 3, BitsPerByte <- 3, ChunkSize <- 2,
  ByteValues <- 2, CounterValues <- 4

DPLinearScan == INSTANCE OramBufferDPLinearScan WITH
  Entry <- {e1, e2}, SamplesPerRound <- 3, Mode <- "SAMPLE_FILE", UsesReserve <- TRUE,
  NumMemoryPaths <- 2, NumBufferPaths <- 2, BitsPerByte <- 3, ByteValues <- 2, CounterValues <- 4

ASSUME Scan!Parameters /\ UnsafeScan!Parameters /\ PopNPush!Parameters /\ UnsafePopNPush!Parameters
ASSUME Oram3!Parameters /\ UnsafeOram3!Parameters /\ DP!Parameters /\ DPLinearScan!Parameters

-----------------------------------------------------------------------------
(* Which buffer runs.  The variables it does not have are None. *)
Runs(name, isUnsafe) == bufferName = name /\ unsafe = isUnsafe

created == <<bufferName, unsafe>>
scanVars == <<slots, downloaded, inBuffer>>
recordVars == <<recorded, request>>
mapVars == <<posmap, scratch>>
planVars == <<requested, plan, moved, map>>

NoScan == slots = None /\ downloaded = None /\ inBuffer = None
NoMaps == posmap = None /\ scratch = None
NoPlan == requested = None /\ plan = None /\ moved = None /\ map = None
NoRecords == recorded = None /\ request = None

Init ==
  \/ Runs("LinearScanBuffer", FALSE) /\ Scan!Init /\ buffer = None /\ NoRecords /\ NoMaps /\ NoPlan
  \/ Runs("LinearScanBuffer", TRUE) /\ UnsafeScan!Init /\ buffer = None /\ NoRecords /\ NoMaps /\ NoPlan
  \/ Runs("ORAMBufferPopNPush", FALSE) /\ PopNPush!Init /\ NoScan /\ NoMaps /\ NoPlan
  \/ Runs("ORAMBufferPopNPush", TRUE) /\ UnsafePopNPush!Init /\ NoScan /\ NoMaps /\ NoPlan
  \/ Runs("ORAMBuffer3", FALSE) /\ Oram3!Init /\ NoScan /\ request = None /\ NoPlan
  \/ Runs("ORAMBuffer3", TRUE) /\ UnsafeOram3!Init /\ NoScan /\ request = None /\ NoPlan
  \/ Runs("ORAMBufferDP", FALSE) /\ DP!Init /\ NoScan /\ NoRecords /\ scratch = None /\ map = None
  \/ /\ Runs("ORAMBufferDPLinearScanPosmap", FALSE)
     /\ DPLinearScan!Init /\ NoScan /\ NoRecords /\ moved = None

ScanNext ==
  Runs("LinearScanBuffer", FALSE) /\ Scan!Next /\ UNCHANGED <<created, buffer, recordVars, mapVars, planVars>>
UnsafeScanNext ==
  Runs("LinearScanBuffer", TRUE) /\ UnsafeScan!Next /\ UNCHANGED <<created, buffer, recordVars, mapVars, planVars>>
PopNPushNext ==
  Runs("ORAMBufferPopNPush", FALSE) /\ PopNPush!Next /\ UNCHANGED <<created, scanVars, mapVars, planVars>>
UnsafePopNPushNext ==
  Runs("ORAMBufferPopNPush", TRUE) /\ UnsafePopNPush!Next /\ UNCHANGED <<created, scanVars, mapVars, planVars>>
Oram3Next ==
  Runs("ORAMBuffer3", FALSE) /\ Oram3!Next /\ UNCHANGED <<created, scanVars, request, planVars>>
UnsafeOram3Next ==
  Runs("ORAMBuffer3", TRUE) /\ UnsafeOram3!Next /\ UNCHANGED <<created, scanVars, request, planVars>>
DPNext ==
  Runs("ORAMBufferDP", FALSE) /\ DP!Next /\ UNCHANGED <<created, scanVars, recordVars, scratch, map>>
DPLinearScanNext ==
  /\ Runs("ORAMBufferDPLinearScanPosmap", FALSE)
  /\ DPLinearScan!Next
  /\ UNCHANGED <<created, scanVars, recordVars, moved>>

Next ==
  \/ ScanNext \/ UnsafeScanNext \/ PopNPushNext \/ UnsafePopNPushNext
  \/ Oram3Next \/ UnsafeOram3Next \/ DPNext \/ DPLinearScanNext

Spec == Init /\ [][Next]_vars

(* The program is one thread that only stops at an exception. *)
FairSpec == Spec /\ WF_vars(Next)

-----------------------------------------------------------------------------
TypeOK ==
  CASE Runs("LinearScanBuffer", FALSE) -> Scan!TypeOK
    [] Runs("LinearScanBuffer", TRUE) -> UnsafeScan!TypeOK
    [] Runs("ORAMBufferPopNPush", FALSE) -> PopNPush!TypeOK
    [] Runs("ORAMBufferPopNPush", TRUE) -> UnsafePopNPush!TypeOK
    [] Runs("ORAMBuffer3", FALSE) -> Oram3!TypeOK
    [] Runs("ORAMBuffer3", TRUE) -> UnsafeOram3!TypeOK
    [] Runs("ORAMBufferDP", FALSE) -> DP!TypeOK
    [] Runs("ORAMBufferDPLinearScanPosmap", FALSE) -> DPLinearScan!TypeOK

(* An entry is in the memory or in the buffer, never in both or neither,   *)
(* where the next access looks for it and with its own data: however often *)
(* it is downloaded, dropped or moved, and in whichever order.             *)
OneHome ==
  CASE Runs("LinearScanBuffer", FALSE) -> Scan!OneHome
    [] Runs("LinearScanBuffer", TRUE) -> UnsafeScan!OneHome
    [] Runs("ORAMBufferPopNPush", FALSE) -> PopNPush!OneHome
    [] Runs("ORAMBufferPopNPush", TRUE) -> UnsafePopNPush!OneHome
    [] Runs("ORAMBuffer3", FALSE) -> Oram3!MapTellsPlace
    [] Runs("ORAMBuffer3", TRUE) -> UnsafeOram3!MapTellsPlace
    [] Runs("ORAMBufferDP", FALSE) -> DP!MapTellsPlace
    [] Runs("ORAMBufferDPLinearScanPosmap", FALSE) -> DPLinearScan!MapsTellPlace

(* An entry in the buffer has as many gradients as aggregate() was called   *)
(* for it.  The two buffers that start a block with what the last one left  *)
(* behind do not promise that.                                              *)
GradientsCounted ==
  /\ Runs("LinearScanBuffer", FALSE) => Scan!Rounds!GradientsCounted
  /\ Runs("LinearScanBuffer", TRUE) => UnsafeScan!Rounds!GradientsCounted
  /\ Runs("ORAMBufferPopNPush", FALSE) => PopNPush!Rounds!GradientsCounted
  /\ Runs("ORAMBufferPopNPush", TRUE) => UnsafePopNPush!Rounds!GradientsCounted
  /\ Runs("ORAMBuffer3", FALSE) => Oram3!Rounds!GradientsCounted
  /\ Runs("ORAMBufferDP", FALSE) => DP!Rounds!GradientsCounted

(* Every buffer but those two does what recsys_sim needs of a round: see    *)
(* TrainingRounds.                                                          *)
ImplementsRounds ==
  /\ Runs("LinearScanBuffer", FALSE) => Scan!Rounds!Init
  /\ Runs("LinearScanBuffer", TRUE) => UnsafeScan!Rounds!Init
  /\ Runs("ORAMBufferPopNPush", FALSE) => PopNPush!Rounds!Init
  /\ Runs("ORAMBufferPopNPush", TRUE) => UnsafePopNPush!Rounds!Init
  /\ Runs("ORAMBuffer3", FALSE) => Oram3!Rounds!Init
  /\ Runs("ORAMBufferDP", FALSE) => DP!Rounds!Init
  /\ [][ /\ Runs("LinearScanBuffer", FALSE) => [Scan!Rounds!Next]_(Scan!Rounds!vars)
         /\ Runs("LinearScanBuffer", TRUE) => [UnsafeScan!Rounds!Next]_(UnsafeScan!Rounds!vars)
         /\ Runs("ORAMBufferPopNPush", FALSE) => [PopNPush!Rounds!Next]_(PopNPush!Rounds!vars)
         /\ Runs("ORAMBufferPopNPush", TRUE) =>
              [UnsafePopNPush!Rounds!Next]_(UnsafePopNPush!Rounds!vars)
         /\ Runs("ORAMBuffer3", FALSE) => [Oram3!Rounds!Next]_(Oram3!Rounds!vars)
         /\ Runs("ORAMBufferDP", FALSE) => [DP!Rounds!Next]_(DP!Rounds!vars) ]_vars

(* Every entry that was taken out of the memory comes back to it. *)
EntriesComeHome ==
  \A e \in {e1, e2, e3} :
    (e \in DOMAIN main /\ main[e] = Absent) ~> (e \in DOMAIN main /\ main[e] # Absent)
=============================================================================
