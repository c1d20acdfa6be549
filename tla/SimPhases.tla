------------------------------ MODULE SimPhases ------------------------------
(***************************************************************************)
(* How far recsys_sim_entry_point is: in a phase of a round, or ended by   *)
(* an exception.                                                           *)
(***************************************************************************)
VARIABLE phase  \* the phase of the round, or the exception that ended the program

Phases == {"sample", "reserve", "load", "download", "aggregate", "flush"}

Exceptions == {"PermutationEnd", "NotInBuffer", "BufferFull", "ValidationFailed", "NotFound"}

Failed == phase \in Exceptions

(* No round ends with an exception of a buffer: in the non-secure mode and *)
(* in OramBufferDPLinearScan a block starts with the gradient and counter  *)
(* another left behind, and byte and counter still agree when it is        *)
(* flushed.  Only the permutation of recsys_sim itself may end.            *)
NeverThrows == phase \notin {"NotInBuffer", "BufferFull", "ValidationFailed", "NotFound"}
=============================================================================
