----------------------------- MODULE BlockStore -----------------------------
(***************************************************************************)
(* What every ORAM of the simulator promises to its client: a store of     *)
(* blocks addressed by number.  A block is present with a value or absent; *)
(* READ, WRITE and READ_WRITE keep it present, POP takes it out and PUSH   *)
(* puts it back.  The dummy requests change nothing.  An operation that    *)
(* throws ends the program and may spoil only the block it was about.      *)
(*                                                                         *)
(* Specification of MemoryRequestType and of Memory::access                *)
(* (memory_defs.hpp, memory_interface.hpp), whatever the ORAM behind it.   *)
(***************************************************************************)
CONSTANTS
  Block,    \* the logical block addresses
  Value,    \* what a block can hold
  Absent,   \* the content of an address that holds no block, not a Value
  NoReply   \* the reply of a request that returns no data, not a Value

VARIABLES
  store,    \* store[b]: the value of block b, or Absent
  reply,    \* the data the last request returned
  running   \* FALSE once an operation has thrown

storeVars == <<store, reply, running>>

StoreTypeOK ==
  /\ store \in [Block -> Value \cup {Absent}]
  /\ reply \in Value \cup {NoReply}
  /\ running \in BOOLEAN

(* An ORAM starts empty (init) or with every block present (fast_init). *)
StoreInit ==
  /\ \/ store = [b \in Block |-> Absent]
     \/ store \in [Block -> Value]
  /\ reply = NoReply
  /\ running = TRUE

Present(b) == store[b] # Absent

Returns(r) == running /\ reply' = r /\ UNCHANGED running

Read(b) == Returns(store[b]) /\ Present(b) /\ UNCHANGED store

Write(b, v) == Returns(NoReply) /\ store' = [store EXCEPT ![b] = v]

ReadWrite(b, v) ==
  Returns(store[b]) /\ Present(b) /\ store' = [store EXCEPT ![b] = v]

Pop(b) == Returns(store[b]) /\ Present(b) /\ store' = [store EXCEPT ![b] = Absent]

Push(b, v) == Returns(NoReply) /\ ~Present(b) /\ store' = [store EXCEPT ![b] = v]

Dummy == Returns(NoReply) /\ UNCHANGED store

Fail(b) ==
  /\ running /\ running' = FALSE
  /\ reply' = NoReply
  /\ \E x \in Value \cup {Absent} : store' = [store EXCEPT ![b] = x]

StoreNext ==
  \/ Dummy
  \/ \E b \in Block :
       \/ Read(b) \/ Pop(b) \/ Fail(b)
       \/ \E v \in Value : Write(b, v) \/ ReadWrite(b, v) \/ Push(b, v)

StoreSpec == StoreInit /\ [][StoreNext]_storeVars
=============================================================================
