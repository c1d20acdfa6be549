------------------------ MODULE RecsysBufferProofs ------------------------
(***************************************************************************)
(* The buffers of recsys_sim do what it needs of a buffer, for any number  *)
(* of entries and samples and however the samples repeat: LinearScanBuffer,*)
(* OramBuffer, OramBuffer3, OramBufferDP and OramBufferDPLinearScan.  Each  *)
(* has an inductive invariant.                                             *)
(*                                                                         *)
(*   IInv        a slot that is not free is within the prefix the next     *)
(*               handler scans, no two slots hold the same entry, and byte *)
(*               and counter have counted the same calls                   *)
(*   PushIInv    what is in the buffer ORAM has a record that the flush    *)
(*               has still to come to                                      *)
(*   ThreeIInv   the position map tells the place, and what is in the      *)
(*               buffer ORAM has a first record still to come, every other *)
(*               record of it being marked a duplicate                     *)
(*   DPIInv      the position map tells the place, and what is in the      *)
(*               buffer ORAM has a place in the plan that the flush has    *)
(*               still to come to                                          *)
(*   LinearIInv  no two turns of the load have the same entry, and what is *)
(*               in the buffer ORAM is on the path, and will go back to    *)
(*               the path, that the map has for it in a turn still to come *)
(*                                                                         *)
(* The loop of recsys_sim is shared: the instances below take its          *)
(* variables, and main, from the module extended here.                     *)
(***************************************************************************)
EXTENDS ScanBuffer, Integers, TLAPS, FiniteSetTheorems, WellFoundedInduction,
        SequenceTheorems

CONSTANTS NumMemoryPaths, NumBufferPaths, BitsPerByte, ChunkSize, Dummy

VARIABLES buffer, recorded, request, posmap, scratch, requested, plan, moved, map

Push == INSTANCE OramBuffer

Three == INSTANCE OramBuffer3

DP == INSTANCE OramBufferDP

Linear == INSTANCE OramBufferDPLinearScan

-----------------------------------------------------------------------------
(* LinearScanBuffer. *)

(* An entry is at home in the memory, or in one slot with its own data. *)
Homes ==
  \A e \in Entry :
    /\ main[e] \in {e, Absent}
    /\ main[e] = Absent <=> \E i \in Slot : slots[i].id = e
    /\ \A i \in Slot : slots[i].id = e => slots[i].data = e
    /\ \A i, j \in Slot : slots[i].id = e /\ slots[j].id = e => i = j

(* The first n calls of the phase that are about entry e. *)
Calls(n, e) == { j \in 1 .. n : samples[j] = e }

(* How far the round is, and what has left the memory by then. *)
Progress ==
  /\ phase \in {"sample", "download", "aggregate", "flush", "PermutationEnd"}
  /\ phase = "sample" => downloaded = 0
  /\ phase = "download" =>
       downloaded = step - 1 /\ \A i \in 1 .. step - 1 : main[samples[i]] = Absent
  /\ phase = "aggregate" => \A i \in Call : main[samples[i]] = Absent

RowsGood ==
  \A i \in Slot : slots[i].id # Free =>
    /\ Valid(slots[i])
    /\ i \in Scanned(downloaded, inBuffer)
    /\ phase \in {"sample", "download", "PermutationEnd"} => slots[i].counter = 0
    /\ phase = "aggregate" =>
         slots[i].counter = Cardinality(Calls(step - 1, slots[i].id)) % CounterValues

IInv == TypeOK /\ Homes /\ inBuffer <= downloaded /\ Progress /\ RowsGood

-----------------------------------------------------------------------------
(* Counting modulo a number.                                                *)
LEMMA RemainderUnique ==
  ASSUME NEW m \in Nat \ {0}, NEW q \in Int, NEW r \in 0 .. m - 1
  PROVE  (m * q + r) % m = r /\ (m * q + r) \div m = q
<1> DEFINE x == m * q + r
           y == x \div m
           z == x % m
<1>1. x \in Int /\ y \in Int /\ z \in 0 .. m - 1 /\ x = m * y + z
  OBVIOUS
<1>2. m * (y - q) = r - z
  <2>1. m * (y - q) = m * y - m * q
    BY <1>1, Z3
  <2>2. m * q + r = m * y + z
    BY <1>1
  <2>3. m * q \in Int /\ m * y \in Int /\ m * (y - q) \in Int
    BY <1>1, Z3
  <2> HIDE DEF x, y, z
  <2> QED BY <1>1, <2>1, <2>2, <2>3
<1>3. y = q
  <2>1. r - z < m /\ r - z > -m
    BY <1>1
  <2>2. CASE y - q >= 1
    <3>1. m * (y - q) >= m
      BY <1>1, <2>2, Z3
    <3> QED BY <1>1, <1>2, <2>1, <3>1
  <2>3. CASE y - q <= -1
    <3>1. m * (y - q) <= -m
      BY <1>1, <2>3, Z3
    <3> QED BY <1>1, <1>2, <2>1, <3>1
  <2> QED BY <1>1, <2>2, <2>3
<1> QED
  BY <1>1, <1>2, <1>3

LEMMA NextRemainder ==
  ASSUME NEW k \in Nat, NEW m \in Nat \ {0}
  PROVE  ((k % m) + 1) % m = (k + 1) % m
<1> DEFINE q == k \div m
           r == k % m
           p == m * q
<1>1. k = p + r /\ r \in 0 .. m - 1 /\ q \in Nat
  OBVIOUS
<1>2. p \in Int
  BY <1>1, Z3
<1>3. CASE r + 1 < m
  <2>1. r + 1 \in 0 .. m - 1
    BY <1>1, <1>3
  <2>2. (p + (r + 1)) % m = r + 1
    <3>1. q \in Int
      BY <1>1
    <3> HIDE DEF q, r
    <3> QED BY <2>1, <3>1, RemainderUnique
  <2>3. (m * 0 + (r + 1)) % m = r + 1
    <3>1. 0 \in Int /\ m \in Nat \ {0}
      OBVIOUS
    <3> HIDE DEF r
    <3> QED BY <2>1, <3>1, RemainderUnique
  <2>4. k + 1 = p + (r + 1) /\ m * 0 + (r + 1) = r + 1
    <3> HIDE DEF p, r
    <3> QED BY <1>1, <1>2
  <2> HIDE DEF p, r
  <2>5. (r + 1) % m = (k + 1) % m
    BY <2>2, <2>3, <2>4
  <2> QED BY <2>5 DEF r
<1>4. CASE ~(r + 1 < m)
  <2>1. r + 1 = m
    BY <1>1, <1>4
  <2>2. (m * (q + 1) + 0) % m = 0
    BY <1>1, RemainderUnique
  <2>3. (m * 1 + 0) % m = 0
    BY RemainderUnique
  <2>4. m * (q + 1) = p + m
    BY <1>1, Z3
  <2>5. k + 1 = m * (q + 1) + 0 /\ m * 1 + 0 = r + 1
    <3> HIDE DEF p, r
    <3> QED BY <1>1, <1>2, <2>1, <2>4
  <2> HIDE DEF p, r, q
  <2>6. (r + 1) % m = (k + 1) % m
    BY <2>2, <2>3, <2>5
  <2> QED BY <2>6 DEF r
<1> QED
  BY <1>3, <1>4

(* A byte and a counter that agree do so after one more gradient, when the  *)
(* byte wraps and when the counter does.                                    *)
LEMMA StillValid ==
  ASSUME NEW b \in Nat \ {0}, NEW n \in Nat \ {0}, n % b = 0, NEW c \in 0 .. n - 1
  PROVE  ((c % b) + 1) % b = ((c + 1) % n) % b
<1>1. ((c % b) + 1) % b = (c + 1) % b
  <2>1. c \in Nat
    OBVIOUS
  <2> QED BY <2>1, NextRemainder
<1>2. CASE c + 1 < n
  <2>1. (n * 0 + (c + 1)) % n = c + 1
    BY <1>2, RemainderUnique
  <2>2. n * 0 + (c + 1) = c + 1
    OBVIOUS
  <2> QED BY <1>1, <2>1, <2>2
<1>3. CASE ~(c + 1 < n)
  <2>1. c + 1 = n
    BY <1>3
  <2>2. (n * 1 + 0) % n = 0 /\ (b * 0 + 0) % b = 0
    BY RemainderUnique
  <2>3. n * 1 + 0 = c + 1 /\ b * 0 + 0 = 0
    BY <2>1
  <2>4. (c + 1) % n = 0 /\ 0 % b = 0
    BY <2>2, <2>3
  <2> QED BY <1>1, <2>1, <2>4
<1> QED
  BY <1>2, <1>3

LEMMA LeastOfNat ==
  ASSUME NEW S, S \subseteq Nat, S # {}
  PROVE  \E i \in S : \A j \in S : i <= j
<1>1. IsWellFoundedOn(OpToRel(<, Nat), Nat)
  BY NatLessThanWellFounded
<1>2. PICK x \in S : \A y \in S : <<y, x>> \notin OpToRel(<, Nat)
  BY <1>1, WFMin
<1>3. \A y \in S : ~(y < x)
  BY <1>2 DEF OpToRel
<1> QED
  BY <1>3

(* The first free slot of a scan exists if one is free. *)
LEMMA FirstOfSlots ==
  ASSUME NEW S, S \subseteq Nat, S # {}
  PROVE  (CHOOSE i \in S : \A j \in S : i <= j) \in S
BY LeastOfNat

-----------------------------------------------------------------------------
LEMMA Sizes ==
  ASSUME Parameters
  PROVE  /\ SamplesPerRound \in Nat /\ 1 <= SamplesPerRound /\ SamplesPerRound <= MaxSize
         /\ MaxSize \in Nat /\ ByteValues \in Nat \ {0} /\ CounterValues \in Nat \ {0}
         /\ CounterValues % ByteValues = 0 /\ ~UsesReserve
         /\ Absent \notin Entry /\ Free \notin Entry
         /\ 0 \in 0 .. ByteValues - 1 /\ 0 \in 0 .. CounterValues - 1
         /\ 0 % ByteValues = 0 /\ 0 % CounterValues = 0
<1>1. /\ SamplesPerRound \in Nat \ {0} /\ SamplesPerRound <= MaxSize
      /\ MaxSize \in Nat \ {0} /\ ByteValues \in Nat \ {0} /\ CounterValues \in Nat \ {0}
  BY DEF Parameters, LoopParameters
<1>2. (CounterValues * 0 + 0) % CounterValues = 0 /\ (ByteValues * 0 + 0) % ByteValues = 0
  BY <1>1, RemainderUnique
<1>3. CounterValues * 0 + 0 = 0 /\ ByteValues * 0 + 0 = 0
  BY <1>1
<1> QED
  BY <1>1, <1>2, <1>3 DEF Parameters

(* A slot that is scanned is a slot, and a scan never gets shorter. *)
LEMMA Scans ==
  ASSUME Parameters, NEW n \in Nat, NEW k \in Nat
  PROVE  /\ \A i \in Scanned(n, k) : i \in Slot
         /\ \A m \in Nat, l \in Nat : n <= m /\ k <= l => Scanned(n, k) \subseteq Scanned(m, l)
         /\ n = 0 /\ k <= n => Scanned(n, k) = {}
BY DEF Scanned, Slot

(* The calls of a phase, one more at a time. *)
LEMMA CallsFacts ==
  ASSUME NEW e
  PROVE  /\ Cardinality(Calls(0, e)) = 0
         /\ \A n \in Nat : Cardinality(Calls(n, e)) \in Nat
         /\ \A n \in Nat : Cardinality(Calls(n + 1, e)) =
              Cardinality(Calls(n, e)) + (IF samples[n + 1] = e THEN 1 ELSE 0)
<1>1. Calls(0, e) = {}
  BY DEF Calls
<1>2. ASSUME NEW n \in Nat PROVE IsFiniteSet(Calls(n, e)) /\ Cardinality(Calls(n, e)) \in Nat
  <2>1. Calls(n, e) \subseteq 1 .. n /\ 1 \in Int /\ n \in Int
    BY DEF Calls
  <2>2. IsFiniteSet(1 .. n)
    BY <2>1, FS_Interval
  <2> QED BY <2>1, <2>2, FS_Subset, FS_CardinalityType
<1>3. ASSUME NEW n \in Nat
      PROVE  Cardinality(Calls(n + 1, e)) =
               Cardinality(Calls(n, e)) + (IF samples[n + 1] = e THEN 1 ELSE 0)
  <2>1. 1 .. n + 1 = (1 .. n) \cup {n + 1} /\ n + 1 \notin 1 .. n
    OBVIOUS
  <2>2. CASE samples[n + 1] = e
    <3>1. Calls(n + 1, e) = Calls(n, e) \cup {n + 1} /\ n + 1 \notin Calls(n, e)
      BY <2>1, <2>2 DEF Calls
    <3>2. Cardinality(Calls(n + 1, e)) = Cardinality(Calls(n, e)) + 1
      BY <1>2, <3>1, FS_AddElement
    <3> QED BY <2>2, <3>2
  <2>3. CASE samples[n + 1] # e
    <3>1. Calls(n + 1, e) = Calls(n, e)
      BY <2>1, <2>3 DEF Calls
    <3> QED BY <1>2, <2>3, <3>1
  <2> QED BY <2>2, <2>3
<1> QED
  BY <1>1, <1>2, <1>3, FS_EmptySet

(* Shuffling the samples loses none. *)
LEMMA ShuffleKeeps ==
  ASSUME LoopParameters, NEW s \in [Call -> Entry], NEW t \in Shuffles(s)
  PROVE  t \in [Call -> Entry] /\ \A i \in Call : \E j \in Call : t[i] = s[j]
<1>1. t \in [Call -> Entry] /\ \A e \in Entry : Occurrences(t, e) = Occurrences(s, e)
  BY DEF Shuffles
<1>2. ASSUME NEW i \in Call, \A j \in Call : t[i] # s[j] PROVE FALSE
  <2> DEFINE e == t[i]
             T == { j \in Call : t[j] = e }
  <2>1. e \in Entry /\ i \in T /\ T \subseteq Call
    BY <1>1
  <2>2. { j \in Call : s[j] = e } = {}
    BY <1>2
  <2>3. Cardinality(T) = 0
    BY <1>1, <2>1, <2>2, FS_EmptySet DEF Occurrences
  <2>4. IsFiniteSet(T)
    <3>1. SamplesPerRound \in Int /\ 1 \in Int
      BY DEF LoopParameters
    <3> QED BY <2>1, <3>1, FS_Interval, FS_Subset DEF Call
  <2>5. T = {}
    BY <2>3, <2>4, FS_EmptySet
  <2> QED BY <2>1, <2>5
<1> QED
  BY <1>1, <1>2

-----------------------------------------------------------------------------
(* What the handlers do to the slots of a buffer in order.                  *)
Has(i, e) == slots[i].id = e

LEMMA HitsAll ==
  ASSUME Parameters, IInv, NEW e \in Entry
  PROVE  /\ \A i \in Slot : i \in Hits(e) <=> Has(i, e)
         /\ Hits(e) \subseteq Slot
         /\ \A i \in Slot : Has(i, e) => slots[i].data = e
         /\ \A i, j \in Slot : Has(i, e) /\ Has(j, e) => i = j
         /\ main[e] = Absent <=> \E i \in Slot : Has(i, e)
         /\ main[e] = e <=> ~ \E i \in Slot : Has(i, e)
<1>1. e # Free /\ e # Absent
  BY Sizes
<1>2. Hits(e) \subseteq Slot
  BY DEF Hits, Scanned
<1>3. \A i \in Slot : i \in Hits(e) <=> Has(i, e)
  BY <1>1, <1>2 DEF Hits, IInv, RowsGood, Has
<1> QED
  BY <1>1, <1>2, <1>3 DEF IInv, Homes, Has

(* A download fills one slot: with the row the entry had, or with a row that *)
(* has counted nothing.                                                     *)
LEMMA DownloadDoes ==
  ASSUME Parameters, IInv, Download, NEW e, e = Current
  PROVE  /\ e \in Entry /\ DownloadReturns /\ downloaded = step - 1 /\ step \in Call
         /\ downloaded' = downloaded + 1 /\ downloaded' \in 0 .. MaxSize
         /\ inBuffer' \in 0 .. MaxSize /\ inBuffer <= inBuffer' /\ inBuffer' <= downloaded'
         /\ main' \in [Entry -> Entry \cup {Absent}] /\ main'[e] = Absent
         /\ \A x \in Entry : x # e => main'[x] = main[x]
         /\ slots' \in [Slot -> Row]
         /\ \E f \in Slot :
              /\ f \in Scanned(downloaded', inBuffer') /\ slots[f].id \in {Free, e}
              /\ slots'[f].id = e /\ slots'[f].data = e
              /\ \A i \in Slot : Has(i, e) => slots'[f] = slots[i]
              /\ (\A i \in Slot : ~Has(i, e)) => slots'[f].gradient = 0 /\ slots'[f].counter = 0
              /\ \A i \in Slot : i # f =>
                   slots'[i] = IF Has(i, e) THEN [slots[i] EXCEPT !.id = Free] ELSE slots[i]
<1> DEFINE found == Hits(e) # {}
           row == IF found THEN slots[CHOOSE i \in Hits(e) : TRUE]
                  ELSE [id |-> e, data |-> main[e], gradient |-> 0, counter |-> 0]
           left == Removed(e)
           free == { i \in Scanned(downloaded', inBuffer') : left[i].id = Free }
           f == CHOOSE i \in free : \A j \in free : i <= j
<1>1. /\ main' = IF found THEN main ELSE [main EXCEPT ![e] = Absent]
      /\ downloaded' = downloaded + 1
      /\ inBuffer' = IF found THEN inBuffer ELSE inBuffer + 1
      /\ \/ free = {}
         \/ free # {} /\ DownloadReturns /\ slots' = Placed(left, row, f)
      /\ phase = "download"
  BY DEF Download
<1>2. /\ step \in Call /\ e \in Entry /\ downloaded = step - 1 /\ inBuffer <= downloaded
      /\ main \in [Entry -> Entry \cup {Absent}] /\ slots \in [Slot -> Row]
      /\ downloaded \in Nat /\ inBuffer \in Nat
  BY <1>1, Sizes DEF IInv, TypeOK, Progress, Current
<1>3. /\ downloaded' \in 0 .. MaxSize /\ inBuffer' \in 0 .. MaxSize /\ downloaded' \in Nat
      /\ inBuffer' \in Nat /\ inBuffer <= inBuffer' /\ inBuffer' <= downloaded'
      /\ downloaded <= downloaded'
  BY <1>1, <1>2, Sizes DEF Call
<1>4. Scanned(downloaded, inBuffer) \subseteq Scanned(downloaded', inBuffer')
  BY <1>2, <1>3, Scans
<1>5. /\ row \in Row /\ row.id = e /\ row.data = e
      /\ \A i \in Slot : Has(i, e) => row = slots[i]
      /\ (\A i \in Slot : ~Has(i, e)) => row.gradient = 0 /\ row.counter = 0
  <2>1. CASE found
    <3>1. PICK h \in Slot : h = (CHOOSE i \in Hits(e) : TRUE) /\ Has(h, e)
      BY <1>2, <2>1, HitsAll
    <3>2. row = slots[h] /\ slots[h] \in Row
      BY <1>2, <2>1, <3>1
    <3> QED BY <1>2, <3>1, <3>2, HitsAll DEF Has
  <2>2. CASE ~found
    <3>1. (\A i \in Slot : ~Has(i, e)) /\ main[e] = e
      BY <1>2, <2>2, HitsAll
    <3>2. row = [id |-> e, data |-> e, gradient |-> 0, counter |-> 0]
      BY <2>2, <3>1
    <3> QED BY <1>2, <3>1, <3>2, Sizes DEF Row
  <2> QED BY <2>1, <2>2
<1>6. /\ left \in [Slot -> Row]
      /\ \A i \in Slot : left[i] = IF Has(i, e) THEN [slots[i] EXCEPT !.id = Free] ELSE slots[i]
      /\ \A i \in Slot : left[i].id = Free => slots[i].id \in {Free, e}
      /\ \A i \in Slot : Has(i, e) => left[i].id = Free
  <2>1. \A i \in Slot : left[i] = IF Has(i, e) THEN [slots[i] EXCEPT !.id = Free] ELSE slots[i]
    BY <1>2, HitsAll DEF Removed
  <2>2. \A i \in Slot : slots[i] \in Row /\ [slots[i] EXCEPT !.id = Free] \in Row
                        /\ [slots[i] EXCEPT !.id = Free].id = Free
    BY <1>2 DEF Row
  <2>3. left \in [Slot -> Row]
    <3>1. \A i \in Slot : left[i] \in Row
      BY <2>1, <2>2
    <3> QED BY <3>1 DEF Removed
  <2> QED BY <2>1, <2>2, <2>3 DEF Has
<1> HIDE DEF row, left
<1>7. free # {}
  <2>1. CASE found
    <3>1. PICK h \in Hits(e) : h \in Slot /\ Has(h, e)
      BY <1>2, <2>1, HitsAll
    <3>2. h \in Scanned(downloaded', inBuffer')
      BY <1>4, <3>1 DEF Hits
    <3> QED BY <1>6, <3>1, <3>2
  <2>2. CASE ~found
    <3> DEFINE n == IF NonSecure THEN inBuffer + 1 ELSE downloaded + 1
    <3>1. inBuffer' = inBuffer + 1
      BY <1>1, <2>2
    <3>2. n \in Slot /\ n \in Scanned(downloaded', inBuffer') /\ n \notin Scanned(downloaded, inBuffer)
      BY <1>1, <1>2, <1>3, <3>1, Sizes DEF Scanned, Slot
    <3>3. slots[n].id = Free
      BY <3>2 DEF IInv, RowsGood
    <3>4. e # Free
      BY <1>2, Sizes
    <3> QED BY <1>6, <3>2, <3>3, <3>4 DEF Has
  <2> QED BY <2>1, <2>2
<1>8. f \in Scanned(downloaded', inBuffer') /\ left[f].id = Free /\ f \in Slot
  <2>1. free \subseteq Scanned(downloaded', inBuffer') /\ free \subseteq Nat
    BY <1>3, Scans DEF Slot
  <2>2. f \in free
    <3> HIDE DEF free
    <3> QED BY <1>7, <2>1, FirstOfSlots
  <2> QED BY <1>3, <2>1, <2>2, Scans
<1>9. DownloadReturns /\ slots' = [left EXCEPT ![f] = row]
  BY <1>1, <1>7 DEF Placed
<1> HIDE DEF free, f
<1>10. /\ slots' \in [Slot -> Row] /\ slots'[f] = row
       /\ \A i \in Slot : i # f => slots'[i] = left[i]
  BY <1>5, <1>6, <1>8, <1>9
<1>11. /\ main' \in [Entry -> Entry \cup {Absent}] /\ main'[e] = Absent
       /\ \A x \in Entry : x # e => main'[x] = main[x]
  <2>1. CASE found
    BY <1>1, <1>2, <2>1, HitsAll
  <2>2. CASE ~found
    BY <1>1, <1>2, <2>2
  <2> QED BY <2>1, <2>2
<1> QED
  BY <1>1, <1>2, <1>3, <1>5, <1>6, <1>8, <1>9, <1>10, <1>11

(* A call of aggregate() finds its entry and changes that slot alone.       *)
LEMMA AggregateDoes ==
  ASSUME Parameters, IInv, Aggregate, NEW e, e = Current
  PROVE  /\ e \in Entry /\ AggregateReturns /\ step \in Call
         /\ UNCHANGED <<main, downloaded, inBuffer>>
         /\ slots' \in [Slot -> Row]
         /\ \E f \in Slot :
              /\ Has(f, e) /\ slots'[f].id = e /\ slots'[f].data = slots[f].data
              /\ slots'[f].gradient = (slots[f].gradient + 1) % ByteValues
              /\ slots'[f].counter = (slots[f].counter + 1) % CounterValues
              /\ \A i \in Slot : i # f => slots'[i] = slots[i]
<1> DEFINE More(row) == [row EXCEPT !.gradient = (@ + 1) % ByteValues, !.counter = (@ + 1) % CounterValues]
<1>1. /\ phase = "aggregate"
      /\ slots' = [i \in Slot |-> IF i \in Hits(e) THEN More(slots[i]) ELSE slots[i]]
      /\ IF Hits(e) = {} THEN Throws("NotInBuffer") ELSE AggregateReturns
      /\ UNCHANGED <<main, downloaded, inBuffer>>
  BY DEF Aggregate
<1>2. step \in Call /\ e \in Entry /\ main[e] = Absent /\ slots \in [Slot -> Row]
  BY <1>1 DEF IInv, TypeOK, Progress, Current
<1>3. PICK f \in Slot : Has(f, e) /\ \A i \in Slot : i \in Hits(e) <=> i = f
  BY <1>2, HitsAll
<1>4. slots'[f] = More(slots[f]) /\ \A i \in Slot : i # f => slots'[i] = slots[i]
  BY <1>1, <1>3
<1>5. /\ More(slots[f]) \in Row
      /\ More(slots[f]).id = slots[f].id /\ More(slots[f]).data = slots[f].data
      /\ More(slots[f]).gradient = (slots[f].gradient + 1) % ByteValues
      /\ More(slots[f]).counter = (slots[f].counter + 1) % CounterValues
  <2> DEFINE row == slots[f]
             g == (row.gradient + 1) % ByteValues
             c == (row.counter + 1) % CounterValues
  <2>1. row \in Row /\ More(row) = [row EXCEPT !.gradient = g, !.counter = c]
    BY <1>2, <1>3
  <2>2. row.gradient \in Nat /\ row.counter \in Nat
    BY <2>1, Sizes DEF Row
  <2>3. g \in 0 .. ByteValues - 1 /\ c \in 0 .. CounterValues - 1
    BY <2>2, Sizes
  <2> HIDE DEF More, row, g, c
  <2>4. /\ More(row) \in Row /\ More(row).id = row.id /\ More(row).data = row.data
        /\ More(row).gradient = g /\ More(row).counter = c
    BY <2>1, <2>3 DEF Row
  <2> QED BY <2>4 DEF row, g, c
<1>6. slots' \in [Slot -> Row]
  <2>1. \A i \in Slot : slots'[i] \in Row
    BY <1>2, <1>4, <1>5
  <2> QED BY <1>1, <2>1
<1> HIDE DEF More
<1> QED
  BY <1>1, <1>2, <1>3, <1>4, <1>5, <1>6 DEF Has

(* A flush passes every check, and each entry comes back to its address.    *)
LEMMA FlushDoes ==
  ASSUME Parameters, IInv, Flush
  PROVE  /\ FlushReturns
         /\ main' = [x \in Entry |-> x] /\ downloaded' = 0 /\ inBuffer' = 0
         /\ slots' \in [Slot -> Row] /\ \A i \in Slot : slots'[i].id = Free
<1> DEFINE bad == { i \in InUse : ~Valid(slots[i]) }
           done == { i \in Slot : \A j \in bad : i < j }
           home(x) == { i \in InUse \cap done : slots[i].id = x }
<1>1. bad = {} /\ done = Slot
  BY DEF IInv, RowsGood, InUse
<1>2. Slot # {}
  BY Sizes DEF Slot
<1>3. /\ main' = [x \in Entry |-> IF home(x) = {} THEN main[x]
                                  ELSE slots[CHOOSE i \in home(x) : TRUE].data]
      /\ slots' = [i \in Slot |-> [slots[i] EXCEPT !.id = Free]]
      /\ downloaded' = 0 /\ inBuffer' = 0 /\ FlushReturns
  <2> HIDE DEF bad, done
  <2>1. /\ main' = [x \in Entry |-> IF home(x) = {} THEN main[x]
                                    ELSE slots[CHOOSE i \in home(x) : TRUE].data]
        /\ slots' = [i \in Slot |-> IF i \in done THEN [slots[i] EXCEPT !.id = Free] ELSE slots[i]]
        /\ IF done = {} THEN UNCHANGED <<downloaded, inBuffer>> ELSE CountsReset
        /\ IF bad = {} THEN FlushReturns ELSE Throws("ValidationFailed")
    BY DEF Flush, bad, done
  <2>2. slots' = [i \in Slot |-> [slots[i] EXCEPT !.id = Free]]
    BY <1>1, <2>1
  <2> QED BY <1>1, <1>2, <2>1, <2>2 DEF CountsReset
<1>4. ASSUME NEW x \in Entry
      PROVE  (IF home(x) = {} THEN main[x] ELSE slots[CHOOSE i \in home(x) : TRUE].data) = x
  <2>1. \A i \in Slot : i \in home(x) <=> Has(i, x)
    <3>1. x # Free
      BY Sizes
    <3> QED BY <1>1, <3>1 DEF InUse, Has
  <2>2. home(x) \subseteq Slot
    BY DEF InUse
  <2> HIDE DEF home
  <2>3. CASE home(x) = {}
    BY <2>1, <2>3, HitsAll
  <2>4. CASE home(x) # {}
    BY <2>1, <2>2, <2>4, HitsAll
  <2> QED BY <2>3, <2>4
<1>5. slots \in [Slot -> Row] /\ \A i \in Slot : slots[i] \in Row
  BY DEF IInv, TypeOK
<1>6. \A i \in Slot : [slots[i] EXCEPT !.id = Free] \in Row /\ [slots[i] EXCEPT !.id = Free].id = Free
  BY <1>5 DEF Row
<1>7. main' = [x \in Entry |-> x]
  <2> HIDE DEF home
  <2> QED BY <1>3, <1>4
<1>8. slots' \in [Slot -> Row] /\ \A i \in Slot : slots'[i].id = Free
  BY <1>3, <1>6
<1> QED
  BY <1>3, <1>7, <1>8

-----------------------------------------------------------------------------
(* The inductive invariant.                                                 *)
LEMMA InitGood ==
  ASSUME Parameters, Init
  PROVE  IInv
<1>1. PICK d \in Entry : slots = [i \in Slot |-> [id |-> Free, data |-> d, gradient |-> 0, counter |-> 0]]
  BY DEF Init
<1>2. PICK e \in Entry : samples = [i \in Call |-> e]
  BY DEF Init, LoopInit
<1>3. /\ phase = "sample" /\ step = 1 /\ main = [e1 \in Entry |-> e1]
      /\ downloaded = 0 /\ inBuffer = 0
  BY DEF Init, LoopInit
<1>4. \A i \in Slot : slots[i].id = Free
  BY <1>1
<1>5. TypeOK
  <2>1. slots \in [Slot -> Row]
    BY <1>1, Sizes DEF Row
  <2> QED BY <1>2, <1>3, <2>1, Sizes DEF TypeOK, Phases, Call
<1>6. Homes
  BY <1>3, <1>4, Sizes DEF Homes
<1>7. RowsGood
  BY <1>4 DEF RowsGood
<1>8. inBuffer <= downloaded /\ Progress
  BY <1>3 DEF Progress
<1> QED
  BY <1>5, <1>6, <1>7, <1>8 DEF IInv

LEMMA SampleKeeps ==
  ASSUME Parameters, IInv, Sample
  PROVE  IInv'
<1>1. PICK e \in Entry : Draw(e)
  BY DEF Sample
<1>2. phase = "sample" /\ UNCHANGED <<main, slots, downloaded, inBuffer>>
  BY DEF Sample, bufferVars
<1>3. /\ downloaded = 0 /\ inBuffer <= downloaded /\ downloaded \in Nat /\ inBuffer \in Nat
      /\ step \in Call /\ samples \in [Call -> Entry]
  BY <1>2, Sizes DEF IInv, Progress, TypeOK
<1>4. \A i \in Slot : slots[i].id = Free
  <2>1. Scanned(downloaded, inBuffer) = {}
    BY <1>3, Scans
  <2> QED BY <2>1 DEF IInv, RowsGood
<1>5. phase' \in {"sample", "download", "PermutationEnd"} /\ step' \in Call
      /\ (phase' = "download" => step' = 1) /\ samples' \in [Call -> Entry]
  BY <1>1, <1>2, <1>3, Sizes DEF Draw, Followed, Call
<1>6. TypeOK'
  BY <1>2, <1>5 DEF IInv, TypeOK, Phases, Exceptions, Slot, Row, Call
<1>7. Homes'
  BY <1>2 DEF IInv, Homes
<1>8. RowsGood'
  BY <1>2, <1>4 DEF RowsGood
<1>9. (inBuffer <= downloaded /\ Progress)'
  BY <1>2, <1>3, <1>5 DEF Progress
<1> QED
  BY <1>6, <1>7, <1>8, <1>9 DEF IInv

(* Where the round is after a download. *)
LEMMA AfterDownload ==
  ASSUME LoopParameters, step \in Call, samples \in [Call -> Entry], DownloadReturns
  PROVE  /\ step' \in Call /\ samples' \in [Call -> Entry]
         /\ \/ phase' = "download" /\ step' = step + 1 /\ samples' = samples
            \/ /\ phase' = "aggregate" /\ step' = 1 /\ step = SamplesPerRound
               /\ \A i \in Call : \E j \in Call : samples'[i] = samples[j]
<1>1. SamplesPerRound \in Nat \ {0}
  BY DEF LoopParameters
<1>2. CASE step < SamplesPerRound
  BY <1>1, <1>2 DEF DownloadReturns, Followed, Call
<1>3. CASE ~(step < SamplesPerRound)
  <2>1. samples' \in Shuffles(samples) /\ step' = 1 /\ phase' = "aggregate"
    BY <1>3 DEF DownloadReturns, Followed
  <2>2. step = SamplesPerRound /\ 1 \in Call
    BY <1>1, <1>3 DEF Call
  <2> QED BY <1>1, <2>1, <2>2, ShuffleKeeps
<1> QED
  BY <1>2, <1>3

LEMMA DownloadKeeps ==
  ASSUME Parameters, IInv, Download
  PROVE  IInv'
<1> DEFINE e == Current
<1>1. /\ e \in Entry /\ DownloadReturns /\ downloaded = step - 1 /\ step \in Call
      /\ downloaded' = downloaded + 1 /\ downloaded' \in 0 .. MaxSize
      /\ inBuffer' \in 0 .. MaxSize /\ inBuffer <= inBuffer' /\ inBuffer' <= downloaded'
      /\ main' \in [Entry -> Entry \cup {Absent}] /\ main'[e] = Absent
      /\ \A x \in Entry : x # e => main'[x] = main[x]
      /\ slots' \in [Slot -> Row]
  BY DownloadDoes
<1>2. PICK f \in Slot :
        /\ f \in Scanned(downloaded', inBuffer') /\ slots[f].id \in {Free, e}
        /\ slots'[f].id = e /\ slots'[f].data = e
        /\ \A i \in Slot : Has(i, e) => slots'[f] = slots[i]
        /\ (\A i \in Slot : ~Has(i, e)) => slots'[f].gradient = 0 /\ slots'[f].counter = 0
        /\ \A i \in Slot : i # f =>
             slots'[i] = IF Has(i, e) THEN [slots[i] EXCEPT !.id = Free] ELSE slots[i]
  BY DownloadDoes
<1>3. phase = "download" /\ samples[step] = e /\ slots \in [Slot -> Row] /\ TypeOK
      /\ samples \in [Call -> Entry]
  BY DEF Download, Current, IInv, TypeOK
<1>4. /\ step' \in Call /\ samples' \in [Call -> Entry]
      /\ \/ phase' = "download" /\ step' = step + 1 /\ samples' = samples
         \/ /\ phase' = "aggregate" /\ step' = 1 /\ step = SamplesPerRound
            /\ \A i \in Call : \E j \in Call : samples'[i] = samples[j]
  BY <1>1, <1>3, AfterDownload DEF Parameters
<1>5. e # Free /\ e # Absent
  BY <1>1, Sizes
<1> HIDE DEF e
<1>6. \A i \in Slot : i # f =>
        /\ Has(i, e) => slots'[i].id = Free
        /\ ~Has(i, e) => slots'[i] = slots[i]
  <2>1. \A i \in Slot : slots[i] \in Row /\ [slots[i] EXCEPT !.id = Free].id = Free
    BY <1>3 DEF Row
  <2> QED BY <1>2, <2>1
<1>7. \A i \in Slot, x \in Entry : x # e => (slots'[i].id = x <=> slots[i].id = x)
  BY <1>2, <1>5, <1>6, Sizes DEF Has
<1>8. \A i \in Slot : slots'[i].id = e <=> i = f
  BY <1>2, <1>5, <1>6 DEF Has
<1>9. TypeOK'
  BY <1>1, <1>4 DEF TypeOK, Phases
<1>10. Homes'
  <2> SUFFICES ASSUME NEW x \in Entry
      PROVE  /\ main'[x] \in {x, Absent}
             /\ main'[x] = Absent <=> \E i \in Slot : slots'[i].id = x
             /\ \A i \in Slot : slots'[i].id = x => slots'[i].data = x
             /\ \A i, j \in Slot : slots'[i].id = x /\ slots'[j].id = x => i = j
    BY DEF Homes, Slot
  <2>1. CASE x = e
    BY <1>1, <1>2, <1>8, <2>1
  <2>2. CASE x # e
    <3>1. \A i \in Slot : slots'[i].id = x => slots'[i] = slots[i]
      BY <1>2, <1>6, <1>7, <2>2, <1>5, Sizes DEF Has
    <3>2. /\ main[x] \in {x, Absent}
          /\ main[x] = Absent <=> \E i \in Slot : slots[i].id = x
          /\ \A i \in Slot : slots[i].id = x => slots[i].data = x
          /\ \A i, j \in Slot : slots[i].id = x /\ slots[j].id = x => i = j
      BY DEF IInv, Homes
    <3> QED BY <1>1, <1>7, <2>2, <3>1, <3>2
  <2> QED BY <2>1, <2>2
<1>11. \A i \in Slot : slots'[i].id # Free =>
         Valid(slots'[i]) /\ slots'[i].counter = 0 /\ i \in Scanned(downloaded', inBuffer')
  <2>1. \A i \in Slot : slots[i].id # Free =>
          Valid(slots[i]) /\ slots[i].counter = 0 /\ i \in Scanned(downloaded, inBuffer)
    BY <1>3 DEF IInv, RowsGood
  <2>2. Scanned(downloaded, inBuffer) \subseteq Scanned(downloaded', inBuffer')
    <3>1. downloaded \in Nat /\ inBuffer \in Nat /\ downloaded' \in Nat /\ inBuffer' \in Nat
          /\ downloaded <= downloaded'
      BY <1>1, <1>3, Sizes DEF TypeOK
    <3> QED BY <1>1, <3>1, Scans
  <2>3. Valid(slots'[f]) /\ slots'[f].counter = 0
    <3>1. CASE \E i \in Slot : Has(i, e)
      BY <1>2, <1>5, <2>1, <3>1 DEF Has
    <3>2. CASE \A i \in Slot : ~Has(i, e)
      BY <1>2, <3>2, Sizes DEF Valid
    <3> QED BY <3>1, <3>2
  <2>4. ASSUME NEW i \in Slot, i # f, slots'[i].id # Free
        PROVE  Valid(slots'[i]) /\ slots'[i].counter = 0 /\ i \in Scanned(downloaded', inBuffer')
    <3>1. slots'[i] = slots[i]
      BY <1>6, <2>4
    <3> QED BY <2>1, <2>2, <2>4, <3>1
  <2> QED BY <1>2, <2>3, <2>4
<1>12. RowsGood'
  <2> SUFFICES ASSUME NEW i \in Slot, slots'[i].id # Free
      PROVE  /\ Valid(slots'[i]) /\ i \in Scanned(downloaded', inBuffer') /\ slots'[i].counter = 0
             /\ phase' = "aggregate" =>
                  slots'[i].counter = Cardinality(Calls(step - 1, slots[i].id)') % CounterValues
    BY DEF RowsGood, Slot, Valid, Scanned
  <2>1. phase' = "aggregate" => Calls(step - 1, slots[i].id)' = {}
    <3>1. phase' = "aggregate" => step' - 1 = 0
      BY <1>4
    <3> QED BY <3>1 DEF Calls
  <2> QED BY <1>11, <2>1, FS_EmptySet, Sizes
<1>13. Progress'
  <2>1. \A i \in 1 .. step : main'[samples[i]] = Absent
    <3>1. \A i \in 1 .. step - 1 : main[samples[i]] = Absent
      BY <1>3 DEF IInv, Progress
    <3>2. \A i \in 1 .. step : i \in Call /\ samples[i] \in Entry /\ (i = step \/ i \in 1 .. step - 1)
      <4>1. SamplesPerRound \in Nat /\ step \in 1 .. SamplesPerRound
        BY <1>1, Sizes DEF Call
      <4>2. \A i \in 1 .. step : i \in Call /\ (i = step \/ i \in 1 .. step - 1)
        BY <4>1 DEF Call
      <4> QED BY <1>3, <4>2
    <3>3. \A x \in Entry : x = e \/ main[x] = Absent => main'[x] = Absent
      BY <1>1
    <3> QED BY <1>3, <3>1, <3>2, <3>3
  <2>2. CASE phase' = "download"
    <3>1. step' - 1 = step /\ downloaded' = step /\ samples' = samples
      BY <1>1, <1>4, <2>2, Sizes DEF Call
    <3> QED BY <2>1, <2>2, <3>1 DEF Progress
  <2>3. CASE phase' = "aggregate"
    <3>1. Call = 1 .. step /\ \A i \in Call : \E j \in Call : samples'[i] = samples[j]
      BY <1>4, <2>3 DEF Call
    <3>2. \A i \in Call : main'[samples'[i]] = Absent
      BY <2>1, <3>1
    <3> QED BY <2>3, <3>2 DEF Progress, Call
  <2> QED BY <1>4, <2>2, <2>3
<1> QED
  BY <1>1, <1>9, <1>10, <1>12, <1>13 DEF IInv

LEMMA AggregateKeeps ==
  ASSUME Parameters, IInv, Aggregate
  PROVE  IInv'
<1> DEFINE e == Current
<1>1. /\ e \in Entry /\ AggregateReturns /\ step \in Call
      /\ UNCHANGED <<main, downloaded, inBuffer>> /\ slots' \in [Slot -> Row]
  BY AggregateDoes
<1>2. PICK f \in Slot :
        /\ Has(f, e) /\ slots'[f].id = e /\ slots'[f].data = slots[f].data
        /\ slots'[f].gradient = (slots[f].gradient + 1) % ByteValues
        /\ slots'[f].counter = (slots[f].counter + 1) % CounterValues
        /\ \A i \in Slot : i # f => slots'[i] = slots[i]
  BY AggregateDoes
<1>3. /\ phase = "aggregate" /\ samples[step] = e /\ slots \in [Slot -> Row] /\ TypeOK
      /\ \A i \in Call : main[samples[i]] = Absent
  BY DEF Aggregate, Current, IInv, TypeOK, Progress
<1>4. /\ samples' = samples /\ step' \in Call
      /\ \/ phase' = "aggregate" /\ step' = step + 1
         \/ phase' = "flush"
  BY <1>1, Sizes DEF AggregateReturns, Followed, Call
<1>5. e # Free
  BY <1>1, Sizes
<1> HIDE DEF e
<1>6. \A i \in Slot : slots'[i].id = slots[i].id /\ slots'[i].data = slots[i].data
  BY <1>2 DEF Has
<1>7. TypeOK'
  BY <1>1, <1>3, <1>4 DEF TypeOK, Phases
<1>8. Homes'
  BY <1>1, <1>6 DEF IInv, Homes, Slot
<1>9. ASSUME NEW i \in Slot, slots'[i].id # Free
      PROVE  /\ Valid(slots'[i]) /\ i \in Scanned(downloaded, inBuffer)
             /\ phase' = "aggregate" =>
                  slots'[i].counter = Cardinality(Calls(step, slots[i].id)) % CounterValues
  <2> DEFINE n == Cardinality(Calls(step - 1, slots[i].id))
  <2>1. /\ Valid(slots[i]) /\ i \in Scanned(downloaded, inBuffer)
        /\ slots[i].counter = n % CounterValues
    BY <1>3, <1>6, <1>9 DEF IInv, RowsGood
  <2>2. slots[i] \in Row /\ slots[i].id \in Entry
    BY <1>3, <1>6, <1>9 DEF Row
  <2>3. /\ n \in Nat
        /\ Cardinality(Calls(step, slots[i].id)) = n + (IF samples[step] = slots[i].id THEN 1 ELSE 0)
    <3>1. step - 1 \in Nat /\ (step - 1) + 1 = step
      BY <1>1, Sizes DEF Call
    <3> QED BY <1>3, <2>2, <3>1, CallsFacts
  <2> HIDE DEF n
  <2>4. CASE i = f
    <3> DEFINE c == slots[f].counter
    <3>1. c \in 0 .. CounterValues - 1 /\ slots[f].gradient = c % ByteValues /\ c = n % CounterValues
      BY <2>1, <2>2, <2>4 DEF Valid, Row
    <3>2. slots'[f].counter = (c + 1) % CounterValues
      BY <1>2
    <3>3. slots'[f].gradient = ((c % ByteValues) + 1) % ByteValues
      BY <1>2, <3>1
    <3> HIDE DEF c
    <3>4. ((c % ByteValues) + 1) % ByteValues = ((c + 1) % CounterValues) % ByteValues
      BY <3>1, StillValid, Sizes
    <3>5. (c + 1) % CounterValues = (n + 1) % CounterValues
      BY <2>3, <3>1, NextRemainder, Sizes
    <3>6. Cardinality(Calls(step, slots[i].id)) = n + 1
      BY <1>2, <1>3, <2>3, <2>4 DEF Has
    <3>7. Valid(slots'[f])
      BY <3>2, <3>3, <3>4 DEF Valid
    <3> QED BY <2>1, <2>4, <3>2, <3>5, <3>6, <3>7
  <2>5. CASE i # f
    <3>1. slots[i].id # e
      BY <1>1, <1>2, <2>5, HitsAll DEF Has
    <3>2. Cardinality(Calls(step, slots[i].id)) = n
      BY <1>3, <2>3, <3>1
    <3> QED BY <1>2, <2>1, <2>5, <3>2
  <2> QED BY <2>4, <2>5
<1>10. RowsGood'
  <2> SUFFICES ASSUME NEW i \in Slot, slots'[i].id # Free
      PROVE  /\ Valid(slots'[i]) /\ i \in Scanned(downloaded', inBuffer')
             /\ phase' \in {"sample", "download", "PermutationEnd"} => slots'[i].counter = 0
             /\ phase' = "aggregate" =>
                  slots'[i].counter = Cardinality(Calls(step - 1, slots[i].id)') % CounterValues
    BY DEF RowsGood, Slot, Valid, Scanned
  <2>1. phase' = "aggregate" => Calls(step - 1, slots[i].id)' = Calls(step, slots[i].id)
    <3>1. phase' = "aggregate" => step' - 1 = step
      BY <1>1, <1>4, Sizes DEF Call
    <3> QED BY <1>4, <1>6, <3>1 DEF Calls
  <2> QED BY <1>1, <1>4, <1>9, <2>1
<1>11. Progress'
  BY <1>1, <1>3, <1>4 DEF Progress, Call
<1> QED
  BY <1>1, <1>7, <1>8, <1>10, <1>11 DEF IInv

LEMMA FlushKeeps ==
  ASSUME Parameters, IInv, Flush
  PROVE  IInv'
<1>1. /\ phase' = "sample" /\ step' = 1 /\ samples' = samples
      /\ main' = [x \in Entry |-> x] /\ downloaded' = 0 /\ inBuffer' = 0
      /\ slots' \in [Slot -> Row] /\ \A i \in Slot : slots'[i].id = Free
  BY FlushDoes DEF FlushReturns
<1>2. TypeOK'
  BY <1>1, Sizes DEF IInv, TypeOK, Phases, Call
<1>3. Homes'
  BY <1>1, Sizes DEF Homes
<1>4. RowsGood'
  BY <1>1 DEF RowsGood
<1>5. (inBuffer <= downloaded /\ Progress)'
  BY <1>1 DEF Progress
<1> QED
  BY <1>2, <1>3, <1>4, <1>5 DEF IInv

LEMMA StutterKeeps ==
  ASSUME IInv, UNCHANGED vars
  PROVE  IInv'
<1>1. /\ phase' = phase /\ step' = step /\ samples' = samples /\ main' = main
      /\ slots' = slots /\ downloaded' = downloaded /\ inBuffer' = inBuffer
  BY DEF vars
<1>2. TypeOK'
  BY <1>1 DEF IInv, TypeOK, Row, Slot, Call
<1>3. Homes' /\ (inBuffer <= downloaded)'
  BY <1>1 DEF IInv, Homes, Slot
<1>4. Progress'
  BY <1>1 DEF IInv, Progress, Call
<1>5. RowsGood'
  <2>1. \A i \in Slot : Calls(step - 1, slots[i].id)' = Calls(step - 1, slots[i].id)
    BY <1>1 DEF Calls
  <2> QED BY <1>1, <2>1 DEF IInv, RowsGood, Slot, Scanned, Valid
<1> QED
  BY <1>2, <1>3, <1>4, <1>5 DEF IInv

(* The invariant the results rest on.                                       *)
LEMMA Invariance ==
  ASSUME Parameters
  PROVE  Spec => []IInv
<1>1. Init => IInv
  BY InitGood
<1>2. IInv /\ [Next]_vars => IInv'
  <2> SUFFICES ASSUME IInv, [Next]_vars PROVE IInv'
    OBVIOUS
  <2>1. CASE Sample
    BY <2>1, SampleKeeps
  <2>2. CASE Download
    BY <2>2, DownloadKeeps
  <2>3. CASE Aggregate
    BY <2>3, AggregateKeeps
  <2>4. CASE Flush
    BY <2>4, FlushKeeps
  <2>5. CASE UNCHANGED vars
    BY <2>5, StutterKeeps
  <2> QED BY <2>1, <2>2, <2>3, <2>4, <2>5 DEF Next
<1> QED
  BY <1>1, <1>2, PTL DEF Spec

-----------------------------------------------------------------------------
(* What a round sees of the slots.                                          *)
Held == { e \in Entry : HeldBy(e) # {} }

Seen ==
  \A x \in Entry :
    /\ x \in Held <=> \E i \in Slot : Has(i, x)
    /\ \A i \in Slot : Has(i, x) => Sums[x] = slots[i].counter
    /\ (\A i \in Slot : ~Has(i, x)) => Sums[x] = 0

LEMMA SlotsSeen == IInv => Seen
<1> SUFFICES ASSUME IInv, NEW x \in Entry
    PROVE  /\ x \in Held <=> \E i \in Slot : Has(i, x)
           /\ \A i \in Slot : Has(i, x) => Sums[x] = slots[i].counter
           /\ (\A i \in Slot : ~Has(i, x)) => Sums[x] = 0
  BY DEF Seen
<1>1. \A i \in Slot : i \in HeldBy(x) <=> Has(i, x)
  BY DEF HeldBy, Has
<1>2. HeldBy(x) \subseteq Slot
  BY DEF HeldBy
<1>3. \A i, j \in Slot : Has(i, x) /\ Has(j, x) => i = j
  BY DEF IInv, Homes, Has
<1>4. Sums[x] = IF HeldBy(x) = {} THEN 0 ELSE slots[CHOOSE i \in HeldBy(x) : TRUE].counter
  BY DEF Sums
<1>5. x \in Held <=> HeldBy(x) # {}
  BY DEF Held
<1> QED
  BY <1>1, <1>2, <1>3, <1>4, <1>5

LEMMA SlotsSeenNext == (IInv => Seen)'
BY SlotsSeen, PTL

(* The library modules of TrainingRounds are those of the buffer. *)
LEMMA SameCardinality ==
  ASSUME NEW S
  PROVE  Rounds!Cardinality(S) = Cardinality(S)
BY DEF Rounds!Cardinality, Cardinality

LEMMA InitRefines ==
  ASSUME Parameters, Init
  PROVE  Rounds!Init
<1>1. IInv
  BY InitGood
<1>2. \A x \in Entry, i \in Slot : ~Has(i, x)
  <2>1. \A i \in Slot : slots[i].id = Free
    BY DEF Init
  <2> QED BY <2>1, Sizes DEF Has
<1>3. Held = {} /\ \A x \in Entry : Sums[x] = 0
  <2>1. Held \subseteq Entry
    BY DEF Held
  <2> QED BY <1>1, <1>2, <2>1, SlotsSeen DEF Seen
<1>4. Sums = [e \in Entry |-> 0]
  BY <1>3 DEF Sums
<1> QED
  BY <1>3, <1>4 DEF Rounds!Init, Rounds!LoopInit, Rounds!Call, Init, LoopInit, Call, Held

LEMMA SampleRefines ==
  ASSUME Parameters, IInv, Sample
  PROVE  Rounds!Sample
<1>1. phase = "sample" /\ (\E e \in Entry : Draw(e)) /\ slots' = slots
  BY DEF Sample, bufferVars
<1>2. Held' = Held /\ Sums' = Sums
  BY <1>1 DEF Held, Sums, HeldBy, Slot
<1>3. \A e \in Entry : Draw(e) => Rounds!Draw(e)
  <2>1. /\ Rounds!Drawn = Drawn
        /\ Rounds!Cardinality(Drawn) = Cardinality(Drawn)
        /\ Rounds!Cardinality(Entry) = Cardinality(Entry)
    BY SameCardinality DEF Drawn, Rounds!Drawn
  <2> QED BY <2>1 DEF Draw, Rounds!Draw, Followed, Rounds!Followed
<1> QED
  BY <1>1, <1>2, <1>3 DEF Rounds!Sample, Held

LEMMA DownloadRefines ==
  ASSUME Parameters, IInv, Download
  PROVE  Rounds!Download
<1> DEFINE e == Current
<1>1. e \in Entry /\ DownloadReturns /\ slots \in [Slot -> Row]
  BY DownloadDoes DEF IInv, TypeOK
<1>2. PICK f \in Slot :
        /\ f \in Scanned(downloaded', inBuffer') /\ slots[f].id \in {Free, e}
        /\ slots'[f].id = e /\ slots'[f].data = e
        /\ \A i \in Slot : Has(i, e) => slots'[f] = slots[i]
        /\ (\A i \in Slot : ~Has(i, e)) => slots'[f].gradient = 0 /\ slots'[f].counter = 0
        /\ \A i \in Slot : i # f =>
             slots'[i] = IF Has(i, e) THEN [slots[i] EXCEPT !.id = Free] ELSE slots[i]
  BY DownloadDoes
<1>3. e # Free
  BY <1>1, Sizes
<1>4. Seen /\ Seen'
  BY DownloadKeeps, SlotsSeen, SlotsSeenNext
<1>5. phase = "download" /\ ~UsesReserve /\ e = Rounds!Current
  BY Sizes DEF Download, Current, Rounds!Current
<1> HIDE DEF e
<1>6. \A i \in Slot : i # f =>
        /\ Has(i, e) => slots'[i].id = Free
        /\ ~Has(i, e) => slots'[i] = slots[i]
  <2>1. \A i \in Slot : slots[i] \in Row /\ [slots[i] EXCEPT !.id = Free].id = Free
    BY <1>1 DEF Row
  <2> QED BY <1>2, <2>1
<1>7. \A i \in Slot, x \in Entry : x # e =>
        (slots'[i].id = x <=> slots[i].id = x) /\ (slots'[i].id = x => slots'[i] = slots[i])
  BY <1>2, <1>3, <1>6, Sizes DEF Has
<1>8. ASSUME NEW x \in Entry
      PROVE  (x \in Held' <=> x \in Held \cup {e}) /\ Sums'[x] = Sums[x]
  <2>1. /\ x \in Held <=> \E i \in Slot : slots[i].id = x
        /\ \A i \in Slot : slots[i].id = x => Sums[x] = slots[i].counter
        /\ (\A i \in Slot : slots[i].id # x) => Sums[x] = 0
    BY <1>4 DEF Seen, Has
  <2>2. /\ x \in Held' <=> \E i \in Slot : slots'[i].id = x
        /\ \A i \in Slot : slots'[i].id = x => Sums'[x] = slots'[i].counter
        /\ (\A i \in Slot : slots'[i].id # x) => Sums'[x] = 0
    BY <1>4 DEF Seen, Has, Slot
  <2>3. CASE x = e
    <3>1. x \in Held' /\ Sums'[x] = slots'[f].counter
      BY <1>2, <2>2, <2>3
    <3>2. CASE \E i \in Slot : slots[i].id = e
      BY <1>2, <2>1, <2>3, <3>1, <3>2 DEF Has
    <3>3. CASE \A i \in Slot : slots[i].id # e
      BY <1>2, <2>1, <2>3, <3>1, <3>3 DEF Has
    <3> QED BY <2>3, <3>1, <3>2, <3>3
  <2>4. CASE x # e
    <3>1. \A i \in Slot : (slots'[i].id = x <=> slots[i].id = x) /\ (slots'[i].id = x => slots'[i] = slots[i])
      BY <1>7, <2>4
    <3>2. x \in Held' <=> x \in Held
      BY <2>1, <2>2, <3>1
    <3>3. Sums'[x] = Sums[x]
      BY <2>1, <2>2, <3>1
    <3> QED BY <2>4, <3>2, <3>3
  <2> QED BY <2>3, <2>4
<1>9. Held' = Held \cup {e}
  <2>1. Held' \subseteq Entry /\ Held \subseteq Entry
    BY DEF Held
  <2> QED BY <1>1, <1>8, <2>1
<1>10. Sums' = Sums
  <2>1. /\ Sums = [x \in Entry |-> Sums[x]] /\ Sums' = [x \in Entry |-> Sums'[x]]
    BY DEF Sums
  <2> HIDE DEF Sums
  <2> QED BY <1>8, <2>1
<1>11. Rounds!DownloadReturns
  <2>1. \A s, x : Rounds!Occurrences(s, x) = Occurrences(s, x)
    BY SameCardinality DEF Occurrences, Rounds!Occurrences, Call, Rounds!Call
  <2>2. Rounds!Shuffles(samples) = Shuffles(samples)
    BY <2>1 DEF Shuffles, Rounds!Shuffles, Call, Rounds!Call
  <2> QED BY <1>1, <2>2 DEF DownloadReturns, Rounds!DownloadReturns, Followed, Rounds!Followed
<1> QED
  BY <1>5, <1>9, <1>10, <1>11 DEF Rounds!Download, Held

LEMMA AggregateRefines ==
  ASSUME Parameters, IInv, Aggregate
  PROVE  Rounds!Aggregate
<1> DEFINE e == Current
<1>1. e \in Entry /\ AggregateReturns
  BY AggregateDoes
<1>2. PICK f \in Slot :
        /\ Has(f, e) /\ slots'[f].id = e
        /\ slots'[f].counter = (slots[f].counter + 1) % CounterValues
        /\ \A i \in Slot : i # f => slots'[i] = slots[i]
  BY AggregateDoes
<1>3. Seen /\ Seen'
  BY AggregateKeeps, SlotsSeen, SlotsSeenNext
<1>4. phase = "aggregate" /\ e = Rounds!Current
  BY DEF Aggregate, Current, Rounds!Current
<1>5. \A i \in Slot : Has(i, e) => i = f
  BY <1>1, <1>2, HitsAll
<1> HIDE DEF e
<1>6. ASSUME NEW x \in Entry
      PROVE  /\ x \in Held' <=> x \in Held
             /\ Sums'[x] = IF x = e THEN (Sums[e] + 1) % CounterValues ELSE Sums[x]
  <2>1. /\ x \in Held <=> \E i \in Slot : slots[i].id = x
        /\ \A i \in Slot : slots[i].id = x => Sums[x] = slots[i].counter
        /\ (\A i \in Slot : slots[i].id # x) => Sums[x] = 0
    BY <1>3 DEF Seen, Has
  <2>2. /\ x \in Held' <=> \E i \in Slot : slots'[i].id = x
        /\ \A i \in Slot : slots'[i].id = x => Sums'[x] = slots'[i].counter
        /\ (\A i \in Slot : slots'[i].id # x) => Sums'[x] = 0
    BY <1>3 DEF Seen, Has, Slot
  <2>3. \A i \in Slot : slots'[i].id = slots[i].id
    BY <1>2 DEF Has
  <2>4. x \in Held' <=> x \in Held
    BY <2>1, <2>2, <2>3
  <2>5. CASE x = e
    BY <1>2, <2>1, <2>2, <2>4, <2>5 DEF Has
  <2>6. CASE x # e
    <3>1. \A i \in Slot : slots[i].id = x => slots'[i] = slots[i]
      BY <1>2, <2>6 DEF Has
    <3>2. Sums'[x] = Sums[x]
      BY <2>1, <2>2, <2>3, <3>1
    <3> QED BY <2>4, <2>6, <3>2
  <2> QED BY <2>5, <2>6
<1>7. Held' = Held /\ e \in Held
  <2>1. Held' \subseteq Entry /\ Held \subseteq Entry
    BY DEF Held
  <2>2. e \in Held
    BY <1>1, <1>2, <1>3 DEF Seen
  <2> QED BY <1>6, <2>1, <2>2
<1>8. Sums' = [Sums EXCEPT ![e] = (@ + 1) % CounterValues]
  <2>1. /\ Sums = [x \in Entry |-> Sums[x]] /\ Sums' = [x \in Entry |-> Sums'[x]]
    BY DEF Sums
  <2> HIDE DEF Sums
  <2> QED BY <1>6, <2>1
<1>9. Rounds!AggregateReturns
  BY <1>1 DEF AggregateReturns, Rounds!AggregateReturns, Followed, Rounds!Followed
<1> QED
  BY <1>4, <1>7, <1>8, <1>9 DEF Rounds!Aggregate, Held

LEMMA FlushRefines ==
  ASSUME Parameters, IInv, Flush
  PROVE  Rounds!Flush
<1>1. FlushReturns /\ phase = "flush" /\ \A i \in Slot : slots'[i].id = Free
  BY FlushDoes DEF Flush
<1>2. Seen'
  BY FlushKeeps, SlotsSeenNext
<1>3. ASSUME NEW x \in Entry PROVE x \notin Held' /\ Sums'[x] = 0
  <2>1. \A i \in Slot : ~(slots'[i].id = x)
    BY <1>1, Sizes
  <2> QED BY <1>2, <2>1 DEF Seen, Has, Slot
<1>4. Held' = {}
  <2>1. Held' \subseteq Entry
    BY DEF Held
  <2> QED BY <1>3, <2>1
<1>5. Seen
  BY SlotsSeen
<1>6. ASSUME NEW x \in Entry, x \notin Held PROVE Sums[x] = 0
  BY <1>5, <1>6 DEF Seen
<1>7. Sums' = [x \in Entry |-> IF x \in Held THEN 0 ELSE Sums[x]]
  <2>1. Sums' = [x \in Entry |-> Sums'[x]]
    BY DEF Sums
  <2> HIDE DEF Sums
  <2> QED BY <1>3, <1>6, <2>1
<1>8. Held' = Held \ Held /\ Held \in SUBSET Held
  BY <1>4
<1> QED
  BY <1>1, <1>4, <1>7, <1>8
     DEF Rounds!Flush, Rounds!SumsCleared, Rounds!FlushReturns, FlushReturns, Held

-----------------------------------------------------------------------------
(* Every variable keeps its type.                                           *)
THEOREM TypeCorrect ==
  ASSUME Parameters
  PROVE  Spec => []TypeOK
<1>1. IInv => TypeOK
  BY DEF IInv
<1> QED
  BY <1>1, Invariance, PTL

(* An entry is in the memory or in exactly one slot, with its own data, however *)
(* often download() asks for it and whatever was dropped from the scan before. *)
THEOREM EntriesHaveOneHome ==
  ASSUME Parameters
  PROVE  Spec => []OneHome
<1>1. IInv => OneHome
  <2> SUFFICES ASSUME IInv, NEW e \in Entry
      PROVE  /\ main[e] \in {e, Absent}
             /\ Cardinality(HeldBy(e)) = IF main[e] = Absent THEN 1 ELSE 0
             /\ \A i \in HeldBy(e) : slots[i].data = e
    BY DEF OneHome
  <2>1. /\ main[e] \in {e, Absent}
        /\ main[e] = Absent <=> \E i \in Slot : slots[i].id = e
        /\ \A i \in Slot : slots[i].id = e => slots[i].data = e
        /\ \A i, j \in Slot : slots[i].id = e /\ slots[j].id = e => i = j
    BY DEF IInv, Homes
  <2>2. CASE main[e] = Absent
    <3>1. PICK i \in Slot : slots[i].id = e
      BY <2>1, <2>2
    <3>2. HeldBy(e) = {i}
      BY <2>1, <3>1 DEF HeldBy
    <3>3. Cardinality(HeldBy(e)) = 1
      BY <3>2, FS_Singleton
    <3> QED BY <2>1, <2>2, <3>3 DEF HeldBy
  <2>3. CASE main[e] # Absent
    <3>1. HeldBy(e) = {}
      BY <2>1, <2>3 DEF HeldBy
    <3>2. Cardinality(HeldBy(e)) = 0
      BY <3>1, FS_EmptySet
    <3> QED BY <2>1, <2>3, <3>2 DEF HeldBy
  <2> QED BY <2>2, <2>3
<1> QED
  BY <1>1, Invariance, PTL

(* Neither download() nor aggregate() nor update_flush_buffer() throws: a   *)
(* slot is free when one is needed, an entry is where it is looked for, and *)
(* the byte agrees with the counter when both have wrapped.                 *)
THEOREM NoRoundThrows ==
  ASSUME Parameters
  PROVE  Spec => []NeverThrows
<1>1. IInv => NeverThrows
  BY DEF IInv, Progress, NeverThrows
<1> QED
  BY <1>1, Invariance, PTL

(* LinearScanBuffer implements TrainingRounds: each call of a handler is a  *)
(* step of the abstract round that holds the same entries and has counted   *)
(* the same gradients.                                                      *)
THEOREM ScanImplementsRounds ==
  ASSUME Parameters
  PROVE  Spec => ImplementsRounds
<1>1. Init => Rounds!Init
  BY InitRefines
<1>2. IInv /\ [Next]_vars => [Rounds!Next]_(Rounds!vars)
  <2> SUFFICES ASSUME IInv, [Next]_vars PROVE [Rounds!Next]_(Rounds!vars)
    OBVIOUS
  <2>1. CASE Sample
    BY <2>1, SampleRefines DEF Rounds!Next
  <2>2. CASE Download
    BY <2>2, DownloadRefines DEF Rounds!Next
  <2>3. CASE Aggregate
    BY <2>3, AggregateRefines DEF Rounds!Next
  <2>4. CASE Flush
    BY <2>4, FlushRefines DEF Rounds!Next
  <2>5. CASE UNCHANGED vars
    <3>1. slots' = slots /\ phase' = phase /\ step' = step /\ samples' = samples
      BY <2>5 DEF vars
    <3>2. Held' = Held /\ Sums' = Sums
      BY <3>1 DEF Held, Sums, HeldBy, Slot
    <3> QED BY <3>1, <3>2 DEF Rounds!vars, Held
  <2> QED BY <2>1, <2>2, <2>3, <2>4, <2>5 DEF Next
<1> QED
  BY <1>1, <1>2, Invariance, PTL DEF Spec, ImplementsRounds, Rounds!Spec

(* During the aggregation an entry has counted the calls that were made for *)
(* it: a shuffle, a repeated sample or a wrapped counter loses none.        *)
THEOREM EveryGradientCounted ==
  ASSUME Parameters
  PROVE  Spec => []Rounds!GradientsCounted
<1>1. IInv => Rounds!GradientsCounted
  <2> SUFFICES ASSUME IInv, phase = "aggregate", NEW x \in Held
      PROVE  Sums[x] = Rounds!Cardinality({ i \in 1 .. step - 1 : samples[i] = x }) % CounterValues
    BY DEF Rounds!GradientsCounted, Held
  <2>1. x \in Entry /\ Seen
    BY SlotsSeen DEF Held
  <2>2. PICK i \in Slot : Has(i, x) /\ Sums[x] = slots[i].counter
    BY <2>1 DEF Seen
  <2>3. slots[i].id = x /\ x # Free
    BY <2>1, <2>2, Sizes DEF Has
  <2>4. slots[i].counter = Cardinality(Calls(step - 1, x)) % CounterValues
    BY <2>3 DEF IInv, RowsGood
  <2>5. Calls(step - 1, x) = { j \in 1 .. step - 1 : samples[j] = x }
    BY DEF Calls
  <2>6. Rounds!Cardinality({ j \in 1 .. step - 1 : samples[j] = x }) = Cardinality(Calls(step - 1, x))
    BY <2>5, SameCardinality
  <2> QED BY <2>2, <2>4, <2>6
<1> QED
  BY <1>1, Invariance, PTL

-----------------------------------------------------------------------------
(* OramBuffer in mode POP_N_PUSH. *)

(* A buffer ORAM: how far the round is, and what has left the memory.       *)
OramProgress ==
  /\ phase \in {"sample", "download", "aggregate", "flush", "PermutationEnd"}
  /\ phase \in {"sample", "PermutationEnd"} => Len(recorded) = 0
  /\ phase = "download" =>
       Len(recorded) = step - 1 /\ \A i \in 1 .. step - 1 : buffer[samples[i]] # Absent
  /\ phase \in {"aggregate", "flush"} => Len(recorded) = SamplesPerRound
  /\ phase = "aggregate" => \A i \in Call : buffer[samples[i]] # Absent

(* What is in the buffer has a record that the flush has still to come to. *)
PushAwaits ==
  \A e \in Entry : buffer[e] # Absent =>
    \E i \in 1 .. Len(recorded) : recorded[i] = e /\ (phase = "flush" => step <= i)

PushCounts ==
  \A e \in Entry : buffer[e] # Absent =>
    /\ phase \in {"sample", "download", "PermutationEnd"} => buffer[e].counter = 0
    /\ phase = "aggregate" =>
         buffer[e].counter = Cardinality(Calls(step - 1, e)) % CounterValues

PushIInv == Push!TypeOK /\ Push!OneHome /\ OramProgress /\ PushAwaits /\ PushCounts

(* The loop and the library modules are the same in every instance. *)
LEMMA PushCardinality ==
  ASSUME NEW S
  PROVE  Push!Cardinality(S) = Cardinality(S) /\ Push!Rounds!Cardinality(S) = Cardinality(S)
BY DEF Push!Cardinality, Push!Rounds!Cardinality, Cardinality

LEMMA PushLoop ==
  /\ Push!Call = Call
  /\ Push!Current = Current /\ Push!Rounds!Current = Current
  /\ \A e : Push!Draw(e) <=> Draw(e)
  /\ \A e : Push!Rounds!Draw(e) <=> Draw(e)
  /\ Push!DownloadReturns <=> DownloadReturns
  /\ Push!Rounds!DownloadReturns <=> DownloadReturns
  /\ Push!AggregateReturns <=> AggregateReturns
  /\ Push!Rounds!AggregateReturns <=> AggregateReturns
<1>1. /\ Push!Call = Call /\ Push!Rounds!Call = Call
      /\ Push!Drawn = Drawn /\ Push!Rounds!Drawn = Drawn
      /\ Push!Current = Current /\ Push!Rounds!Current = Current
  BY DEF Push!Call, Push!Rounds!Call, Call, Push!Drawn, Push!Rounds!Drawn, Drawn,
         Push!Current, Push!Rounds!Current, Current
<1>2. /\ Push!Cardinality(Drawn) = Cardinality(Drawn)
      /\ Push!Cardinality(Entry) = Cardinality(Entry)
      /\ Push!Rounds!Cardinality(Drawn) = Cardinality(Drawn)
      /\ Push!Rounds!Cardinality(Entry) = Cardinality(Entry)
  BY PushCardinality
<1>3. \A e : (Push!Draw(e) <=> Draw(e)) /\ (Push!Rounds!Draw(e) <=> Draw(e))
  BY <1>1, <1>2 DEF Push!Draw, Push!Rounds!Draw, Draw, Push!Followed, Push!Rounds!Followed, Followed
<1>4. \A s, x : Push!Occurrences(s, x) = Occurrences(s, x)
                /\ Push!Rounds!Occurrences(s, x) = Occurrences(s, x)
  BY <1>1, PushCardinality DEF Occurrences, Push!Occurrences, Push!Rounds!Occurrences
<1>5. Push!Shuffles(samples) = Shuffles(samples) /\ Push!Rounds!Shuffles(samples) = Shuffles(samples)
  BY <1>1, <1>4 DEF Shuffles, Push!Shuffles, Push!Rounds!Shuffles
<1>6. /\ Push!DownloadReturns <=> DownloadReturns
      /\ Push!Rounds!DownloadReturns <=> DownloadReturns
  BY <1>5 DEF Push!DownloadReturns, Push!Rounds!DownloadReturns, DownloadReturns,
              Push!Followed, Push!Rounds!Followed, Followed
<1>7. /\ Push!AggregateReturns <=> AggregateReturns
      /\ Push!Rounds!AggregateReturns <=> AggregateReturns
  BY DEF Push!AggregateReturns, Push!Rounds!AggregateReturns, AggregateReturns,
         Push!Followed, Push!Rounds!Followed, Followed
<1> QED
  BY <1>1, <1>3, <1>6, <1>7

LEMMA PushSizes ==
  ASSUME Push!Parameters
  PROVE  /\ LoopParameters /\ SamplesPerRound \in Nat \ {0} /\ ~UsesReserve
         /\ Absent \notin Entry /\ Absent \notin Push!Block
         /\ ByteValues \in Nat \ {0} /\ CounterValues \in Nat \ {0}
         /\ 0 \in 0 .. ByteValues - 1 /\ 0 \in 0 .. CounterValues - 1 /\ 0 % CounterValues = 0
<1>1. /\ LoopParameters /\ ~UsesReserve
      /\ Absent \notin Entry /\ Absent \notin Push!Block
      /\ ByteValues \in Nat \ {0} /\ CounterValues \in Nat \ {0}
  BY DEF Push!Parameters, Push!LoopParameters, LoopParameters
<1>2. (CounterValues * 0 + 0) % CounterValues = 0
  BY <1>1, RemainderUnique
<1>3. CounterValues * 0 + 0 = 0 /\ SamplesPerRound \in Nat \ {0}
  BY <1>1 DEF LoopParameters
<1> QED
  BY <1>1, <1>2, <1>3

LEMMA PushTypes ==
  ASSUME Push!Parameters, PushIInv
  PROVE  /\ step \in Call /\ samples \in [Call -> Entry] /\ step \in Nat
         /\ main \in [Entry -> Entry \cup {Absent}]
         /\ buffer \in [Entry -> Push!Block \cup {Absent}]
         /\ recorded \in Seq(Entry) /\ Len(recorded) \in Nat
BY PushLoop, PushSizes, LenProperties DEF PushIInv, Push!TypeOK, Call

-----------------------------------------------------------------------------
(* A download puts the entry into the buffer, or leaves it there.          *)
LEMMA PushDownloadDoes ==
  ASSUME Push!Parameters, PushIInv, Push!Download, NEW e, e = Current
  PROVE  /\ e \in Entry /\ DownloadReturns /\ phase = "download" /\ samples[step] = e
         /\ recorded' = Append(recorded, e)
         /\ main' \in [Entry -> Entry \cup {Absent}] /\ main'[e] = Absent
         /\ \A x \in Entry : x # e => main'[x] = main[x]
         /\ buffer' \in [Entry -> Push!Block \cup {Absent}]
         /\ buffer'[e] # Absent /\ buffer'[e].data = e
         /\ buffer[e] # Absent => buffer'[e] = buffer[e]
         /\ buffer[e] = Absent => buffer'[e].counter = 0
         /\ \A x \in Entry : x # e => buffer'[x] = buffer[x]
         /\ request' \in [type : {"POP", "DUMMY_POP", "PUSH", "DUMMY_PUSH"}, data : Entry]
<1>1. /\ e \in Entry /\ samples[step] = e
      /\ main \in [Entry -> Entry \cup {Absent}]
      /\ buffer \in [Entry -> Push!Block \cup {Absent}]
  BY PushTypes DEF Current
<1>2. /\ phase = "download" /\ DownloadReturns /\ recorded' = Append(recorded, e)
      /\ main' = IF buffer[e] # Absent THEN main ELSE [main EXCEPT ![e] = Absent]
      /\ buffer' = [buffer EXCEPT ![e] = Push!Brought(buffer[e] # Absent, e)]
  BY PushLoop DEF Push!Download, Push!Recorded
<1>3. request' \in [type : {"POP", "DUMMY_POP", "PUSH", "DUMMY_PUSH"}, data : Entry]
  <2>1. request \in [type : {"POP", "DUMMY_POP", "PUSH", "DUMMY_PUSH"}, data : Entry]
    BY DEF PushIInv, Push!TypeOK
  <2>2. CASE buffer[e] # Absent
    <3>1. request' = [request EXCEPT !.type = "DUMMY_POP"] \/ request' = request
      BY PushLoop, <2>2 DEF Push!Download
    <3> QED BY <2>1, <3>1
  <2>3. CASE buffer[e] = Absent
    <3>1. main[e] \in Entry
      BY <1>1, <2>3, PushSizes DEF PushIInv, Push!OneHome
    <3>2. request' = [type |-> "POP", data |-> main[e]]
      BY PushLoop, <2>3 DEF Push!Download
    <3> QED BY <3>1, <3>2
  <2> QED BY <2>2, <2>3
<1>4. CASE buffer[e] # Absent
  <2>1. main[e] = Absent /\ buffer[e].data = e
    BY <1>1, <1>4 DEF PushIInv, Push!OneHome
  <2>2. main' = main /\ buffer' = buffer
    BY <1>1, <1>2, <1>4 DEF Push!Brought
  <2> QED BY <1>1, <1>2, <1>3, <1>4, <2>1, <2>2
<1>5. CASE buffer[e] = Absent
  <2> DEFINE b == [data |-> main[e], gradient |-> 0, counter |-> 0]
  <2>1. main[e] = e
    BY <1>1, <1>5 DEF PushIInv, Push!OneHome
  <2>2. b \in Push!Block /\ b.data = e /\ b.counter = 0
    BY <1>1, <2>1, PushSizes DEF Push!Block
  <2>3. main' = [main EXCEPT ![e] = Absent] /\ buffer' = [buffer EXCEPT ![e] = b]
    BY <1>2, <1>5 DEF Push!Brought
  <2> HIDE DEF b
  <2>4. b # Absent
    BY <2>2, PushSizes
  <2> QED BY <1>1, <1>2, <1>3, <1>5, <2>2, <2>3, <2>4
<1> QED
  BY <1>4, <1>5

(* An aggregation finds its entry and counts one more for it. *)
LEMMA PushAggregateDoes ==
  ASSUME Push!Parameters, PushIInv, Push!Aggregate, NEW e, e = Current
  PROVE  /\ e \in Entry /\ AggregateReturns /\ phase = "aggregate" /\ samples[step] = e
         /\ UNCHANGED <<main, recorded, request>>
         /\ buffer[e] # Absent
         /\ buffer' \in [Entry -> Push!Block \cup {Absent}]
         /\ buffer'[e] # Absent /\ buffer'[e].data = buffer[e].data
         /\ buffer'[e].counter = (buffer[e].counter + 1) % CounterValues
         /\ \A x \in Entry : x # e => buffer'[x] = buffer[x]
<1>1. /\ e \in Entry /\ samples[step] = e /\ phase = "aggregate"
      /\ buffer \in [Entry -> Push!Block \cup {Absent}]
  BY PushTypes DEF Current, Push!Aggregate
<1>2. buffer[e] # Absent
  BY <1>1, PushTypes DEF PushIInv, OramProgress
<1> DEFINE b == Push!Aggregated(buffer[e])
<1>3. /\ AggregateReturns /\ UNCHANGED <<main, recorded, request>>
      /\ buffer' = [buffer EXCEPT ![e] = b]
  BY <1>2, PushLoop DEF Push!Aggregate
<1>4. /\ b \in Push!Block /\ b.data = buffer[e].data
      /\ b.counter = (buffer[e].counter + 1) % CounterValues
  <2>1. buffer[e] \in Push!Block
    BY <1>1, <1>2
  <2>2. /\ (buffer[e].gradient + 1) % ByteValues \in 0 .. ByteValues - 1
        /\ (buffer[e].counter + 1) % CounterValues \in 0 .. CounterValues - 1
    BY <2>1, PushSizes DEF Push!Block
  <2> QED BY <2>1, <2>2 DEF Push!Block, Push!Aggregated
<1> HIDE DEF b
<1>5. b # Absent
  BY <1>4, PushSizes
<1> QED
  BY <1>1, <1>2, <1>3, <1>4, <1>5

(* A record flushed: the entry is in the memory, wherever it was before.   *)
LEMMA PushFlushDoes ==
  ASSUME Push!Parameters, PushIInv, Push!Flush, NEW e, e = recorded[step]
  PROVE  /\ e \in Entry /\ phase = "flush" /\ step \in 1 .. SamplesPerRound
         /\ Len(recorded) = SamplesPerRound
         /\ main' \in [Entry -> Entry \cup {Absent}] /\ main'[e] = e
         /\ \A x \in Entry : x # e => main'[x] = main[x]
         /\ buffer' \in [Entry -> Push!Block \cup {Absent}] /\ buffer'[e] = Absent
         /\ \A x \in Entry : x # e => buffer'[x] = buffer[x]
         /\ request' \in [type : {"POP", "DUMMY_POP", "PUSH", "DUMMY_PUSH"}, data : Entry]
         /\ samples' = samples
         /\ \/ /\ step < SamplesPerRound /\ step' = step + 1 /\ phase' = "flush"
               /\ recorded' = recorded
            \/ step = SamplesPerRound /\ step' = 1 /\ phase' = "sample" /\ recorded' = <<>>
<1>1. /\ phase = "flush" /\ step \in 1 .. SamplesPerRound /\ Len(recorded) = SamplesPerRound
      /\ recorded \in Seq(Entry)
      /\ main \in [Entry -> Entry \cup {Absent}]
      /\ buffer \in [Entry -> Push!Block \cup {Absent}]
  BY PushTypes DEF Push!Flush, PushIInv, OramProgress, Call
<1>2. e \in Entry
  BY <1>1, ElementOfSeq
<1>3. /\ main' = IF buffer[e] = Absent THEN main ELSE [main EXCEPT ![e] = buffer[e].data]
      /\ buffer' = [buffer EXCEPT ![e] = Absent]
      /\ request' = [type |-> IF buffer[e] # Absent THEN "PUSH" ELSE "DUMMY_PUSH",
                     data |-> IF buffer[e] # Absent THEN buffer[e].data ELSE request.data]
  BY DEF Push!Flush, Push!Pushed
<1>4. (main[e] = e /\ buffer[e] = Absent) \/ (buffer[e] # Absent /\ buffer[e].data = e)
  BY <1>2 DEF PushIInv, Push!OneHome
<1>5. request' \in [type : {"POP", "DUMMY_POP", "PUSH", "DUMMY_PUSH"}, data : Entry]
  <2>1. request.data \in Entry
    BY DEF PushIInv, Push!TypeOK
  <2> QED BY <1>2, <1>3, <1>4, <2>1
<1>6. /\ samples' = samples
      /\ \/ /\ step < SamplesPerRound /\ step' = step + 1 /\ phase' = "flush"
            /\ recorded' = recorded
         \/ step = SamplesPerRound /\ step' = 1 /\ phase' = "sample" /\ recorded' = <<>>
  BY <1>1 DEF Push!Flush, Push!FlushGoesOn, Push!FlushReturns, Push!Cleared
<1>7. /\ main' \in [Entry -> Entry \cup {Absent}] /\ main'[e] = e
      /\ \A x \in Entry : x # e => main'[x] = main[x]
  BY <1>1, <1>2, <1>3, <1>4
<1>8. /\ buffer' \in [Entry -> Push!Block \cup {Absent}] /\ buffer'[e] = Absent
      /\ \A x \in Entry : x # e => buffer'[x] = buffer[x]
  BY <1>1, <1>2, <1>3
<1> QED
  BY <1>1, <1>2, <1>5, <1>6, <1>7, <1>8

-----------------------------------------------------------------------------
LEMMA PushInitGood ==
  ASSUME Push!Parameters, Push!Init
  PROVE  PushIInv
<1>1. /\ phase = "sample" /\ step = 1 /\ main = [e \in Entry |-> e]
      /\ buffer = [e \in Entry |-> Absent] /\ recorded = <<>>
      /\ \E e \in Entry : samples = [i \in Call |-> e]
      /\ \E e \in Entry : request = [type |-> "POP", data |-> e]
  BY PushLoop DEF Push!Init, Push!LoopInit, Push!Absents
<1>2. recorded \in Seq(Entry) /\ Len(recorded) = 0
  BY <1>1, EmptySeq
<1>3. Push!TypeOK
  BY <1>1, <1>2, PushLoop, PushSizes DEF Push!TypeOK, Push!Phases, Call
<1>4. Push!OneHome
  BY <1>1 DEF Push!OneHome
<1>5. OramProgress /\ PushAwaits /\ PushCounts
  BY <1>1, <1>2 DEF OramProgress, PushAwaits, PushCounts
<1> QED
  BY <1>3, <1>4, <1>5 DEF PushIInv

LEMMA PushSampleKeeps ==
  ASSUME Push!Parameters, PushIInv, Push!Sample
  PROVE  PushIInv'
<1>1. PICK e \in Entry : Draw(e)
  BY PushLoop DEF Push!Sample
<1>2. phase = "sample" /\ main' = main /\ buffer' = buffer /\ recorded' = recorded /\ request' = request
  BY DEF Push!Sample, Push!bufferVars
<1>3. /\ phase' \in {"sample", "download", "PermutationEnd"} /\ step' \in Call
      /\ (phase' = "download" => step' = 1) /\ samples' \in [Call -> Entry]
  BY <1>1, <1>2, PushTypes, PushSizes DEF Draw, Followed, Call
<1>4. Len(recorded) = 0
  BY <1>2 DEF PushIInv, OramProgress
<1>5. \A x \in Entry : buffer[x] = Absent
  BY <1>2, <1>4 DEF PushIInv, PushAwaits
<1>6. Push!TypeOK'
  BY <1>2, <1>3, PushLoop DEF PushIInv, Push!TypeOK, Push!Phases, Push!Exceptions, Call, Push!Call
<1>7. Push!OneHome'
  BY <1>2 DEF PushIInv, Push!OneHome
<1>8. OramProgress'
  BY <1>2, <1>3, <1>4 DEF OramProgress
<1>9. PushAwaits' /\ PushCounts'
  BY <1>2, <1>5 DEF PushAwaits, PushCounts
<1> QED
  BY <1>6, <1>7, <1>8, <1>9 DEF PushIInv

LEMMA PushDownloadKeeps ==
  ASSUME Push!Parameters, PushIInv, Push!Download
  PROVE  PushIInv'
<1> DEFINE e == Current
<1>1. /\ e \in Entry /\ DownloadReturns /\ phase = "download" /\ samples[step] = e
      /\ recorded' = Append(recorded, e)
      /\ main' \in [Entry -> Entry \cup {Absent}] /\ main'[e] = Absent
      /\ \A x \in Entry : x # e => main'[x] = main[x]
      /\ buffer' \in [Entry -> Push!Block \cup {Absent}]
      /\ buffer'[e] # Absent /\ buffer'[e].data = e
      /\ buffer[e] # Absent => buffer'[e] = buffer[e]
      /\ buffer[e] = Absent => buffer'[e].counter = 0
      /\ \A x \in Entry : x # e => buffer'[x] = buffer[x]
      /\ request' \in [type : {"POP", "DUMMY_POP", "PUSH", "DUMMY_PUSH"}, data : Entry]
  BY PushDownloadDoes
<1>2. /\ step \in Call /\ samples \in [Call -> Entry] /\ step \in Nat
      /\ recorded \in Seq(Entry) /\ Len(recorded) = step - 1
      /\ \A i \in 1 .. step - 1 : buffer[samples[i]] # Absent
  BY <1>1, PushTypes DEF PushIInv, OramProgress
<1>3. /\ step' \in Call /\ samples' \in [Call -> Entry]
      /\ \/ phase' = "download" /\ step' = step + 1 /\ samples' = samples
         \/ /\ phase' = "aggregate" /\ step' = 1 /\ step = SamplesPerRound
            /\ \A i \in Call : \E j \in Call : samples'[i] = samples[j]
  BY <1>1, <1>2, AfterDownload, PushSizes
<1> HIDE DEF e
<1>4. /\ recorded' \in Seq(Entry) /\ Len(recorded') = step
      /\ recorded'[step] = e /\ \A i \in 1 .. step - 1 : recorded'[i] = recorded[i]
  BY <1>1, <1>2, AppendProperties
<1>5. SamplesPerRound \in Nat /\ step <= SamplesPerRound /\ 1 <= step
  BY <1>2, PushSizes DEF Call
<1>6. Push!TypeOK'
  BY <1>1, <1>3, <1>4, <1>5, PushLoop DEF Push!TypeOK, Push!Phases, Push!Block, Call, Push!Call
<1>7. Push!OneHome'
  BY <1>1 DEF PushIInv, Push!OneHome
<1>8. OramProgress'
  <2>1. \A i \in 1 .. step : buffer'[samples[i]] # Absent
    <3>1. \A i \in 1 .. step : i \in Call /\ (i = step \/ i \in 1 .. step - 1)
      BY <1>2, <1>5 DEF Call
    <3>2. \A x \in Entry : x = e \/ buffer[x] # Absent => buffer'[x] # Absent
      BY <1>1
    <3> QED BY <1>1, <1>2, <3>1, <3>2
  <2>2. CASE phase' = "download"
    <3>1. step' - 1 = step /\ samples' = samples
      BY <1>2, <1>3, <2>2
    <3> QED BY <1>4, <2>1, <2>2, <3>1 DEF OramProgress
  <2>3. CASE phase' = "aggregate"
    <3>1. Call = 1 .. step /\ step = SamplesPerRound
          /\ \A i \in Call : \E j \in Call : samples'[i] = samples[j]
      BY <1>3, <2>3 DEF Call
    <3>2. \A i \in Call : buffer'[samples'[i]] # Absent
      BY <2>1, <3>1
    <3> QED BY <1>4, <2>3, <3>1, <3>2 DEF OramProgress, Call
  <2> QED BY <1>3, <2>2, <2>3
<1>9. PushAwaits'
  <2>1. \A x \in Entry : buffer'[x] # Absent => \E i \in 1 .. step : recorded'[i] = x
    <3>1. \A x \in Entry : buffer[x] # Absent => \E i \in 1 .. step - 1 : recorded[i] = x
      BY <1>2 DEF PushIInv, PushAwaits
    <3>2. step \in 1 .. step /\ \A i \in 1 .. step - 1 : i \in 1 .. step
      BY <1>2, <1>5
    <3> QED BY <1>1, <1>4, <3>1, <3>2
  <2> QED BY <1>3, <1>4, <2>1 DEF PushAwaits
<1>10. PushCounts'
  <2>1. \A x \in Entry : buffer'[x] # Absent => buffer'[x].counter = 0
    <3>1. \A x \in Entry : buffer[x] # Absent => buffer[x].counter = 0
      BY <1>1 DEF PushIInv, PushCounts
    <3> QED BY <1>1, <3>1
  <2>2. ASSUME NEW x \in Entry, phase' = "aggregate" PROVE Calls(step - 1, x)' = {}
    <3>1. step' - 1 = 0
      BY <1>3, <2>2
    <3> QED BY <3>1 DEF Calls
  <2> QED BY <2>1, <2>2, FS_EmptySet, PushSizes DEF PushCounts
<1> QED
  BY <1>6, <1>7, <1>8, <1>9, <1>10 DEF PushIInv

LEMMA PushAggregateKeeps ==
  ASSUME Push!Parameters, PushIInv, Push!Aggregate
  PROVE  PushIInv'
<1> DEFINE e == Current
<1>1. /\ e \in Entry /\ AggregateReturns /\ phase = "aggregate" /\ samples[step] = e
      /\ main' = main /\ recorded' = recorded /\ request' = request
      /\ buffer[e] # Absent
      /\ buffer' \in [Entry -> Push!Block \cup {Absent}]
      /\ buffer'[e] # Absent /\ buffer'[e].data = buffer[e].data
      /\ buffer'[e].counter = (buffer[e].counter + 1) % CounterValues
      /\ \A x \in Entry : x # e => buffer'[x] = buffer[x]
  BY PushAggregateDoes
<1>2. /\ step \in Call /\ samples \in [Call -> Entry] /\ step \in Nat
      /\ Len(recorded) = SamplesPerRound
      /\ \A i \in Call : buffer[samples[i]] # Absent
  BY <1>1, PushTypes DEF PushIInv, OramProgress
<1>3. /\ samples' = samples /\ step' \in Call
      /\ \/ phase' = "aggregate" /\ step' = step + 1
         \/ phase' = "flush" /\ step' = 1
  BY <1>1, <1>2, PushSizes DEF AggregateReturns, Followed, Call
<1> HIDE DEF e
<1>4. \A x \in Entry : buffer'[x] # Absent <=> buffer[x] # Absent
  BY <1>1
<1>5. Push!TypeOK'
  BY <1>1, <1>3, PushLoop DEF PushIInv, Push!TypeOK, Push!Phases, Push!Block, Call, Push!Call
<1>6. Push!OneHome'
  BY <1>1 DEF PushIInv, Push!OneHome
<1>7. OramProgress'
  <2>1. \A i \in Call : buffer'[samples[i]] # Absent
    BY <1>2, <1>4
  <2> QED BY <1>1, <1>2, <1>3, <2>1 DEF OramProgress, Call
<1>8. PushAwaits'
  <2>1. \A x \in Entry : buffer'[x] # Absent => \E i \in 1 .. Len(recorded) : recorded[i] = x
    BY <1>4 DEF PushIInv, PushAwaits
  <2>2. phase' = "flush" => \A i \in 1 .. Len(recorded) : step' <= i
    BY <1>3
  <2> QED BY <1>1, <2>1, <2>2 DEF PushAwaits
<1>9. PushCounts'
  <2> SUFFICES ASSUME NEW x \in Entry, buffer'[x] # Absent, phase' = "aggregate"
      PROVE  buffer'[x].counter = Cardinality(Calls(step, x)) % CounterValues
    <3>1. phase' = "aggregate" => \A x \in Entry : Calls(step - 1, x)' = Calls(step, x)
      <4>1. phase' = "aggregate" => step' - 1 = step
        BY <1>2, <1>3
      <4> QED BY <1>3, <4>1 DEF Calls
    <3> QED BY <1>3, <3>1 DEF PushCounts
  <2> DEFINE n == Cardinality(Calls(step - 1, x))
  <2>1. /\ n \in Nat
        /\ Cardinality(Calls(step, x)) = n + (IF samples[step] = x THEN 1 ELSE 0)
    <3>1. step - 1 \in Nat /\ (step - 1) + 1 = step
      BY <1>2, PushSizes DEF Call
    <3> QED BY <3>1, CallsFacts
  <2>2. buffer[x].counter = n % CounterValues
    BY <1>1, <1>4 DEF PushIInv, PushCounts
  <2> HIDE DEF n
  <2>3. CASE x = e
    <3>1. ((n % CounterValues) + 1) % CounterValues = (n + 1) % CounterValues
      BY <2>1, NextRemainder, PushSizes
    <3> QED BY <1>1, <2>1, <2>2, <2>3, <3>1
  <2>4. CASE x # e
    BY <1>1, <2>1, <2>2, <2>4
  <2> QED BY <2>3, <2>4
<1> QED
  BY <1>5, <1>6, <1>7, <1>8, <1>9 DEF PushIInv

LEMMA PushFlushKeeps ==
  ASSUME Push!Parameters, PushIInv, Push!Flush
  PROVE  PushIInv'
<1> DEFINE e == recorded[step]
<1>1. /\ e \in Entry /\ phase = "flush" /\ step \in 1 .. SamplesPerRound
      /\ Len(recorded) = SamplesPerRound
      /\ main' \in [Entry -> Entry \cup {Absent}] /\ main'[e] = e
      /\ \A x \in Entry : x # e => main'[x] = main[x]
      /\ buffer' \in [Entry -> Push!Block \cup {Absent}] /\ buffer'[e] = Absent
      /\ \A x \in Entry : x # e => buffer'[x] = buffer[x]
      /\ request' \in [type : {"POP", "DUMMY_POP", "PUSH", "DUMMY_PUSH"}, data : Entry]
      /\ samples' = samples
      /\ \/ /\ step < SamplesPerRound /\ step' = step + 1 /\ phase' = "flush"
            /\ recorded' = recorded
         \/ step = SamplesPerRound /\ step' = 1 /\ phase' = "sample" /\ recorded' = <<>>
  BY PushFlushDoes
<1>2. /\ samples \in [Call -> Entry] /\ recorded \in Seq(Entry)
      /\ \A x \in Entry : buffer[x] # Absent =>
            \E i \in 1 .. SamplesPerRound : recorded[i] = x /\ step <= i
  BY <1>1, PushTypes DEF PushIInv, PushAwaits
<1>3. SamplesPerRound \in Nat \ {0} /\ step' \in Call
  BY <1>1, PushSizes DEF Call
<1>4. /\ recorded' \in Seq(Entry) /\ Len(recorded') \in {0, SamplesPerRound}
      /\ phase' = "sample" => Len(recorded') = 0
      /\ phase' = "flush" => Len(recorded') = SamplesPerRound
  <2>1. CASE phase' = "flush" /\ recorded' = recorded
    BY <1>1, <1>2, <2>1
  <2>2. CASE phase' = "sample" /\ recorded' = <<>>
    <3>1. recorded' \in Seq(Entry) /\ Len(recorded') = 0
      BY <2>2, EmptySeq
    <3> QED BY <2>2, <3>1
  <2> QED BY <1>1, <2>1, <2>2
<1>5. ASSUME NEW x \in Entry, buffer'[x] # Absent
      PROVE  phase' = "flush" /\ \E i \in 1 .. SamplesPerRound : recorded[i] = x /\ step' <= i
  <2>1. x # recorded[step] /\ buffer[x] # Absent
    BY <1>1, <1>5
  <2>2. PICK i \in 1 .. SamplesPerRound : recorded[i] = x /\ step <= i
    BY <1>2, <2>1
  <2>3. i # step
    BY <2>1, <2>2
  <2>4. step + 1 <= i /\ step # SamplesPerRound
    BY <1>1, <1>3, <2>2, <2>3
  <2> QED BY <1>1, <2>2, <2>4
<1> HIDE DEF e
<1>6. Push!TypeOK'
  BY <1>1, <1>2, <1>3, <1>4, PushLoop DEF Push!TypeOK, Push!Phases, Push!Block, Call, Push!Call
<1>7. Push!OneHome'
  BY <1>1 DEF PushIInv, Push!OneHome
<1>8. OramProgress'
  BY <1>1, <1>4 DEF OramProgress
<1>9. PushAwaits'
  <2>1. phase' = "flush" => recorded' = recorded
    BY <1>1
  <2> QED BY <1>4, <1>5, <2>1 DEF PushAwaits
<1>10. PushCounts'
  BY <1>5 DEF PushCounts
<1> QED
  BY <1>6, <1>7, <1>8, <1>9, <1>10 DEF PushIInv

LEMMA PushStutterKeeps ==
  ASSUME PushIInv, UNCHANGED Push!vars
  PROVE  PushIInv'
<1>1. /\ phase' = phase /\ step' = step /\ samples' = samples /\ main' = main
      /\ buffer' = buffer /\ recorded' = recorded /\ request' = request
  BY DEF Push!vars
<1>2. Push!TypeOK' /\ Push!OneHome'
  BY <1>1 DEF PushIInv, Push!TypeOK, Push!OneHome, Push!Block, Push!Call
<1>3. OramProgress' /\ PushAwaits'
  BY <1>1 DEF PushIInv, OramProgress, PushAwaits, Call
<1>4. PushCounts'
  BY <1>1 DEF PushIInv, PushCounts, Calls
<1> QED
  BY <1>2, <1>3, <1>4 DEF PushIInv

LEMMA PushInvariance ==
  ASSUME Push!Parameters
  PROVE  Push!Spec => []PushIInv
<1>1. Push!Init => PushIInv
  BY PushInitGood
<1>2. PushIInv /\ [Push!Next]_(Push!vars) => PushIInv'
  <2> SUFFICES ASSUME PushIInv, [Push!Next]_(Push!vars) PROVE PushIInv'
    OBVIOUS
  <2>1. CASE Push!Sample
    BY <2>1, PushSampleKeeps
  <2>2. CASE Push!Download
    BY <2>2, PushDownloadKeeps
  <2>3. CASE Push!Aggregate
    BY <2>3, PushAggregateKeeps
  <2>4. CASE Push!Flush
    BY <2>4, PushFlushKeeps
  <2>5. CASE UNCHANGED Push!vars
    BY <2>5, PushStutterKeeps
  <2> QED BY <2>1, <2>2, <2>3, <2>4, <2>5 DEF Push!Next
<1> QED
  BY <1>1, <1>2, PTL DEF Push!Spec

-----------------------------------------------------------------------------
(* What a round sees of the buffer.                                         *)
PushHeld == { e \in Entry : buffer[e] # Absent }

PushSums == [e \in Entry |-> IF buffer[e] = Absent THEN 0 ELSE buffer[e].counter]

LEMMA PushInitRefines ==
  ASSUME Push!Parameters, Push!Init
  PROVE  Push!Rounds!Init
<1>1. Push!LoopInit /\ \A e \in Entry : buffer[e] = Absent
  BY DEF Push!Init, Push!Absents
<1>2. PushHeld = {} /\ PushSums = [e \in Entry |-> 0]
  BY <1>1 DEF PushHeld, PushSums
<1> QED
  BY <1>1, <1>2 DEF Push!Rounds!Init, Push!Rounds!LoopInit, Push!Rounds!Call,
       Push!LoopInit, Push!Call, PushHeld, PushSums

LEMMA PushSampleRefines ==
  ASSUME Push!Parameters, PushIInv, Push!Sample
  PROVE  Push!Rounds!Sample
<1>1. phase = "sample" /\ (\E e \in Entry : Push!Rounds!Draw(e)) /\ buffer' = buffer
  BY PushLoop DEF Push!Sample, Push!bufferVars
<1>2. PushHeld' = PushHeld /\ PushSums' = PushSums
  BY <1>1 DEF PushHeld, PushSums
<1> QED
  BY <1>1, <1>2 DEF Push!Rounds!Sample, PushHeld, PushSums

LEMMA PushDownloadRefines ==
  ASSUME Push!Parameters, PushIInv, Push!Download
  PROVE  Push!Rounds!Download
<1> DEFINE e == Current
<1>1. /\ e \in Entry /\ phase = "download" /\ DownloadReturns
      /\ buffer'[e] # Absent
      /\ buffer[e] # Absent => buffer'[e] = buffer[e]
      /\ buffer[e] = Absent => buffer'[e].counter = 0
      /\ \A x \in Entry : x # e => buffer'[x] = buffer[x]
  BY PushDownloadDoes
<1>2. ~UsesReserve /\ Push!Rounds!Current = e /\ Push!Rounds!DownloadReturns
  BY <1>1, PushSizes, PushLoop
<1> HIDE DEF e
<1>3. PushHeld' = PushHeld \cup {e} /\ PushSums' = PushSums
  BY <1>1 DEF PushHeld, PushSums
<1> QED
  BY <1>1, <1>2, <1>3 DEF Push!Rounds!Download, PushHeld, PushSums

LEMMA PushAggregateRefines ==
  ASSUME Push!Parameters, PushIInv, Push!Aggregate
  PROVE  Push!Rounds!Aggregate
<1> DEFINE e == Current
<1>1. /\ e \in Entry /\ phase = "aggregate" /\ AggregateReturns
      /\ buffer[e] # Absent /\ buffer'[e] # Absent
      /\ buffer'[e].counter = (buffer[e].counter + 1) % CounterValues
      /\ \A x \in Entry : x # e => buffer'[x] = buffer[x]
  BY PushAggregateDoes
<1>2. Push!Rounds!Current = e /\ Push!Rounds!AggregateReturns
  BY <1>1, PushLoop
<1> HIDE DEF e
<1>3. /\ PushHeld' = PushHeld /\ e \in PushHeld
      /\ PushSums' = [PushSums EXCEPT ![e] = (@ + 1) % CounterValues]
  BY <1>1 DEF PushHeld, PushSums
<1> QED
  BY <1>1, <1>2, <1>3 DEF Push!Rounds!Aggregate, PushHeld, PushSums

LEMMA PushFlushRefines ==
  ASSUME Push!Parameters, PushIInv, Push!Flush
  PROVE  Push!Rounds!Flush
<1> DEFINE e == recorded[step]
           back == PushHeld \cap {e}
<1>1. /\ e \in Entry /\ phase = "flush" /\ buffer'[e] = Absent
      /\ \A x \in Entry : x # e => buffer'[x] = buffer[x]
      /\ samples' = samples
      /\ \/ step < SamplesPerRound /\ step' = step + 1 /\ phase' = "flush"
         \/ step = SamplesPerRound /\ step' = 1 /\ phase' = "sample" /\ recorded' = <<>>
  BY PushFlushDoes
<1>2. phase' = "sample" => PushHeld' = {}
  <2>1. PushIInv'
    BY PushFlushKeeps
  <2>2. ASSUME phase' = "sample" PROVE Len(recorded') = 0
    BY <2>1, <2>2 DEF PushIInv, OramProgress
  <2> QED BY <2>1, <2>2 DEF PushIInv, PushAwaits, PushHeld
<1> HIDE DEF e
<1>3. /\ PushHeld' = PushHeld \ back /\ back \in SUBSET PushHeld
      /\ PushSums' = [x \in Entry |-> IF x \in back THEN 0 ELSE PushSums[x]]
  BY <1>1 DEF PushHeld, PushSums
<1>4. Push!Rounds!FlushGoesOn \/ (Push!Rounds!FlushReturns /\ PushHeld' = {})
  BY <1>1, <1>2 DEF Push!Rounds!FlushGoesOn, Push!Rounds!FlushReturns
<1> HIDE DEF back
<1> QED
  BY <1>1, <1>3, <1>4 DEF Push!Rounds!Flush, Push!Rounds!SumsCleared, PushHeld, PushSums

-----------------------------------------------------------------------------
(* Every variable of OramBuffer keeps its type.                     *)
THEOREM PushTypeCorrect ==
  ASSUME Push!Parameters
  PROVE  Push!Spec => []Push!TypeOK
<1>1. PushIInv => Push!TypeOK
  BY DEF PushIInv
<1> QED
  BY <1>1, PushInvariance, PTL

(* An entry is in one of the two ORAMs, with its own data: the second record *)
(* of an entry finds nothing to push, and the data that an earlier request   *)
(* left in main_oram_request never reaches an address.                       *)
THEOREM EntriesAreInOneOram ==
  ASSUME Push!Parameters
  PROVE  Push!Spec => []Push!OneHome
<1>1. PushIInv => Push!OneHome
  BY DEF PushIInv
<1> QED
  BY <1>1, PushInvariance, PTL

(* No UPDATE of the aggregation meets an entry that is not in the buffer.   *)
THEOREM PushNeverThrows ==
  ASSUME Push!Parameters
  PROVE  Push!Spec => []NeverThrows
<1>1. PushIInv => NeverThrows
  BY DEF PushIInv, OramProgress, NeverThrows
<1> QED
  BY <1>1, PushInvariance, PTL

(* OramBuffer implements TrainingRounds: the records of the round,  *)
(* popped one after another, empty the buffer.                              *)
THEOREM PushImplementsRounds ==
  ASSUME Push!Parameters
  PROVE  Push!Spec => Push!ImplementsRounds
<1>1. Push!Init => Push!Rounds!Init
  BY PushInitRefines
<1>2. PushIInv /\ [Push!Next]_(Push!vars) => [Push!Rounds!Next]_(Push!Rounds!vars)
  <2> SUFFICES ASSUME PushIInv, [Push!Next]_(Push!vars)
      PROVE  [Push!Rounds!Next]_(Push!Rounds!vars)
    OBVIOUS
  <2>1. CASE Push!Sample
    BY <2>1, PushSampleRefines DEF Push!Rounds!Next
  <2>2. CASE Push!Download
    BY <2>2, PushDownloadRefines DEF Push!Rounds!Next
  <2>3. CASE Push!Aggregate
    BY <2>3, PushAggregateRefines DEF Push!Rounds!Next
  <2>4. CASE Push!Flush
    BY <2>4, PushFlushRefines DEF Push!Rounds!Next
  <2>5. CASE UNCHANGED Push!vars
    <3>1. buffer' = buffer /\ phase' = phase /\ step' = step /\ samples' = samples
      BY <2>5 DEF Push!vars
    <3>2. PushHeld' = PushHeld /\ PushSums' = PushSums
      BY <3>1 DEF PushHeld, PushSums
    <3> QED BY <3>1, <3>2 DEF Push!Rounds!vars, PushHeld, PushSums
  <2> QED BY <2>1, <2>2, <2>3, <2>4, <2>5 DEF Push!Next
<1> QED
  BY <1>1, <1>2, PushInvariance, PTL DEF Push!Spec, Push!ImplementsRounds, Push!Rounds!Spec

(* During the aggregation the counter in the buffer ORAM has counted the    *)
(* calls that were made for its entry.                                      *)
THEOREM PushCountsEveryGradient ==
  ASSUME Push!Parameters
  PROVE  Push!Spec => []Push!Rounds!GradientsCounted
<1>1. PushIInv => Push!Rounds!GradientsCounted
  <2> SUFFICES ASSUME PushIInv, phase = "aggregate", NEW x \in PushHeld
      PROVE  PushSums[x]
               = Push!Rounds!Cardinality({ i \in 1 .. step - 1 : samples[i] = x }) % CounterValues
    BY DEF Push!Rounds!GradientsCounted, PushHeld, PushSums
  <2>1. x \in Entry /\ buffer[x] # Absent /\ PushSums[x] = buffer[x].counter
    BY DEF PushHeld, PushSums
  <2>2. buffer[x].counter = Cardinality(Calls(step - 1, x)) % CounterValues
    BY <2>1 DEF PushIInv, PushCounts
  <2> QED BY <2>1, <2>2, PushCardinality DEF Calls
<1> QED
  BY <1>1, PushInvariance, PTL

-----------------------------------------------------------------------------
(* Powers of two, counted as subsets.                                       *)
LEMMA PowerIsSubsets ==
  ASSUME NEW k \in Nat
  PROVE  /\ IsFiniteSet(SUBSET (1 .. k)) /\ Cardinality(SUBSET (1 .. k)) = 2 ^ k
         /\ 2 ^ k \in Nat \ {0}
<1>1. IsFiniteSet(1 .. k) /\ Cardinality(1 .. k) = k
  BY FS_Interval
<1>2. IsFiniteSet(SUBSET (1 .. k)) /\ Cardinality(SUBSET (1 .. k)) = 2 ^ k
  BY <1>1, FS_SUBSET
<1>3. Cardinality(SUBSET (1 .. k)) \in Nat /\ Cardinality(SUBSET (1 .. k)) # 0
  <2>1. {} \in SUBSET (1 .. k)
    OBVIOUS
  <2> QED BY <1>2, <2>1, FS_EmptySet, FS_CardinalityType
<1> QED
  BY <1>2, <1>3

LEMMA PowersGrow ==
  ASSUME NEW k \in Nat, NEW l \in Nat, k <= l
  PROVE  2 ^ k <= 2 ^ l
<1> DEFINE A == SUBSET (1 .. k)
           U == SUBSET (1 .. l)
<1>1. A \subseteq U
  <2>1. 1 .. k \subseteq 1 .. l
    OBVIOUS
  <2> QED BY <2>1
<1>2. Cardinality(A) = 2 ^ k /\ IsFiniteSet(U) /\ Cardinality(U) = 2 ^ l
  BY PowerIsSubsets
<1> HIDE DEF A, U
<1>3. Cardinality(A) <= Cardinality(U)
  BY <1>1, <1>2, FS_Subset
<1> QED
  BY <1>2, <1>3

LEMMA PowersDouble ==
  ASSUME NEW k \in Nat
  PROVE  2 ^ k + 2 ^ k <= 2 ^ (k + 1)
<1> DEFINE A == SUBSET (1 .. k)
           U == SUBSET (1 .. k + 1)
           B == { a \in U : k + 1 \in a }
           f == [a \in A |-> a \cup {k + 1}]
<1>1. A \subseteq U /\ B \subseteq U
  <2>1. 1 .. k \subseteq 1 .. k + 1
    OBVIOUS
  <2> QED BY <2>1
<1>2. \A a \in A : k + 1 \notin a /\ a \cup {k + 1} \in B
  <2>1. k + 1 \in 1 .. k + 1 /\ k + 1 \notin 1 .. k
    OBVIOUS
  <2> QED BY <1>1, <2>1
<1>3. f \in [A -> B]
  BY <1>2
<1>4. \A a, b \in A : f[a] = f[b] => a = b
  <2> SUFFICES ASSUME NEW a \in A, NEW b \in A, a \cup {k + 1} = b \cup {k + 1}
      PROVE  a = b
    OBVIOUS
  <2>1. k + 1 \notin a /\ k + 1 \notin b
    BY <1>2
  <2> HIDE DEF A
  <2> QED BY <2>1
<1>5. f \in Injection(A, B)
  BY <1>3, <1>4 DEF Injection, IsInjective
<1>6. /\ IsFiniteSet(A) /\ Cardinality(A) = 2 ^ k
      /\ IsFiniteSet(U) /\ Cardinality(U) = 2 ^ (k + 1)
  <2>1. k + 1 \in Nat
    OBVIOUS
  <2> QED BY <2>1, PowerIsSubsets
<1>7. A \cap B = {} /\ A \cup B \subseteq U
  BY <1>1, <1>2
<1> HIDE DEF A, B, U, f
<1>8. IsFiniteSet(B) /\ Cardinality(A) <= Cardinality(B) /\ Cardinality(B) \in Nat
  BY <1>1, <1>5, <1>6, FS_Subset, FS_Injection, FS_CardinalityType
<1>9. Cardinality(A \cup B) = Cardinality(A) + Cardinality(B) /\ Cardinality(A \cup B) <= Cardinality(U)
  <2>1. Cardinality({}) = 0
    BY FS_EmptySet
  <2>2. Cardinality(A \cup B) = Cardinality(A) + Cardinality(B) - Cardinality(A \cap B)
    BY <1>6, <1>8, FS_Union
  <2>3. Cardinality(A \cup B) <= Cardinality(U)
    BY <1>6, <1>7, FS_Subset
  <2>4. Cardinality(A) \in Nat
    BY <1>6, FS_CardinalityType
  <2> QED BY <1>7, <1>8, <2>1, <2>2, <2>3, <2>4
<1>10. 2 ^ k \in Nat /\ 2 ^ (k + 1) \in Nat
  <2>1. k + 1 \in Nat
    OBVIOUS
  <2> QED BY <2>1, PowerIsSubsets
<1> QED
  BY <1>6, <1>8, <1>9, <1>10

LEMMA BelowPower ==
  ASSUME NEW k \in Nat
  PROVE  k < 2 ^ k
<1> DEFINE U == SUBSET (1 .. k)
           f == [i \in 0 .. k |-> 1 .. i]
<1>1. f \in [0 .. k -> U]
  OBVIOUS
<1>2. \A i, j \in 0 .. k : f[i] = f[j] => i = j
  <2> SUFFICES ASSUME NEW i \in 0 .. k, NEW j \in 0 .. k, 1 .. i = 1 .. j, i < j PROVE FALSE
    OBVIOUS
  <2>1. j \in 1 .. j /\ j \notin 1 .. i
    OBVIOUS
  <2> QED BY <2>1
<1>3. f \in Injection(0 .. k, U)
  BY <1>1, <1>2 DEF Injection, IsInjective
<1>4. IsFiniteSet(U) /\ Cardinality(U) = 2 ^ k /\ Cardinality(0 .. k) = k + 1
  <2>1. Cardinality(0 .. k) = IF 0 > k THEN 0 ELSE k - 0 + 1
    <3>1. 0 \in Int /\ k \in Int
      OBVIOUS
    <3> QED BY <3>1, FS_Interval
  <2>2. Cardinality(0 .. k) = k + 1
    BY <2>1
  <2>3. IsFiniteSet(U) /\ Cardinality(U) = 2 ^ k
    BY PowerIsSubsets
  <2> QED BY <2>2, <2>3
<1> HIDE DEF f, U
<1>5. Cardinality(0 .. k) <= Cardinality(U)
  BY <1>3, <1>4, FS_Injection
<1> QED
  BY <1>4, <1>5, PowerIsSubsets

(* num_bits: the bits a number needs, and no fewer. *)
LEMMA NumBitsEnough ==
  ASSUME NEW n \in Nat
  PROVE  Three!NumBits(n) \in Nat /\ n < 2 ^ Three!NumBits(n)
<1>1. CASE n = 0
  <2>1. Three!NumBits(n) = 0
    BY <1>1 DEF Three!NumBits
  <2> QED BY <1>1, <2>1, BelowPower
<1>2. CASE n # 0
  <2> DEFINE S == { k \in Nat : n < 2 ^ k }
             k == CHOOSE i \in S : \A j \in S : i <= j
  <2>1. S \subseteq Nat /\ n \in S
    BY BelowPower
  <2>2. k \in S /\ \A j \in S : k <= j
    <3> HIDE DEF S
    <3>1. \E i \in S : \A j \in S : i <= j
      BY <2>1, LeastOfNat
    <3> QED BY <3>1
  <2>3. k \in Nat /\ n < 2 ^ k /\ k <= n
    BY <2>1, <2>2
  <2>4. ASSUME NEW j \in Nat, j < k PROVE 2 ^ j <= n
    <3> HIDE DEF k
    <3>1. j \notin S
      BY <2>2, <2>3, <2>4
    <3>2. ~(n < 2 ^ j) /\ 2 ^ j \in Nat
      BY <3>1, PowerIsSubsets
    <3> HIDE DEF S
    <3> QED BY <3>2
  <2> HIDE DEF k, S
  <2>5. k # 0
    <3>1. 2 ^ 0 = 1 /\ n >= 1
      BY <1>2
    <3>2. k = 0 => n < 2 ^ 0
      BY <2>3
    <3> QED BY <3>1, <3>2
  <2>6. k \in 1 .. n /\ 2 ^ (k - 1) <= n /\ n < 2 ^ k
    BY <2>3, <2>4, <2>5
  <2>7. Three!NumBits(n) = CHOOSE i \in 1 .. n : 2 ^ (i - 1) <= n /\ n < 2 ^ i
    BY <1>2 DEF Three!NumBits
  <2> QED BY <2>6, <2>7
<1> QED
  BY <1>1, <1>2

LEMMA Quotient ==
  ASSUME NEW x \in Int, NEW b \in Nat \ {0}
  PROVE  (x \div b) \in Int /\ b * (x \div b) \in Int /\ b * (x \div b) + b >= x + 1
<1> DEFINE q == x \div b
           p == b * q
<1>1. q \in Int /\ x % b \in 0 .. b - 1 /\ x = p + (x % b)
  OBVIOUS
<1>2. p \in Int
  BY <1>1, Z3
<1> HIDE DEF p
<1>3. p + b >= x + 1
  BY <1>1, <1>2
<1> QED
  BY <1>1, <1>2, <1>3 DEF p

(* The bytes of an index leave a bit above the paths, for both ORAMs. *)
LEMMA IndexHasRoom ==
  ASSUME Three!OramsParameters, NEW paths \in {NumMemoryPaths, NumBufferPaths}
  PROVE  /\ Three!NumBits(paths - 1) \in Nat /\ paths - 1 \in Nat
         /\ paths - 1 < 2 ^ Three!NumBits(paths - 1)
         /\ BitsPerByte * Three!PathIndexSize(NumMemoryPaths) \in Nat
         /\ Three!NumBits(paths - 1) + 1 <= BitsPerByte * Three!PathIndexSize(NumMemoryPaths)
<1> DEFINE bits == Three!NumBits(paths - 1)
           small == Three!PathIndexSize(paths)
           size == Three!PathIndexSize(NumMemoryPaths)
           memoryBits == Three!NumBits(NumMemoryPaths - 1)
<1>1. /\ paths - 1 \in Nat /\ NumMemoryPaths - 1 \in Nat
      /\ BitsPerByte \in Nat \ {0} /\ (small <= size \/ small = size)
  <2>1. /\ {NumMemoryPaths, NumBufferPaths, BitsPerByte} \subseteq Nat \ {0}
        /\ Three!PathIndexSize(NumBufferPaths) <= size
    BY DEF Three!OramsParameters
  <2> HIDE DEF size
  <2>2. small <= size \/ small = size
    BY <2>1 DEF size
  <2> QED BY <2>1, <2>2
<1>2. bits \in Nat /\ paths - 1 < 2 ^ bits /\ memoryBits \in Nat
  BY <1>1, NumBitsEnough
<1>3. /\ small \in Int /\ BitsPerByte * small \in Int
      /\ BitsPerByte * small + BitsPerByte >= bits + BitsPerByte + 1
  <2>1. bits + BitsPerByte \in Int /\ small = (bits + BitsPerByte) \div BitsPerByte
    BY <1>1, <1>2 DEF Three!PathIndexSize
  <2> HIDE DEF bits, small
  <2> QED BY <1>1, <2>1, Quotient
<1>4. size \in Int /\ BitsPerByte * size \in Int
  <2>1. memoryBits + BitsPerByte \in Int /\ size = (memoryBits + BitsPerByte) \div BitsPerByte
    BY <1>1, <1>2 DEF Three!PathIndexSize
  <2> HIDE DEF memoryBits, size
  <2> QED BY <1>1, <2>1, Quotient
<1> HIDE DEF bits, small, size, memoryBits
<1>5. BitsPerByte * small <= BitsPerByte * size
  <2>1. small <= size
    BY <1>1, <1>3, <1>4
  <2> QED BY <1>1, <1>3, <1>4, <2>1, Z3
<1>6. bits + 1 <= BitsPerByte * size
  <2> DEFINE y == BitsPerByte * small
             z == BitsPerByte * size
  <2>1. y \in Int /\ z \in Int /\ y <= z /\ y + BitsPerByte >= bits + BitsPerByte + 1
    BY <1>3, <1>4, <1>5
  <2> HIDE DEF y, z
  <2>2. bits + 1 <= z
    BY <1>1, <1>2, <2>1
  <2> QED BY <2>2 DEF z
<1>7. BitsPerByte * size \in Nat
  BY <1>2, <1>4, <1>6
<1> QED
  BY <1>1, <1>2, <1>6, <1>7 DEF bits, size

(* The in_buffer bit is above every path of either ORAM, and is stored.     *)
LEMMA MaskFits ==
  ASSUME Three!OramsParameters
  PROVE  \E size \in Nat :
           /\ Three!InBufferMask \in Nat \ {0}
           /\ NumMemoryPaths \in Nat /\ NumMemoryPaths <= Three!InBufferMask
           /\ NumBufferPaths \in Nat /\ NumBufferPaths <= Three!InBufferMask
           /\ Three!InBufferMask + Three!InBufferMask <= size
           /\ Three!Index = 0 .. size - 1
           /\ \A index : Three!Stored(index) = index % size
<1> DEFINE P == IF NumMemoryPaths > NumBufferPaths THEN NumMemoryPaths ELSE NumBufferPaths
           bits == Three!NumBits(P - 1)
           room == BitsPerByte * Three!PathIndexSize(NumMemoryPaths)
<1>1. NumMemoryPaths \in Nat \ {0} /\ NumBufferPaths \in Nat \ {0}
  BY DEF Three!OramsParameters
<1>2. P \in {NumMemoryPaths, NumBufferPaths} /\ P \in Nat /\ NumMemoryPaths <= P /\ NumBufferPaths <= P
  BY <1>1
<1>3. bits \in Nat /\ P - 1 < 2 ^ bits /\ room \in Nat /\ bits + 1 <= room
  BY <1>2, IndexHasRoom
<1>4. Three!InBufferMask = 2 ^ bits /\ Three!Index = 0 .. 2 ^ room - 1
      /\ \A index : Three!Stored(index) = index % 2 ^ room
  BY DEF Three!InBufferMask, Three!Index, Three!Stored
<1> HIDE DEF P, bits, room
<1>5. /\ 2 ^ bits \in Nat \ {0} /\ 2 ^ room \in Nat
      /\ 2 ^ bits + 2 ^ bits <= 2 ^ (bits + 1) /\ 2 ^ (bits + 1) <= 2 ^ room
      /\ 2 ^ (bits + 1) \in Nat
  <2>1. bits + 1 \in Nat
    BY <1>3
  <2> QED BY <1>3, <2>1, PowerIsSubsets, PowersDouble, PowersGrow
<1>6. NumMemoryPaths <= 2 ^ bits /\ NumBufferPaths <= 2 ^ bits
  BY <1>1, <1>2, <1>3, <1>5
<1>7. 2 ^ bits + 2 ^ bits <= 2 ^ room
  BY <1>5
<1> QED
  BY <1>1, <1>4, <1>5, <1>6, <1>7

(* What is read back of a path with or without the bit.                     *)
LEMMA MaskTells ==
  ASSUME Three!OramsParameters, NEW path \in Three!MemoryPath \cup Three!BufferPath
  PROVE  /\ path \in Three!Index /\ Three!Stored(path) = path
         /\ ~Three!HasMask(path) /\ Three!WithoutMask(path) = path
         /\ Three!Stored(Three!WithMask(path)) \in Three!Index
         /\ Three!HasMask(Three!Stored(Three!WithMask(path)))
         /\ Three!WithoutMask(Three!Stored(Three!WithMask(path))) = path
<1> DEFINE mask == Three!InBufferMask
<1>1. PICK size \in Nat :
        /\ mask \in Nat \ {0}
        /\ NumMemoryPaths \in Nat /\ NumMemoryPaths <= mask
        /\ NumBufferPaths \in Nat /\ NumBufferPaths <= mask
        /\ mask + mask <= size
        /\ Three!Index = 0 .. size - 1
        /\ \A index : Three!Stored(index) = index % size
  BY MaskFits
<1>2. path \in Nat /\ path < mask
  BY <1>1 DEF Three!MemoryPath, Three!BufferPath
<1>3. /\ \A x : Three!HasMask(x) <=> (x \div mask) % 2 = 1
      /\ \A x : Three!WithMask(x) = IF Three!HasMask(x) THEN x ELSE x + mask
      /\ \A x : Three!WithoutMask(x) = IF Three!HasMask(x) THEN x - mask ELSE x
  BY DEF Three!HasMask, Three!WithMask, Three!WithoutMask
<1> HIDE DEF mask
<1>4. path \div mask = 0 /\ (path + mask) \div mask = 1
  <2>1. mask \in Nat \ {0} /\ path \in 0 .. mask - 1 /\ 0 \in Int /\ 1 \in Int
    BY <1>1, <1>2
  <2>2. (mask * 0 + path) \div mask = 0 /\ (mask * 1 + path) \div mask = 1
    BY <2>1, RemainderUnique
  <2>3. mask * 0 + path = path /\ mask * 1 + path = path + mask
    BY <2>1
  <2> QED BY <2>2, <2>3
<1>5. path % size = path /\ (path + mask) % size = path + mask
  <2>1. size \in Nat \ {0} /\ path \in 0 .. size - 1 /\ path + mask \in 0 .. size - 1 /\ 0 \in Int
    BY <1>1, <1>2
  <2>2. (size * 0 + path) % size = path /\ (size * 0 + (path + mask)) % size = path + mask
    BY <2>1, RemainderUnique
  <2>3. size * 0 + path = path /\ size * 0 + (path + mask) = path + mask
    BY <2>1
  <2> QED BY <2>2, <2>3
<1>6. ~Three!HasMask(path) /\ Three!HasMask(path + mask)
  <2>1. 0 % 2 = 0 /\ 1 % 2 = 1
    OBVIOUS
  <2> QED BY <1>3, <1>4, <2>1
<1>7. Three!Stored(path) = path /\ Three!Stored(Three!WithMask(path)) = path + mask
  BY <1>1, <1>3, <1>5, <1>6
<1>8. Three!WithoutMask(path) = path /\ Three!WithoutMask(path + mask) = path
  BY <1>1, <1>2, <1>3, <1>6
<1>9. path \in Three!Index /\ path + mask \in Three!Index
  BY <1>1, <1>2
<1> QED
  BY <1>6, <1>7, <1>8, <1>9
-----------------------------------------------------------------------------
(* OramBuffer3: the first record of an entry is no duplicate, every later   *)
(* one is, and what is in the buffer has its first record still to come.    *)
ThreeRecords ==
  /\ \A i, j \in 1 .. Len(recorded) :
       ~recorded[i].duplicate /\ ~recorded[j].duplicate /\ recorded[i].id = recorded[j].id => i = j
  /\ \A j \in 1 .. Len(recorded) : recorded[j].duplicate =>
       \E i \in 1 .. j - 1 : ~recorded[i].duplicate /\ recorded[i].id = recorded[j].id
  /\ \A e \in Entry : buffer[e] # Absent <=>
       \E i \in 1 .. Len(recorded) :
         recorded[i].id = e /\ ~recorded[i].duplicate /\ (phase = "flush" => step <= i)

(* What is left in the block's bytes between calls passes the check of the  *)
(* flush.  In the non-secure mode an entry may start from it.               *)
ThreeCounts ==
  /\ Three!Valid(scratch)
  /\ \A e \in Entry : buffer[e] # Absent =>
       /\ Three!Valid(buffer[e].bytes)
       /\ ~NonSecure =>
            /\ phase \in {"sample", "download", "PermutationEnd"} => buffer[e].bytes.counter = 0
            /\ phase = "aggregate" =>
                 buffer[e].bytes.counter = Cardinality(Calls(step - 1, e)) % CounterValues

ThreePlaces ==
  \A e \in Entry :
    /\ Three!HasMask(posmap[e]) =>
         /\ main[e] = Absent /\ buffer[e] # Absent /\ buffer[e].bytes.data = e
         /\ buffer[e].path = Three!WithoutMask(posmap[e])
    /\ ~Three!HasMask(posmap[e]) =>
         /\ buffer[e] = Absent /\ main[e] # Absent
         /\ main[e] = [path |-> posmap[e], data |-> e]

ThreeIInv == Three!TypeOK /\ ThreePlaces /\ OramProgress /\ ThreeRecords /\ ThreeCounts

ThreeRecord == [id : Entry, duplicate : BOOLEAN]

LEMMA ThreeCardinality ==
  ASSUME NEW S
  PROVE  Three!Cardinality(S) = Cardinality(S) /\ Three!Rounds!Cardinality(S) = Cardinality(S)
BY DEF Three!Cardinality, Three!Rounds!Cardinality, Cardinality

LEMMA ThreeLoop ==
  /\ Three!Call = Call
  /\ Three!Current = Current /\ Three!Rounds!Current = Current
  /\ \A e : Three!Draw(e) <=> Draw(e)
  /\ \A e : Three!Rounds!Draw(e) <=> Draw(e)
  /\ Three!DownloadReturns <=> DownloadReturns
  /\ Three!Rounds!DownloadReturns <=> DownloadReturns
  /\ Three!AggregateReturns <=> AggregateReturns
  /\ Three!Rounds!AggregateReturns <=> AggregateReturns
<1>1. /\ Three!Call = Call /\ Three!Rounds!Call = Call
      /\ Three!Drawn = Drawn /\ Three!Rounds!Drawn = Drawn
      /\ Three!Current = Current /\ Three!Rounds!Current = Current
  BY DEF Three!Call, Three!Rounds!Call, Call, Three!Drawn, Three!Rounds!Drawn, Drawn,
         Three!Current, Three!Rounds!Current, Current
<1>2. /\ Three!Cardinality(Drawn) = Cardinality(Drawn)
      /\ Three!Cardinality(Entry) = Cardinality(Entry)
      /\ Three!Rounds!Cardinality(Drawn) = Cardinality(Drawn)
      /\ Three!Rounds!Cardinality(Entry) = Cardinality(Entry)
  BY ThreeCardinality
<1>3. \A e : (Three!Draw(e) <=> Draw(e)) /\ (Three!Rounds!Draw(e) <=> Draw(e))
  BY <1>1, <1>2
     DEF Three!Draw, Three!Rounds!Draw, Draw, Three!Followed, Three!Rounds!Followed, Followed
<1>4. \A s, x : Three!Occurrences(s, x) = Occurrences(s, x)
                /\ Three!Rounds!Occurrences(s, x) = Occurrences(s, x)
  BY <1>1, ThreeCardinality DEF Occurrences, Three!Occurrences, Three!Rounds!Occurrences
<1>5. Three!Shuffles(samples) = Shuffles(samples) /\ Three!Rounds!Shuffles(samples) = Shuffles(samples)
  BY <1>1, <1>4 DEF Shuffles, Three!Shuffles, Three!Rounds!Shuffles
<1>6. /\ Three!DownloadReturns <=> DownloadReturns
      /\ Three!Rounds!DownloadReturns <=> DownloadReturns
  BY <1>5 DEF Three!DownloadReturns, Three!Rounds!DownloadReturns, DownloadReturns,
              Three!Followed, Three!Rounds!Followed, Followed
<1>7. /\ Three!AggregateReturns <=> AggregateReturns
      /\ Three!Rounds!AggregateReturns <=> AggregateReturns
  BY DEF Three!AggregateReturns, Three!Rounds!AggregateReturns, AggregateReturns,
         Three!Followed, Three!Rounds!Followed, Followed
<1> QED
  BY <1>1, <1>3, <1>6, <1>7

LEMMA OramSizes ==
  ASSUME Three!OramsParameters
  PROVE  /\ LoopParameters /\ SamplesPerRound \in Nat \ {0}
         /\ Absent \notin Three!MemoryBlock /\ Absent \notin Three!BufferBlock
         /\ ByteValues \in Nat \ {0} /\ CounterValues \in Nat \ {0} /\ CounterValues % ByteValues = 0
         /\ 0 \in 0 .. ByteValues - 1 /\ 0 \in 0 .. CounterValues - 1
         /\ 0 % ByteValues = 0 /\ 0 % CounterValues = 0
<1>1. /\ LoopParameters
      /\ Absent \notin Three!MemoryBlock /\ Absent \notin Three!BufferBlock
      /\ ByteValues \in Nat \ {0} /\ CounterValues \in Nat \ {0} /\ CounterValues % ByteValues = 0
  BY DEF Three!OramsParameters, Three!LoopParameters, LoopParameters
<1>2. (CounterValues * 0 + 0) % CounterValues = 0 /\ (ByteValues * 0 + 0) % ByteValues = 0
  BY <1>1, RemainderUnique
<1>3. CounterValues * 0 + 0 = 0 /\ ByteValues * 0 + 0 = 0 /\ SamplesPerRound \in Nat \ {0}
  BY <1>1 DEF LoopParameters
<1> QED
  BY <1>1, <1>2, <1>3

LEMMA ThreeSizes ==
  ASSUME Three!Parameters
  PROVE  /\ Three!OramsParameters
         /\ LoopParameters /\ SamplesPerRound \in Nat \ {0} /\ ~UsesReserve
         /\ Absent \notin Three!MemoryBlock /\ Absent \notin Three!BufferBlock
         /\ ByteValues \in Nat \ {0} /\ CounterValues \in Nat \ {0} /\ CounterValues % ByteValues = 0
         /\ 0 \in 0 .. ByteValues - 1 /\ 0 \in 0 .. CounterValues - 1
         /\ 0 % ByteValues = 0 /\ 0 % CounterValues = 0
<1>1. Three!OramsParameters /\ ~UsesReserve
  BY DEF Three!Parameters
<1> QED
  BY <1>1, OramSizes

LEMMA ThreeTypes ==
  ASSUME Three!Parameters, ThreeIInv
  PROVE  /\ step \in Call /\ samples \in [Call -> Entry] /\ step \in Nat
         /\ posmap \in [Entry -> Three!Index]
         /\ main \in [Entry -> Three!MemoryBlock \cup {Absent}]
         /\ buffer \in [Entry -> Three!BufferBlock \cup {Absent}]
         /\ scratch \in Three!Bytes
         /\ recorded \in Seq(ThreeRecord) /\ Len(recorded) \in Nat
BY ThreeLoop, ThreeSizes, LenProperties
   DEF ThreeIInv, Three!TypeOK, Three!OramsTypeOK, Call, ThreeRecord

(* A search on the path of the block finds it, and one for a block that is  *)
(* not there finds none.                                                    *)
LEMMA SearchAnswers ==
  ASSUME NEW oram, NEW e, NEW path
  PROVE  /\ oram[e] = Absent => Three!Answers(oram, e, path) = {FALSE}
         /\ oram[e] # Absent /\ oram[e].path = path => Three!Answers(oram, e, path) = {TRUE}
BY DEF Three!Answers

(* One more gradient keeps byte and counter in agreement.                   *)
LEMMA ThreeAggregated ==
  ASSUME Three!OramsParameters, NEW bytes \in Three!Bytes
  PROVE  /\ Three!Aggregated(bytes) \in Three!Bytes
         /\ Three!Aggregated(bytes).data = bytes.data
         /\ Three!Aggregated(bytes).counter = (bytes.counter + 1) % CounterValues
         /\ Three!Valid(bytes) => Three!Valid(Three!Aggregated(bytes))
<1> DEFINE c == bytes.counter
           g == bytes.gradient
<1>1. c \in 0 .. CounterValues - 1 /\ g \in 0 .. ByteValues - 1
  BY DEF Three!Bytes
<1>2. (g + 1) % ByteValues \in 0 .. ByteValues - 1 /\ (c + 1) % CounterValues \in 0 .. CounterValues - 1
  BY <1>1, OramSizes
<1>3. /\ Three!Aggregated(bytes) \in Three!Bytes /\ Three!Aggregated(bytes).data = bytes.data
      /\ Three!Aggregated(bytes).gradient = (g + 1) % ByteValues
      /\ Three!Aggregated(bytes).counter = (c + 1) % CounterValues
  BY <1>2 DEF Three!Aggregated, Three!Bytes
<1>4. ASSUME Three!Valid(bytes) PROVE Three!Valid(Three!Aggregated(bytes))
  <2>1. g = c % ByteValues
    BY <1>4 DEF Three!Valid
  <2> HIDE DEF c, g
  <2>2. ((c % ByteValues) + 1) % ByteValues = ((c + 1) % CounterValues) % ByteValues
    BY <1>1, StillValid, OramSizes
  <2> QED BY <1>3, <2>1, <2>2 DEF Three!Valid
<1> QED
  BY <1>3, <1>4

-----------------------------------------------------------------------------
(* Entry e is in the buffer afterwards, on newPath and with bytes.           *)
ThreePut(e, newPath, bytes) ==
  /\ posmap' = [posmap EXCEPT ![e] = Three!Stored(Three!WithMask(newPath))]
  /\ buffer' = [buffer EXCEPT ![e] = [path |-> newPath, bytes |-> bytes]]

LEMMA ThreePutDoes ==
  ASSUME Three!OramsParameters, posmap \in [Entry -> Three!Index],
         buffer \in [Entry -> Three!BufferBlock \cup {Absent}],
         NEW e \in Entry, NEW newPath \in Three!BufferPath,
         NEW bytes \in Three!Bytes, ThreePut(e, newPath, bytes)
  PROVE  /\ posmap' \in [Entry -> Three!Index]
         /\ buffer' \in [Entry -> Three!BufferBlock \cup {Absent}]
         /\ Three!HasMask(posmap'[e]) /\ buffer'[e].path = Three!WithoutMask(posmap'[e])
         /\ buffer'[e] # Absent /\ buffer'[e].bytes = bytes
         /\ \A x \in Entry : x # e => posmap'[x] = posmap[x] /\ buffer'[x] = buffer[x]
<1> DEFINE w == Three!Stored(Three!WithMask(newPath))
           b == [path |-> newPath, bytes |-> bytes]
<1>1. w \in Three!Index /\ Three!HasMask(w) /\ Three!WithoutMask(w) = newPath
  BY MaskTells
<1>2. b \in Three!BufferBlock /\ b # Absent /\ b.path = newPath /\ b.bytes = bytes
  BY OramSizes DEF Three!BufferBlock
<1>3. posmap' = [posmap EXCEPT ![e] = w] /\ buffer' = [buffer EXCEPT ![e] = b]
  BY DEF ThreePut
<1> HIDE DEF w, b
<1> QED
  BY <1>1, <1>2, <1>3

(* A download: the entry is found in the ORAM the map names, and lies in    *)
(* the buffer afterwards with what it had counted.                          *)
LEMMA ThreeDownloadDoes ==
  ASSUME Three!Parameters, ThreeIInv, Three!Download, NEW e, e = Current
  PROVE  /\ e \in Entry /\ DownloadReturns /\ phase = "download" /\ samples[step] = e
         /\ \E again \in BOOLEAN :
              /\ recorded' = Append(recorded, [id |-> e, duplicate |-> again])
              /\ again <=> buffer[e] # Absent
         /\ \E newPath \in Three!BufferPath, bytes \in Three!Bytes :
              /\ ThreePut(e, newPath, bytes) /\ scratch' = bytes
              /\ bytes.data = e /\ Three!Valid(bytes)
              /\ buffer[e] # Absent => bytes = buffer[e].bytes
              /\ buffer[e] = Absent /\ ~NonSecure => bytes.counter = 0
         /\ main' \in [Entry -> Three!MemoryBlock \cup {Absent}] /\ main'[e] = Absent
         /\ \A x \in Entry : x # e => main'[x] = main[x]
<1> DEFINE d == Three!Current
           there == Three!HasMask(posmap[d])
           path == Three!WithoutMask(posmap[d])
<1>0. d = e
  BY ThreeLoop
<1>1. /\ e \in Entry /\ samples[step] = e /\ scratch \in Three!Bytes
      /\ main \in [Entry -> Three!MemoryBlock \cup {Absent}]
      /\ buffer \in [Entry -> Three!BufferBlock \cup {Absent}]
  BY ThreeTypes DEF Current
<1>2. phase = "download" /\ there \in BOOLEAN
      /\ recorded' = Append(recorded, [id |-> e, duplicate |-> there])
  BY <1>0 DEF Three!Download, Three!HasMask
<1>3. PICK newPath \in Three!BufferPath, randomBuffer \in Three!BufferPath, randomMemory \in Three!MemoryPath :
      \E inB \in IF there \/ ~NonSecure
                 THEN Three!Answers(buffer, d, IF there THEN path ELSE randomBuffer) ELSE {FALSE} :
      \E inM \in IF ~there \/ ~NonSecure
                 THEN Three!Answers(main, d, IF there THEN randomMemory ELSE path) ELSE {FALSE} :
        LET bytes == IF inB THEN buffer[d].bytes ELSE Three!BytesCleared(there)
            block == IF there THEN bytes ELSE [bytes EXCEPT !.data = main[d].data]
        IN  /\ posmap' = [posmap EXCEPT ![d] = Three!Stored(Three!WithMask(newPath))]
            /\ \/ /\ IF there THEN inB ELSE inM
                  /\ main' = Three!Without(main, d, inM)
                  /\ scratch' = block
                  /\ buffer' = [buffer EXCEPT ![d] = [path |-> newPath, bytes |-> block]]
                  /\ Three!DownloadReturns
               \/ /\ ~(IF there THEN inB ELSE inM)
                  /\ buffer' = Three!Without(buffer, d, inB)
                  /\ scratch' = bytes
                  /\ main' = IF there THEN main ELSE Three!Without(main, d, inM)
                  /\ Three!Throws("NotFound")
  BY Zenon DEF Three!Download
<1>4. /\ there => /\ main[e] = Absent /\ buffer[e] # Absent
                     /\ buffer[e].bytes.data = e /\ buffer[e].path = path
      /\ ~there => /\ buffer[e] = Absent /\ main[e] = [path |-> path, data |-> e]
                      /\ main[e] # Absent
  <2>1. ~there => path = posmap[e]
    BY <1>0 DEF Three!WithoutMask
  <2> QED BY <1>0, <1>1, <2>1 DEF ThreeIInv, ThreePlaces
<1> HIDE DEF d, there, path
<1>5. PICK inB \in IF there \/ ~NonSecure
                 THEN Three!Answers(buffer, d, IF there THEN path ELSE randomBuffer) ELSE {FALSE},
           inM \in IF ~there \/ ~NonSecure
                 THEN Three!Answers(main, d, IF there THEN randomMemory ELSE path) ELSE {FALSE} :
        LET bytes == IF inB THEN buffer[d].bytes ELSE Three!BytesCleared(there)
            block == IF there THEN bytes ELSE [bytes EXCEPT !.data = main[d].data]
        IN  /\ posmap' = [posmap EXCEPT ![d] = Three!Stored(Three!WithMask(newPath))]
            /\ \/ /\ IF there THEN inB ELSE inM
                  /\ main' = Three!Without(main, d, inM)
                  /\ scratch' = block
                  /\ buffer' = [buffer EXCEPT ![d] = [path |-> newPath, bytes |-> block]]
                  /\ Three!DownloadReturns
               \/ ~(IF there THEN inB ELSE inM)
  BY <1>3
<1>6. CASE there
  <2>1. Three!Answers(buffer, e, path) = {TRUE} /\ \A p : Three!Answers(main, e, p) = {FALSE}
    <3>1. main[e] = Absent /\ buffer[e] # Absent /\ buffer[e].path = path
      BY <1>4, <1>6
    <3> QED BY <3>1, SearchAnswers
  <2>2. /\ posmap' = [posmap EXCEPT ![e] = Three!Stored(Three!WithMask(newPath))]
        /\ main' = main /\ scratch' = buffer[e].bytes
        /\ buffer' = [buffer EXCEPT ![e] = [path |-> newPath, bytes |-> buffer[e].bytes]]
        /\ DownloadReturns
    <3>1. inB = TRUE /\ inM = FALSE
      BY <1>0, <1>6, <2>1
    <3> QED BY <1>0, <1>6, <1>5, <3>1, ThreeLoop DEF Three!Without
  <2>3. buffer[e].bytes \in Three!Bytes /\ Three!Valid(buffer[e].bytes)
    BY <1>1, <1>4, <1>6 DEF Three!BufferBlock, ThreeIInv, ThreeCounts
  <2>4. ThreePut(e, newPath, buffer[e].bytes) /\ scratch' = buffer[e].bytes
    BY <1>0, <2>2 DEF ThreePut
  <2> QED BY <1>0, <1>1, <1>2, <1>4, <1>6, <2>2, <2>3, <2>4
<1>7. CASE ~there
  <2> DEFINE bytes == [Three!BytesCleared(there) EXCEPT !.data = e]
  <2>1. Three!Answers(main, e, path) = {TRUE} /\ \A p : Three!Answers(buffer, e, p) = {FALSE}
    <3>1. buffer[e] = Absent /\ main[e] # Absent /\ main[e].path = path
      BY <1>4, <1>7
    <3> QED BY <3>1, SearchAnswers
  <2>2. /\ posmap' = [posmap EXCEPT ![e] = Three!Stored(Three!WithMask(newPath))]
        /\ main' = [main EXCEPT ![e] = Absent] /\ scratch' = bytes
        /\ buffer' = [buffer EXCEPT ![e] = [path |-> newPath, bytes |-> bytes]]
        /\ DownloadReturns
    <3>1. main[e].data = e
      BY <1>4, <1>7
    <3>2. inB = FALSE /\ inM = TRUE
      BY <1>0, <1>7, <2>1
    <3> QED BY <1>0, <1>7, <1>5, <3>1, <3>2, ThreeLoop DEF Three!Without
  <2>3. /\ bytes \in Three!Bytes /\ bytes.data = e /\ Three!Valid(bytes)
        /\ ~NonSecure => bytes.counter = 0
    <3>1. CASE NonSecure
      <4>1. bytes = [scratch EXCEPT !.data = e] /\ Three!Valid(scratch)
        BY <1>7, <3>1 DEF Three!BytesCleared, ThreeIInv, ThreeCounts
      <4> QED BY <1>1, <3>1, <4>1 DEF Three!Bytes, Three!Valid
    <3>2. CASE ~NonSecure
      <4>1. bytes = [[scratch EXCEPT !.gradient = 0, !.counter = 0] EXCEPT !.data = e]
        BY <1>7, <3>2 DEF Three!BytesCleared
      <4> QED BY <1>1, <4>1, ThreeSizes DEF Three!Bytes, Three!Valid
    <3> QED BY <3>1, <3>2
  <2> HIDE DEF bytes
  <2>4. ThreePut(e, newPath, bytes) /\ scratch' = bytes
    BY <1>0, <2>2 DEF ThreePut
  <2> QED BY <1>0, <1>1, <1>2, <1>4, <1>7, <2>2, <2>3, <2>4
<1> QED
  BY <1>6, <1>7

(* An aggregation: the block is on the path the map names, and moves to the *)
(* path the map was overwritten with.                                       *)
LEMMA ThreeAggregateDoes ==
  ASSUME Three!Parameters, ThreeIInv, Three!Aggregate, NEW e, e = Current
  PROVE  /\ e \in Entry /\ AggregateReturns /\ phase = "aggregate" /\ samples[step] = e
         /\ main' = main /\ recorded' = recorded
         /\ buffer[e] # Absent /\ buffer[e].bytes \in Three!Bytes /\ buffer[e].bytes.data = e
         /\ \E newPath \in Three!BufferPath :
              ThreePut(e, newPath, Three!Aggregated(buffer[e].bytes))
         /\ scratch' = Three!Aggregated(buffer[e].bytes)
<1> DEFINE d == Three!Current
<1>0. d = e
  BY ThreeLoop
<1>1. /\ e \in Entry /\ samples[step] = e
      /\ buffer \in [Entry -> Three!BufferBlock \cup {Absent}]
  BY ThreeTypes DEF Current
<1>2. phase = "aggregate" /\ main' = main /\ recorded' = recorded
  BY DEF Three!Aggregate
<1>3. PICK newPath \in Three!BufferPath :
        \E found \in Three!Answers(buffer, d, Three!WithoutMask(posmap[d])) :
          /\ posmap' = [posmap EXCEPT ![d] = Three!Stored(Three!WithMask(newPath))]
          /\ IF found
             THEN /\ scratch' = Three!Aggregated(buffer[d].bytes) /\ Three!AggregateReturns
                  /\ buffer' = [buffer EXCEPT ![d] =
                       [path |-> newPath, bytes |-> Three!Aggregated(buffer[d].bytes)]]
             ELSE UNCHANGED <<scratch, buffer>> /\ Three!Throws("NotInBuffer")
  BY Zenon DEF Three!Aggregate
<1> HIDE DEF d
<1>4. buffer[e] # Absent
  BY <1>1, <1>2, ThreeTypes DEF ThreeIInv, OramProgress
<1>5. buffer[e].bytes.data = e /\ buffer[e].path = Three!WithoutMask(posmap[e])
  BY <1>1, <1>4 DEF ThreeIInv, ThreePlaces
<1>6. buffer[e].bytes \in Three!Bytes
  BY <1>1, <1>4 DEF Three!BufferBlock
<1>7. Three!Answers(buffer, e, Three!WithoutMask(posmap[e])) = {TRUE}
  BY <1>4, <1>5, SearchAnswers
<1>8. PICK found \in {TRUE} :
          /\ posmap' = [posmap EXCEPT ![e] = Three!Stored(Three!WithMask(newPath))]
          /\ IF found
             THEN /\ scratch' = Three!Aggregated(buffer[e].bytes) /\ Three!AggregateReturns
                  /\ buffer' = [buffer EXCEPT ![e] =
                       [path |-> newPath, bytes |-> Three!Aggregated(buffer[e].bytes)]]
             ELSE UNCHANGED <<scratch, buffer>> /\ Three!Throws("NotInBuffer")
  BY <1>0, <1>3, <1>7
<1>9. /\ ThreePut(e, newPath, Three!Aggregated(buffer[e].bytes))
      /\ scratch' = Three!Aggregated(buffer[e].bytes) /\ AggregateReturns
  BY <1>8, ThreeLoop DEF ThreePut
<1> QED
  BY <1>1, <1>2, <1>4, <1>5, <1>6, <1>9

(* A record flushed: the first of an entry moves it to the memory, and for  *)
(* a duplicate the search rightly finds nothing.                            *)
LEMMA ThreeFlushDoes ==
  ASSUME Three!Parameters, ThreeIInv, Three!Flush, NEW e, e = recorded[step].id
  PROVE  /\ e \in Entry /\ phase = "flush" /\ step \in 1 .. SamplesPerRound
         /\ Len(recorded) = SamplesPerRound
         /\ samples' = samples /\ scratch' \in Three!Bytes /\ Three!Valid(scratch')
         /\ recorded[step].duplicate => buffer[e] = Absent /\ UNCHANGED <<posmap, main, buffer>>
         /\ ~recorded[step].duplicate =>
              /\ buffer[e] # Absent
              /\ \E newPath \in Three!MemoryPath :
                   /\ posmap' = [posmap EXCEPT ![e] = newPath]
                   /\ main' = [main EXCEPT ![e] = [path |-> newPath, data |-> e]]
                   /\ buffer' = [buffer EXCEPT ![e] = Absent]
         /\ \/ /\ step < SamplesPerRound /\ step' = step + 1 /\ phase' = "flush"
               /\ recorded' = recorded
            \/ step = SamplesPerRound /\ step' = 1 /\ phase' = "sample" /\ recorded' = <<>>
<1> DEFINE d == recorded[step].id
           last == step = Three!LastRecord
           again == Three!Duplicate(step)
<1>1. /\ phase = "flush" /\ step \in 1 .. SamplesPerRound /\ Len(recorded) = SamplesPerRound
      /\ recorded \in Seq(ThreeRecord)
      /\ main \in [Entry -> Three!MemoryBlock \cup {Absent}]
      /\ buffer \in [Entry -> Three!BufferBlock \cup {Absent}]
      /\ scratch \in Three!Bytes /\ Three!Valid(scratch)
  BY ThreeTypes DEF Three!Flush, ThreeIInv, OramProgress, ThreeCounts, Call
<1>2. e \in Entry /\ recorded[step].duplicate \in BOOLEAN
  <2>1. recorded[step] \in ThreeRecord
    BY <1>1, ElementOfSeq
  <2> QED BY <2>1 DEF ThreeRecord
<1>3. /\ again <=> buffer[e] = Absent
      /\ again <=> recorded[step].duplicate
  <2>1. again <=> recorded[step].duplicate
    BY DEF Three!Duplicate
  <2>2. /\ \A i, j \in 1 .. SamplesPerRound :
             ~recorded[i].duplicate /\ ~recorded[j].duplicate /\ recorded[i].id = recorded[j].id => i = j
        /\ \A j \in 1 .. SamplesPerRound : recorded[j].duplicate =>
             \E i \in 1 .. j - 1 : ~recorded[i].duplicate /\ recorded[i].id = recorded[j].id
        /\ buffer[e] # Absent <=>
             \E i \in 1 .. SamplesPerRound :
               recorded[i].id = e /\ ~recorded[i].duplicate /\ step <= i
    BY <1>1, <1>2 DEF ThreeIInv, ThreeRecords
  <2>3. CASE recorded[step].duplicate
    <3>1. PICK i \in 1 .. step - 1 : ~recorded[i].duplicate /\ recorded[i].id = e
      BY <1>1, <2>2, <2>3
    <3>2. i \in 1 .. SamplesPerRound /\ ~(step <= i)
      BY <1>1, ThreeSizes
    <3>3. buffer[e] = Absent
      BY <2>2, <3>1, <3>2
    <3> QED BY <2>1, <2>3, <3>3
  <2>4. CASE ~recorded[step].duplicate
    <3>1. buffer[e] # Absent
      BY <1>1, <2>2, <2>4
    <3> QED BY <2>1, <2>4, <3>1
  <2> QED BY <2>3, <2>4
<1>4. /\ buffer[e] # Absent => /\ buffer[e].bytes.data = e
                               /\ buffer[e].bytes \in Three!Bytes /\ Three!Valid(buffer[e].bytes)
                               /\ Three!Answers(buffer, e, Three!WithoutMask(posmap[e])) = {TRUE}
      /\ buffer[e] = Absent => \A p : Three!Answers(buffer, e, p) = {FALSE}
  <2>1. ASSUME buffer[e] # Absent
        PROVE  /\ buffer[e].bytes.data = e /\ buffer[e].path = Three!WithoutMask(posmap[e])
               /\ buffer[e].bytes \in Three!Bytes /\ Three!Valid(buffer[e].bytes)
    BY <1>1, <1>2, <2>1 DEF ThreeIInv, ThreePlaces, ThreeCounts, Three!BufferBlock
  <2>2. ASSUME buffer[e] # Absent
        PROVE  Three!Answers(buffer, e, Three!WithoutMask(posmap[e])) = {TRUE}
    <3>1. buffer[e].path = Three!WithoutMask(posmap[e])
      BY <2>1, <2>2
    <3> QED BY <2>2, <3>1, SearchAnswers
  <2>3. ASSUME buffer[e] = Absent, NEW p
        PROVE  Three!Answers(buffer, e, p) = {FALSE}
    BY <2>3, SearchAnswers
  <2> QED BY <2>1, <2>2, <2>3
<1>5. recorded' = IF phase' = "sample" THEN <<>> ELSE recorded
  BY DEF Three!Flush, Three!Cleared
<1>6. ASSUME IF last THEN Three!FlushReturns ELSE Three!FlushGoesOn
      PROVE  /\ samples' = samples
             /\ \/ /\ step < SamplesPerRound /\ step' = step + 1 /\ phase' = "flush"
                   /\ recorded' = recorded
                \/ step = SamplesPerRound /\ step' = 1 /\ phase' = "sample" /\ recorded' = <<>>
  BY <1>1, <1>5, <1>6 DEF Three!LastRecord, Three!FlushReturns, Three!FlushGoesOn
<1>7. CASE again /\ NonSecure /\ UNCHANGED <<posmap, main, buffer, scratch>>
           /\ IF last THEN Three!FlushReturns ELSE Three!FlushGoesOn
  BY <1>1, <1>2, <1>3, <1>6, <1>7
<1>8. CASE /\ ~again \/ ~NonSecure
           /\ \E newPath \in Three!MemoryPath, randomPath \in Three!BufferPath :
              \E found \in Three!Answers(buffer, d, IF again THEN randomPath
                                                      ELSE Three!WithoutMask(posmap[d])) :
                LET block == IF found THEN buffer[d].bytes ELSE scratch
                IN  /\ posmap' = IF again THEN posmap
                                 ELSE [posmap EXCEPT ![d] = Three!Stored(newPath)]
                    /\ scratch' = block
                    /\ buffer' = Three!Without(buffer, d, found)
                    /\ CASE found = again -> Three!Throws("NotFound") /\ UNCHANGED main
                         [] found /\ ~again /\ ~Three!Valid(block) ->
                              Three!Throws("ValidationFailed") /\ UNCHANGED main
                         [] found /\ ~again /\ Three!Valid(block) ->
                              /\ main' = [main EXCEPT ![d] = [path |-> newPath, data |-> block.data]]
                              /\ IF last THEN Three!FlushReturns ELSE Three!FlushGoesOn
                         [] ~found /\ again ->
                              UNCHANGED main /\ IF last THEN Three!FlushReturns ELSE Three!FlushGoesOn
  <2>1. PICK newPath \in Three!MemoryPath, randomPath \in Three!BufferPath :
              \E found \in Three!Answers(buffer, d, IF again THEN randomPath
                                                      ELSE Three!WithoutMask(posmap[d])) :
                LET block == IF found THEN buffer[d].bytes ELSE scratch
                IN  /\ posmap' = IF again THEN posmap
                                 ELSE [posmap EXCEPT ![d] = Three!Stored(newPath)]
                    /\ scratch' = block
                    /\ buffer' = Three!Without(buffer, d, found)
                    /\ CASE found = again -> Three!Throws("NotFound") /\ UNCHANGED main
                         [] found /\ ~again /\ ~Three!Valid(block) ->
                              Three!Throws("ValidationFailed") /\ UNCHANGED main
                         [] found /\ ~again /\ Three!Valid(block) ->
                              /\ main' = [main EXCEPT ![d] = [path |-> newPath, data |-> block.data]]
                              /\ IF last THEN Three!FlushReturns ELSE Three!FlushGoesOn
                         [] ~found /\ again ->
                              UNCHANGED main /\ IF last THEN Three!FlushReturns ELSE Three!FlushGoesOn
    BY <1>8
  <2> HIDE DEF d, again, last
  <2>2. d = e
    BY DEF d
  <2>3. PICK found \in Three!Answers(buffer, e, IF again THEN randomPath
                                                      ELSE Three!WithoutMask(posmap[e])) :
                LET block == IF found THEN buffer[e].bytes ELSE scratch
                IN  /\ posmap' = IF again THEN posmap
                                 ELSE [posmap EXCEPT ![e] = Three!Stored(newPath)]
                    /\ scratch' = block
                    /\ buffer' = Three!Without(buffer, e, found)
                    /\ CASE found = again -> Three!Throws("NotFound") /\ UNCHANGED main
                         [] found /\ ~again /\ ~Three!Valid(block) ->
                              Three!Throws("ValidationFailed") /\ UNCHANGED main
                         [] found /\ ~again /\ Three!Valid(block) ->
                              /\ main' = [main EXCEPT ![e] = [path |-> newPath, data |-> block.data]]
                              /\ IF last THEN Three!FlushReturns ELSE Three!FlushGoesOn
                         [] ~found /\ again ->
                              UNCHANGED main /\ IF last THEN Three!FlushReturns ELSE Three!FlushGoesOn
    BY <2>1, <2>2
  <2>4. CASE again
    <3>1. found = FALSE /\ (found = again) = FALSE
      BY <1>3, <1>4, <2>4
    <3>2. /\ posmap' = posmap /\ scratch' = scratch /\ buffer' = buffer /\ main' = main
          /\ IF last THEN Three!FlushReturns ELSE Three!FlushGoesOn
      BY <2>3, <2>4, <3>1 DEF Three!Without
    <3> QED BY <1>1, <1>2, <1>3, <1>6, <2>4, <3>2
  <2>5. CASE ~again
    <3>1. found = TRUE /\ (found = again) = FALSE
      BY <1>3, <1>4, <2>5
    <3>2. Three!Stored(newPath) = newPath
      BY MaskTells, ThreeSizes
    <3>3. /\ posmap' = [posmap EXCEPT ![e] = newPath]
          /\ scratch' = buffer[e].bytes
          /\ buffer' = [buffer EXCEPT ![e] = Absent]
          /\ main' = [main EXCEPT ![e] = [path |-> newPath, data |-> e]]
          /\ IF last THEN Three!FlushReturns ELSE Three!FlushGoesOn
      BY <1>3, <1>4, <2>3, <2>5, <3>1, <3>2 DEF Three!Without
    <3> QED BY <1>1, <1>2, <1>3, <1>4, <1>6, <2>5, <3>3
  <2> QED BY <2>4, <2>5
<1> QED
  BY <1>7, <1>8, Zenon DEF Three!Flush

-----------------------------------------------------------------------------
LEMMA ThreeInitGood ==
  ASSUME Three!Parameters, Three!Init
  PROVE  ThreeIInv
<1>1. /\ phase = "sample" /\ step = 1 /\ posmap \in [Entry -> Three!MemoryPath]
      /\ main = [e \in Entry |-> [path |-> posmap[e], data |-> e]]
      /\ buffer = [e \in Entry |-> Absent] /\ recorded = <<>>
      /\ \E e \in Entry : samples = [i \in Call |-> e]
      /\ \E e \in Entry : scratch = [data |-> e, gradient |-> 0, counter |-> 0]
  BY ThreeLoop DEF Three!Init, Three!LoopInit
<1>2. recorded \in Seq(ThreeRecord) /\ Len(recorded) = 0
  BY <1>1, EmptySeq
<1>3. \A e \in Entry : posmap[e] \in Three!Index /\ ~Three!HasMask(posmap[e])
  BY <1>1, MaskTells, ThreeSizes
<1>4. posmap \in [Entry -> Three!Index]
  BY <1>1, <1>3
<1>5. \A e \in Entry : main[e] \in Three!MemoryBlock /\ main[e] # Absent
  BY <1>1, ThreeSizes DEF Three!MemoryBlock
<1>6. scratch \in Three!Bytes /\ Three!Valid(scratch)
  BY <1>1, ThreeSizes DEF Three!Bytes, Three!Valid
<1>7. Three!TypeOK
  <2>1. main \in [Entry -> Three!MemoryBlock \cup {Absent}]
    BY <1>1, <1>5
  <2>2. step \in Call /\ samples \in [Call -> Entry] /\ Len(recorded) <= SamplesPerRound
    BY <1>1, <1>2, ThreeSizes DEF Call
  <2> QED BY <1>1, <1>2, <1>4, <1>6, <2>1, <2>2, ThreeLoop
          DEF Three!TypeOK, Three!OramsTypeOK, Three!Phases, ThreeRecord
<1>8. ThreePlaces
  BY <1>1, <1>3, <1>5 DEF ThreePlaces
<1>9. OramProgress /\ ThreeRecords /\ ThreeCounts
  BY <1>1, <1>2, <1>6 DEF OramProgress, ThreeRecords, ThreeCounts
<1> QED
  BY <1>7, <1>8, <1>9 DEF ThreeIInv

LEMMA ThreeSampleKeeps ==
  ASSUME Three!Parameters, ThreeIInv, Three!Sample
  PROVE  ThreeIInv'
<1>1. PICK e \in Entry : Draw(e)
  BY ThreeLoop DEF Three!Sample
<1>2. /\ phase = "sample" /\ posmap' = posmap /\ main' = main /\ buffer' = buffer
      /\ scratch' = scratch /\ recorded' = recorded
  BY DEF Three!Sample, Three!bufferVars
<1>3. /\ phase' \in {"sample", "download", "PermutationEnd"} /\ step' \in Call
      /\ (phase' = "download" => step' = 1) /\ samples' \in [Call -> Entry]
  BY <1>1, <1>2, ThreeTypes, ThreeSizes DEF Draw, Followed, Call
<1>4. Len(recorded) = 0
  BY <1>2 DEF ThreeIInv, OramProgress
<1>5. \A x \in Entry : buffer[x] = Absent
  BY <1>2, <1>4 DEF ThreeIInv, ThreeRecords
<1>6. Three!TypeOK'
  BY <1>2, <1>3, ThreeLoop
     DEF ThreeIInv, Three!TypeOK, Three!OramsTypeOK, Three!Phases, Three!Exceptions, Call, Three!Call
<1>7. ThreePlaces'
  BY <1>2 DEF ThreeIInv, ThreePlaces, Three!HasMask, Three!WithoutMask, Three!InBufferMask
<1>8. OramProgress'
  BY <1>2, <1>3, <1>4 DEF OramProgress
<1>9. ThreeRecords' /\ ThreeCounts'
  BY <1>2, <1>4, <1>5 DEF ThreeIInv, ThreeRecords, ThreeCounts, Three!Valid
<1> QED
  BY <1>6, <1>7, <1>8, <1>9 DEF ThreeIInv

LEMMA ThreeDownloadKeeps ==
  ASSUME Three!Parameters, ThreeIInv, Three!Download
  PROVE  ThreeIInv'
<1> DEFINE e == Current
<1>1. /\ e \in Entry /\ DownloadReturns /\ phase = "download" /\ samples[step] = e
      /\ main' \in [Entry -> Three!MemoryBlock \cup {Absent}] /\ main'[e] = Absent
      /\ \A x \in Entry : x # e => main'[x] = main[x]
  BY ThreeDownloadDoes
<1>2. PICK again \in BOOLEAN :
        /\ recorded' = Append(recorded, [id |-> e, duplicate |-> again])
        /\ again <=> buffer[e] # Absent
  BY ThreeDownloadDoes
<1>3. PICK newPath \in Three!BufferPath, bytes \in Three!Bytes :
        /\ ThreePut(e, newPath, bytes) /\ scratch' = bytes
        /\ bytes.data = e /\ Three!Valid(bytes)
        /\ buffer[e] # Absent => bytes = buffer[e].bytes
        /\ buffer[e] = Absent /\ ~NonSecure => bytes.counter = 0
  BY ThreeDownloadDoes
<1>4. /\ posmap' \in [Entry -> Three!Index]
      /\ buffer' \in [Entry -> Three!BufferBlock \cup {Absent}]
      /\ Three!HasMask(posmap'[e]) /\ buffer'[e].path = Three!WithoutMask(posmap'[e])
      /\ buffer'[e] # Absent /\ buffer'[e].bytes = bytes
      /\ \A x \in Entry : x # e => posmap'[x] = posmap[x] /\ buffer'[x] = buffer[x]
  BY <1>1, <1>3, ThreePutDoes, ThreeTypes, ThreeSizes
<1>5. /\ step \in Call /\ samples \in [Call -> Entry] /\ step \in Nat
      /\ recorded \in Seq(ThreeRecord) /\ Len(recorded) = step - 1
      /\ \A i \in 1 .. step - 1 : buffer[samples[i]] # Absent
  BY <1>1, ThreeTypes DEF ThreeIInv, OramProgress
<1>6. /\ step' \in Call /\ samples' \in [Call -> Entry]
      /\ \/ phase' = "download" /\ step' = step + 1 /\ samples' = samples
         \/ /\ phase' = "aggregate" /\ step' = 1 /\ step = SamplesPerRound
            /\ \A i \in Call : \E j \in Call : samples'[i] = samples[j]
  BY <1>1, <1>5, AfterDownload, ThreeSizes
<1> HIDE DEF e
<1>7. /\ recorded' \in Seq(ThreeRecord) /\ Len(recorded') = step
      /\ recorded'[step].id = e /\ (recorded'[step].duplicate <=> buffer[e] # Absent)
      /\ \A i \in 1 .. step - 1 : recorded'[i] = recorded[i]
  <2> DEFINE r == [id |-> e, duplicate |-> again]
  <2>1. r \in ThreeRecord /\ r.id = e /\ r.duplicate = again
    BY <1>1 DEF ThreeRecord
  <2> HIDE DEF r
  <2>2. /\ recorded' \in Seq(ThreeRecord) /\ Len(recorded') = step
        /\ recorded'[step] = r /\ \A i \in 1 .. step - 1 : recorded'[i] = recorded[i]
    BY <1>2, <1>5, <2>1, AppendProperties DEF r
  <2>3. recorded'[step].id = e /\ recorded'[step].duplicate = again
    BY <2>1, <2>2
  <2> QED BY <1>2, <2>2, <2>3
<1>8. SamplesPerRound \in Nat /\ step <= SamplesPerRound /\ 1 <= step
  BY <1>5, ThreeSizes DEF Call
<1>9. Three!TypeOK'
  BY <1>1, <1>3, <1>4, <1>6, <1>7, <1>8, ThreeLoop
     DEF Three!TypeOK, Three!OramsTypeOK, Three!Phases, Three!Bytes, Three!BufferBlock,
         Three!MemoryBlock, ThreeRecord, Call, Three!Call
<1>10. ThreePlaces'
  <2>1. ASSUME NEW x \in Entry
        PROVE  /\ Three!HasMask(posmap'[x]) =>
                    /\ main'[x] = Absent /\ buffer'[x] # Absent /\ buffer'[x].bytes.data = x
                    /\ buffer'[x].path = Three!WithoutMask(posmap'[x])
               /\ ~Three!HasMask(posmap'[x]) =>
                    /\ buffer'[x] = Absent /\ main'[x] # Absent
                    /\ main'[x] = [path |-> posmap'[x], data |-> x]
    BY <1>1, <1>3, <1>4 DEF ThreeIInv, ThreePlaces
  <2> QED BY <2>1 DEF ThreePlaces, Three!HasMask, Three!WithoutMask, Three!InBufferMask
<1>11. OramProgress'
  <2>1. \A i \in 1 .. step : buffer'[samples[i]] # Absent
    <3>1. \A i \in 1 .. step : i \in Call /\ (i = step \/ i \in 1 .. step - 1)
      BY <1>5, <1>8 DEF Call
    <3>2. \A x \in Entry : x = e \/ buffer[x] # Absent => buffer'[x] # Absent
      BY <1>4
    <3> QED BY <1>1, <1>5, <3>1, <3>2
  <2>2. CASE phase' = "download"
    <3>1. step' - 1 = step /\ samples' = samples
      BY <1>5, <1>6, <2>2
    <3> QED BY <1>7, <2>1, <2>2, <3>1 DEF OramProgress
  <2>3. CASE phase' = "aggregate"
    <3>1. Call = 1 .. step /\ step = SamplesPerRound
          /\ \A i \in Call : \E j \in Call : samples'[i] = samples[j]
      BY <1>6, <2>3 DEF Call
    <3>2. \A i \in Call : buffer'[samples'[i]] # Absent
      BY <2>1, <3>1
    <3> QED BY <1>7, <2>3, <3>1, <3>2 DEF OramProgress, Call
  <2> QED BY <1>6, <2>2, <2>3
<1>12. ThreeRecords'
  <2> DEFINE First(s, i, x) == s[i].id = x /\ ~s[i].duplicate
  <2>1. /\ \A i, j \in 1 .. step - 1 : \A x : First(recorded, i, x) /\ First(recorded, j, x) => i = j
        /\ \A j \in 1 .. step - 1 : recorded[j].duplicate =>
             \E i \in 1 .. j - 1 : First(recorded, i, recorded[j].id)
        /\ \A x \in Entry : buffer[x] # Absent <=> \E i \in 1 .. step - 1 : First(recorded, i, x)
    BY <1>1, <1>5 DEF ThreeIInv, ThreeRecords
  <2>2. \A i \in 1 .. step - 1 : \A x : First(recorded', i, x) <=> First(recorded, i, x)
    BY <1>7
  <2>3. \A x : First(recorded', step, x) <=> x = e /\ buffer[e] = Absent
    BY <1>7
  <2>4. \A i \in 1 .. step : i = step \/ i \in 1 .. step - 1
    BY <1>5, <1>8
  <2>5. 1 .. step - 1 \subseteq 1 .. step /\ step \in 1 .. step
    BY <1>5, <1>8
  <2>6. \A j \in 1 .. step - 1 : /\ recorded'[j] = recorded[j]
                                 /\ 1 .. j - 1 \subseteq 1 .. step - 1
    BY <1>5, <1>7
  <2> HIDE DEF First
  <2>7. ASSUME NEW i \in 1 .. step, NEW j \in 1 .. step, NEW x,
               First(recorded', i, x), First(recorded', j, x)
        PROVE  i = j
    <3>1. CASE i = step /\ j \in 1 .. step - 1
      BY <1>1, <2>1, <2>2, <2>3, <2>7, <3>1
    <3>2. CASE j = step /\ i \in 1 .. step - 1
      BY <1>1, <2>1, <2>2, <2>3, <2>7, <3>2
    <3>3. CASE i \in 1 .. step - 1 /\ j \in 1 .. step - 1
      BY <2>1, <2>2, <2>7, <3>3
    <3> QED BY <2>4, <3>1, <3>2, <3>3
  <2>8. ASSUME NEW j \in 1 .. step, recorded'[j].duplicate
        PROVE  \E i \in 1 .. j - 1 : First(recorded', i, recorded'[j].id)
    <3>1. CASE j = step
      <4>1. buffer[e] # Absent /\ recorded'[j].id = e
        BY <1>7, <2>8, <3>1
      <4>2. \E i \in 1 .. step - 1 : First(recorded, i, e)
        BY <1>1, <2>1, <4>1
      <4> QED BY <2>2, <3>1, <4>1, <4>2
    <3>2. CASE j \in 1 .. step - 1
      <4>1. \E i \in 1 .. j - 1 : First(recorded, i, recorded[j].id)
        BY <2>1, <2>6, <2>8, <3>2
      <4> QED BY <2>2, <2>6, <3>2, <4>1
    <3> QED BY <2>4, <3>1, <3>2
  <2>9. ASSUME NEW x \in Entry
        PROVE  buffer'[x] # Absent <=> \E i \in 1 .. step : First(recorded', i, x)
    <3>1. CASE x = e
      <4>1. \E i \in 1 .. step : First(recorded', i, e)
        BY <1>1, <2>1, <2>2, <2>3, <2>5
      <4> QED BY <1>4, <3>1, <4>1
    <3>2. CASE x # e
      BY <1>4, <2>1, <2>2, <2>3, <2>4, <2>5, <3>2
    <3> QED BY <3>1, <3>2
  <2>10. phase' # "flush" /\ Len(recorded') = step
    BY <1>6, <1>7
  <2> QED BY <2>7, <2>8, <2>9, <2>10 DEF ThreeRecords, First
<1>13. ThreeCounts'
  <2>1. ASSUME NEW x \in Entry, buffer'[x] # Absent
        PROVE  /\ Three!Valid(buffer'[x].bytes)
               /\ ~NonSecure => buffer'[x].bytes.counter = 0
    <3>1. buffer[x] # Absent =>
            Three!Valid(buffer[x].bytes) /\ (~NonSecure => buffer[x].bytes.counter = 0)
      BY <1>1 DEF ThreeIInv, ThreeCounts
    <3>2. CASE x = e
      BY <1>3, <1>4, <3>1, <3>2
    <3>3. CASE x # e
      BY <1>4, <2>1, <3>1, <3>3
    <3> QED BY <3>2, <3>3
  <2>2. ASSUME NEW x \in Entry, phase' = "aggregate" PROVE Calls(step - 1, x)' = {}
    <3>1. step' - 1 = 0
      BY <1>6, <2>2
    <3> QED BY <3>1 DEF Calls
  <2>3. Three!Valid(scratch')
    BY <1>3
  <2> QED BY <2>1, <2>2, <2>3, FS_EmptySet, ThreeSizes DEF ThreeCounts, Three!Valid
<1> QED
  BY <1>9, <1>10, <1>11, <1>12, <1>13 DEF ThreeIInv

LEMMA ThreeAggregateKeeps ==
  ASSUME Three!Parameters, ThreeIInv, Three!Aggregate
  PROVE  ThreeIInv'
<1> DEFINE e == Current
           bytes == Three!Aggregated(buffer[e].bytes)
<1>1. /\ e \in Entry /\ AggregateReturns /\ phase = "aggregate" /\ samples[step] = e
      /\ main' = main /\ recorded' = recorded
      /\ buffer[e] # Absent /\ buffer[e].bytes \in Three!Bytes /\ buffer[e].bytes.data = e
      /\ scratch' = bytes
  BY ThreeAggregateDoes
<1>2. PICK newPath \in Three!BufferPath : ThreePut(e, newPath, bytes)
  BY ThreeAggregateDoes
<1>3. /\ bytes \in Three!Bytes /\ bytes.data = e /\ Three!Valid(bytes)
      /\ bytes.counter = (buffer[e].bytes.counter + 1) % CounterValues
  <2>1. Three!Valid(buffer[e].bytes)
    BY <1>1 DEF ThreeIInv, ThreeCounts
  <2> QED BY <1>1, <2>1, ThreeAggregated, ThreeSizes
<1> HIDE DEF bytes
<1>4. /\ posmap' \in [Entry -> Three!Index]
      /\ buffer' \in [Entry -> Three!BufferBlock \cup {Absent}]
      /\ Three!HasMask(posmap'[e]) /\ buffer'[e].path = Three!WithoutMask(posmap'[e])
      /\ buffer'[e] # Absent /\ buffer'[e].bytes = bytes
      /\ \A x \in Entry : x # e => posmap'[x] = posmap[x] /\ buffer'[x] = buffer[x]
  BY <1>1, <1>2, <1>3, ThreePutDoes, ThreeTypes, ThreeSizes
<1>5. /\ step \in Call /\ samples \in [Call -> Entry] /\ step \in Nat
      /\ main \in [Entry -> Three!MemoryBlock \cup {Absent}]
      /\ Len(recorded) = SamplesPerRound
      /\ \A i \in Call : buffer[samples[i]] # Absent
  BY <1>1, ThreeTypes DEF ThreeIInv, OramProgress
<1>6. /\ samples' = samples /\ step' \in Call
      /\ \/ phase' = "aggregate" /\ step' = step + 1
         \/ phase' = "flush" /\ step' = 1
  BY <1>1, <1>5, ThreeSizes DEF AggregateReturns, Followed, Call
<1> HIDE DEF e
<1>7. \A x \in Entry : buffer'[x] # Absent <=> buffer[x] # Absent
  BY <1>1, <1>4
<1>8. Three!TypeOK'
  BY <1>1, <1>3, <1>4, <1>6, ThreeLoop
     DEF ThreeIInv, Three!TypeOK, Three!OramsTypeOK, Three!Phases, Three!Bytes, Three!BufferBlock,
         Three!MemoryBlock, Call, Three!Call
<1>9. ThreePlaces'
  <2>1. main[e] = Absent
    BY <1>1 DEF ThreeIInv, ThreePlaces
  <2>2. ASSUME NEW x \in Entry
        PROVE  /\ Three!HasMask(posmap'[x]) =>
                    /\ main'[x] = Absent /\ buffer'[x] # Absent /\ buffer'[x].bytes.data = x
                    /\ buffer'[x].path = Three!WithoutMask(posmap'[x])
               /\ ~Three!HasMask(posmap'[x]) =>
                    /\ buffer'[x] = Absent /\ main'[x] # Absent
                    /\ main'[x] = [path |-> posmap'[x], data |-> x]
    BY <1>1, <1>3, <1>4, <2>1 DEF ThreeIInv, ThreePlaces
  <2> QED BY <2>2 DEF ThreePlaces, Three!HasMask, Three!WithoutMask, Three!InBufferMask
<1>10. OramProgress'
  <2>1. \A i \in Call : buffer'[samples[i]] # Absent
    BY <1>5, <1>7
  <2> QED BY <1>1, <1>5, <1>6, <2>1 DEF OramProgress, Call
<1>11. ThreeRecords'
  <2>1. ASSUME NEW x \in Entry
        PROVE  buffer'[x] # Absent <=>
                 \E i \in 1 .. Len(recorded) : recorded[i].id = x /\ ~recorded[i].duplicate
    BY <1>1, <1>7 DEF ThreeIInv, ThreeRecords
  <2>2. phase' = "flush" => \A i \in 1 .. Len(recorded) : step' <= i
    BY <1>6
  <2> QED BY <1>1, <2>1, <2>2 DEF ThreeIInv, ThreeRecords
<1>12. ThreeCounts'
  <2>1. ASSUME NEW x \in Entry, buffer'[x] # Absent
        PROVE  /\ Three!Valid(buffer'[x].bytes)
               /\ ~NonSecure =>
                    buffer'[x].bytes.counter = Cardinality(Calls(step, x)) % CounterValues
    <3> DEFINE n == Cardinality(Calls(step - 1, x))
    <3>1. /\ n \in Nat
          /\ Cardinality(Calls(step, x)) = n + (IF samples[step] = x THEN 1 ELSE 0)
      <4>1. step - 1 \in Nat /\ (step - 1) + 1 = step
        BY <1>5, ThreeSizes DEF Call
      <4> QED BY <4>1, CallsFacts
    <3>2. /\ Three!Valid(buffer[x].bytes)
          /\ ~NonSecure => buffer[x].bytes.counter = n % CounterValues
      BY <1>1, <1>7, <2>1 DEF ThreeIInv, ThreeCounts
    <3> HIDE DEF n
    <3>3. CASE x = e
      <4>1. ((n % CounterValues) + 1) % CounterValues = (n + 1) % CounterValues
        BY <3>1, NextRemainder, ThreeSizes
      <4> QED BY <1>1, <1>3, <1>4, <3>1, <3>2, <3>3, <4>1
    <3>4. CASE x # e
      <4>1. buffer'[x] = buffer[x] /\ Cardinality(Calls(step, x)) = n
        BY <1>1, <1>4, <3>1, <3>4
      <4> QED BY <3>2, <4>1
    <3> QED BY <3>3, <3>4
  <2>2. phase' = "aggregate" => \A x \in Entry : Calls(step - 1, x)' = Calls(step, x)
    <3>1. phase' = "aggregate" => step' - 1 = step
      BY <1>5, <1>6
    <3> QED BY <1>6, <3>1 DEF Calls
  <2>3. Three!Valid(scratch') /\ phase' \notin {"sample", "download", "PermutationEnd"}
    BY <1>1, <1>3, <1>6
  <2> QED BY <2>1, <2>2, <2>3 DEF ThreeCounts, Three!Valid
<1> QED
  BY <1>8, <1>9, <1>10, <1>11, <1>12 DEF ThreeIInv

LEMMA ThreeFlushKeeps ==
  ASSUME Three!Parameters, ThreeIInv, Three!Flush
  PROVE  ThreeIInv'
<1> DEFINE e == recorded[step].id
           again == recorded[step].duplicate
<1>1. /\ e \in Entry /\ phase = "flush" /\ step \in 1 .. SamplesPerRound
      /\ Len(recorded) = SamplesPerRound
      /\ samples' = samples /\ scratch' \in Three!Bytes /\ Three!Valid(scratch')
      /\ again => buffer[e] = Absent /\ posmap' = posmap /\ main' = main /\ buffer' = buffer
      /\ \/ /\ step < SamplesPerRound /\ step' = step + 1 /\ phase' = "flush"
            /\ recorded' = recorded
         \/ step = SamplesPerRound /\ step' = 1 /\ phase' = "sample" /\ recorded' = <<>>
  BY ThreeFlushDoes
<1>2. ~again =>
        \E newPath \in Three!MemoryPath :
          /\ posmap' = [posmap EXCEPT ![e] = newPath]
          /\ main' = [main EXCEPT ![e] = [path |-> newPath, data |-> e]]
          /\ buffer' = [buffer EXCEPT ![e] = Absent]
  BY ThreeFlushDoes
<1>3. /\ samples \in [Call -> Entry] /\ recorded \in Seq(ThreeRecord)
      /\ posmap \in [Entry -> Three!Index]
      /\ main \in [Entry -> Three!MemoryBlock \cup {Absent}]
      /\ buffer \in [Entry -> Three!BufferBlock \cup {Absent}]
      /\ SamplesPerRound \in Nat \ {0} /\ step' \in Call
  BY <1>1, ThreeTypes, ThreeSizes DEF Call
<1>4. /\ posmap' \in [Entry -> Three!Index]
      /\ main' \in [Entry -> Three!MemoryBlock \cup {Absent}]
      /\ buffer' \in [Entry -> Three!BufferBlock \cup {Absent}]
      /\ \A x \in Entry : x # e => posmap'[x] = posmap[x] /\ main'[x] = main[x] /\ buffer'[x] = buffer[x]
      /\ buffer'[e] = Absent
      /\ ~again => /\ ~Three!HasMask(posmap'[e]) /\ main'[e] # Absent
                   /\ main'[e] = [path |-> posmap'[e], data |-> e]
  <2>1. CASE again
    BY <1>1, <1>3, <2>1
  <2>2. CASE ~again
    <3>1. PICK newPath \in Three!MemoryPath :
            /\ posmap' = [posmap EXCEPT ![e] = newPath]
            /\ main' = [main EXCEPT ![e] = [path |-> newPath, data |-> e]]
            /\ buffer' = [buffer EXCEPT ![e] = Absent]
      BY <1>2, <2>2
    <3>2. newPath \in Three!Index /\ ~Three!HasMask(newPath)
      BY MaskTells, ThreeSizes
    <3> DEFINE b == [path |-> newPath, data |-> e]
    <3>3. b \in Three!MemoryBlock /\ b # Absent
      BY <1>1, ThreeSizes DEF Three!MemoryBlock
    <3> HIDE DEF b, e, again
    <3>4. main' = [main EXCEPT ![e] = b]
      BY <3>1 DEF b
    <3>5. posmap'[e] = newPath /\ main'[e] = b
      BY <1>1, <1>3, <3>1, <3>4
    <3>6. /\ posmap' \in [Entry -> Three!Index]
          /\ main' \in [Entry -> Three!MemoryBlock \cup {Absent}]
          /\ buffer' \in [Entry -> Three!BufferBlock \cup {Absent}] /\ buffer'[e] = Absent
          /\ \A x \in Entry : x # e => posmap'[x] = posmap[x] /\ main'[x] = main[x] /\ buffer'[x] = buffer[x]
      BY <1>1, <1>3, <3>1, <3>2, <3>3, <3>4
    <3> QED BY <2>2, <3>2, <3>3, <3>5, <3>6 DEF b
  <2> QED BY <2>1, <2>2
<1>5. /\ recorded' \in Seq(ThreeRecord) /\ Len(recorded') \in {0, SamplesPerRound}
      /\ phase' = "sample" => Len(recorded') = 0
      /\ phase' = "flush" => Len(recorded') = SamplesPerRound /\ recorded' = recorded
  <2>1. CASE phase' = "flush" /\ recorded' = recorded
    BY <1>1, <1>3, <2>1
  <2>2. CASE phase' = "sample" /\ recorded' = <<>>
    <3>1. recorded' \in Seq(ThreeRecord) /\ Len(recorded') = 0
      BY <2>2, EmptySeq
    <3> QED BY <2>2, <3>1
  <2> QED BY <1>1, <2>1, <2>2
<1>6. /\ \A i, j \in 1 .. SamplesPerRound :
           ~recorded[i].duplicate /\ ~recorded[j].duplicate /\ recorded[i].id = recorded[j].id => i = j
      /\ \A j \in 1 .. SamplesPerRound : recorded[j].duplicate =>
           \E i \in 1 .. j - 1 : ~recorded[i].duplicate /\ recorded[i].id = recorded[j].id
      /\ \A x \in Entry : buffer[x] # Absent <=>
           \E i \in 1 .. SamplesPerRound : recorded[i].id = x /\ ~recorded[i].duplicate /\ step <= i
  BY <1>1 DEF ThreeIInv, ThreeRecords
<1>7. ASSUME NEW x \in Entry
      PROVE  buffer'[x] # Absent <=>
               \E i \in 1 .. SamplesPerRound : recorded[i].id = x /\ ~recorded[i].duplicate /\ step + 1 <= i
  <2>1. \A i \in 1 .. SamplesPerRound : step <= i <=> i = step \/ step + 1 <= i
    BY <1>1, <1>3
  <2>2. CASE again
    <3>1. buffer'[x] = buffer[x]
      BY <1>1, <2>2
    <3> QED BY <1>6, <2>1, <2>2, <3>1
  <2>3. CASE ~again /\ x = e
    <3>1. \A i \in 1 .. SamplesPerRound : recorded[i].id = x /\ ~recorded[i].duplicate => i = step
      BY <1>1, <1>6, <2>3
    <3>2. ~(step + 1 <= step)
      BY <1>1, <1>3
    <3> QED BY <1>4, <2>3, <3>1, <3>2
  <2>4. CASE ~again /\ x # e
    <3>1. buffer'[x] = buffer[x]
      BY <1>4, <2>4
    <3> QED BY <1>6, <2>1, <2>4, <3>1
  <2> QED BY <2>2, <2>3, <2>4
<1> HIDE DEF e, again
<1>8. Three!TypeOK'
  BY <1>1, <1>3, <1>4, <1>5, ThreeLoop
     DEF Three!TypeOK, Three!OramsTypeOK, Three!Phases, Three!Bytes, Three!BufferBlock,
         Three!MemoryBlock, ThreeRecord, Call, Three!Call
<1>9. ThreePlaces'
  <2>1. ASSUME NEW x \in Entry
        PROVE  /\ Three!HasMask(posmap'[x]) =>
                    /\ main'[x] = Absent /\ buffer'[x] # Absent /\ buffer'[x].bytes.data = x
                    /\ buffer'[x].path = Three!WithoutMask(posmap'[x])
               /\ ~Three!HasMask(posmap'[x]) =>
                    /\ buffer'[x] = Absent /\ main'[x] # Absent
                    /\ main'[x] = [path |-> posmap'[x], data |-> x]
    <3>1. CASE x = e /\ ~again
      BY <1>4, <3>1
    <3>2. CASE x # e \/ again
      <4>1. posmap'[x] = posmap[x] /\ main'[x] = main[x] /\ buffer'[x] = buffer[x]
        BY <1>1, <1>4, <3>2
      <4> QED BY <4>1 DEF ThreeIInv, ThreePlaces
    <3> QED BY <3>1, <3>2
  <2> QED BY <2>1 DEF ThreePlaces, Three!HasMask, Three!WithoutMask, Three!InBufferMask
<1>10. OramProgress'
  BY <1>1, <1>5 DEF OramProgress
<1>11. ThreeRecords'
  <2>1. CASE phase' = "flush"
    <3>1. step' = step + 1 /\ recorded' = recorded /\ Len(recorded') = SamplesPerRound
      BY <1>1, <1>5, <2>1
    <3> QED BY <1>6, <1>7, <2>1, <3>1 DEF ThreeRecords
  <2>2. CASE phase' = "sample"
    <3>1. Len(recorded') = 0
      BY <1>5, <2>2
    <3>2. \A x \in Entry : buffer'[x] = Absent
      <4>1. step = SamplesPerRound
        BY <1>1, <2>2
      <4>2. \A i \in 1 .. SamplesPerRound : ~(step + 1 <= i)
        BY <1>3, <4>1
      <4> QED BY <1>7, <4>2
    <3> QED BY <2>2, <3>1, <3>2 DEF ThreeRecords
  <2> QED BY <1>1, <2>1, <2>2
<1>12. ThreeCounts'
  <2>1. ASSUME NEW x \in Entry, buffer'[x] # Absent
        PROVE  phase' = "flush" /\ Three!Valid(buffer'[x].bytes)
    <3>1. PICK i \in 1 .. SamplesPerRound : step + 1 <= i
      BY <1>7, <2>1
    <3>2. phase' = "flush"
      BY <1>1, <1>3, <3>1
    <3>3. x # e
      BY <1>4, <2>1
    <3>4. Three!Valid(buffer[x].bytes) /\ buffer'[x] = buffer[x]
      BY <1>4, <2>1, <3>3 DEF ThreeIInv, ThreeCounts
    <3> QED BY <3>2, <3>4
  <2> QED BY <1>1, <2>1 DEF ThreeCounts, Three!Valid
<1> QED
  BY <1>8, <1>9, <1>10, <1>11, <1>12 DEF ThreeIInv

LEMMA ThreeStutterKeeps ==
  ASSUME ThreeIInv, UNCHANGED Three!vars
  PROVE  ThreeIInv'
<1>1. /\ phase' = phase /\ step' = step /\ samples' = samples /\ posmap' = posmap /\ main' = main
      /\ buffer' = buffer /\ scratch' = scratch /\ recorded' = recorded
  BY DEF Three!vars
<1>2. Three!TypeOK'
  BY <1>1 DEF ThreeIInv, Three!TypeOK, Three!OramsTypeOK, Three!Call
<1>3. ThreePlaces'
  BY <1>1 DEF ThreeIInv, ThreePlaces, Three!HasMask, Three!WithoutMask, Three!InBufferMask
<1>4. OramProgress' /\ ThreeRecords'
  BY <1>1 DEF ThreeIInv, OramProgress, ThreeRecords, Call
<1>5. ThreeCounts'
  BY <1>1 DEF ThreeIInv, ThreeCounts, Calls, Three!Valid
<1> QED
  BY <1>2, <1>3, <1>4, <1>5 DEF ThreeIInv

LEMMA ThreeInvariance ==
  ASSUME Three!Parameters
  PROVE  Three!Spec => []ThreeIInv
<1>1. Three!Init => ThreeIInv
  BY ThreeInitGood
<1>2. ThreeIInv /\ [Three!Next]_(Three!vars) => ThreeIInv'
  <2> SUFFICES ASSUME ThreeIInv, [Three!Next]_(Three!vars) PROVE ThreeIInv'
    OBVIOUS
  <2>1. CASE Three!Sample
    BY <2>1, ThreeSampleKeeps
  <2>2. CASE Three!Download
    BY <2>2, ThreeDownloadKeeps
  <2>3. CASE Three!Aggregate
    BY <2>3, ThreeAggregateKeeps
  <2>4. CASE Three!Flush
    BY <2>4, ThreeFlushKeeps
  <2>5. CASE UNCHANGED Three!vars
    BY <2>5, ThreeStutterKeeps
  <2> QED BY <2>1, <2>2, <2>3, <2>4, <2>5 DEF Three!Next
<1> QED
  BY <1>1, <1>2, PTL DEF Three!Spec

-----------------------------------------------------------------------------
(* What a round sees of the buffer.                                         *)
ThreeHeld == { e \in Entry : buffer[e] # Absent }

ThreeSums == [e \in Entry |-> IF buffer[e] = Absent THEN 0 ELSE buffer[e].bytes.counter]

LEMMA ThreeInitRefines ==
  ASSUME Three!Parameters, Three!Init
  PROVE  Three!Rounds!Init
<1>1. Three!LoopInit /\ \A e \in Entry : buffer[e] = Absent
  BY DEF Three!Init
<1>2. ThreeHeld = {} /\ ThreeSums = [e \in Entry |-> 0]
  BY <1>1 DEF ThreeHeld, ThreeSums
<1> QED
  BY <1>1, <1>2 DEF Three!Rounds!Init, Three!Rounds!LoopInit, Three!Rounds!Call,
       Three!LoopInit, Three!Call, ThreeHeld, ThreeSums

LEMMA ThreeSampleRefines ==
  ASSUME Three!Parameters, ThreeIInv, Three!Sample
  PROVE  Three!Rounds!Sample
<1>1. phase = "sample" /\ (\E e \in Entry : Three!Rounds!Draw(e)) /\ buffer' = buffer
  BY ThreeLoop DEF Three!Sample, Three!bufferVars
<1>2. ThreeHeld' = ThreeHeld /\ ThreeSums' = ThreeSums
  BY <1>1 DEF ThreeHeld, ThreeSums
<1> QED
  BY <1>1, <1>2 DEF Three!Rounds!Sample, ThreeHeld, ThreeSums

LEMMA ThreeDownloadRefines ==
  ASSUME Three!Parameters, ~NonSecure, ThreeIInv, Three!Download
  PROVE  Three!Rounds!Download
<1> DEFINE e == Current
<1>1. e \in Entry /\ phase = "download" /\ DownloadReturns
  BY ThreeDownloadDoes
<1>2. PICK newPath \in Three!BufferPath, bytes \in Three!Bytes :
        /\ ThreePut(e, newPath, bytes)
        /\ buffer[e] # Absent => bytes = buffer[e].bytes
        /\ buffer[e] = Absent => bytes.counter = 0
  BY ThreeDownloadDoes
<1>3. /\ buffer'[e] # Absent /\ buffer'[e].bytes = bytes
      /\ \A x \in Entry : x # e => buffer'[x] = buffer[x]
  BY <1>1, <1>2, ThreePutDoes, ThreeTypes, ThreeSizes
<1>4. ~UsesReserve /\ Three!Rounds!Current = e /\ Three!Rounds!DownloadReturns
  BY <1>1, ThreeSizes, ThreeLoop
<1> HIDE DEF e
<1>5. /\ buffer[e] # Absent => buffer'[e].bytes.counter = buffer[e].bytes.counter
      /\ buffer[e] = Absent => buffer'[e].bytes.counter = 0
  BY <1>2, <1>3
<1>6. ThreeHeld' = ThreeHeld \cup {e}
  BY <1>1, <1>3 DEF ThreeHeld
<1>7. ThreeSums' = ThreeSums
  <2>1. ASSUME NEW x \in Entry
        PROVE  (IF buffer'[x] = Absent THEN 0 ELSE buffer'[x].bytes.counter)
                 = IF buffer[x] = Absent THEN 0 ELSE buffer[x].bytes.counter
    <3>1. CASE x = e
      BY <1>3, <1>5, <3>1
    <3>2. CASE x # e
      BY <1>3, <3>2
    <3> QED BY <3>1, <3>2
  <2> QED BY <2>1 DEF ThreeSums
<1> QED
  BY <1>1, <1>4, <1>6, <1>7 DEF Three!Rounds!Download, ThreeHeld, ThreeSums

LEMMA ThreeAggregateRefines ==
  ASSUME Three!Parameters, ThreeIInv, Three!Aggregate
  PROVE  Three!Rounds!Aggregate
<1> DEFINE e == Current
           bytes == Three!Aggregated(buffer[e].bytes)
<1>1. /\ e \in Entry /\ phase = "aggregate" /\ AggregateReturns
      /\ buffer[e] # Absent /\ buffer[e].bytes \in Three!Bytes
  BY ThreeAggregateDoes
<1>2. PICK newPath \in Three!BufferPath : ThreePut(e, newPath, bytes)
  BY ThreeAggregateDoes
<1>3. bytes \in Three!Bytes /\ bytes.counter = (buffer[e].bytes.counter + 1) % CounterValues
  BY <1>1, ThreeAggregated, ThreeSizes
<1> HIDE DEF bytes
<1>4. /\ buffer'[e] # Absent /\ buffer'[e].bytes = bytes
      /\ \A x \in Entry : x # e => buffer'[x] = buffer[x]
  BY <1>1, <1>2, <1>3, ThreePutDoes, ThreeTypes, ThreeSizes
<1>5. Three!Rounds!Current = e /\ Three!Rounds!AggregateReturns
  BY <1>1, ThreeLoop
<1> HIDE DEF e
<1>6. ThreeHeld' = ThreeHeld /\ e \in ThreeHeld
  BY <1>1, <1>4 DEF ThreeHeld
<1>7. ThreeSums' = [ThreeSums EXCEPT ![e] = (@ + 1) % CounterValues]
  <2> DEFINE More(x) == IF x = e THEN (ThreeSums[e] + 1) % CounterValues ELSE ThreeSums[x]
  <2>1. ASSUME NEW x \in Entry
        PROVE  (IF buffer'[x] = Absent THEN 0 ELSE buffer'[x].bytes.counter) = More(x)
    <3>1. ThreeSums[x] = IF buffer[x] = Absent THEN 0 ELSE buffer[x].bytes.counter
      BY DEF ThreeSums
    <3>2. CASE x = e
      <4>1. buffer'[x].bytes.counter = (ThreeSums[e] + 1) % CounterValues
        BY <1>1, <1>3, <1>4, <3>1, <3>2
      <4> QED BY <1>4, <3>2, <4>1
    <3>3. CASE x # e
      BY <1>4, <3>1, <3>3
    <3> QED BY <3>2, <3>3
  <2>2. ThreeSums' = [x \in Entry |-> More(x)]
    <3> HIDE DEF More
    <3> QED BY <2>1 DEF ThreeSums
  <2>3. ThreeSums = [x \in Entry |-> ThreeSums[x]]
    BY DEF ThreeSums
  <2> QED BY <1>1, <2>2, <2>3
<1> QED
  BY <1>1, <1>5, <1>6, <1>7 DEF Three!Rounds!Aggregate, ThreeHeld, ThreeSums

LEMMA ThreeFlushRefines ==
  ASSUME Three!Parameters, ThreeIInv, Three!Flush
  PROVE  Three!Rounds!Flush
<1> DEFINE e == recorded[step].id
           back == ThreeHeld \cap {e}
<1>1. /\ e \in Entry /\ phase = "flush" /\ samples' = samples
      /\ recorded[step].duplicate => buffer[e] = Absent /\ buffer' = buffer
      /\ \/ step < SamplesPerRound /\ step' = step + 1 /\ phase' = "flush"
         \/ step = SamplesPerRound /\ step' = 1 /\ phase' = "sample" /\ recorded' = <<>>
  BY ThreeFlushDoes
<1>2. ~recorded[step].duplicate => buffer' = [buffer EXCEPT ![e] = Absent]
  BY ThreeFlushDoes
<1>3. buffer \in [Entry -> Three!BufferBlock \cup {Absent}]
  BY ThreeTypes
<1>4. buffer'[e] = Absent /\ \A x \in Entry : x # e => buffer'[x] = buffer[x]
  BY <1>1, <1>2, <1>3
<1>5. phase' = "sample" => ThreeHeld' = {}
  <2>1. ThreeIInv'
    BY ThreeFlushKeeps
  <2>2. phase' = "sample" => Len(recorded') = 0
    BY <2>1 DEF ThreeIInv, OramProgress
  <2>3. phase' = "sample" => \A x \in Entry : buffer'[x] = Absent
    BY <2>1, <2>2 DEF ThreeIInv, ThreeRecords
  <2> QED BY <2>3 DEF ThreeHeld
<1> HIDE DEF e
<1>6. /\ ThreeHeld' = ThreeHeld \ back /\ back \in SUBSET ThreeHeld
      /\ ThreeSums' = [x \in Entry |-> IF x \in back THEN 0 ELSE ThreeSums[x]]
  BY <1>1, <1>4 DEF ThreeHeld, ThreeSums
<1>7. Three!Rounds!FlushGoesOn \/ (Three!Rounds!FlushReturns /\ ThreeHeld' = {})
  BY <1>1, <1>5 DEF Three!Rounds!FlushGoesOn, Three!Rounds!FlushReturns
<1> HIDE DEF back
<1> QED
  BY <1>1, <1>6, <1>7 DEF Three!Rounds!Flush, Three!Rounds!SumsCleared, ThreeHeld, ThreeSums

-----------------------------------------------------------------------------
(* Every variable of OramBuffer3 keeps its type: no index is cut off when   *)
(* it is stored.                                                            *)
THEOREM ThreeTypeCorrect ==
  ASSUME Three!Parameters
  PROVE  Three!Spec => []Three!TypeOK
<1>1. ThreeIInv => Three!TypeOK
  BY DEF ThreeIInv
<1> QED
  BY <1>1, ThreeInvariance, PTL

(* The bit and the path in the memory's position map tell in which ORAM,    *)
(* and on which of its paths, an entry lies.                                *)
THEOREM MapTellsThePlace ==
  ASSUME Three!Parameters
  PROVE  Three!Spec => []Three!MapTellsPlace
<1>1. ThreeIInv => Three!MapTellsPlace
  BY DEF ThreeIInv, ThreePlaces, Three!MapTellsPlace
<1> QED
  BY <1>1, ThreeInvariance, PTL

(* No search of OramBuffer3 fails, and no block that leaves the buffer      *)
(* fails its check.                                                         *)
THEOREM ThreeNeverThrows ==
  ASSUME Three!Parameters
  PROVE  Three!Spec => []NeverThrows
<1>1. ThreeIInv => NeverThrows
  BY DEF ThreeIInv, OramProgress, NeverThrows
<1> QED
  BY <1>1, ThreeInvariance, PTL

(* OramBuffer3 implements TrainingRounds.  In the non-secure mode it does   *)
(* not: an entry may arrive with the counter of another.                    *)
THEOREM ThreeImplementsRounds ==
  ASSUME Three!Parameters, ~NonSecure
  PROVE  Three!Spec => Three!ImplementsRounds
<1>1. Three!Init => Three!Rounds!Init
  BY ThreeInitRefines
<1>2. ThreeIInv /\ [Three!Next]_(Three!vars) => [Three!Rounds!Next]_(Three!Rounds!vars)
  <2> SUFFICES ASSUME ThreeIInv, [Three!Next]_(Three!vars)
      PROVE  [Three!Rounds!Next]_(Three!Rounds!vars)
    OBVIOUS
  <2>1. CASE Three!Sample
    BY <2>1, ThreeSampleRefines DEF Three!Rounds!Next
  <2>2. CASE Three!Download
    BY <2>2, ThreeDownloadRefines DEF Three!Rounds!Next
  <2>3. CASE Three!Aggregate
    BY <2>3, ThreeAggregateRefines DEF Three!Rounds!Next
  <2>4. CASE Three!Flush
    BY <2>4, ThreeFlushRefines DEF Three!Rounds!Next
  <2>5. CASE UNCHANGED Three!vars
    <3>1. buffer' = buffer /\ phase' = phase /\ step' = step /\ samples' = samples
      BY <2>5 DEF Three!vars
    <3>2. ThreeHeld' = ThreeHeld /\ ThreeSums' = ThreeSums
      BY <3>1 DEF ThreeHeld, ThreeSums
    <3> QED BY <3>1, <3>2 DEF Three!Rounds!vars, ThreeHeld, ThreeSums
  <2> QED BY <2>1, <2>2, <2>3, <2>4, <2>5 DEF Three!Next
<1> QED
  BY <1>1, <1>2, ThreeInvariance, PTL DEF Three!Spec, Three!ImplementsRounds, Three!Rounds!Spec

(* During the aggregation the counter in the buffer ORAM has counted the    *)
(* calls that were made for its entry.                                      *)
THEOREM ThreeCountsEveryGradient ==
  ASSUME Three!Parameters, ~NonSecure
  PROVE  Three!Spec => []Three!Rounds!GradientsCounted
<1>1. ThreeIInv => Three!Rounds!GradientsCounted
  <2> SUFFICES ASSUME ThreeIInv, phase = "aggregate", NEW x \in ThreeHeld
      PROVE  ThreeSums[x]
               = Three!Rounds!Cardinality({ i \in 1 .. step - 1 : samples[i] = x }) % CounterValues
    BY DEF Three!Rounds!GradientsCounted, ThreeHeld, ThreeSums
  <2>1. x \in Entry /\ buffer[x] # Absent /\ ThreeSums[x] = buffer[x].bytes.counter
    BY DEF ThreeHeld, ThreeSums
  <2>2. buffer[x].bytes.counter = Cardinality(Calls(step - 1, x)) % CounterValues
    BY <2>1 DEF ThreeIInv, ThreeCounts
  <2> QED BY <2>1, <2>2, ThreeCardinality DEF Calls
<1> QED
  BY <1>1, ThreeInvariance, PTL

-----------------------------------------------------------------------------
(* OramBufferDP. *)

(* The n-th of a set of places.                                             *)
Rank(P, p) == Cardinality({ q \in P : q <= p })

LEMMA NthExists ==
  ASSUME NEW m \in Nat, NEW P, P \subseteq 1 .. m, NEW n \in 1 .. Cardinality(P)
  PROVE  \E p \in P : Rank(P, p) = n
<1> DEFINE R(p) == { q \in P : q <= p }
           S == { p \in Nat : n <= Cardinality(R(p)) }
<1>1. IsFiniteSet(P) /\ Cardinality(P) \in Nat
  <2>1. 1 \in Int /\ m \in Int /\ IsFiniteSet(1 .. m)
    BY FS_Interval
  <2> QED BY <2>1, FS_Subset, FS_CardinalityType
<1>2. \A p \in Nat : IsFiniteSet(R(p)) /\ Cardinality(R(p)) \in Nat
  <2>1. \A p \in Nat : R(p) \subseteq P
    OBVIOUS
  <2> QED BY <1>1, <2>1, FS_Subset, FS_CardinalityType
<1>3. S \subseteq Nat /\ m \in S
  <2>1. R(m) = P
    <3>1. \A q \in P : q <= m
      OBVIOUS
    <3> QED BY <3>1
  <2> QED BY <2>1
<1>4. PICK p \in S : \A r \in S : p <= r
  <2> HIDE DEF S
  <2> QED BY <1>3, LeastOfNat
<1>5. p \in Nat /\ n <= Cardinality(R(p))
  BY <1>4
<1>6. p # 0
  <2>1. R(0) = {}
    <3>1. \A q \in P : ~(q <= 0)
      OBVIOUS
    <3> QED BY <3>1
  <2>2. Cardinality(R(0)) = 0
    BY <2>1, FS_EmptySet
  <2> HIDE DEF R
  <2> QED BY <1>5, <2>2
<1>7. p - 1 \in Nat /\ ~(n <= Cardinality(R(p - 1)))
  <2>1. p - 1 \in Nat /\ ~(p <= p - 1)
    BY <1>5, <1>6
  <2>2. p - 1 \notin S
    BY <1>4, <2>1
  <2> QED BY <2>1, <2>2
<1>8. R(p) = IF p \in P THEN R(p - 1) \cup {p} ELSE R(p - 1)
  <2>1. \A q \in P : q <= p <=> q = p \/ q <= p - 1
    BY <1>5
  <2> QED BY <2>1
<1>9. p \notin R(p - 1)
  BY <1>5
<1> HIDE DEF R, S
<1>10. p \in P
  BY <1>5, <1>7, <1>8
<1>11. Cardinality(R(p)) = Cardinality(R(p - 1)) + 1
  BY <1>2, <1>7, <1>8, <1>9, <1>10, FS_AddElement
<1>12. Cardinality(R(p)) = n
  BY <1>2, <1>5, <1>7, <1>11
<1> QED
  BY <1>10, <1>12 DEF R, Rank

(* Places of different numbers are different, so no two ids of a union are  *)
(* the same.                                                                *)
LEMMA DPNth ==
  ASSUME NEW m \in Nat, NEW P, P \subseteq 1 .. m, NEW n \in 1 .. Cardinality(P)
  PROVE  DP!Nth(P, n) \in P /\ Rank(P, DP!Nth(P, n)) = n
<1>1. \A p : DP!Cardinality({ q \in P : q <= p }) = Rank(P, p)
  BY DEF DP!Cardinality, Cardinality, Rank
<1>2. PICK p \in P : Rank(P, p) = n
  BY NthExists
<1>3. DP!Cardinality({ q \in P : q <= p }) = n
  BY <1>1, <1>2
<1>4. DP!Nth(P, n) \in P /\ DP!Cardinality({ q \in P : q <= DP!Nth(P, n) }) = n
  BY <1>3 DEF DP!Nth
<1> QED
  BY <1>1, <1>4

-----------------------------------------------------------------------------
LEMMA DPCardinality ==
  ASSUME NEW S
  PROVE  DP!Cardinality(S) = Cardinality(S) /\ DP!Rounds!Cardinality(S) = Cardinality(S)
BY DEF DP!Cardinality, DP!Rounds!Cardinality, Cardinality

LEMMA DPLoop ==
  /\ DP!Call = Call /\ DP!Rounds!Call = Call
  /\ DP!Current = Current /\ DP!Rounds!Current = Current
  /\ \A e : DP!Draw(e) <=> Draw(e)
  /\ \A e : DP!Rounds!Draw(e) <=> Draw(e)
  /\ DP!DownloadReturns <=> DownloadReturns
  /\ DP!Rounds!DownloadReturns <=> DownloadReturns
  /\ DP!AggregateReturns <=> AggregateReturns
  /\ DP!Rounds!AggregateReturns <=> AggregateReturns
  /\ DP!ReserveReturns <=> ReserveReturns
  /\ DP!Rounds!ReserveReturns <=> ReserveReturns
<1>1. /\ DP!Call = Call /\ DP!Rounds!Call = Call
      /\ DP!Drawn = Drawn /\ DP!Rounds!Drawn = Drawn
      /\ DP!Current = Current /\ DP!Rounds!Current = Current
  BY DEF DP!Call, DP!Rounds!Call, Call, DP!Drawn, DP!Rounds!Drawn, Drawn,
         DP!Current, DP!Rounds!Current, Current
<1>2. /\ DP!Cardinality(Drawn) = Cardinality(Drawn)
      /\ DP!Cardinality(Entry) = Cardinality(Entry)
      /\ DP!Rounds!Cardinality(Drawn) = Cardinality(Drawn)
      /\ DP!Rounds!Cardinality(Entry) = Cardinality(Entry)
  BY DPCardinality
<1>3. \A e : (DP!Draw(e) <=> Draw(e)) /\ (DP!Rounds!Draw(e) <=> Draw(e))
  BY <1>1, <1>2 DEF DP!Draw, DP!Rounds!Draw, Draw, DP!Followed, DP!Rounds!Followed, Followed
<1>4. \A s, x : DP!Occurrences(s, x) = Occurrences(s, x)
                /\ DP!Rounds!Occurrences(s, x) = Occurrences(s, x)
  BY <1>1, DPCardinality DEF Occurrences, DP!Occurrences, DP!Rounds!Occurrences
<1>5. DP!Shuffles(samples) = Shuffles(samples) /\ DP!Rounds!Shuffles(samples) = Shuffles(samples)
  BY <1>1, <1>4 DEF Shuffles, DP!Shuffles, DP!Rounds!Shuffles
<1>6. /\ DP!DownloadReturns <=> DownloadReturns
      /\ DP!Rounds!DownloadReturns <=> DownloadReturns
  BY <1>5 DEF DP!DownloadReturns, DP!Rounds!DownloadReturns, DownloadReturns,
              DP!Followed, DP!Rounds!Followed, Followed
<1>7. /\ DP!AggregateReturns <=> AggregateReturns
      /\ DP!Rounds!AggregateReturns <=> AggregateReturns
      /\ DP!ReserveReturns <=> ReserveReturns
      /\ DP!Rounds!ReserveReturns <=> ReserveReturns
  BY DEF DP!AggregateReturns, DP!Rounds!AggregateReturns, AggregateReturns,
         DP!ReserveReturns, DP!Rounds!ReserveReturns, ReserveReturns,
         DP!Followed, DP!Rounds!Followed, Followed
<1> QED
  BY <1>1, <1>3, <1>6, <1>7

(* What is said of two ORAMs is the same in both instances. *)
LEMMA DPOrams ==
  /\ DP!OramsParameters <=> Three!OramsParameters
  /\ DP!Index = Three!Index /\ DP!MemoryPath = Three!MemoryPath /\ DP!BufferPath = Three!BufferPath
  /\ DP!Bytes = Three!Bytes /\ DP!MemoryBlock = Three!MemoryBlock /\ DP!BufferBlock = Three!BufferBlock
  /\ \A x : DP!HasMask(x) <=> Three!HasMask(x)
  /\ \A x : DP!WithMask(x) = Three!WithMask(x)
  /\ \A x : DP!WithoutMask(x) = Three!WithoutMask(x)
  /\ \A x : DP!Stored(x) = Three!Stored(x)
  /\ \A oram, e, path : DP!Answers(oram, e, path) = Three!Answers(oram, e, path)
  /\ \A oram, e, found : DP!Without(oram, e, found) = Three!Without(oram, e, found)
  /\ \A bytes : DP!Aggregated(bytes) = Three!Aggregated(bytes)
  /\ \A bytes : DP!Valid(bytes) <=> Three!Valid(bytes)
<1>1. /\ DP!MemoryPath = Three!MemoryPath /\ DP!BufferPath = Three!BufferPath
      /\ DP!Bytes = Three!Bytes /\ DP!MemoryBlock = Three!MemoryBlock /\ DP!BufferBlock = Three!BufferBlock
  BY DEF DP!MemoryPath, Three!MemoryPath, DP!BufferPath, Three!BufferPath,
         DP!Bytes, Three!Bytes, DP!MemoryBlock, Three!MemoryBlock, DP!BufferBlock, Three!BufferBlock
<1>2. \A n : DP!NumBits(n) = Three!NumBits(n)
  BY Zenon DEF DP!NumBits, Three!NumBits
<1>3. DP!InBufferMask = Three!InBufferMask /\ \A p : DP!PathIndexSize(p) = Three!PathIndexSize(p)
  BY <1>2 DEF DP!InBufferMask, Three!InBufferMask, DP!PathIndexSize, Three!PathIndexSize
<1>4. DP!Index = Three!Index /\ \A x : DP!Stored(x) = Three!Stored(x)
  BY <1>3 DEF DP!Index, Three!Index, DP!Stored, Three!Stored
<1>5. DP!OramsParameters <=> Three!OramsParameters
  BY <1>1, <1>3 DEF DP!OramsParameters, Three!OramsParameters, DP!LoopParameters, Three!LoopParameters
<1>6. \A x : DP!HasMask(x) <=> Three!HasMask(x)
  BY <1>3 DEF DP!HasMask, Three!HasMask
<1>7. \A x : DP!WithMask(x) = Three!WithMask(x) /\ DP!WithoutMask(x) = Three!WithoutMask(x)
  BY <1>3, <1>6 DEF DP!WithMask, Three!WithMask, DP!WithoutMask, Three!WithoutMask
<1>8. /\ \A oram, e, path : DP!Answers(oram, e, path) = Three!Answers(oram, e, path)
      /\ \A oram, e, found : DP!Without(oram, e, found) = Three!Without(oram, e, found)
      /\ \A bytes : DP!Valid(bytes) <=> Three!Valid(bytes)
  BY DEF DP!Answers, Three!Answers, DP!Without, Three!Without, DP!Valid, Three!Valid
<1>9. \A bytes : DP!Aggregated(bytes) = Three!Aggregated(bytes)
  BY DEF DP!Aggregated, Three!Aggregated
<1> QED
  BY <1>1, <1>4, <1>5, <1>6, <1>7, <1>8, <1>9

-----------------------------------------------------------------------------
(* A union has ids of the requests, a plan ids of the requests and dummies. *)
LEMMA DPUnionOf ==
  ASSUME NEW S, NEW ids \in Seq(S)
  PROVE  DP!Union(ids) \in Seq(S)
<1> DEFINE P == DP!FirstPlaces(ids)
           N == DP!Cardinality(P)
           f == [n \in 1 .. N |-> ids[DP!Nth(P, n)]]
<1>1. Len(ids) \in Nat /\ \A p \in 1 .. Len(ids) : ids[p] \in S
  BY LenProperties, ElementOfSeq
<1>2. P \subseteq 1 .. Len(ids)
  BY DEF DP!FirstPlaces
<1>3. N = Cardinality(P) /\ N \in Nat
  <2>1. 1 \in Int /\ Len(ids) \in Int /\ IsFiniteSet(1 .. Len(ids))
    BY <1>1, FS_Interval
  <2> QED BY <1>2, <2>1, DPCardinality, FS_Subset, FS_CardinalityType
<1>4. DP!Union(ids) = f
  BY DEF DP!Union
<1>5. \A n \in 1 .. N : f[n] \in S
  <2> HIDE DEF P
  <2> TAKE n \in 1 .. N
  <2>1. n \in 1 .. Cardinality(P)
    BY <1>3
  <2>2. DP!Nth(P, n) \in P
    BY <1>1, <1>2, <2>1, DPNth
  <2> QED BY <1>1, <1>2, <2>2
<1>6. f \in [1 .. N -> S]
  <2> HIDE DEF N
  <2> QED BY <1>5
<1> QED
  <2> HIDE DEF f, N
  <2> QED BY <1>3, <1>4, <1>6, SeqDef

LEMMA Chunking ==
  ASSUME NEW L \in Nat \ {0}, NEW C \in Nat \ {0}, NEW K, K = (L + C - 1) \div C
  PROVE  /\ K \in Nat \ {0}
         /\ \A c \in Nat \ {0} : /\ (c - 1) * C \in Nat /\ c * C \in Nat
                                 /\ c < K => c * C <= L
<1>1. L + C - 1 \in Int /\ K \in Int /\ C * K \in Int /\ (L + C - 1) % C \in 0 .. C - 1
      /\ L + C - 1 = C * K + ((L + C - 1) % C)
  OBVIOUS
<1>2. C * K <= L + C - 1 /\ C * K > L - 1
  <2> DEFINE y == C * K
             z == (L + C - 1) % C
  <2>1. y \in Int /\ z \in 0 .. C - 1 /\ L + C - 1 = y + z
    BY <1>1
  <2> HIDE DEF y, z
  <2>2. y <= L + C - 1 /\ y > L - 1
    BY <2>1
  <2> QED BY <2>2 DEF y
<1>3. K >= 1
  <2>1. CASE K <= 0
    <3>1. C * K <= 0
      BY <1>1, <2>1, Z3
    <3> QED BY <1>1, <1>2, <3>1
  <2> QED BY <1>1, <2>1
<1>4. ASSUME NEW c \in Nat \ {0}
      PROVE  (c - 1) * C \in Nat /\ c * C \in Nat /\ (c < K => c * C <= L)
  <2>1. (c - 1) * C \in Nat /\ c * C \in Nat
    BY Z3
  <2>2. ASSUME c < K PROVE c * C + C <= C * K
    <3>1. c + 1 <= K
      BY <1>1, <2>2
    <3>2. C * (c + 1) <= C * K
      BY <1>1, <3>1, Z3
    <3>3. C * (c + 1) = c * C + C
      BY Z3
    <3> QED BY <3>2, <3>3
  <2> DEFINE y == C * K
             z == c * C
  <2>3. y \in Int /\ y <= L + C - 1 /\ z \in Nat /\ (c < K => z + C <= y)
    BY <1>1, <1>2, <2>1, <2>2
  <2> HIDE DEF y, z
  <2>4. c < K => z <= L
    BY <2>3
  <2> QED BY <2>1, <2>4 DEF z
<1> QED
  BY <1>1, <1>3, <1>4

LEMMA DPPlanned ==
  ASSUME DP!Parameters, DP!Plan, requested \in Seq(Entry), Len(requested) = SamplesPerRound
  PROVE  /\ plan' \in Seq(Entry \cup {Dummy}) /\ Len(plan') \in 1 .. SamplesPerRound
         /\ \A n \in 1 .. Len(plan') : plan'[n] # Dummy =>
              \E p \in 1 .. SamplesPerRound : plan'[n] = requested[p]
<1> DEFINE S == { requested[p] : p \in 1 .. SamplesPerRound }
           K == DP!NumChunks
<1>1. SamplesPerRound \in Nat \ {0} /\ ChunkSize \in Nat \ {0} /\ Dummy \notin Entry
  BY DPOrams, OramSizes DEF DP!Parameters
<1>2. S \subseteq Entry
  BY ElementOfSeq
<1>3. K = (SamplesPerRound + ChunkSize - 1) \div ChunkSize
  BY DEF DP!NumChunks
<1> HIDE DEF K
<1>4. /\ K \in Nat \ {0}
      /\ \A c \in Nat \ {0} : /\ (c - 1) * ChunkSize \in Nat /\ c * ChunkSize \in Nat
                              /\ c < K => c * ChunkSize <= SamplesPerRound
  BY <1>1, <1>3, Chunking
<1>5. \A c \in Nat \ {0} : DP!Chunk(c) \in Seq(S)
  <2> TAKE c \in Nat \ {0}
  <2> DEFINE a == (c - 1) * ChunkSize
             b == c * ChunkSize
             h == IF c < K THEN b ELSE Len(requested)
  <2>1. a \in Nat /\ b \in Nat /\ (c < K => b <= SamplesPerRound)
    BY <1>4
  <2>2. DP!Chunk(c) = SubSeq(requested, a + 1, h)
    BY DEF DP!Chunk, K
  <2> HIDE DEF a, b
  <2>3. a + 1 \in Int /\ h \in Int /\ \A i \in a + 1 .. h : i \in 1 .. SamplesPerRound
    BY <1>1, <2>1
  <2> HIDE DEF h
  <2>4. \A i \in a + 1 .. h : requested[i] \in S
    BY <2>3
  <2> HIDE DEF S
  <2> QED BY <2>2, <2>3, <2>4, SubSeqProperties
<1>6. PICK k \in [1 .. K -> 1 .. ChunkSize] :
        plan' = [n \in 1 .. DP!Cardinality(DP!Moves(k)) |-> DP!UnionBuffer(DP!Nth(DP!Moves(k), n))]
  BY DEF DP!Plan, K
<1> DEFINE M == DP!Moves(k)
           N == DP!Cardinality(M)
<1>7. M \subseteq 1 .. SamplesPerRound /\ 1 \in M
  <2>1. (ChunkSize * 0 + 0) % ChunkSize = 0 /\ (ChunkSize * 0 + 0) \div ChunkSize = 0
    <3>1. 0 \in Int /\ 0 \in 0 .. ChunkSize - 1
      BY <1>1
    <3> QED BY <1>1, <3>1, RemainderUnique
  <2>2. ChunkSize * 0 + 0 = 0 /\ 1 - 1 = 0
    BY <1>1
  <2>3. DP!PlaceInChunk(1) = 1 /\ DP!ChunkOf(1) = 1
    BY <2>1, <2>2 DEF DP!PlaceInChunk, DP!ChunkOf
  <2>4. 1 <= k[1] /\ 1 \in 1 .. SamplesPerRound
    BY <1>1, <1>4, <1>6
  <2> QED BY <2>3, <2>4 DEF DP!Moves
<1>8. N = Cardinality(M) /\ N \in 1 .. SamplesPerRound
  <2>1. 1 \in Int /\ SamplesPerRound \in Int
    BY <1>1
  <2>2. IsFiniteSet(1 .. SamplesPerRound) /\ Cardinality(1 .. SamplesPerRound) = SamplesPerRound
    BY <1>1, <2>1, FS_Interval
  <2>3. IsFiniteSet(M) /\ Cardinality(M) \in Nat /\ Cardinality(M) <= SamplesPerRound
    BY <1>7, <2>2, FS_Subset, FS_CardinalityType
  <2>4. Cardinality(M) # 0
    BY <1>7, <2>3, FS_EmptySet
  <2> HIDE DEF M
  <2>5. N = Cardinality(M)
    BY DPCardinality
  <2> QED BY <1>1, <2>3, <2>4, <2>5
<1>9. ASSUME NEW p \in 1 .. SamplesPerRound
      PROVE  DP!UnionBuffer(p) \in S \cup {Dummy}
  <2> DEFINE c == DP!ChunkOf(p)
             i == DP!PlaceInChunk(p)
             union == DP!Union(DP!Chunk(c))
  <2>1. c \in Nat \ {0} /\ i \in Nat \ {0}
    <3>1. p - 1 \in Nat
      OBVIOUS
    <3>2. (p - 1) \div ChunkSize \in Nat /\ (p - 1) % ChunkSize \in Nat
      BY <1>1, <3>1
    <3> QED BY <3>2 DEF DP!ChunkOf, DP!PlaceInChunk
  <2>2. DP!UnionBuffer(p) = IF i <= Len(union) THEN union[i] ELSE Dummy
    BY DEF DP!UnionBuffer
  <2> HIDE DEF c, i
  <2>3. union \in Seq(S)
    BY <1>5, <2>1, DPUnionOf
  <2> HIDE DEF union, S
  <2>4. Len(union) \in Nat /\ \A j \in 1 .. Len(union) : union[j] \in S
    BY <2>3, LenProperties, ElementOfSeq
  <2> QED BY <2>1, <2>2, <2>4
<1> HIDE DEF M, S
<1>10. \A n \in 1 .. N : DP!UnionBuffer(DP!Nth(M, n)) \in S \cup {Dummy}
  <2> TAKE n \in 1 .. N
  <2>1. DP!Nth(M, n) \in M
    BY <1>1, <1>7, <1>8, DPNth
  <2> QED BY <1>7, <1>9, <2>1
<1>11. plan' = [n \in 1 .. N |-> DP!UnionBuffer(DP!Nth(M, n))]
  BY <1>6 DEF M
<1> HIDE DEF N
<1>12. plan' \in [1 .. N -> S \cup {Dummy}] /\ N \in Nat
  BY <1>1, <1>8, <1>10, <1>11
<1>13. plan' \in Seq(S \cup {Dummy})
  BY <1>12, SeqDef
<1>14. Len(plan') = N
  <2>1. Len(plan') \in Nat /\ DOMAIN plan' = 1 .. Len(plan')
    BY <1>13, LenProperties
  <2>2. DOMAIN plan' = 1 .. N
    BY <1>12
  <2> QED BY <1>12, <2>1, <2>2
<1>15. plan' \in Seq(Entry \cup {Dummy})
  <2>1. S \cup {Dummy} \subseteq Entry \cup {Dummy}
    BY <1>2
  <2> QED BY <1>13, <2>1, SeqMonotonic
<1>16. \A n \in 1 .. Len(plan') : plan'[n] # Dummy =>
              \E p \in 1 .. SamplesPerRound : plan'[n] = requested[p]
  <2>1. \A n \in 1 .. Len(plan') : plan'[n] \in S \cup {Dummy}
    BY <1>12, <1>14
  <2> QED BY <2>1 DEF S
<1> QED
  BY <1>8, <1>14, <1>15, <1>16

-----------------------------------------------------------------------------
(* How far the round is, what is requested and planned by then.             *)
DPProgress ==
  /\ phase \in {"sample", "reserve", "load", "download", "aggregate", "flush", "PermutationEnd"}
  /\ phase \in {"sample", "PermutationEnd"} => Len(requested) = 0
  /\ phase = "reserve" =>
       Len(requested) = step - 1 /\ \A i \in 1 .. step - 1 : requested[i] = samples[i]
  /\ phase \in {"load", "download", "aggregate", "flush"} => Len(requested) = SamplesPerRound
  /\ phase = "load" => \A i \in Call : requested[i] = samples[i]
  /\ phase # "load" => moved = 0
  /\ phase = "load" /\ moved > 0 =>
       \A n \in 1 .. Len(plan) : plan[n] # Dummy => \E i \in Call : plan[n] = samples[i]
  /\ phase \in {"download", "aggregate", "flush"} => 1 <= Len(plan)
  /\ phase = "flush" => step <= Len(plan)

(* What is in the buffer has been moved there, and has a place in the plan  *)
(* that the flush has still to come to.                                     *)
DPAwaits ==
  \A e \in Entry : buffer[e] # Absent =>
    /\ phase \in {"load", "download", "aggregate", "flush"}
    /\ phase = "load" => moved > 0
    /\ \E i \in 1 .. Len(plan) : plan[i] = e /\ (phase = "flush" => step <= i)

DPCounts ==
  \A e \in Entry : buffer[e] # Absent =>
    /\ Three!Valid(buffer[e].bytes)
    /\ phase \in {"load", "download"} => buffer[e].bytes.counter = 0
    /\ phase = "aggregate" =>
         buffer[e].bytes.counter = Cardinality(Calls(step - 1, e)) % CounterValues

DPTypes ==
  /\ phase \in DP!Phases \cup DP!Exceptions
  /\ step \in Call /\ samples \in [Call -> Entry]
  /\ posmap \in [Entry -> Three!Index]
  /\ main \in [Entry -> Three!MemoryBlock \cup {Absent}]
  /\ buffer \in [Entry -> Three!BufferBlock \cup {Absent}]
  /\ requested \in Seq(Entry) /\ Len(requested) <= SamplesPerRound
  /\ plan \in Seq(Entry \cup {Dummy}) /\ Len(plan) <= SamplesPerRound
  /\ moved \in 0 .. Len(plan)

DPIInv == DPTypes /\ ThreePlaces /\ DPProgress /\ DPAwaits /\ DPCounts

LEMMA DPTypesAre == DPTypes <=> DP!TypeOK
BY DPLoop, DPOrams DEF DPTypes, DP!TypeOK, DP!OramsTypeOK

LEMMA DPSizes ==
  ASSUME DP!Parameters
  PROVE  /\ Three!OramsParameters
         /\ LoopParameters /\ SamplesPerRound \in Nat \ {0} /\ UsesReserve
         /\ ChunkSize \in Nat \ {0} /\ Dummy \notin Entry
         /\ Absent \notin Three!MemoryBlock /\ Absent \notin Three!BufferBlock
         /\ ByteValues \in Nat \ {0} /\ CounterValues \in Nat \ {0} /\ CounterValues % ByteValues = 0
         /\ 0 \in 0 .. ByteValues - 1 /\ 0 \in 0 .. CounterValues - 1
         /\ 0 % ByteValues = 0 /\ 0 % CounterValues = 0
<1>1. /\ Three!OramsParameters /\ UsesReserve
      /\ ChunkSize \in Nat \ {0} /\ Dummy \notin Entry
  BY DPOrams DEF DP!Parameters
<1> QED
  BY <1>1, OramSizes

LEMMA DPInitGood ==
  ASSUME DP!Parameters, DP!Init
  PROVE  DPIInv
<1>1. /\ phase = "sample" /\ step = 1 /\ posmap \in [Entry -> Three!MemoryPath]
      /\ main = [e \in Entry |-> [path |-> posmap[e], data |-> e]]
      /\ buffer = [e \in Entry |-> Absent]
      /\ requested = <<>> /\ plan = <<>> /\ moved = 0
      /\ \E e \in Entry : samples = [i \in Call |-> e]
  BY DPLoop, DPOrams DEF DP!Init, DP!LoopInit
<1>2. /\ requested \in Seq(Entry) /\ Len(requested) = 0
      /\ plan \in Seq(Entry \cup {Dummy}) /\ Len(plan) = 0
  BY <1>1, EmptySeq
<1>3. \A e \in Entry : posmap[e] \in Three!Index /\ ~Three!HasMask(posmap[e])
  BY <1>1, MaskTells, DPSizes
<1>4. \A e \in Entry : main[e] \in Three!MemoryBlock /\ main[e] # Absent
  BY <1>1, DPSizes DEF Three!MemoryBlock
<1>5. DPTypes
  <2>1. main \in [Entry -> Three!MemoryBlock \cup {Absent}]
    BY <1>1, <1>4
  <2>2. posmap \in [Entry -> Three!Index]
    BY <1>1, <1>3
  <2>3. step \in Call /\ samples \in [Call -> Entry]
    BY <1>1, DPSizes DEF Call
  <2> QED BY <1>1, <1>2, <2>1, <2>2, <2>3, DPSizes DEF DPTypes, DP!Phases
<1>6. ThreePlaces
  BY <1>1, <1>3, <1>4 DEF ThreePlaces
<1>7. DPProgress /\ DPAwaits /\ DPCounts
  BY <1>1, <1>2 DEF DPProgress, DPAwaits, DPCounts
<1> QED
  BY <1>5, <1>6, <1>7 DEF DPIInv

LEMMA DPSampleKeeps ==
  ASSUME DP!Parameters, DPIInv, DP!Sample
  PROVE  DPIInv'
<1>1. PICK e \in Entry : Draw(e)
  BY DPLoop DEF DP!Sample
<1>2. /\ phase = "sample" /\ posmap' = posmap /\ main' = main /\ buffer' = buffer
      /\ requested' = requested /\ plan' = plan /\ moved' = moved
  BY DEF DP!Sample, DP!bufferVars
<1>3. step \in Call /\ samples \in [Call -> Entry]
  BY DEF DPIInv, DPTypes
<1>4. /\ phase' \in {"sample", "reserve", "PermutationEnd"} /\ step' \in Call
      /\ (phase' = "reserve" => step' = 1) /\ samples' \in [Call -> Entry]
  BY <1>1, <1>2, <1>3, DPSizes DEF Draw, Followed, Call
<1>5. Len(requested) = 0 /\ moved = 0
  BY <1>2 DEF DPIInv, DPProgress
<1>6. \A x \in Entry : buffer[x] = Absent
  BY <1>2 DEF DPIInv, DPAwaits
<1>7. DPTypes'
  BY <1>2, <1>4 DEF DPIInv, DPTypes, DP!Phases, DP!Exceptions, Call,
     Three!Index, Three!MemoryBlock, Three!BufferBlock, Three!Bytes
<1>8. ThreePlaces'
  BY <1>2 DEF DPIInv, ThreePlaces, Three!HasMask, Three!WithoutMask, Three!InBufferMask
<1>9. DPProgress'
  <2>1. phase' = "reserve" => step' - 1 = 0
    BY <1>4
  <2> QED BY <1>2, <1>4, <1>5, <2>1 DEF DPProgress
<1>10. DPAwaits' /\ DPCounts'
  BY <1>2, <1>6 DEF DPAwaits, DPCounts
<1> QED
  BY <1>7, <1>8, <1>9, <1>10 DEF DPIInv

LEMMA DPReserveKeeps ==
  ASSUME DP!Parameters, DPIInv, DP!Reserve
  PROVE  DPIInv'
<1> DEFINE e == Current
<1>1. /\ phase = "reserve" /\ ReserveReturns /\ requested' = Append(requested, e)
      /\ posmap' = posmap /\ main' = main /\ buffer' = buffer /\ plan' = plan /\ moved' = moved
  BY DPLoop DEF DP!Reserve
<1>2. /\ step \in Call /\ step \in Nat /\ samples \in [Call -> Entry] /\ requested \in Seq(Entry)
      /\ Len(requested) = step - 1 /\ \A i \in 1 .. step - 1 : requested[i] = samples[i]
      /\ moved = 0
  BY <1>1 DEF DPIInv, DPTypes, DPProgress, Call
<1>3. e \in Entry /\ e = samples[step]
  BY <1>2 DEF Current
<1>4. SamplesPerRound \in Nat \ {0} /\ step <= SamplesPerRound /\ 1 <= step
  BY <1>2, DPSizes DEF Call
<1>5. /\ samples' = samples /\ step' \in Call
      /\ \/ phase' = "reserve" /\ step' = step + 1 /\ step < SamplesPerRound
         \/ phase' = "load" /\ step' = 1 /\ step = SamplesPerRound
  BY <1>1, <1>2, <1>4 DEF ReserveReturns, Followed, Call
<1> HIDE DEF e
<1>6. /\ requested' \in Seq(Entry) /\ Len(requested') = step
      /\ requested'[step] = e /\ \A i \in 1 .. step - 1 : requested'[i] = requested[i]
  BY <1>1, <1>2, <1>3, AppendProperties
<1>7. \A i \in 1 .. step : requested'[i] = samples[i]
  <2>1. \A i \in 1 .. step : i = step \/ i \in 1 .. step - 1
    BY <1>2
  <2> QED BY <1>2, <1>3, <1>6, <2>1
<1>8. \A x \in Entry : buffer[x] = Absent
  BY <1>1 DEF DPIInv, DPAwaits
<1>9. DPTypes'
  BY <1>1, <1>2, <1>4, <1>5, <1>6 DEF DPIInv, DPTypes, DP!Phases, DP!Exceptions, Call,
     Three!Index, Three!MemoryBlock, Three!BufferBlock, Three!Bytes
<1>10. ThreePlaces'
  BY <1>1 DEF DPIInv, ThreePlaces, Three!HasMask, Three!WithoutMask, Three!InBufferMask
<1>11. DPProgress'
  <2>1. CASE phase' = "reserve"
    <3>1. step' - 1 = step
      BY <1>2, <1>5, <2>1
    <3> QED BY <1>1, <1>2, <1>5, <1>6, <1>7, <2>1, <3>1 DEF DPProgress
  <2>2. CASE phase' = "load"
    <3>1. Call = 1 .. step /\ Len(requested') = SamplesPerRound
      BY <1>5, <1>6, <2>2 DEF Call
    <3>2. \A i \in Call : requested'[i] = samples'[i]
      BY <1>5, <1>7, <3>1
    <3>3. moved' = 0
      BY <1>1, <1>2
    <3> QED BY <2>2, <3>1, <3>2, <3>3 DEF DPProgress, Call
  <2> QED BY <1>5, <2>1, <2>2
<1>12. DPAwaits' /\ DPCounts'
  BY <1>1, <1>8 DEF DPAwaits, DPCounts
<1> QED
  BY <1>9, <1>10, <1>11, <1>12 DEF DPIInv

LEMMA DPPlanKeeps ==
  ASSUME DP!Parameters, DPIInv, DP!Plan
  PROVE  DPIInv'
<1>1. /\ phase = "load" /\ moved = 0 /\ moved' = 1 /\ phase' = phase /\ step' = step
      /\ samples' = samples /\ posmap' = posmap /\ main' = main /\ buffer' = buffer
      /\ requested' = requested
  BY DEF DP!Plan, DP!LoadGoesOn, DP!loopVars
<1>2. /\ requested \in Seq(Entry) /\ Len(requested) = SamplesPerRound
      /\ \A i \in Call : requested[i] = samples[i]
  BY <1>1 DEF DPIInv, DPTypes, DPProgress
<1>3. /\ plan' \in Seq(Entry \cup {Dummy}) /\ Len(plan') \in 1 .. SamplesPerRound
      /\ \A n \in 1 .. Len(plan') : plan'[n] # Dummy =>
              \E p \in 1 .. SamplesPerRound : plan'[n] = requested[p]
  BY <1>2, DPPlanned
<1>4. SamplesPerRound \in Nat \ {0} /\ 1 <= Len(plan') /\ Len(plan') <= SamplesPerRound
      /\ Len(plan') \in Nat
  BY <1>3, DPSizes
<1>5. \A x \in Entry : buffer[x] = Absent
  BY <1>1 DEF DPIInv, DPAwaits
<1>6. DPTypes'
  <2>1. moved' \in 0 .. Len(plan')
    BY <1>1, <1>4
  <2> QED BY <1>1, <1>3, <1>4, <2>1 DEF DPIInv, DPTypes, DP!Phases, DP!Exceptions, Call,
     Three!Index, Three!MemoryBlock, Three!BufferBlock, Three!Bytes
<1>7. ThreePlaces'
  BY <1>1 DEF DPIInv, ThreePlaces, Three!HasMask, Three!WithoutMask, Three!InBufferMask
<1>8. DPProgress'
  <2>1. \A n \in 1 .. Len(plan') : plan'[n] # Dummy => \E i \in Call : plan'[n] = samples'[i]
    BY <1>1, <1>2, <1>3 DEF Call
  <2> QED BY <1>1, <1>2, <2>1 DEF DPProgress, Call
<1>9. DPAwaits' /\ DPCounts'
  BY <1>1, <1>5 DEF DPAwaits, DPCounts
<1> QED
  BY <1>6, <1>7, <1>8, <1>9 DEF DPIInv

(* An entry moved to the buffer is found in the ORAM the map names, and     *)
(* lies in the buffer afterwards.                                           *)
LEMMA DPMoveDoes ==
  ASSUME DP!Parameters, DPIInv, DP!MoveToBuffer, NEW e, e = plan[moved]
  PROVE  /\ phase = "load" /\ moved \in 1 .. Len(plan) /\ step' = step /\ samples' = samples
         /\ requested' = requested /\ plan' = plan
         /\ \/ moved < Len(plan) /\ phase' = "load" /\ moved' = moved + 1
            \/ moved = Len(plan) /\ phase' = "download" /\ moved' = 0
         /\ e \notin Entry => posmap' = posmap /\ main' = main /\ buffer' = buffer
         /\ e \in Entry =>
              /\ \E newPath \in Three!BufferPath, bytes \in Three!Bytes :
                   /\ ThreePut(e, newPath, bytes)
                   /\ bytes.data = e /\ Three!Valid(bytes) /\ bytes.counter = 0
              /\ main' \in [Entry -> Three!MemoryBlock \cup {Absent}] /\ main'[e] = Absent
              /\ \A x \in Entry : x # e => main'[x] = main[x]
<1> DEFINE d == plan[moved]
           there == DP!InBuffer(d)
           at == IF there THEN DP!WithoutMask(posmap[d]) ELSE 0
<1>0. d = e
  OBVIOUS
<1>1. /\ phase = "load" /\ moved > 0 /\ requested' = requested /\ plan' = plan
      /\ moved' = IF phase' = "load" THEN moved + 1 ELSE 0
  BY DEF DP!MoveToBuffer
<1>2. /\ plan \in Seq(Entry \cup {Dummy}) /\ moved \in 0 .. Len(plan) /\ Len(plan) \in Nat
      /\ main \in [Entry -> Three!MemoryBlock \cup {Absent}]
      /\ buffer \in [Entry -> Three!BufferBlock \cup {Absent}]
  BY LenProperties DEF DPIInv, DPTypes
<1>3. moved \in 1 .. Len(plan) /\ e \in Entry \cup {Dummy}
  <2>1. moved \in 1 .. Len(plan)
    BY <1>1, <1>2
  <2> QED BY <1>2, <2>1, ElementOfSeq
<1>4. ASSUME IF moved < Len(plan) THEN DP!LoadGoesOn ELSE DP!LoadReturns
      PROVE  /\ step' = step /\ samples' = samples
             /\ \/ moved < Len(plan) /\ phase' = "load" /\ moved' = moved + 1
                \/ moved = Len(plan) /\ phase' = "download" /\ moved' = 0
  BY <1>1, <1>2, <1>3, <1>4 DEF DP!LoadGoesOn, DP!LoadReturns, DP!loopVars
<1>5. CASE e = Dummy
  <2>1. /\ posmap' = posmap /\ main' = main /\ buffer' = buffer
        /\ IF moved < Len(plan) THEN DP!LoadGoesOn ELSE DP!LoadReturns
    BY <1>5 DEF DP!MoveToBuffer
  <2> QED BY <1>1, <1>3, <1>4, <1>5, <2>1, DPSizes
<1>6. CASE e \in Entry
  <2>1. e # Dummy
    BY <1>6, DPSizes
  <2>2. PICK newPath \in DP!BufferPath, randomBuffer \in DP!BufferPath, randomMemory \in DP!MemoryPath :
               \E inB \in DP!Answers(buffer, d, IF there THEN DP!WithoutMask(posmap[d]) ELSE randomBuffer),
                  inM \in DP!Answers(main, d, IF there THEN randomMemory ELSE posmap[d]) :
                 LET bytes == IF there THEN buffer[d].bytes
                              ELSE [data |-> main[d].data, gradient |-> 0, counter |-> 0]
                 IN  /\ posmap' = [posmap EXCEPT ![d] = DP!Stored(DP!WithMask(newPath))]
                     /\ main' = DP!Without(main, d, inM)
                     /\ IF IF there THEN inB ELSE inM
                        THEN /\ buffer' = [buffer EXCEPT ![d] = [path |-> newPath, bytes |-> bytes]]
                             /\ IF moved < Len(plan) THEN DP!LoadGoesOn ELSE DP!LoadReturns
                        ELSE buffer' = DP!Without(buffer, d, inB) /\ DP!Throws("NotFound")
    BY <2>1, Zenon DEF DP!MoveToBuffer
  <2> HIDE DEF d
  <2> DEFINE path == IF there THEN Three!WithoutMask(posmap[e]) ELSE posmap[e]
  <2>3. /\ there => /\ main[e] = Absent /\ buffer[e] # Absent
                     /\ buffer[e].bytes.data = e /\ buffer[e].path = path
        /\ ~there => /\ buffer[e] = Absent /\ main[e] = [path |-> path, data |-> e]
                     /\ main[e] # Absent
    BY <1>0, <1>6, DPOrams DEF DPIInv, ThreePlaces, DP!InBuffer
  <2> HIDE DEF there, path
  <2>4. /\ \A o, p : DP!Answers(o, d, p) = Three!Answers(o, e, p)
        /\ DP!WithoutMask(posmap[d]) = Three!WithoutMask(posmap[e])
        /\ newPath \in Three!BufferPath
    BY <1>0, DPOrams
  <2>5. PICK inB \in DP!Answers(buffer, d, IF there THEN DP!WithoutMask(posmap[d]) ELSE randomBuffer),
             inM \in DP!Answers(main, d, IF there THEN randomMemory ELSE posmap[d]) :
                 LET bytes == IF there THEN buffer[d].bytes
                              ELSE [data |-> main[d].data, gradient |-> 0, counter |-> 0]
                 IN  /\ posmap' = [posmap EXCEPT ![d] = DP!Stored(DP!WithMask(newPath))]
                     /\ main' = DP!Without(main, d, inM)
                     /\ IF IF there THEN inB ELSE inM
                        THEN /\ buffer' = [buffer EXCEPT ![d] = [path |-> newPath, bytes |-> bytes]]
                             /\ IF moved < Len(plan) THEN DP!LoadGoesOn ELSE DP!LoadReturns
                        ELSE buffer' = DP!Without(buffer, d, inB) /\ DP!Throws("NotFound")
    BY <2>2
  <2>8. /\ inB \in Three!Answers(buffer, e, IF there THEN Three!WithoutMask(posmap[e]) ELSE randomBuffer)
        /\ inM \in Three!Answers(main, e, IF there THEN randomMemory ELSE posmap[e])
    BY <1>0, <2>4, <2>5
  <2>9. /\ posmap' = [posmap EXCEPT ![e] = Three!Stored(Three!WithMask(newPath))]
        /\ main' = IF inM THEN [main EXCEPT ![e] = Absent] ELSE main
    <3>1. DP!Stored(DP!WithMask(newPath)) = Three!Stored(Three!WithMask(newPath))
      BY DPOrams
    <3>2. DP!Without(main, d, inM) = IF inM THEN [main EXCEPT ![d] = Absent] ELSE main
      BY DEF DP!Without
    <3> QED BY <1>0, <2>5, <3>1, <3>2
  <2>6. CASE there
    <3>1. /\ Three!Answers(buffer, e, Three!WithoutMask(posmap[e])) = {TRUE}
          /\ \A p : Three!Answers(main, e, p) = {FALSE}
      <4>1. main[e] = Absent /\ buffer[e] # Absent /\ buffer[e].path = Three!WithoutMask(posmap[e])
        BY <2>3, <2>6 DEF path
      <4>2. Three!Answers(buffer, e, Three!WithoutMask(posmap[e])) = {TRUE}
        <5>1. buffer[e] # Absent /\ buffer[e].path = Three!WithoutMask(posmap[e])
          BY <4>1
        <5> QED BY <5>1, SearchAnswers
      <4>3. ASSUME NEW p PROVE Three!Answers(main, e, p) = {FALSE}
        <5>1. main[e] = Absent
          BY <4>1
        <5> QED BY <5>1, SearchAnswers
      <4> QED BY <4>2, <4>3
    <3>2. inB = TRUE /\ inM = FALSE
      BY <2>6, <2>8, <3>1
    <3>3. /\ posmap' = [posmap EXCEPT ![e] = Three!Stored(Three!WithMask(newPath))]
          /\ main' = main
          /\ buffer' = [buffer EXCEPT ![e] = [path |-> newPath, bytes |-> buffer[e].bytes]]
          /\ IF moved < Len(plan) THEN DP!LoadGoesOn ELSE DP!LoadReturns
      BY <1>0, <2>5, <2>6, <2>9, <3>2
    <3>4. ThreePut(e, newPath, buffer[e].bytes)
      BY <3>3 DEF ThreePut
    <3>5. /\ buffer[e].bytes \in Three!Bytes /\ Three!Valid(buffer[e].bytes)
          /\ buffer[e].bytes.counter = 0
      BY <1>1, <1>2, <1>6, <2>3, <2>6 DEF Three!BufferBlock, DPIInv, DPCounts
    <3> QED BY <1>1, <1>2, <1>3, <1>4, <1>6, <2>3, <2>4, <2>6, <3>3, <3>4, <3>5
  <2>7. CASE ~there
    <3> DEFINE bytes == [data |-> e, gradient |-> 0, counter |-> 0]
    <3>1. /\ Three!Answers(main, e, posmap[e]) = {TRUE}
          /\ \A p : Three!Answers(buffer, e, p) = {FALSE}
      <4>1. buffer[e] = Absent /\ main[e] # Absent /\ main[e].path = posmap[e]
        BY <2>3, <2>7 DEF path
      <4>2. Three!Answers(main, e, posmap[e]) = {TRUE}
        BY <4>1, SearchAnswers
      <4>3. ASSUME NEW p PROVE Three!Answers(buffer, e, p) = {FALSE}
        <5>1. buffer[e] = Absent
          BY <4>1
        <5> QED BY <5>1, SearchAnswers
      <4> QED BY <4>2, <4>3
    <3>2. inB = FALSE /\ inM = TRUE
      <4>1. Three!Answers(buffer, e, randomBuffer) = {FALSE}
        BY <3>1
      <4> QED BY <2>7, <2>8, <3>1, <4>1
    <3>6. main[e].data = e
      BY <2>3, <2>7
    <3>3. /\ posmap' = [posmap EXCEPT ![e] = Three!Stored(Three!WithMask(newPath))]
          /\ main' = [main EXCEPT ![e] = Absent]
          /\ buffer' = [buffer EXCEPT ![e] = [path |-> newPath, bytes |-> bytes]]
          /\ IF moved < Len(plan) THEN DP!LoadGoesOn ELSE DP!LoadReturns
      BY <1>0, <2>5, <2>7, <2>9, <3>2, <3>6
    <3>4. bytes \in Three!Bytes /\ Three!Valid(bytes) /\ bytes.counter = 0 /\ bytes.data = e
      BY <1>6, DPSizes DEF Three!Bytes, Three!Valid
    <3> HIDE DEF bytes
    <3>5. ThreePut(e, newPath, bytes)
      BY <3>3 DEF ThreePut
    <3>7. /\ main' \in [Entry -> Three!MemoryBlock \cup {Absent}] /\ main'[e] = Absent
          /\ \A x \in Entry : x # e => main'[x] = main[x]
      BY <1>2, <1>6, <3>3
    <3> QED BY <1>1, <1>3, <1>4, <1>6, <2>4, <3>3, <3>4, <3>5, <3>7
  <2> QED BY <2>6, <2>7
<1> QED
  BY <1>3, <1>5, <1>6

(* A download or an aggregation: an entry in the buffer gets a new path and *)
(* its new content, one that was dropped is left where it is.               *)
LEMMA DPAccessDoes ==
  ASSUME DP!Parameters, DPIInv, NEW e \in Entry, NEW bytes, DP!Access(e, bytes)
  PROVE  /\ buffer[e] # Absent =>
              \E newPath \in Three!BufferPath : ThreePut(e, newPath, bytes)
         /\ buffer[e] = Absent => posmap' = posmap /\ buffer' = buffer
<1> DEFINE there == DP!InBuffer(e)
<1>1. PICK newPath \in DP!BufferPath, randomPath \in DP!BufferPath :
        \E found \in DP!Answers(buffer, e, IF there THEN DP!WithoutMask(posmap[e]) ELSE randomPath) :
          /\ posmap' = DP!Remapped(e, newPath)
          /\ buffer' = IF found
                       THEN [buffer EXCEPT ![e] = [path |-> newPath, bytes |-> bytes]]
                       ELSE buffer
  BY Zenon DEF DP!Access
<1>2. /\ there => buffer[e] # Absent /\ buffer[e].path = Three!WithoutMask(posmap[e])
      /\ ~there => buffer[e] = Absent
  BY DPOrams DEF DPIInv, ThreePlaces, DP!InBuffer
<1>3. DP!Remapped(e, newPath) =
        IF there THEN [posmap EXCEPT ![e] = Three!Stored(Three!WithMask(newPath))] ELSE posmap
  BY DPOrams DEF DP!Remapped
<1> HIDE DEF there
<1>4. newPath \in Three!BufferPath /\ DP!WithoutMask(posmap[e]) = Three!WithoutMask(posmap[e])
      /\ \A p : DP!Answers(buffer, e, p) = Three!Answers(buffer, e, p)
  BY DPOrams
<1>5. PICK found \in Three!Answers(buffer, e, IF there THEN Three!WithoutMask(posmap[e]) ELSE randomPath) :
          /\ posmap' = DP!Remapped(e, newPath)
          /\ buffer' = IF found
                       THEN [buffer EXCEPT ![e] = [path |-> newPath, bytes |-> bytes]]
                       ELSE buffer
  BY <1>1, <1>4
<1>6. CASE there
  <2>1. found = TRUE
    BY <1>2, <1>5, <1>6, SearchAnswers
  <2> QED BY <1>2, <1>3, <1>4, <1>5, <1>6, <2>1 DEF ThreePut
<1>7. CASE ~there
  <2>1. Three!Answers(buffer, e, randomPath) = {FALSE}
    BY <1>2, <1>7, SearchAnswers
  <2>2. found = FALSE
    BY <1>5, <1>7, <2>1
  <2> QED BY <1>2, <1>3, <1>5, <1>7, <2>2
<1> QED
  BY <1>6, <1>7

(* An id of the plan flushed: an entry in the buffer goes to the memory, a  *)
(* dummy, or an entry that has gone already, changes nothing.               *)
LEMMA DPFlushDoes ==
  ASSUME DP!Parameters, DPIInv, DP!Flush, NEW e, e = plan[step]
  PROVE  /\ phase = "flush" /\ step \in 1 .. Len(plan) /\ Len(plan) <= SamplesPerRound
         /\ samples' = samples /\ plan' = plan /\ moved' = moved
         /\ e \in Entry => buffer'[e] = Absent
         /\ (e \notin Entry \/ buffer[e] = Absent) => UNCHANGED <<posmap, main, buffer>>
         /\ e \in Entry /\ buffer[e] # Absent =>
              \E newPath \in Three!MemoryPath :
                /\ posmap' = [posmap EXCEPT ![e] = newPath]
                /\ main' = [main EXCEPT ![e] = [path |-> newPath, data |-> e]]
                /\ buffer' = [buffer EXCEPT ![e] = Absent]
         /\ \/ /\ step < Len(plan) /\ step' = step + 1 /\ phase' = "flush"
               /\ requested' = requested
            \/ step = Len(plan) /\ step' = 1 /\ phase' = "sample" /\ requested' = <<>>
<1> DEFINE d == plan[step]
           gone == d = Dummy \/ ~DP!InBuffer(d)
           last == step = DP!LastMove
<1>0. d = e
  OBVIOUS
<1>1. /\ phase = "flush" /\ requested' = (IF phase' = "sample" THEN <<>> ELSE requested)
      /\ plan' = plan /\ moved' = moved
  BY DEF DP!Flush, DP!Cleared
<1>2. /\ plan \in Seq(Entry \cup {Dummy}) /\ Len(plan) \in Nat /\ Len(plan) <= SamplesPerRound
      /\ buffer \in [Entry -> Three!BufferBlock \cup {Absent}]
      /\ step \in Nat /\ 1 <= step /\ step <= Len(plan)
  BY <1>1, LenProperties DEF DPIInv, DPTypes, DPProgress, Call
<1>3. step \in 1 .. Len(plan) /\ e \in Entry \cup {Dummy}
  <2>1. step \in 1 .. Len(plan)
    BY <1>2
  <2> QED BY <1>2, <2>1, ElementOfSeq
<1>4. ASSUME IF last THEN DP!FlushReturns ELSE DP!FlushGoesOn
      PROVE  /\ samples' = samples
             /\ \/ /\ step < Len(plan) /\ step' = step + 1 /\ phase' = "flush"
                   /\ requested' = requested
                \/ step = Len(plan) /\ step' = 1 /\ phase' = "sample" /\ requested' = <<>>
  BY <1>1, <1>2, <1>4 DEF DP!LastMove, DP!FlushReturns, DP!FlushGoesOn
<1>5. CASE e = Dummy
  <2>1. posmap' = posmap /\ main' = main /\ buffer' = buffer
        /\ IF last THEN DP!FlushReturns ELSE DP!FlushGoesOn
    BY <1>5, Zenon DEF DP!Flush
  <2> QED BY <1>1, <1>2, <1>3, <1>4, <1>5, <2>1, DPSizes
<1>6. CASE e \in Entry
  <2>1. e # Dummy
    BY <1>6, DPSizes
  <2>2. PICK newPath \in DP!MemoryPath, randomPath \in DP!BufferPath :
               \E found \in DP!Answers(buffer, d, IF gone THEN randomPath ELSE DP!WithoutMask(posmap[d])) :
                 /\ posmap' = IF gone THEN posmap ELSE [posmap EXCEPT ![d] = DP!Stored(newPath)]
                 /\ buffer' = DP!Without(buffer, d, found)
                 /\ main' = IF found /\ ~gone /\ DP!Valid(buffer[d].bytes)
                            THEN [main EXCEPT ![d] = [path |-> newPath, data |-> buffer[d].bytes.data]]
                            ELSE main
                 /\ IF found = gone THEN DP!Throws("NotFound")
                    ELSE IF found /\ ~DP!Valid(buffer[d].bytes) THEN DP!Throws("ValidationFailed")
                    ELSE IF last THEN DP!FlushReturns ELSE DP!FlushGoesOn
    BY <2>1, Zenon DEF DP!Flush
  <2>3. /\ gone \in BOOLEAN /\ gone <=> buffer[e] = Absent
        /\ ~gone => /\ buffer[e].bytes.data = e /\ buffer[e].path = Three!WithoutMask(posmap[e])
                    /\ Three!Valid(buffer[e].bytes)
    BY <1>0, <1>6, <2>1, DPOrams DEF DPIInv, ThreePlaces, DPCounts, DP!InBuffer
  <2> HIDE DEF d, gone, last
  <2>4. /\ \A o, p : DP!Answers(o, d, p) = Three!Answers(o, e, p)
        /\ DP!WithoutMask(posmap[d]) = Three!WithoutMask(posmap[e])
        /\ newPath \in Three!MemoryPath
    BY <1>0, DPOrams
  <2>5. PICK found \in Three!Answers(buffer, e, IF gone THEN randomPath ELSE Three!WithoutMask(posmap[e])) :
                 /\ posmap' = IF gone THEN posmap ELSE [posmap EXCEPT ![e] = Three!Stored(newPath)]
                 /\ buffer' = Three!Without(buffer, e, found)
                 /\ main' = IF found /\ ~gone /\ Three!Valid(buffer[e].bytes)
                            THEN [main EXCEPT ![e] = [path |-> newPath, data |-> buffer[e].bytes.data]]
                            ELSE main
                 /\ IF found = gone THEN DP!Throws("NotFound")
                    ELSE IF found /\ ~Three!Valid(buffer[e].bytes) THEN DP!Throws("ValidationFailed")
                    ELSE IF last THEN DP!FlushReturns ELSE DP!FlushGoesOn
    <3>1. d = e
      BY <1>0
    <3> QED BY <2>2, <2>4, <3>1, DPOrams
  <2>6. CASE gone
    <3>1. Three!Answers(buffer, e, randomPath) = {FALSE}
      BY <2>3, <2>6, SearchAnswers
    <3>2. found = FALSE
      BY <2>5, <2>6, <3>1
    <3>3. /\ posmap' = posmap /\ main' = main /\ buffer' = buffer
          /\ IF last THEN DP!FlushReturns ELSE DP!FlushGoesOn
      BY <2>5, <2>6, <3>2 DEF Three!Without
    <3> QED BY <1>1, <1>2, <1>3, <1>4, <1>6, <2>3, <2>6, <3>3
  <2>7. CASE ~gone
    <3>1. Three!Answers(buffer, e, Three!WithoutMask(posmap[e])) = {TRUE}
      <4>1. buffer[e] # Absent /\ buffer[e].path = Three!WithoutMask(posmap[e])
        BY <2>3, <2>7
      <4> QED BY <4>1, SearchAnswers
    <3>2. found = TRUE
      BY <2>5, <2>7, <3>1
    <3>3. Three!Stored(newPath) = newPath
      BY <2>4, MaskTells, DPSizes
    <3>4. /\ posmap' = [posmap EXCEPT ![e] = newPath]
          /\ main' = [main EXCEPT ![e] = [path |-> newPath, data |-> e]]
          /\ buffer' = [buffer EXCEPT ![e] = Absent]
          /\ IF last THEN DP!FlushReturns ELSE DP!FlushGoesOn
      BY <2>3, <2>5, <2>7, <3>2, <3>3 DEF Three!Without
    <3>5. buffer'[e] = Absent
      BY <1>2, <1>6, <3>4
    <3> QED BY <1>1, <1>2, <1>3, <1>4, <1>6, <2>3, <2>4, <2>7, <3>4, <3>5
  <2> QED BY <2>6, <2>7
<1> QED
  BY <1>3, <1>5, <1>6

-----------------------------------------------------------------------------
LEMMA DPMoveKeeps ==
  ASSUME DP!Parameters, DPIInv, DP!MoveToBuffer
  PROVE  DPIInv'
<1> DEFINE e == plan[moved]
<1>1. /\ phase = "load" /\ moved \in 1 .. Len(plan) /\ step' = step /\ samples' = samples
      /\ requested' = requested /\ plan' = plan
      /\ \/ moved < Len(plan) /\ phase' = "load" /\ moved' = moved + 1
         \/ moved = Len(plan) /\ phase' = "download" /\ moved' = 0
      /\ e \notin Entry => posmap' = posmap /\ main' = main /\ buffer' = buffer
      /\ e \in Entry => /\ main' \in [Entry -> Three!MemoryBlock \cup {Absent}] /\ main'[e] = Absent
                        /\ \A x \in Entry : x # e => main'[x] = main[x]
  BY DPMoveDoes
<1>2. /\ posmap \in [Entry -> Three!Index]
      /\ main \in [Entry -> Three!MemoryBlock \cup {Absent}]
      /\ buffer \in [Entry -> Three!BufferBlock \cup {Absent}]
      /\ Len(plan) \in Nat /\ moved \in Nat /\ 1 <= moved /\ moved <= Len(plan)
  BY <1>1, LenProperties DEF DPIInv, DPTypes
<1>3. \A x \in Entry :
        /\ buffer[x] # Absent => Three!Valid(buffer[x].bytes) /\ buffer[x].bytes.counter = 0
                                /\ \E i \in 1 .. Len(plan) : plan[i] = x
        /\ Three!HasMask(posmap[x]) =>
             /\ main[x] = Absent /\ buffer[x] # Absent /\ buffer[x].bytes.data = x
             /\ buffer[x].path = Three!WithoutMask(posmap[x])
        /\ ~Three!HasMask(posmap[x]) =>
             /\ buffer[x] = Absent /\ main[x] # Absent
             /\ main[x] = [path |-> posmap[x], data |-> x]
  BY <1>1 DEF DPIInv, DPCounts, DPAwaits, ThreePlaces
<1>4. /\ posmap' \in [Entry -> Three!Index]
      /\ main' \in [Entry -> Three!MemoryBlock \cup {Absent}]
      /\ buffer' \in [Entry -> Three!BufferBlock \cup {Absent}]
      /\ \A x \in Entry :
           /\ buffer'[x] # Absent => Three!Valid(buffer'[x].bytes) /\ buffer'[x].bytes.counter = 0
                                    /\ \E i \in 1 .. Len(plan) : plan[i] = x
           /\ Three!HasMask(posmap'[x]) =>
                /\ main'[x] = Absent /\ buffer'[x] # Absent /\ buffer'[x].bytes.data = x
                /\ buffer'[x].path = Three!WithoutMask(posmap'[x])
           /\ ~Three!HasMask(posmap'[x]) =>
                /\ buffer'[x] = Absent /\ main'[x] # Absent
                /\ main'[x] = [path |-> posmap'[x], data |-> x]
  <2>1. CASE e \notin Entry
    BY <1>1, <1>2, <1>3, <2>1
  <2>2. CASE e \in Entry
    <3>1. PICK newPath \in Three!BufferPath, bytes \in Three!Bytes :
            /\ ThreePut(e, newPath, bytes)
            /\ bytes.data = e /\ Three!Valid(bytes) /\ bytes.counter = 0
      BY <2>2, DPMoveDoes
    <3>2. /\ posmap' \in [Entry -> Three!Index]
          /\ buffer' \in [Entry -> Three!BufferBlock \cup {Absent}]
          /\ Three!HasMask(posmap'[e]) /\ buffer'[e].path = Three!WithoutMask(posmap'[e])
          /\ buffer'[e] # Absent /\ buffer'[e].bytes = bytes
          /\ \A x \in Entry : x # e => posmap'[x] = posmap[x] /\ buffer'[x] = buffer[x]
      BY <1>2, <2>2, <3>1, ThreePutDoes, DPSizes
    <3>3. \E i \in 1 .. Len(plan) : plan[i] = e
      BY <1>1
    <3> HIDE DEF e
    <3>4. ASSUME NEW x \in Entry
          PROVE  /\ buffer'[x] # Absent => Three!Valid(buffer'[x].bytes) /\ buffer'[x].bytes.counter = 0
                                        /\ \E i \in 1 .. Len(plan) : plan[i] = x
                 /\ Three!HasMask(posmap'[x]) =>
                     /\ main'[x] = Absent /\ buffer'[x] # Absent /\ buffer'[x].bytes.data = x
                     /\ buffer'[x].path = Three!WithoutMask(posmap'[x])
                 /\ ~Three!HasMask(posmap'[x]) =>
                     /\ buffer'[x] = Absent /\ main'[x] # Absent
                     /\ main'[x] = [path |-> posmap'[x], data |-> x]
      <4>1. CASE x = e
        BY <1>1, <2>2, <3>1, <3>2, <3>3, <4>1
      <4>2. CASE x # e
        <5>1. posmap'[x] = posmap[x] /\ buffer'[x] = buffer[x] /\ main'[x] = main[x]
          BY <1>1, <2>2, <3>2, <4>2
        <5> QED BY <1>3, <5>1
      <4> QED BY <4>1, <4>2
    <3> QED BY <1>1, <2>2, <3>2, <3>4
  <2> QED BY <2>1, <2>2
<1> HIDE DEF e
<1>5. DPTypes'
  <2>1. moved' \in 0 .. Len(plan) /\ phase' \in DP!Phases \cup DP!Exceptions
    BY <1>1, <1>2 DEF DP!Phases
  <2> QED BY <1>1, <1>4, <2>1 DEF DPIInv, DPTypes, DP!Phases, DP!Exceptions, Call,
     Three!Index, Three!MemoryBlock, Three!BufferBlock, Three!Bytes
<1>6. ThreePlaces'
  BY <1>4 DEF ThreePlaces, Three!HasMask, Three!WithoutMask, Three!InBufferMask
<1>7. DPProgress'
  <2>1. /\ Len(requested) = SamplesPerRound
        /\ \A i \in Call : requested[i] = samples[i]
        /\ \A n \in 1 .. Len(plan) : plan[n] # Dummy => \E i \in Call : plan[n] = samples[i]
    BY <1>1, <1>2 DEF DPIInv, DPProgress
  <2>2. 1 <= Len(plan)
    BY <1>2
  <2> QED BY <1>1, <2>1, <2>2 DEF DPProgress, Call
<1>8. DPAwaits'
  <2>1. phase' = "load" => moved' > 0
    BY <1>1, <1>2
  <2> QED BY <1>1, <1>4, <2>1 DEF DPAwaits
<1>9. DPCounts'
  BY <1>1, <1>4 DEF DPCounts, Three!Valid
<1> QED
  BY <1>5, <1>6, <1>7, <1>8, <1>9 DEF DPIInv

(* What an access changes keeps the map right and the buffer in the plan.   *)
LEMMA DPAccessKeeps ==
  ASSUME DP!Parameters, DPIInv, NEW e \in Entry, NEW bytes, DP!Access(e, bytes),
         buffer[e] # Absent => bytes \in Three!Bytes /\ bytes.data = e
  PROVE  /\ posmap' \in [Entry -> Three!Index]
         /\ buffer' \in [Entry -> Three!BufferBlock \cup {Absent}]
         /\ buffer[e] # Absent => buffer'[e].bytes = bytes
         /\ \A x \in Entry : /\ buffer'[x] # Absent <=> buffer[x] # Absent
                             /\ x # e => buffer'[x] = buffer[x]
         /\ main' = main => ThreePlaces'
<1>1. /\ posmap \in [Entry -> Three!Index]
      /\ buffer \in [Entry -> Three!BufferBlock \cup {Absent}]
  BY DEF DPIInv, DPTypes
<1>2. \A x \in Entry :
        /\ Three!HasMask(posmap[x]) =>
             /\ main[x] = Absent /\ buffer[x] # Absent /\ buffer[x].bytes.data = x
             /\ buffer[x].path = Three!WithoutMask(posmap[x])
        /\ ~Three!HasMask(posmap[x]) =>
             /\ buffer[x] = Absent /\ main[x] # Absent
             /\ main[x] = [path |-> posmap[x], data |-> x]
  BY DEF DPIInv, ThreePlaces
<1>3. CASE buffer[e] = Absent
  <2>1. posmap' = posmap /\ buffer' = buffer
    BY <1>3, DPAccessDoes
  <2>2. main' = main => ThreePlaces'
    BY <2>1 DEF DPIInv, ThreePlaces, Three!HasMask, Three!WithoutMask, Three!InBufferMask
  <2> QED BY <1>1, <1>3, <2>1, <2>2
<1>4. CASE buffer[e] # Absent
  <2>1. PICK newPath \in Three!BufferPath : ThreePut(e, newPath, bytes)
    BY <1>4, DPAccessDoes
  <2>2. bytes \in Three!Bytes /\ bytes.data = e
    BY <1>4
  <2>3. /\ posmap' \in [Entry -> Three!Index]
        /\ buffer' \in [Entry -> Three!BufferBlock \cup {Absent}]
        /\ Three!HasMask(posmap'[e]) /\ buffer'[e].path = Three!WithoutMask(posmap'[e])
        /\ buffer'[e] # Absent /\ buffer'[e].bytes = bytes
        /\ \A x \in Entry : x # e => posmap'[x] = posmap[x] /\ buffer'[x] = buffer[x]
    BY <1>1, <2>1, <2>2, ThreePutDoes, DPSizes
  <2>4. ASSUME main' = main PROVE ThreePlaces'
    <3>1. ASSUME NEW x \in Entry
          PROVE  /\ Three!HasMask(posmap'[x]) =>
                     /\ main'[x] = Absent /\ buffer'[x] # Absent /\ buffer'[x].bytes.data = x
                     /\ buffer'[x].path = Three!WithoutMask(posmap'[x])
                 /\ ~Three!HasMask(posmap'[x]) =>
                     /\ buffer'[x] = Absent /\ main'[x] # Absent
                     /\ main'[x] = [path |-> posmap'[x], data |-> x]
      <4>1. CASE x = e
        <5>1. main[e] = Absent
          BY <1>2, <1>4
        <5> QED BY <2>2, <2>3, <2>4, <4>1, <5>1
      <4>2. CASE x # e
        <5>1. posmap'[x] = posmap[x] /\ buffer'[x] = buffer[x] /\ main'[x] = main[x]
          BY <2>3, <2>4, <4>2
        <5> QED BY <1>2, <5>1
      <4> QED BY <4>1, <4>2
    <3> QED BY <3>1 DEF ThreePlaces, Three!HasMask, Three!WithoutMask, Three!InBufferMask
  <2> QED BY <1>4, <2>3, <2>4
<1> QED
  BY <1>3, <1>4

LEMMA DPDownloadKeeps ==
  ASSUME DP!Parameters, DPIInv, DP!Download
  PROVE  DPIInv'
<1> DEFINE e == Current
           bytes == buffer[e].bytes
<1>1. /\ phase = "download" /\ DownloadReturns /\ DP!Access(e, bytes)
      /\ main' = main /\ requested' = requested /\ plan' = plan /\ moved' = moved
  BY DPLoop DEF DP!Download
<1>2. /\ step \in Call /\ samples \in [Call -> Entry]
      /\ buffer \in [Entry -> Three!BufferBlock \cup {Absent}]
  BY DEF DPIInv, DPTypes
<1>3. e \in Entry
  BY <1>2 DEF Current
<1> HIDE DEF e
<1>4. buffer[e] # Absent => bytes \in Three!Bytes /\ bytes.data = e
  <2>1. buffer[e] # Absent => buffer[e] \in Three!BufferBlock
    BY <1>2, <1>3
  <2> QED BY <1>3, <2>1 DEF DPIInv, ThreePlaces, Three!BufferBlock
<1> HIDE DEF bytes
<1>5. /\ posmap' \in [Entry -> Three!Index]
      /\ buffer' \in [Entry -> Three!BufferBlock \cup {Absent}]
      /\ buffer[e] # Absent => buffer'[e].bytes = bytes
      /\ \A x \in Entry : /\ buffer'[x] # Absent <=> buffer[x] # Absent
                          /\ x # e => buffer'[x] = buffer[x]
      /\ main' = main => ThreePlaces'
  BY <1>1, <1>3, <1>4, DPAccessKeeps
<1>11. \A x \in Entry : buffer'[x] # Absent <=> buffer[x] # Absent
  BY <1>5
<1>12. \A x \in Entry : x # e => buffer'[x] = buffer[x]
  BY <1>5
<1>6. /\ step' \in Call /\ samples' \in [Call -> Entry]
      /\ \/ phase' = "download" /\ step' = step + 1 /\ samples' = samples
         \/ /\ phase' = "aggregate" /\ step' = 1 /\ step = SamplesPerRound
            /\ \A i \in Call : \E j \in Call : samples'[i] = samples[j]
  BY <1>1, <1>2, AfterDownload, DPSizes
<1>7. DPTypes'
  BY <1>1, <1>5, <1>6 DEF DPIInv, DPTypes, DP!Phases, DP!Exceptions, Call,
     Three!Index, Three!MemoryBlock, Three!BufferBlock, Three!Bytes
<1>8. DPProgress'
  <2>1. Len(requested) = SamplesPerRound /\ moved = 0 /\ 1 <= Len(plan)
    BY <1>1 DEF DPIInv, DPProgress
  <2>2. phase' \in {"download", "aggregate"}
    BY <1>6
  <2> QED BY <1>1, <2>1, <2>2 DEF DPProgress
<1>9. DPAwaits'
  <2>1. \A x \in Entry : buffer'[x] # Absent => \E i \in 1 .. Len(plan) : plan[i] = x
    BY <1>11 DEF DPIInv, DPAwaits
  <2> QED BY <1>1, <1>6, <2>1 DEF DPAwaits
<1>10. DPCounts'
  <2>1. ASSUME NEW x \in Entry, buffer'[x] # Absent
        PROVE  Three!Valid(buffer'[x].bytes) /\ buffer'[x].bytes.counter = 0
    <3>1. buffer[x] # Absent
      BY <1>11, <2>1
    <3>2. Three!Valid(buffer[x].bytes) /\ buffer[x].bytes.counter = 0
      BY <1>1, <3>1 DEF DPIInv, DPCounts
    <3>3. CASE x = e
      BY <1>5, <3>1, <3>2, <3>3 DEF bytes
    <3>4. CASE x # e
      BY <1>12, <3>2, <3>4
    <3> QED BY <3>3, <3>4
  <2>2. ASSUME NEW x \in Entry, phase' = "aggregate" PROVE Calls(step - 1, x)' = {}
    <3>1. step' - 1 = 0
      BY <1>6, <2>2
    <3> QED BY <3>1 DEF Calls
  <2> QED BY <2>1, <2>2, FS_EmptySet, DPSizes DEF DPCounts, Three!Valid
<1> QED
  BY <1>1, <1>5, <1>7, <1>8, <1>9, <1>10 DEF DPIInv

LEMMA DPAggregateKeeps ==
  ASSUME DP!Parameters, DPIInv, DP!Aggregate
  PROVE  DPIInv'
<1> DEFINE e == Current
           bytes == Three!Aggregated(buffer[e].bytes)
<1>1. /\ phase = "aggregate" /\ AggregateReturns /\ DP!Access(e, bytes)
      /\ main' = main /\ requested' = requested /\ plan' = plan /\ moved' = moved
  BY DPLoop, DPOrams DEF DP!Aggregate
<1>2. /\ step \in Call /\ step \in Nat /\ samples \in [Call -> Entry]
      /\ buffer \in [Entry -> Three!BufferBlock \cup {Absent}]
  BY DEF DPIInv, DPTypes, Call
<1>3. e \in Entry /\ samples[step] = e
  BY <1>2 DEF Current
<1> HIDE DEF e
<1>4. buffer[e] # Absent =>
        /\ bytes \in Three!Bytes /\ bytes.data = e /\ Three!Valid(bytes)
        /\ bytes.counter = (buffer[e].bytes.counter + 1) % CounterValues
  <2>1. buffer[e] # Absent => buffer[e] \in Three!BufferBlock
    BY <1>2, <1>3
  <2>2. buffer[e] # Absent => /\ buffer[e].bytes \in Three!Bytes /\ buffer[e].bytes.data = e
                              /\ Three!Valid(buffer[e].bytes)
    BY <1>3, <2>1 DEF DPIInv, ThreePlaces, DPCounts, Three!BufferBlock
  <2> QED BY <2>2, ThreeAggregated, DPSizes
<1> HIDE DEF bytes
<1>5. /\ posmap' \in [Entry -> Three!Index]
      /\ buffer' \in [Entry -> Three!BufferBlock \cup {Absent}]
      /\ buffer[e] # Absent => buffer'[e].bytes = bytes
      /\ \A x \in Entry : /\ buffer'[x] # Absent <=> buffer[x] # Absent
                          /\ x # e => buffer'[x] = buffer[x]
      /\ main' = main => ThreePlaces'
  BY <1>1, <1>3, <1>4, DPAccessKeeps
<1>11. \A x \in Entry : buffer'[x] # Absent <=> buffer[x] # Absent
  BY <1>5
<1>12. \A x \in Entry : x # e => buffer'[x] = buffer[x]
  BY <1>5
<1>6. /\ samples' = samples /\ step' \in Call
      /\ \/ phase' = "aggregate" /\ step' = step + 1
         \/ phase' = "flush" /\ step' = 1
  BY <1>1, <1>2, DPSizes DEF AggregateReturns, Followed, Call
<1>7. DPTypes'
  BY <1>1, <1>5, <1>6 DEF DPIInv, DPTypes, DP!Phases, DP!Exceptions, Call,
     Three!Index, Three!MemoryBlock, Three!BufferBlock, Three!Bytes
<1>8. DPProgress'
  <2>1. Len(requested) = SamplesPerRound /\ moved = 0 /\ 1 <= Len(plan)
    BY <1>1 DEF DPIInv, DPProgress
  <2> QED BY <1>1, <1>6, <2>1 DEF DPProgress
<1>9. DPAwaits'
  <2>1. phase' = "flush" => \A i \in 1 .. Len(plan) : step' <= i
    BY <1>6
  <2>2. \A x \in Entry : buffer'[x] # Absent => \E i \in 1 .. Len(plan) : plan[i] = x
    BY <1>11 DEF DPIInv, DPAwaits
  <2> QED BY <1>1, <1>6, <2>1, <2>2 DEF DPAwaits
<1>10. DPCounts'
  <2>1. ASSUME NEW x \in Entry, buffer'[x] # Absent
        PROVE  /\ Three!Valid(buffer'[x].bytes)
               /\ buffer'[x].bytes.counter = Cardinality(Calls(step, x)) % CounterValues
    <3> DEFINE n == Cardinality(Calls(step - 1, x))
    <3>1. /\ n \in Nat
          /\ Cardinality(Calls(step, x)) = n + (IF samples[step] = x THEN 1 ELSE 0)
      <4>1. step - 1 \in Nat /\ (step - 1) + 1 = step
        BY <1>2, DPSizes DEF Call
      <4> QED BY <4>1, CallsFacts
    <3>5. buffer[x] # Absent
      BY <1>11, <2>1
    <3>2. Three!Valid(buffer[x].bytes) /\ buffer[x].bytes.counter = n % CounterValues
      BY <1>1, <3>5 DEF DPIInv, DPCounts
    <3> HIDE DEF n
    <3>3. CASE x = e
      <4>1. ((n % CounterValues) + 1) % CounterValues = (n + 1) % CounterValues
        BY <3>1, NextRemainder, DPSizes
      <4> QED BY <1>3, <1>4, <1>5, <3>1, <3>2, <3>3, <3>5, <4>1
    <3>4. CASE x # e
      <4>1. buffer'[x] = buffer[x] /\ Cardinality(Calls(step, x)) = n
        BY <1>3, <1>12, <3>1, <3>4
      <4> QED BY <3>2, <4>1
    <3> QED BY <3>3, <3>4
  <2>2. phase' = "aggregate" => \A x \in Entry : Calls(step - 1, x)' = Calls(step, x)
    <3>1. phase' = "aggregate" => step' - 1 = step
      BY <1>2, <1>6
    <3> QED BY <1>6, <3>1 DEF Calls
  <2>3. phase' \notin {"load", "download"}
    BY <1>6
  <2> QED BY <2>1, <2>2, <2>3 DEF DPCounts, Three!Valid
<1> QED
  BY <1>1, <1>5, <1>7, <1>8, <1>9, <1>10 DEF DPIInv

LEMMA DPFlushKeeps ==
  ASSUME DP!Parameters, DPIInv, DP!Flush
  PROVE  DPIInv'
<1> DEFINE e == plan[step]
<1>1. /\ phase = "flush" /\ step \in 1 .. Len(plan) /\ Len(plan) <= SamplesPerRound
      /\ samples' = samples /\ plan' = plan /\ moved' = moved
      /\ e \in Entry => buffer'[e] = Absent
      /\ (e \notin Entry \/ buffer[e] = Absent) => UNCHANGED <<posmap, main, buffer>>
      /\ \/ /\ step < Len(plan) /\ step' = step + 1 /\ phase' = "flush"
            /\ requested' = requested
         \/ step = Len(plan) /\ step' = 1 /\ phase' = "sample" /\ requested' = <<>>
  BY DPFlushDoes
<1>2. e \in Entry /\ buffer[e] # Absent =>
        \E newPath \in Three!MemoryPath :
          /\ posmap' = [posmap EXCEPT ![e] = newPath]
          /\ main' = [main EXCEPT ![e] = [path |-> newPath, data |-> e]]
          /\ buffer' = [buffer EXCEPT ![e] = Absent]
  BY DPFlushDoes
<1>3. /\ samples \in [Call -> Entry] /\ requested \in Seq(Entry)
      /\ posmap \in [Entry -> Three!Index]
      /\ main \in [Entry -> Three!MemoryBlock \cup {Absent}]
      /\ buffer \in [Entry -> Three!BufferBlock \cup {Absent}]
      /\ Len(plan) \in Nat /\ SamplesPerRound \in Nat \ {0} /\ moved = 0
  BY <1>1, LenProperties, DPSizes DEF DPIInv, DPTypes, DPProgress
<1>4. /\ step \in Nat /\ step' \in Call /\ (phase' = "flush" => step' <= Len(plan))
      /\ 1 <= Len(plan)
  BY <1>1, <1>3 DEF Call
<1>5. \A x \in Entry :
        /\ Three!HasMask(posmap[x]) =>
             /\ main[x] = Absent /\ buffer[x] # Absent /\ buffer[x].bytes.data = x
             /\ buffer[x].path = Three!WithoutMask(posmap[x])
        /\ ~Three!HasMask(posmap[x]) =>
             /\ buffer[x] = Absent /\ main[x] # Absent
             /\ main[x] = [path |-> posmap[x], data |-> x]
  BY DEF DPIInv, ThreePlaces
<1>6. /\ posmap' \in [Entry -> Three!Index]
      /\ main' \in [Entry -> Three!MemoryBlock \cup {Absent}]
      /\ buffer' \in [Entry -> Three!BufferBlock \cup {Absent}]
      /\ \A x \in Entry : x # e => posmap'[x] = posmap[x] /\ main'[x] = main[x] /\ buffer'[x] = buffer[x]
      /\ \A x \in Entry :
           /\ Three!HasMask(posmap'[x]) =>
                /\ main'[x] = Absent /\ buffer'[x] # Absent /\ buffer'[x].bytes.data = x
                /\ buffer'[x].path = Three!WithoutMask(posmap'[x])
           /\ ~Three!HasMask(posmap'[x]) =>
                /\ buffer'[x] = Absent /\ main'[x] # Absent
                /\ main'[x] = [path |-> posmap'[x], data |-> x]
  <2>1. CASE e \notin Entry \/ buffer[e] = Absent
    <3>1. posmap' = posmap /\ main' = main /\ buffer' = buffer
      BY <1>1, <2>1
    <3> HIDE DEF e
    <3> QED BY <1>3, <1>5, <3>1
  <2>2. CASE e \in Entry /\ buffer[e] # Absent
    <3>1. PICK newPath \in Three!MemoryPath :
            /\ posmap' = [posmap EXCEPT ![e] = newPath]
            /\ main' = [main EXCEPT ![e] = [path |-> newPath, data |-> e]]
            /\ buffer' = [buffer EXCEPT ![e] = Absent]
      BY <1>2, <2>2
    <3>2. newPath \in Three!Index /\ ~Three!HasMask(newPath)
      BY MaskTells, DPSizes
    <3> DEFINE b == [path |-> newPath, data |-> e]
    <3>3. b \in Three!MemoryBlock /\ b # Absent
      BY <2>2, DPSizes DEF Three!MemoryBlock
    <3> HIDE DEF b, e
    <3>4. main' = [main EXCEPT ![e] = b]
      BY <3>1 DEF b
    <3>5. /\ posmap' \in [Entry -> Three!Index] /\ posmap'[e] = newPath
          /\ main' \in [Entry -> Three!MemoryBlock \cup {Absent}] /\ main'[e] = b
          /\ buffer' \in [Entry -> Three!BufferBlock \cup {Absent}] /\ buffer'[e] = Absent
          /\ \A x \in Entry : x # e => posmap'[x] = posmap[x] /\ main'[x] = main[x] /\ buffer'[x] = buffer[x]
      BY <1>3, <2>2, <3>1, <3>2, <3>3, <3>4
    <3>6. ~Three!HasMask(posmap'[e]) /\ main'[e] = [path |-> posmap'[e], data |-> e]
          /\ main'[e] # Absent
      BY <3>2, <3>3, <3>5 DEF b
    <3>7. ASSUME NEW x \in Entry
          PROVE  /\ Three!HasMask(posmap'[x]) =>
                     /\ main'[x] = Absent /\ buffer'[x] # Absent /\ buffer'[x].bytes.data = x
                     /\ buffer'[x].path = Three!WithoutMask(posmap'[x])
                 /\ ~Three!HasMask(posmap'[x]) =>
                     /\ buffer'[x] = Absent /\ main'[x] # Absent
                     /\ main'[x] = [path |-> posmap'[x], data |-> x]
      <4>1. CASE x = e
        BY <3>5, <3>6, <4>1
      <4>2. CASE x # e
        <5>1. posmap'[x] = posmap[x] /\ buffer'[x] = buffer[x] /\ main'[x] = main[x]
          BY <3>5, <4>2
        <5> QED BY <1>5, <5>1
      <4> QED BY <4>1, <4>2
    <3> QED BY <3>5, <3>7
  <2> QED BY <2>1, <2>2
<1>7. /\ requested' \in Seq(Entry) /\ Len(requested') <= SamplesPerRound
      /\ phase' = "sample" => Len(requested') = 0
      /\ phase' = "flush" => Len(requested') = SamplesPerRound
  <2>1. Len(requested) = SamplesPerRound
    BY <1>1 DEF DPIInv, DPProgress
  <2>2. CASE phase' = "flush" /\ requested' = requested
    BY <1>3, <2>1, <2>2
  <2>3. CASE phase' = "sample" /\ requested' = <<>>
    <3>1. requested' \in Seq(Entry) /\ Len(requested') = 0
      BY <2>3, EmptySeq
    <3> QED BY <1>3, <2>3, <3>1
  <2> QED BY <1>1, <2>2, <2>3
(* An entry left in the buffer has a later place. *)
<1>8. ASSUME NEW x \in Entry, buffer'[x] # Absent
      PROVE  /\ phase' = "flush" /\ Three!Valid(buffer'[x].bytes)
             /\ \E i \in 1 .. Len(plan) : plan[i] = x /\ step' <= i
  <2>1. x # e
    BY <1>1, <1>8
  <2>2. buffer'[x] = buffer[x]
    BY <1>6, <2>1
  <2>3. PICK i \in 1 .. Len(plan) : plan[i] = x /\ step <= i
    BY <1>1, <1>8, <2>2 DEF DPIInv, DPAwaits
  <2>4. i # step
    BY <2>1, <2>3
  <2> HIDE DEF e
  <2>5. step + 1 <= i /\ step < Len(plan)
    BY <1>3, <1>4, <2>3, <2>4
  <2>6. phase' = "flush" /\ step' = step + 1
    BY <1>1, <1>3, <1>4, <2>5
  <2>7. Three!Valid(buffer[x].bytes)
    BY <1>8, <2>2 DEF DPIInv, DPCounts
  <2> QED BY <2>2, <2>3, <2>5, <2>6, <2>7
<1> HIDE DEF e
<1>9. DPTypes'
  BY <1>1, <1>3, <1>4, <1>6, <1>7 DEF DPIInv, DPTypes, DP!Phases, DP!Exceptions, Call,
     Three!Index, Three!MemoryBlock, Three!BufferBlock, Three!Bytes
<1>10. ThreePlaces'
  BY <1>6 DEF ThreePlaces, Three!HasMask, Three!WithoutMask, Three!InBufferMask
<1>11. DPProgress'
  BY <1>1, <1>3, <1>4, <1>7 DEF DPProgress
<1>12. DPAwaits' /\ DPCounts'
  BY <1>1, <1>8 DEF DPAwaits, DPCounts, Three!Valid
<1> QED
  BY <1>9, <1>10, <1>11, <1>12 DEF DPIInv

LEMMA DPStutterKeeps ==
  ASSUME DPIInv, UNCHANGED DP!vars
  PROVE  DPIInv'
<1>1. /\ phase' = phase /\ step' = step /\ samples' = samples /\ posmap' = posmap /\ main' = main
      /\ buffer' = buffer /\ requested' = requested /\ plan' = plan /\ moved' = moved
  BY DEF DP!vars
<1>2. DPTypes'
  BY <1>1 DEF DPIInv, DPTypes, DP!Phases, DP!Exceptions, Call,
     Three!Index, Three!MemoryBlock, Three!BufferBlock, Three!Bytes
<1>3. ThreePlaces'
  BY <1>1 DEF DPIInv, ThreePlaces, Three!HasMask, Three!WithoutMask, Three!InBufferMask
<1>4. DPProgress' /\ DPAwaits'
  BY <1>1 DEF DPIInv, DPProgress, DPAwaits, Call
<1>5. DPCounts'
  BY <1>1 DEF DPIInv, DPCounts, Calls, Three!Valid
<1> QED
  BY <1>2, <1>3, <1>4, <1>5 DEF DPIInv

LEMMA DPInvariance ==
  ASSUME DP!Parameters
  PROVE  DP!Spec => []DPIInv
<1>1. DP!Init => DPIInv
  BY DPInitGood
<1>2. DPIInv /\ [DP!Next]_(DP!vars) => DPIInv'
  <2> SUFFICES ASSUME DPIInv, [DP!Next]_(DP!vars) PROVE DPIInv'
    OBVIOUS
  <2>1. CASE DP!Sample
    BY <2>1, DPSampleKeeps
  <2>2. CASE DP!Reserve
    BY <2>2, DPReserveKeeps
  <2>3. CASE DP!Plan
    BY <2>3, DPPlanKeeps
  <2>4. CASE DP!MoveToBuffer
    BY <2>4, DPMoveKeeps
  <2>5. CASE DP!Download
    BY <2>5, DPDownloadKeeps
  <2>6. CASE DP!Aggregate
    BY <2>6, DPAggregateKeeps
  <2>7. CASE DP!Flush
    BY <2>7, DPFlushKeeps
  <2>8. CASE UNCHANGED DP!vars
    BY <2>8, DPStutterKeeps
  <2> QED BY <2>1, <2>2, <2>3, <2>4, <2>5, <2>6, <2>7, <2>8 DEF DP!Next
<1> QED
  BY <1>1, <1>2, PTL DEF DP!Spec

-----------------------------------------------------------------------------
LEMMA DPInitRefines ==
  ASSUME DP!Parameters, DP!Init
  PROVE  DP!Rounds!Init
<1>1. DP!LoopInit /\ \A e \in Entry : buffer[e] = Absent
  BY DEF DP!Init
<1>2. ThreeHeld = {} /\ ThreeSums = [e \in Entry |-> 0]
  BY <1>1 DEF ThreeHeld, ThreeSums
<1> QED
  BY <1>1, <1>2 DEF DP!Rounds!Init, DP!Rounds!LoopInit, DP!Rounds!Call,
       DP!LoopInit, DP!Call, ThreeHeld, ThreeSums

LEMMA DPSampleRefines ==
  ASSUME DP!Parameters, DPIInv, DP!Sample
  PROVE  DP!Rounds!Sample
<1>1. phase = "sample" /\ (\E e \in Entry : DP!Rounds!Draw(e)) /\ buffer' = buffer
  BY DPLoop DEF DP!Sample, DP!bufferVars
<1>2. ThreeHeld' = ThreeHeld /\ ThreeSums' = ThreeSums
  BY <1>1 DEF ThreeHeld, ThreeSums
<1> QED
  BY <1>1, <1>2 DEF DP!Rounds!Sample, ThreeHeld, ThreeSums

LEMMA DPReserveRefines ==
  ASSUME DP!Parameters, DPIInv, DP!Reserve
  PROVE  DP!Rounds!Reserve
<1>1. phase = "reserve" /\ DP!Rounds!ReserveReturns /\ buffer' = buffer
  BY DPLoop DEF DP!Reserve
<1>2. ThreeHeld' = ThreeHeld /\ ThreeSums' = ThreeSums
  BY <1>1 DEF ThreeHeld, ThreeSums
<1> QED
  BY <1>1, <1>2 DEF DP!Rounds!Reserve, ThreeHeld, ThreeSums

LEMMA DPPlanRefines ==
  ASSUME DP!Parameters, DPIInv, DP!Plan
  PROVE  DP!Rounds!Load
<1>1. /\ phase = "load" /\ phase' = phase /\ step' = step /\ samples' = samples
      /\ buffer' = buffer
  BY DEF DP!Plan, DP!LoadGoesOn, DP!loopVars
<1>2. ThreeHeld' = ThreeHeld \cup {} /\ ThreeSums' = ThreeSums
  BY <1>1 DEF ThreeHeld, ThreeSums
<1>3. DP!Rounds!LoadGoesOn
  BY <1>1 DEF DP!Rounds!LoadGoesOn, DP!Rounds!loopVars
<1>4. \E some \in SUBSET { samples[i] : i \in DP!Rounds!Call } : ThreeHeld' = ThreeHeld \cup some
  BY <1>2
<1> QED
  BY <1>1, <1>2, <1>3, <1>4 DEF DP!Rounds!Load, ThreeHeld, ThreeSums

LEMMA DPMoveRefines ==
  ASSUME DP!Parameters, DPIInv, DP!MoveToBuffer
  PROVE  DP!Rounds!Load
<1> DEFINE e == plan[moved]
           some == IF e \in Entry THEN {e} ELSE {}
<1>1. /\ phase = "load" /\ moved \in 1 .. Len(plan) /\ step' = step /\ samples' = samples
      /\ phase' \in {"load", "download"}
      /\ e \notin Entry => buffer' = buffer
  BY DPMoveDoes
<1>2. e \in Entry => /\ buffer'[e] # Absent /\ buffer'[e].bytes.counter = 0
                     /\ \A x \in Entry : x # e => buffer'[x] = buffer[x]
  <2>1. posmap \in [Entry -> Three!Index] /\ buffer \in [Entry -> Three!BufferBlock \cup {Absent}]
    BY DEF DPIInv, DPTypes
  <2> SUFFICES ASSUME e \in Entry
      PROVE  /\ buffer'[e] # Absent /\ buffer'[e].bytes.counter = 0
             /\ \A x \in Entry : x # e => buffer'[x] = buffer[x]
    OBVIOUS
  <2>2. PICK newPath \in Three!BufferPath, bytes \in Three!Bytes :
          ThreePut(e, newPath, bytes) /\ bytes.counter = 0
    BY DPMoveDoes
  <2>3. /\ buffer'[e] # Absent /\ buffer'[e].bytes = bytes
        /\ \A x \in Entry : x # e => posmap'[x] = posmap[x] /\ buffer'[x] = buffer[x]
    BY <2>1, <2>2, ThreePutDoes, DPSizes
  <2> QED BY <2>2, <2>3
<1>3. e \in Entry => e \in { samples[i] : i \in DP!Rounds!Call }
  <2>1. moved > 0 /\ Call = DP!Rounds!Call
    <3>1. Len(plan) \in Nat
      BY LenProperties DEF DPIInv, DPTypes
    <3> HIDE DEF e
    <3> QED BY <1>1, <3>1, DPLoop
  <2>2. e # Dummy => \E i \in Call : e = samples[i]
    BY <1>1, <2>1 DEF DPIInv, DPProgress
  <2> QED BY <2>1, <2>2, DPSizes
<1>4. \A x \in Entry : buffer[x] # Absent => buffer[x].bytes.counter = 0
  BY <1>1 DEF DPIInv, DPCounts
<1> HIDE DEF e
<1>5. \A x \in Entry : buffer'[x] # Absent <=> buffer[x] # Absent \/ x = e
  BY <1>1, <1>2
<1>6. \A x \in Entry : buffer'[x] # Absent => buffer'[x].bytes.counter = 0
  BY <1>1, <1>2, <1>4
<1>7. ThreeHeld' = ThreeHeld \cup some
  BY <1>5 DEF ThreeHeld
<1>8. ThreeSums' = ThreeSums
  BY <1>4, <1>6 DEF ThreeSums
<1>9. \E s \in SUBSET { samples[i] : i \in DP!Rounds!Call } : ThreeHeld' = ThreeHeld \cup s
  BY <1>3, <1>7
<1>10. DP!Rounds!LoadGoesOn \/ DP!Rounds!LoadReturns
  BY <1>1 DEF DP!Rounds!LoadGoesOn, DP!Rounds!LoadReturns, DP!Rounds!loopVars
<1> QED
  BY <1>1, <1>8, <1>9, <1>10 DEF DP!Rounds!Load, ThreeHeld, ThreeSums

LEMMA DPDownloadRefines ==
  ASSUME DP!Parameters, DPIInv, DP!Download
  PROVE  DP!Rounds!Download
<1> DEFINE e == Current
           bytes == buffer[e].bytes
<1>1. phase = "download" /\ DownloadReturns /\ DP!Access(e, bytes)
  BY DPLoop DEF DP!Download
<1>2. /\ step \in Call /\ samples \in [Call -> Entry]
      /\ buffer \in [Entry -> Three!BufferBlock \cup {Absent}]
  BY DEF DPIInv, DPTypes
<1>3. e \in Entry
  BY <1>2 DEF Current
<1> HIDE DEF e
<1>4. buffer[e] # Absent => bytes \in Three!Bytes /\ bytes.data = e
  <2>1. buffer[e] # Absent => buffer[e] \in Three!BufferBlock
    BY <1>2, <1>3
  <2> QED BY <1>3, <2>1 DEF DPIInv, ThreePlaces, Three!BufferBlock
<1> HIDE DEF bytes
<1>5. /\ buffer[e] # Absent => buffer'[e].bytes = bytes
      /\ \A x \in Entry : /\ buffer'[x] # Absent <=> buffer[x] # Absent
                          /\ x # e => buffer'[x] = buffer[x]
  BY <1>1, <1>3, <1>4, DPAccessKeeps
<1>6. ThreeHeld' = ThreeHeld
  BY <1>5 DEF ThreeHeld
<1>7. ThreeSums' = ThreeSums
  <2>1. ASSUME NEW x \in Entry
        PROVE  (IF buffer'[x] = Absent THEN 0 ELSE buffer'[x].bytes.counter)
                 = IF buffer[x] = Absent THEN 0 ELSE buffer[x].bytes.counter
    <3>1. CASE x = e
      BY <1>5, <3>1 DEF bytes
    <3>2. CASE x # e
      BY <1>5, <3>2
    <3> QED BY <3>1, <3>2
  <2> QED BY <2>1 DEF ThreeSums
<1>8. UsesReserve /\ DP!Rounds!DownloadReturns
  BY <1>1, DPSizes, DPLoop
<1> QED
  BY <1>1, <1>6, <1>7, <1>8 DEF DP!Rounds!Download, ThreeHeld, ThreeSums

LEMMA DPAggregateRefines ==
  ASSUME DP!Parameters, DPIInv, DP!Aggregate
  PROVE  DP!Rounds!Aggregate
<1> DEFINE e == Current
           bytes == Three!Aggregated(buffer[e].bytes)
<1>1. phase = "aggregate" /\ AggregateReturns /\ DP!Access(e, bytes)
  BY DPLoop, DPOrams DEF DP!Aggregate
<1>2. /\ step \in Call /\ samples \in [Call -> Entry]
      /\ buffer \in [Entry -> Three!BufferBlock \cup {Absent}]
  BY DEF DPIInv, DPTypes
<1>3. e \in Entry /\ DP!Rounds!Current = e /\ DP!Rounds!AggregateReturns /\ UsesReserve
  BY <1>1, <1>2, DPLoop, DPSizes DEF Current
<1> HIDE DEF e
<1>4. buffer[e] # Absent =>
        /\ bytes \in Three!Bytes /\ bytes.data = e
        /\ bytes.counter = (buffer[e].bytes.counter + 1) % CounterValues
  <2>1. buffer[e] # Absent => buffer[e] \in Three!BufferBlock
    BY <1>2, <1>3
  <2>2. buffer[e] # Absent => buffer[e].bytes \in Three!Bytes /\ buffer[e].bytes.data = e
    BY <1>3, <2>1 DEF DPIInv, ThreePlaces, Three!BufferBlock
  <2> QED BY <2>2, ThreeAggregated, DPSizes
<1> HIDE DEF bytes
<1>5. /\ buffer[e] # Absent => buffer'[e].bytes = bytes
      /\ \A x \in Entry : /\ buffer'[x] # Absent <=> buffer[x] # Absent
                          /\ x # e => buffer'[x] = buffer[x]
  BY <1>1, <1>3, <1>4, DPAccessKeeps
<1>6. ThreeHeld' = ThreeHeld
  BY <1>5 DEF ThreeHeld
<1>7. ThreeSums' = IF e \in ThreeHeld
                   THEN [ThreeSums EXCEPT ![e] = (@ + 1) % CounterValues] ELSE ThreeSums
  <2> DEFINE More(x) == IF x = e /\ e \in ThreeHeld
                        THEN (ThreeSums[e] + 1) % CounterValues ELSE ThreeSums[x]
  <2>1. ASSUME NEW x \in Entry
        PROVE  (IF buffer'[x] = Absent THEN 0 ELSE buffer'[x].bytes.counter) = More(x)
    <3>1. ThreeSums[x] = IF buffer[x] = Absent THEN 0 ELSE buffer[x].bytes.counter
      BY DEF ThreeSums
    <3>2. e \in ThreeHeld <=> buffer[e] # Absent
      BY <1>3 DEF ThreeHeld
    <3>3. buffer'[x] # Absent <=> buffer[x] # Absent
      BY <1>5
    <3>4. CASE x = e /\ buffer[e] # Absent
      <4>1. buffer'[x].bytes.counter = (ThreeSums[e] + 1) % CounterValues
        BY <1>4, <1>5, <3>1, <3>4
      <4> QED BY <3>2, <3>3, <3>4, <4>1
    <3>5. CASE x = e /\ buffer[e] = Absent
      BY <3>1, <3>2, <3>3, <3>5
    <3>6. CASE x # e
      BY <1>5, <3>1, <3>6
    <3> QED BY <3>4, <3>5, <3>6
  <2>2. ThreeSums' = [x \in Entry |-> More(x)]
    <3> HIDE DEF More
    <3> QED BY <2>1 DEF ThreeSums
  <2>3. ThreeSums = [x \in Entry |-> ThreeSums[x]]
    BY DEF ThreeSums
  <2> QED BY <1>3, <2>2, <2>3
<1> QED
  BY <1>1, <1>3, <1>6, <1>7 DEF DP!Rounds!Aggregate, ThreeHeld, ThreeSums

LEMMA DPFlushRefines ==
  ASSUME DP!Parameters, DPIInv, DP!Flush
  PROVE  DP!Rounds!Flush
<1> DEFINE e == plan[step]
           back == ThreeHeld \cap {e}
<1>1. /\ phase = "flush" /\ samples' = samples /\ step \in 1 .. Len(plan)
      /\ Len(plan) <= SamplesPerRound
      /\ (e \notin Entry \/ buffer[e] = Absent) => UNCHANGED <<posmap, main, buffer>>
      /\ \/ /\ step < Len(plan) /\ step' = step + 1 /\ phase' = "flush"
            /\ requested' = requested
         \/ step = Len(plan) /\ step' = 1 /\ phase' = "sample" /\ requested' = <<>>
  BY DPFlushDoes
<1>2. e \in Entry /\ buffer[e] # Absent => buffer' = [buffer EXCEPT ![e] = Absent]
  BY DPFlushDoes
<1>3. /\ buffer \in [Entry -> Three!BufferBlock \cup {Absent}]
      /\ Len(plan) \in Nat /\ SamplesPerRound \in Nat
  BY LenProperties, DPSizes DEF DPIInv, DPTypes
<1>4. phase' = "sample" => ThreeHeld' = {}
  <2>1. DPIInv'
    BY DPFlushKeeps
  <2>2. phase' = "sample" => \A x \in Entry : buffer'[x] = Absent
    BY <2>1 DEF DPIInv, DPAwaits
  <2> QED BY <2>2 DEF ThreeHeld
<1> HIDE DEF e
<1>5. \A x \in Entry : buffer'[x] = IF x = e THEN Absent ELSE buffer[x]
  <2>1. CASE e \notin Entry \/ buffer[e] = Absent
    BY <1>1, <2>1
  <2>2. CASE e \in Entry /\ buffer[e] # Absent
    BY <1>2, <1>3, <2>2
  <2> QED BY <2>1, <2>2
<1>6. /\ ThreeHeld' = ThreeHeld \ back /\ back \in SUBSET ThreeHeld
      /\ ThreeSums' = [x \in Entry |-> IF x \in back THEN 0 ELSE ThreeSums[x]]
  BY <1>5 DEF ThreeHeld, ThreeSums
<1>7. DP!Rounds!FlushGoesOn \/ (DP!Rounds!FlushReturns /\ ThreeHeld' = {})
  BY <1>1, <1>3, <1>4 DEF DP!Rounds!FlushGoesOn, DP!Rounds!FlushReturns
<1> HIDE DEF back
<1> QED
  BY <1>1, <1>6, <1>7 DEF DP!Rounds!Flush, DP!Rounds!SumsCleared, ThreeHeld, ThreeSums

-----------------------------------------------------------------------------
(* Every variable of OramBufferDP keeps its type, whatever k is drawn for   *)
(* the chunks.                                                              *)
THEOREM DPTypeCorrect ==
  ASSUME DP!Parameters
  PROVE  DP!Spec => []DP!TypeOK
<1>1. DPIInv => DP!TypeOK
  BY DPTypesAre DEF DPIInv
<1> QED
  BY <1>1, DPInvariance, PTL

(* Dropped or not, in two chunks or in one: the bit and the path in the     *)
(* position map tell where an entry lies.                                   *)
THEOREM DPMapTellsThePlace ==
  ASSUME DP!Parameters
  PROVE  DP!Spec => []DP!MapTellsPlace
<1>1. DPIInv => DP!MapTellsPlace
  BY DPOrams DEF DPIInv, ThreePlaces, DP!MapTellsPlace
<1> QED
  BY <1>1, DPInvariance, PTL

(* No search of OramBufferDP fails, and no block that leaves the buffer     *)
(* fails its check.                                                         *)
THEOREM DPNeverThrows ==
  ASSUME DP!Parameters
  PROVE  DP!Spec => []NeverThrows
<1>1. DPIInv => NeverThrows
  BY DEF DPIInv, DPProgress, NeverThrows
<1> QED
  BY <1>1, DPInvariance, PTL

(* OramBufferDP implements TrainingRounds with the losses it allows: only   *)
(* what was sampled is loaded, and a flush leaves nothing in the buffer.    *)
THEOREM DPImplementsRounds ==
  ASSUME DP!Parameters
  PROVE  DP!Spec => DP!ImplementsRounds
<1>1. DP!Init => DP!Rounds!Init
  BY DPInitRefines
<1>2. DPIInv /\ [DP!Next]_(DP!vars) => [DP!Rounds!Next]_(DP!Rounds!vars)
  <2> SUFFICES ASSUME DPIInv, [DP!Next]_(DP!vars)
      PROVE  [DP!Rounds!Next]_(DP!Rounds!vars)
    OBVIOUS
  <2>1. CASE DP!Sample
    BY <2>1, DPSampleRefines DEF DP!Rounds!Next
  <2>2. CASE DP!Reserve
    BY <2>2, DPReserveRefines DEF DP!Rounds!Next
  <2>3. CASE DP!Plan
    BY <2>3, DPPlanRefines DEF DP!Rounds!Next
  <2>4. CASE DP!MoveToBuffer
    BY <2>4, DPMoveRefines DEF DP!Rounds!Next
  <2>5. CASE DP!Download
    BY <2>5, DPDownloadRefines DEF DP!Rounds!Next
  <2>6. CASE DP!Aggregate
    BY <2>6, DPAggregateRefines DEF DP!Rounds!Next
  <2>7. CASE DP!Flush
    BY <2>7, DPFlushRefines DEF DP!Rounds!Next
  <2>8. CASE UNCHANGED DP!vars
    <3>1. buffer' = buffer /\ phase' = phase /\ step' = step /\ samples' = samples
      BY <2>8 DEF DP!vars
    <3>2. ThreeHeld' = ThreeHeld /\ ThreeSums' = ThreeSums
      BY <3>1 DEF ThreeHeld, ThreeSums
    <3> QED BY <3>1, <3>2 DEF DP!Rounds!vars, ThreeHeld, ThreeSums
  <2> QED BY <2>1, <2>2, <2>3, <2>4, <2>5, <2>6, <2>7, <2>8 DEF DP!Next
<1> QED
  BY <1>1, <1>2, DPInvariance, PTL DEF DP!Spec, DP!ImplementsRounds, DP!Rounds!Spec

(* During the aggregation the counter of an entry that was not dropped has  *)
(* counted the calls that were made for it.                                 *)
THEOREM DPCountsEveryGradient ==
  ASSUME DP!Parameters
  PROVE  DP!Spec => []DP!Rounds!GradientsCounted
<1>1. DPIInv => DP!Rounds!GradientsCounted
  <2> SUFFICES ASSUME DPIInv, phase = "aggregate", NEW x \in ThreeHeld
      PROVE  ThreeSums[x]
               = DP!Rounds!Cardinality({ i \in 1 .. step - 1 : samples[i] = x }) % CounterValues
    BY DEF DP!Rounds!GradientsCounted, ThreeHeld, ThreeSums
  <2>1. x \in Entry /\ buffer[x] # Absent /\ ThreeSums[x] = buffer[x].bytes.counter
    BY DEF ThreeHeld, ThreeSums
  <2>2. buffer[x].bytes.counter = Cardinality(Calls(step - 1, x)) % CounterValues
    BY <2>1 DEF DPIInv, DPCounts
  <2> QED BY <2>1, <2>2, DPCardinality DEF Calls
<1> QED
  BY <1>1, DPInvariance, PTL

-----------------------------------------------------------------------------
(* OramBufferDPLinearScan. *)

(* OramBufferDPLinearScan: a turn of the load has its entry of buffer_posmap, *)
(* until the flush has come to it.                                          *)
Live(i) == plan # <<>> /\ i \in 1 .. Len(map) /\ (phase = "flush" => step <= i)

LinearProgress ==
  /\ phase \in {"sample", "reserve", "load", "download", "aggregate", "flush", "PermutationEnd"}
  /\ phase \in {"sample", "PermutationEnd"} => Len(requested) = 0
  /\ phase = "reserve" => Len(requested) = step - 1
  /\ phase \in {"load", "download", "aggregate", "flush"} => Len(requested) = SamplesPerRound
  /\ phase \in {"sample", "reserve", "PermutationEnd"} => plan = <<>>
  /\ phase = "load" /\ plan # <<>> => Len(map) < Len(plan)
  /\ phase \in {"download", "aggregate", "flush"} => plan # <<>> /\ Len(map) = Len(plan)
  /\ phase = "flush" => step <= Len(plan)

(* The map has the plan's ids, of which no two are the same entry.          *)
LinearMap ==
  /\ plan # <<>> => \A i \in 1 .. Len(map) : i \in 1 .. Len(plan) /\ map[i].id = plan[i]
  /\ \A i, j \in 1 .. Len(plan) : plan[i] = plan[j] /\ plan[i] # Dummy => i = j

LinearPlaces ==
  /\ \A e \in Entry : buffer[e] = Absent =>
       main[e] # Absent /\ main[e] = [path |-> posmap[e], data |-> e]
  /\ \A e \in Entry : buffer[e] # Absent =>
       /\ main[e] = Absent /\ buffer[e].bytes.data = e /\ Three!Valid(buffer[e].bytes)
       /\ \E i \in 1 .. Len(map) : /\ Live(i) /\ map[i].id = e
                                   /\ map[i].path = buffer[e].path /\ map[i].home = posmap[e]
  /\ \A i \in 1 .. Len(map) : Live(i) /\ map[i].id # Dummy => buffer[map[i].id] # Absent

LinearEntry == [id : Entry \cup {Dummy}, path : Three!BufferPath, home : Three!MemoryPath]

LinearTypes ==
  /\ phase \in Linear!Phases \cup Linear!Exceptions
  /\ step \in Call /\ samples \in [Call -> Entry]
  /\ posmap \in [Entry -> Three!MemoryPath]
  /\ main \in [Entry -> Three!MemoryBlock \cup {Absent}]
  /\ buffer \in [Entry -> Three!BufferBlock \cup {Absent}]
  /\ requested \in Seq(Entry) /\ Len(requested) <= SamplesPerRound
  /\ plan \in Seq(Entry \cup {Dummy}) /\ Len(plan) <= SamplesPerRound
  /\ map \in Seq(LinearEntry) /\ Len(map) <= SamplesPerRound
  /\ scratch \in Three!Bytes

LinearIInv ==
  LinearTypes /\ LinearProgress /\ LinearMap /\ LinearPlaces /\ Three!Valid(scratch)

LEMMA LinearCardinality ==
  ASSUME NEW S
  PROVE  Linear!Cardinality(S) = Cardinality(S)
BY DEF Linear!Cardinality, Cardinality

LEMMA LinearLoop ==
  /\ Linear!Call = Call /\ Linear!Current = Current
  /\ \A e : Linear!Draw(e) <=> Draw(e)
  /\ Linear!DownloadReturns <=> DownloadReturns
  /\ Linear!AggregateReturns <=> AggregateReturns
  /\ Linear!ReserveReturns <=> ReserveReturns
<1>1. Linear!Call = Call /\ Linear!Drawn = Drawn /\ Linear!Current = Current
  BY DEF Linear!Call, Call, Linear!Drawn, Drawn, Linear!Current, Current
<1>2. Linear!Cardinality(Drawn) = Cardinality(Drawn) /\ Linear!Cardinality(Entry) = Cardinality(Entry)
  BY LinearCardinality
<1>3. \A e : Linear!Draw(e) <=> Draw(e)
  BY <1>1, <1>2 DEF Linear!Draw, Draw, Linear!Followed, Followed
<1>4. \A s, x : Linear!Occurrences(s, x) = Occurrences(s, x)
  BY <1>1, LinearCardinality DEF Occurrences, Linear!Occurrences
<1>5. Linear!Shuffles(samples) = Shuffles(samples)
  BY <1>1, <1>4 DEF Shuffles, Linear!Shuffles
<1>6. Linear!DownloadReturns <=> DownloadReturns
  BY <1>5 DEF Linear!DownloadReturns, DownloadReturns, Linear!Followed, Followed
<1>7. /\ Linear!AggregateReturns <=> AggregateReturns
      /\ Linear!ReserveReturns <=> ReserveReturns
  BY DEF Linear!AggregateReturns, AggregateReturns, Linear!ReserveReturns, ReserveReturns,
         Linear!Followed, Followed
<1> QED
  BY <1>1, <1>3, <1>6, <1>7

LEMMA LinearOrams ==
  /\ Linear!OramsParameters <=> Three!OramsParameters
  /\ Linear!MemoryPath = Three!MemoryPath /\ Linear!BufferPath = Three!BufferPath
  /\ Linear!Bytes = Three!Bytes /\ Linear!MemoryBlock = Three!MemoryBlock
  /\ Linear!BufferBlock = Three!BufferBlock /\ Linear!MapEntry = LinearEntry
  /\ \A oram, e, path : Linear!Answers(oram, e, path) = Three!Answers(oram, e, path)
  /\ \A oram, e, found : Linear!Without(oram, e, found) = Three!Without(oram, e, found)
  /\ \A bytes : Linear!Aggregated(bytes) = Three!Aggregated(bytes)
  /\ \A bytes : Linear!Valid(bytes) <=> Three!Valid(bytes)
<1>1. /\ Linear!MemoryPath = Three!MemoryPath /\ Linear!BufferPath = Three!BufferPath
      /\ Linear!Bytes = Three!Bytes /\ Linear!MemoryBlock = Three!MemoryBlock
      /\ Linear!BufferBlock = Three!BufferBlock /\ Linear!MapEntry = LinearEntry
  BY DEF Linear!MemoryPath, Three!MemoryPath, Linear!BufferPath, Three!BufferPath,
         Linear!Bytes, Three!Bytes, Linear!MemoryBlock, Three!MemoryBlock,
         Linear!BufferBlock, Three!BufferBlock, Linear!MapEntry, LinearEntry
<1>2. \A n : Linear!NumBits(n) = Three!NumBits(n)
  BY Zenon DEF Linear!NumBits, Three!NumBits
<1>3. \A p : Linear!PathIndexSize(p) = Three!PathIndexSize(p)
  BY <1>2 DEF Linear!PathIndexSize, Three!PathIndexSize
<1>4. Linear!OramsParameters <=> Three!OramsParameters
  BY <1>1, <1>3 DEF Linear!OramsParameters, Three!OramsParameters,
       Linear!LoopParameters, Three!LoopParameters
<1>5. /\ \A oram, e, path : Linear!Answers(oram, e, path) = Three!Answers(oram, e, path)
      /\ \A oram, e, found : Linear!Without(oram, e, found) = Three!Without(oram, e, found)
      /\ \A bytes : Linear!Valid(bytes) <=> Three!Valid(bytes)
  BY DEF Linear!Answers, Three!Answers, Linear!Without, Three!Without, Linear!Valid, Three!Valid
<1>6. \A bytes : Linear!Aggregated(bytes) = Three!Aggregated(bytes)
  BY DEF Linear!Aggregated, Three!Aggregated
<1> QED
  BY <1>1, <1>4, <1>5, <1>6

LEMMA LinearUnion ==
  ASSUME NEW ids
  PROVE  Linear!Union(ids) = DP!Union(ids)
BY Zenon DEF Linear!Union, DP!Union, Linear!FirstPlaces, DP!FirstPlaces, Linear!Nth, DP!Nth,
     Linear!Cardinality, DP!Cardinality

LEMMA LinearSizes ==
  ASSUME Linear!Parameters
  PROVE  /\ Three!OramsParameters
         /\ LoopParameters /\ SamplesPerRound \in Nat \ {0} /\ UsesReserve /\ Dummy \notin Entry
         /\ Absent \notin Three!MemoryBlock /\ Absent \notin Three!BufferBlock
         /\ ByteValues \in Nat \ {0} /\ CounterValues \in Nat \ {0}
         /\ 0 \in 0 .. ByteValues - 1 /\ 0 \in 0 .. CounterValues - 1
         /\ 0 % ByteValues = 0 /\ 0 % CounterValues = 0
<1>1. Three!OramsParameters /\ UsesReserve /\ Dummy \notin Entry
  BY LinearOrams DEF Linear!Parameters
<1> QED
  BY <1>1, OramSizes

(* No two ids of a union are the same. *)
LEMMA UnionDistinct ==
  ASSUME NEW S, NEW ids \in Seq(S),
         NEW i \in 1 .. Len(DP!Union(ids)), NEW j \in 1 .. Len(DP!Union(ids)),
         DP!Union(ids)[i] = DP!Union(ids)[j]
  PROVE  i = j
<1> DEFINE P == DP!FirstPlaces(ids)
           N == DP!Cardinality(P)
           p == DP!Nth(P, i)
           q == DP!Nth(P, j)
<1>1. Len(ids) \in Nat
  BY LenProperties
<1>2. P \subseteq 1 .. Len(ids) /\ \A a \in P : \A b \in 1 .. a - 1 : ids[b] # ids[a]
  BY DEF DP!FirstPlaces
<1>3. N = Cardinality(P) /\ N \in Nat
  <2>1. 1 \in Int /\ Len(ids) \in Int /\ IsFiniteSet(1 .. Len(ids))
    BY <1>1, FS_Interval
  <2> QED BY <1>2, <2>1, DPCardinality, FS_Subset, FS_CardinalityType
<1>4. DP!Union(ids) = [n \in 1 .. N |-> ids[DP!Nth(P, n)]]
  BY DEF DP!Union
<1>5. i \in 1 .. N /\ j \in 1 .. N
  <2>1. DP!Union(ids) \in Seq(S)
    BY DPUnionOf
  <2>2. DOMAIN DP!Union(ids) = 1 .. Len(DP!Union(ids))
    BY <2>1, LenProperties
  <2>3. DOMAIN DP!Union(ids) = 1 .. N
    BY <1>4
  <2> QED BY <2>2, <2>3
<1>6. ids[p] = ids[q]
  BY <1>4, <1>5
<1>7. p \in P /\ q \in P /\ Rank(P, p) = i /\ Rank(P, q) = j
  <2>1. i \in 1 .. Cardinality(P) /\ j \in 1 .. Cardinality(P)
    BY <1>3, <1>5
  <2> HIDE DEF P
  <2> QED BY <1>1, <1>2, <2>1, DPNth
<1> HIDE DEF p, q, P
<1>8. p = q
  <2>1. p \in Nat /\ q \in Nat /\ 1 <= p /\ 1 <= q
    BY <1>1, <1>2, <1>7
  <2>2. ~(p < q)
    <3>1. p < q => p \in 1 .. q - 1
      BY <2>1
    <3> QED BY <1>2, <1>6, <1>7, <3>1
  <2>3. ~(q < p)
    <3>1. q < p => q \in 1 .. p - 1
      BY <2>1
    <3> QED BY <1>2, <1>6, <1>7, <3>1
  <2> QED BY <2>1, <2>2, <2>3
<1> QED
  BY <1>7, <1>8

LEMMA LinearPlanned ==
  ASSUME Linear!Parameters, Linear!Plan, requested \in Seq(Entry), Len(requested) = SamplesPerRound
  PROVE  /\ plan' \in Seq(Entry \cup {Dummy}) /\ Len(plan') \in 1 .. SamplesPerRound
         /\ \A i, j \in 1 .. Len(plan') : plan'[i] = plan'[j] /\ plan'[i] # Dummy => i = j
<1> DEFINE union == Linear!Union(requested)
<1>1. PICK k \in 1 .. Len(requested) :
        plan' = [i \in 1 .. k |-> IF i <= Len(union) THEN union[i] ELSE Dummy]
  BY DEF Linear!Plan
<1>2. union = DP!Union(requested)
  BY LinearUnion
<1>3. union \in Seq(Entry)
  BY <1>2, DPUnionOf
<1>4. \A i, j \in 1 .. Len(union) : union[i] = union[j] => i = j
  BY <1>2, UnionDistinct
<1> HIDE DEF union
<1>5. Len(union) \in Nat /\ \A i \in 1 .. Len(union) : union[i] \in Entry
  BY <1>3, LenProperties, ElementOfSeq
<1>6. k \in Nat /\ k \in 1 .. SamplesPerRound
  BY <1>1, LinearSizes
<1>7. \A i \in 1 .. k : i <= Len(union) => i \in 1 .. Len(union)
  BY <1>5, <1>6
<1>8. plan' \in [1 .. k -> Entry \cup {Dummy}]
  BY <1>1, <1>5, <1>7
<1>9. plan' \in Seq(Entry \cup {Dummy})
  BY <1>6, <1>8, SeqDef
<1>10. Len(plan') = k
  <2>1. Len(plan') \in Nat /\ DOMAIN plan' = 1 .. Len(plan')
    BY <1>9, LenProperties
  <2>2. DOMAIN plan' = 1 .. k
    BY <1>8
  <2> DEFINE n == Len(plan')
  <2>3. n \in Nat /\ k \in Nat /\ 1 .. n = 1 .. k
    BY <1>6, <2>1, <2>2
  <2> HIDE DEF n
  <2>4. n = k
    BY <2>3
  <2> QED BY <2>4 DEF n
<1>11. ASSUME NEW i \in 1 .. k, NEW j \in 1 .. k, plan'[i] = plan'[j], plan'[i] # Dummy
       PROVE  i = j
  <2>1. i <= Len(union) /\ j <= Len(union)
    BY <1>1, <1>11
  <2>2. plan'[i] = union[i] /\ plan'[j] = union[j]
    BY <1>1, <2>1
  <2> QED BY <1>4, <1>7, <1>11, <2>1, <2>2
<1> QED
  BY <1>6, <1>9, <1>10, <1>11

LEMMA LinearTypesAre == LinearTypes <=> Linear!TypeOK
BY LinearLoop, LinearOrams DEF LinearTypes, Linear!TypeOK, Linear!OramsTypeOK

(* A turn of the load: an entry moves to the buffer.  It was not there.     *)
LEMMA LinearMoveDoes ==
  ASSUME Linear!Parameters, LinearIInv, Linear!MoveToBuffer, NEW e, e = plan[Len(map) + 1]
  PROVE  /\ phase = "load" /\ Len(map) \in Nat /\ Len(map) + 1 \in 1 .. Len(plan)
         /\ step' = step /\ samples' = samples /\ requested' = requested /\ plan' = plan
         /\ \/ phase' = "load" /\ Len(map) + 1 < Len(plan)
            \/ phase' = "download" /\ Len(map) + 1 = Len(plan)
         /\ \E newPath \in Three!BufferPath, home \in Three!MemoryPath :
              /\ map' = Append(map, [id |-> e, path |-> newPath, home |-> home])
              /\ e \notin Entry =>
                   posmap' = posmap /\ main' = main /\ buffer' = buffer /\ scratch' = scratch
              /\ e \in Entry =>
                   /\ posmap' = [posmap EXCEPT ![e] = home]
                   /\ main' = [main EXCEPT ![e] = Absent]
                   /\ scratch' = [scratch EXCEPT !.data = e]
                   /\ buffer' = [buffer EXCEPT ![e] = [path |-> newPath, bytes |-> scratch']]
         /\ e \in Entry \cup {Dummy} /\ (e \in Entry => buffer[e] = Absent)
<1> DEFINE d == plan[Len(map) + 1]
<1>0. d = e
  OBVIOUS
<1>1. phase = "load" /\ Len(map) < Len(plan) /\ requested' = requested /\ plan' = plan
  BY DEF Linear!MoveToBuffer
<1>2. /\ plan \in Seq(Entry \cup {Dummy}) /\ Len(plan) \in Nat /\ Len(map) \in Nat
      /\ main \in [Entry -> Three!MemoryBlock \cup {Absent}]
      /\ buffer \in [Entry -> Three!BufferBlock \cup {Absent}]
  BY LenProperties DEF LinearIInv, LinearTypes
<1>3. Len(map) + 1 \in 1 .. Len(plan) /\ e \in Entry \cup {Dummy}
  <2>1. Len(map) + 1 \in 1 .. Len(plan)
    BY <1>1, <1>2
  <2> QED BY <1>2, <2>1, ElementOfSeq
<1>4. e \in Entry => buffer[e] = Absent /\ main[e] # Absent /\ main[e].path = posmap[e] /\ main[e].data = e
  <2>1. ASSUME e \in Entry, buffer[e] # Absent PROVE FALSE
    <3>1. PICK i \in 1 .. Len(map) : Live(i) /\ map[i].id = e
      BY <2>1 DEF LinearIInv, LinearPlaces
    <3>2. i \in 1 .. Len(plan) /\ plan[i] = e
      BY <3>1 DEF LinearIInv, LinearMap, Live
    <3>3. e # Dummy
      BY <2>1, LinearSizes
    <3>4. i = Len(map) + 1
      BY <1>3, <3>2, <3>3 DEF LinearIInv, LinearMap
    <3> QED BY <1>2, <3>4
  <2>2. e \in Entry /\ buffer[e] = Absent => main[e] # Absent /\ main[e] = [path |-> posmap[e], data |-> e]
    BY DEF LinearIInv, LinearPlaces
  <2> QED BY <2>1, <2>2
<1>5. ASSUME IF Len(map) + 1 < Len(plan) THEN Linear!LoadGoesOn ELSE Linear!LoadReturns
      PROVE  /\ step' = step /\ samples' = samples
             /\ \/ phase' = "load" /\ Len(map) + 1 < Len(plan)
                \/ phase' = "download" /\ Len(map) + 1 = Len(plan)
  BY <1>1, <1>2, <1>5 DEF Linear!LoadGoesOn, Linear!LoadReturns, Linear!loopVars
<1>6. PICK newPath \in Linear!BufferPath, home \in Linear!MemoryPath :
           /\ map' = Append(map, [id |-> d, path |-> newPath, home |-> home])
           /\ \/ /\ d = Dummy /\ UNCHANGED <<posmap, main, buffer, scratch>>
                 /\ IF Len(map) + 1 < Len(plan) THEN Linear!LoadGoesOn ELSE Linear!LoadReturns
              \/ /\ d # Dummy
                 /\ posmap' = [posmap EXCEPT ![d] = home]
                 /\ \E found \in Linear!Answers(main, d, posmap[d]) :
                      /\ main' = Linear!Without(main, d, found)
                      /\ IF found
                         THEN /\ scratch' = Linear!Brought(main[d].data)
                              /\ buffer' = [buffer EXCEPT ![d] = [path |-> newPath, bytes |-> scratch']]
                              /\ IF Len(map) + 1 < Len(plan) THEN Linear!LoadGoesOn ELSE Linear!LoadReturns
                         ELSE UNCHANGED <<scratch, buffer>> /\ Linear!Throws("NotFound")
  BY Zenon DEF Linear!MoveToBuffer
<1>7. newPath \in Three!BufferPath /\ home \in Three!MemoryPath
  BY LinearOrams
<1> HIDE DEF d
<1>8. CASE e = Dummy
  <2>1. e \notin Entry
    BY <1>8, LinearSizes
  <2>2. /\ posmap' = posmap /\ main' = main /\ buffer' = buffer /\ scratch' = scratch
        /\ IF Len(map) + 1 < Len(plan) THEN Linear!LoadGoesOn ELSE Linear!LoadReturns
    BY <1>0, <1>6, <1>8
  <2> QED BY <1>0, <1>1, <1>2, <1>3, <1>5, <1>6, <1>7, <1>8, <2>1, <2>2
<1>9. CASE e \in Entry
  <2>1. d # Dummy
    BY <1>0, <1>9, LinearSizes
  <2>2. PICK found \in Linear!Answers(main, d, posmap[d]) :
                      /\ main' = Linear!Without(main, d, found)
                      /\ IF found
                         THEN /\ scratch' = Linear!Brought(main[d].data)
                              /\ buffer' = [buffer EXCEPT ![d] = [path |-> newPath, bytes |-> scratch']]
                              /\ IF Len(map) + 1 < Len(plan) THEN Linear!LoadGoesOn ELSE Linear!LoadReturns
                         ELSE UNCHANGED <<scratch, buffer>> /\ Linear!Throws("NotFound")
    BY <1>6, <2>1
  <2>3. found = TRUE
    <3>1. Three!Answers(main, e, posmap[e]) = {TRUE}
      <4>1. main[e] # Absent /\ main[e].path = posmap[e]
        BY <1>4, <1>9
      <4> QED BY <4>1, SearchAnswers
    <3>2. found \in Three!Answers(main, e, posmap[e])
      BY <1>0, <2>2, LinearOrams
    <3> QED BY <3>1, <3>2
  <2>4. main' = [main EXCEPT ![e] = Absent] /\ scratch' = [scratch EXCEPT !.data = e]
    BY <1>0, <1>4, <1>9, <2>2, <2>3 DEF Linear!Without, Linear!Brought
  <2>5. /\ posmap' = [posmap EXCEPT ![e] = home]
        /\ buffer' = [buffer EXCEPT ![e] = [path |-> newPath, bytes |-> scratch']]
        /\ IF Len(map) + 1 < Len(plan) THEN Linear!LoadGoesOn ELSE Linear!LoadReturns
    BY <1>0, <1>6, <2>1, <2>2, <2>3
  <2> QED BY <1>0, <1>1, <1>2, <1>3, <1>4, <1>5, <1>6, <1>7, <1>9, <2>4, <2>5
<1> QED
  BY <1>3, <1>8, <1>9

(* The one place of an entry in the map. *)
LEMMA PlaceInMap ==
  ASSUME Linear!Parameters, LinearIInv, plan # <<>>, NEW e \in Entry,
         NEW i \in 1 .. Len(map), map[i].id = e, NEW j \in 1 .. Len(map), map[j].id = e
  PROVE  i = j
<1>1. i \in 1 .. Len(plan) /\ j \in 1 .. Len(plan) /\ plan[i] = e /\ plan[j] = e
  BY DEF LinearIInv, LinearMap
<1>2. e # Dummy
  BY LinearSizes
<1> QED
  BY <1>1, <1>2 DEF LinearIInv, LinearMap

(* A download or an aggregation: the map is scanned for the entry.          *)
LEMMA LinearAccessDoes ==
  ASSUME Linear!Parameters, LinearIInv, phase \in {"download", "aggregate"},
         NEW e \in Entry, NEW aggregating \in BOOLEAN, Linear!Access(e, aggregating)
  PROVE  /\ scratch' \in Three!Bytes /\ Three!Valid(scratch')
         /\ buffer[e] = Absent => map' = map /\ buffer' = buffer
         /\ buffer[e] # Absent =>
              \E newPath \in Three!BufferPath, i \in 1 .. Len(map) :
                /\ map[i].id = e /\ map' = [map EXCEPT ![i].path = newPath]
                /\ buffer' = [buffer EXCEPT ![e] = [path |-> newPath, bytes |-> scratch']]
                /\ scratch'.data = e
<1>1. /\ plan # <<>> /\ map \in Seq(LinearEntry) /\ Len(map) \in Nat
      /\ scratch \in Three!Bytes /\ Three!Valid(scratch)
      /\ buffer \in [Entry -> Three!BufferBlock \cup {Absent}]
  BY LenProperties DEF LinearIInv, LinearTypes, LinearProgress
<1>2. PICK newPath \in Linear!BufferPath, randomPath \in Linear!BufferPath :
        \E found \in Linear!Answers(buffer, e,
             IF Linear!At(e) = {} THEN randomPath ELSE map[CHOOSE i \in Linear!At(e) : TRUE].path) :
          /\ map' = Linear!Remapped(e, newPath)
          /\ LET bytes == IF found THEN buffer[e].bytes ELSE scratch
             IN  scratch' = IF aggregating THEN Linear!Aggregated(bytes) ELSE bytes
          /\ buffer' = IF found THEN [buffer EXCEPT ![e] = [path |-> newPath, bytes |-> scratch']]
                       ELSE buffer
  BY Zenon DEF Linear!Access
<1>3. PICK found \in Linear!Answers(buffer, e,
             IF Linear!At(e) = {} THEN randomPath ELSE map[CHOOSE i \in Linear!At(e) : TRUE].path) :
          /\ map' = Linear!Remapped(e, newPath)
          /\ LET bytes == IF found THEN buffer[e].bytes ELSE scratch
             IN  scratch' = IF aggregating THEN Linear!Aggregated(bytes) ELSE bytes
          /\ buffer' = IF found THEN [buffer EXCEPT ![e] = [path |-> newPath, bytes |-> scratch']]
                       ELSE buffer
  BY <1>2
<1>4. newPath \in Three!BufferPath
  BY LinearOrams
<1>5. \A bytes \in Three!Bytes : Three!Valid(bytes) =>
        LET more == IF aggregating THEN Linear!Aggregated(bytes) ELSE bytes
        IN  more \in Three!Bytes /\ Three!Valid(more) /\ more.data = bytes.data
  <2>1. ASSUME NEW bytes \in Three!Bytes, Three!Valid(bytes)
        PROVE  /\ Three!Aggregated(bytes) \in Three!Bytes /\ Three!Valid(Three!Aggregated(bytes))
               /\ Three!Aggregated(bytes).data = bytes.data
    BY <2>1, ThreeAggregated, LinearSizes
  <2> QED BY <2>1, LinearOrams
<1>6. CASE buffer[e] = Absent
  <2>1. found = FALSE
    <3> DEFINE q == IF Linear!At(e) = {} THEN randomPath ELSE map[CHOOSE i \in Linear!At(e) : TRUE].path
    <3>1. Three!Answers(buffer, e, q) = {FALSE}
      <4> HIDE DEF q
      <4> QED BY <1>6, SearchAnswers
    <3>2. found \in Linear!Answers(buffer, e, q)
      BY <1>3
    <3> HIDE DEF q
    <3> QED BY <3>1, <3>2, LinearOrams
  <2>2. \A i \in 1 .. Len(map) : map[i].id # e
    <3>1. ASSUME NEW i \in 1 .. Len(map), map[i].id = e PROVE FALSE
      <4>1. Live(i) /\ e # Dummy
        BY <1>1, LinearSizes DEF Live
      <4> QED BY <1>6, <3>1, <4>1 DEF LinearIInv, LinearPlaces
    <3> QED BY <3>1
  <2>3. map' = map
    <3>1. map' = [i \in 1 .. Len(map) |-> map[i]]
      BY <1>3, <2>2 DEF Linear!Remapped, Linear!At
    <3>2. map \in [1 .. Len(map) -> LinearEntry]
      BY <1>1, LenProperties
    <3> QED BY <3>1, <3>2
  <2>4. buffer' = buffer /\ scratch' = IF aggregating THEN Linear!Aggregated(scratch) ELSE scratch
    BY <1>3, <2>1
  <2> QED BY <1>1, <1>5, <1>6, <2>3, <2>4
<1>7. CASE buffer[e] # Absent
  <2>1. PICK i \in 1 .. Len(map) : Live(i) /\ map[i].id = e /\ map[i].path = buffer[e].path
    BY <1>7 DEF LinearIInv, LinearPlaces
  <2>2. Linear!At(e) = {i}
    <3>1. \A j \in 1 .. Len(map) : map[j].id = e => j = i
      BY <1>1, <2>1, PlaceInMap
    <3> QED BY <2>1, <3>1 DEF Linear!At
  <2>3. found = TRUE
    <3>1. (CHOOSE j \in Linear!At(e) : TRUE) = i /\ Linear!At(e) # {}
      BY <2>2
    <3>2. found \in Three!Answers(buffer, e, map[i].path)
      BY <1>3, <3>1, LinearOrams
    <3>3. Three!Answers(buffer, e, map[i].path) = {TRUE}
      <4>1. buffer[e] # Absent /\ buffer[e].path = map[i].path
        BY <1>7, <2>1
      <4> QED BY <4>1, SearchAnswers
    <3> QED BY <3>2, <3>3
  <2>4. map' = [map EXCEPT ![i].path = newPath]
    <3>1. map' = [j \in 1 .. Len(map) |-> IF j \in {i} THEN [map[j] EXCEPT !.path = newPath] ELSE map[j]]
      BY <1>3, <2>2 DEF Linear!Remapped
    <3>2. map \in [1 .. Len(map) -> LinearEntry]
      BY <1>1, LenProperties
    <3> QED BY <2>1, <3>1, <3>2
  <2>5. /\ buffer[e].bytes \in Three!Bytes /\ Three!Valid(buffer[e].bytes) /\ buffer[e].bytes.data = e
    BY <1>1, <1>7 DEF LinearIInv, LinearPlaces, Three!BufferBlock
  <2>6. /\ buffer' = [buffer EXCEPT ![e] = [path |-> newPath, bytes |-> scratch']]
        /\ scratch' = IF aggregating THEN Linear!Aggregated(buffer[e].bytes) ELSE buffer[e].bytes
    BY <1>3, <2>3
  <2>7. scratch' \in Three!Bytes /\ Three!Valid(scratch') /\ scratch'.data = e
    BY <1>5, <2>5, <2>6
  <2> QED BY <1>4, <1>7, <2>1, <2>4, <2>6, <2>7
<1> QED
  BY <1>6, <1>7

(* A turn of the flush: the entry goes to the path that was drawn when it   *)
(* was taken out of the memory, and that the position map has had since.    *)
LEMMA LinearFlushDoes ==
  ASSUME Linear!Parameters, LinearIInv, Linear!Flush, NEW e, e = map[step].id
  PROVE  /\ phase = "flush" /\ step \in 1 .. Len(map) /\ Len(map) = Len(plan)
         /\ Len(plan) <= SamplesPerRound
         /\ posmap' = posmap /\ map' = map /\ samples' = samples
         /\ e \in Entry \cup {Dummy}
         /\ e \notin Entry => main' = main /\ buffer' = buffer /\ scratch' = scratch
         /\ e \in Entry =>
              /\ buffer[e] # Absent /\ buffer' = [buffer EXCEPT ![e] = Absent]
              /\ scratch' = buffer[e].bytes /\ scratch' \in Three!Bytes /\ Three!Valid(scratch')
              /\ main' = [main EXCEPT ![e] = [path |-> posmap[e], data |-> e]]
         /\ \/ /\ step < Len(plan) /\ step' = step + 1 /\ phase' = "flush"
               /\ requested' = requested /\ plan' = plan
            \/ /\ step = Len(plan) /\ step' = 1 /\ phase' = "sample"
               /\ requested' = <<>> /\ plan' = <<>>
<1> DEFINE d == map[step].id
           over == step = Linear!LastUsed
<1>0. d = e
  OBVIOUS
<1>1. /\ phase = "flush" /\ posmap' = posmap /\ map' = map
      /\ IF phase' = "sample" THEN requested' = <<>> /\ plan' = <<>>
                              ELSE requested' = requested /\ plan' = plan
  BY DEF Linear!Flush, Linear!Cleared
<1>2. /\ map \in Seq(LinearEntry) /\ Len(map) \in Nat /\ Len(map) = Len(plan)
      /\ plan # <<>> /\ Len(plan) <= SamplesPerRound /\ SamplesPerRound \in Nat
      /\ step \in Nat /\ 1 <= step /\ step <= Len(plan)
      /\ buffer \in [Entry -> Three!BufferBlock \cup {Absent}]
  BY <1>1, LenProperties, LinearSizes DEF LinearIInv, LinearTypes, LinearProgress, Call
<1>3. step \in 1 .. Len(map) /\ e \in Entry \cup {Dummy}
  <2>1. step \in 1 .. Len(map)
    BY <1>2
  <2>2. map[step] \in LinearEntry
    BY <1>2, <2>1, ElementOfSeq
  <2> QED BY <2>1, <2>2 DEF LinearEntry
<1>4. ASSUME IF over THEN Linear!FlushReturns ELSE Linear!FlushGoesOn
      PROVE  /\ samples' = samples
             /\ \/ /\ step < Len(plan) /\ step' = step + 1 /\ phase' = "flush"
                   /\ requested' = requested /\ plan' = plan
                \/ /\ step = Len(plan) /\ step' = 1 /\ phase' = "sample"
                   /\ requested' = <<>> /\ plan' = <<>>
  BY <1>1, <1>2, <1>4 DEF Linear!LastUsed, Linear!FlushReturns, Linear!FlushGoesOn
<1>5. CASE e = Dummy
  <2>1. e \notin Entry
    BY <1>5, LinearSizes
  <2>2. /\ main' = main /\ buffer' = buffer /\ scratch' = scratch
        /\ IF over THEN Linear!FlushReturns ELSE Linear!FlushGoesOn
    BY <1>5, Zenon DEF Linear!Flush
  <2> QED BY <1>1, <1>2, <1>3, <1>4, <2>1, <2>2
<1>6. CASE e \in Entry
  <2>1. d # Dummy
    BY <1>6, LinearSizes
  <2>2. PICK found \in Linear!Answers(buffer, d, map[step].path) : \E home \in Linear!Home(step) :
                 /\ buffer' = Linear!Without(buffer, d, found)
                 /\ scratch' = IF found THEN buffer[d].bytes ELSE scratch
                 /\ main' = IF found /\ Linear!Valid(scratch')
                            THEN [main EXCEPT ![d] = [path |-> home, data |-> scratch'.data]]
                            ELSE main
                 /\ IF ~found THEN Linear!Throws("NotFound")
                    ELSE IF ~Linear!Valid(scratch') THEN Linear!Throws("ValidationFailed")
                    ELSE IF over THEN Linear!FlushReturns ELSE Linear!FlushGoesOn
    BY <2>1, Zenon DEF Linear!Flush
  <2> HIDE DEF d, over
  <2>3. Live(step) /\ e # Dummy
    BY <1>0, <1>1, <1>2, <1>3, <2>1 DEF Live
  <2>4. buffer[e] # Absent
    BY <1>3, <2>3 DEF LinearIInv, LinearPlaces
  <2>5. map[step].path = buffer[e].path /\ map[step].home = posmap[e]
    <3>1. PICK i \in 1 .. Len(map) : /\ Live(i) /\ map[i].id = e
                                     /\ map[i].path = buffer[e].path /\ map[i].home = posmap[e]
      BY <1>6, <2>4 DEF LinearIInv, LinearPlaces
    <3>2. i = step
      BY <1>2, <1>3, <1>6, <3>1, PlaceInMap
    <3> QED BY <3>1, <3>2
  <2>6. buffer[e].bytes \in Three!Bytes /\ Three!Valid(buffer[e].bytes) /\ buffer[e].bytes.data = e
    BY <1>2, <1>6, <2>4 DEF LinearIInv, LinearPlaces, Three!BufferBlock
  <2>7. found = TRUE
    <3>1. Three!Answers(buffer, e, map[step].path) = {TRUE}
      <4> DEFINE p == map[step].path
      <4>1. buffer[e] # Absent /\ buffer[e].path = p
        BY <2>4, <2>5
      <4> HIDE DEF p
      <4>2. Three!Answers(buffer, e, p) = {TRUE}
        BY <4>1, SearchAnswers
      <4> QED BY <4>2 DEF p
    <3>2. found \in Three!Answers(buffer, e, map[step].path)
      BY <1>0, <2>2, LinearOrams
    <3> QED BY <3>1, <3>2
  <2>8. PICK home \in {posmap[e]} :
                 /\ buffer' = Linear!Without(buffer, d, found)
                 /\ scratch' = IF found THEN buffer[d].bytes ELSE scratch
                 /\ main' = IF found /\ Linear!Valid(scratch')
                            THEN [main EXCEPT ![d] = [path |-> home, data |-> scratch'.data]]
                            ELSE main
                 /\ IF ~found THEN Linear!Throws("NotFound")
                    ELSE IF ~Linear!Valid(scratch') THEN Linear!Throws("ValidationFailed")
                    ELSE IF over THEN Linear!FlushReturns ELSE Linear!FlushGoesOn
    <3>1. Linear!Home(step) = {posmap[e]}
      BY <2>5 DEF Linear!Home
    <3> QED BY <2>2, <3>1
  <2>9. scratch' = buffer[e].bytes /\ Linear!Valid(scratch')
    BY <1>0, <2>6, <2>7, <2>8, LinearOrams
  <2>10. /\ buffer' = [buffer EXCEPT ![e] = Absent]
         /\ main' = [main EXCEPT ![e] = [path |-> posmap[e], data |-> e]]
         /\ IF over THEN Linear!FlushReturns ELSE Linear!FlushGoesOn
    BY <1>0, <2>6, <2>7, <2>8, <2>9 DEF Linear!Without
  <2> QED BY <1>1, <1>2, <1>3, <1>4, <1>6, <2>4, <2>6, <2>9, <2>10 DEF over
<1> QED
  BY <1>3, <1>5, <1>6
LEMMA LinearInitGood ==
  ASSUME Linear!Parameters, Linear!Init
  PROVE  LinearIInv
<1>1. /\ phase = "sample" /\ step = 1 /\ posmap \in [Entry -> Three!MemoryPath]
      /\ main = [e \in Entry |-> [path |-> posmap[e], data |-> e]]
      /\ buffer = [e \in Entry |-> Absent]
      /\ requested = <<>> /\ plan = <<>> /\ map = <<>>
      /\ \E e \in Entry : samples = [i \in Call |-> e]
      /\ \E e \in Entry : scratch = [data |-> e, gradient |-> 0, counter |-> 0]
  BY LinearLoop, LinearOrams DEF Linear!Init, Linear!LoopInit
<1>2. /\ requested \in Seq(Entry) /\ plan \in Seq(Entry \cup {Dummy}) /\ map \in Seq(LinearEntry)
      /\ Len(requested) = 0 /\ Len(plan) = 0 /\ Len(map) = 0
  BY <1>1, EmptySeq
<1>3. \A e \in Entry : main[e] \in Three!MemoryBlock /\ main[e] # Absent
  BY <1>1, LinearSizes DEF Three!MemoryBlock
<1>4. scratch \in Three!Bytes /\ Three!Valid(scratch)
  <2>1. PICK e \in Entry : scratch = [data |-> e, gradient |-> 0, counter |-> 0]
    BY <1>1
  <2>2. scratch \in Three!Bytes
    BY <2>1, LinearSizes DEF Three!Bytes
  <2>3. Three!Valid(scratch)
    BY <2>1, LinearSizes DEF Three!Valid
  <2> QED BY <2>2, <2>3
<1>5. LinearTypes
  <2>1. main \in [Entry -> Three!MemoryBlock \cup {Absent}]
    BY <1>1, <1>3
  <2>2. step \in Call /\ samples \in [Call -> Entry]
    BY <1>1, LinearSizes DEF Call
  <2> QED BY <1>1, <1>2, <1>4, <2>1, <2>2, LinearSizes DEF LinearTypes, Linear!Phases
<1>6. LinearProgress /\ LinearMap
  BY <1>1, <1>2 DEF LinearProgress, LinearMap
<1>7. LinearPlaces
  BY <1>1, <1>3 DEF LinearPlaces, Live
<1> QED
  BY <1>4, <1>5, <1>6, <1>7 DEF LinearIInv

(* With no plan no turn is live: the buffer is empty. *)
LEMMA LinearEmpty ==
  ASSUME LinearIInv, plan = <<>>, NEW e \in Entry
  PROVE  buffer[e] = Absent /\ main[e] # Absent /\ main[e] = [path |-> posmap[e], data |-> e]
BY DEF LinearIInv, LinearPlaces, Live

LEMMA LinearSampleKeeps ==
  ASSUME Linear!Parameters, LinearIInv, Linear!Sample
  PROVE  LinearIInv'
<1>1. PICK e \in Entry : Draw(e)
  BY LinearLoop DEF Linear!Sample
<1>2. /\ phase = "sample" /\ posmap' = posmap /\ main' = main /\ buffer' = buffer
      /\ requested' = requested /\ plan' = plan /\ map' = map /\ scratch' = scratch
  BY DEF Linear!Sample, Linear!bufferVars
<1>3. step \in Call /\ samples \in [Call -> Entry]
  BY DEF LinearIInv, LinearTypes
<1>4. /\ phase' \in {"sample", "reserve", "PermutationEnd"} /\ step' \in Call
      /\ (phase' = "reserve" => step' = 1) /\ samples' \in [Call -> Entry]
  BY <1>1, <1>2, <1>3, LinearSizes DEF Draw, Followed, Call
<1>5. Len(requested) = 0 /\ plan = <<>>
  BY <1>2 DEF LinearIInv, LinearProgress
<1>6. LinearTypes'
  BY <1>2, <1>4 DEF LinearIInv, LinearTypes, Linear!Phases, Linear!Exceptions, Call,
     LinearEntry, Three!MemoryPath, Three!BufferPath, Three!MemoryBlock, Three!BufferBlock, Three!Bytes
<1>7. LinearProgress'
  <2>1. phase' = "reserve" => step' - 1 = 0
    BY <1>4
  <2> QED BY <1>2, <1>4, <1>5, <2>1 DEF LinearProgress
<1>8. LinearMap'
  BY <1>2 DEF LinearIInv, LinearMap
<1>9. LinearPlaces'
  <2>1. \A x \in Entry : buffer[x] = Absent /\ main[x] # Absent /\ main[x] = [path |-> posmap[x], data |-> x]
    BY <1>5, LinearEmpty
  <2> QED BY <1>2, <1>5, <2>1 DEF LinearPlaces, Live
<1>10. Three!Valid(scratch)'
  BY <1>2 DEF LinearIInv, Three!Valid
<1> QED
  BY <1>6, <1>7, <1>8, <1>9, <1>10 DEF LinearIInv

LEMMA LinearReserveKeeps ==
  ASSUME Linear!Parameters, LinearIInv, Linear!Reserve
  PROVE  LinearIInv'
<1> DEFINE e == Current
<1>1. /\ phase = "reserve" /\ ReserveReturns /\ requested' = Append(requested, e)
      /\ posmap' = posmap /\ main' = main /\ buffer' = buffer /\ plan' = plan /\ map' = map
      /\ scratch' = scratch
  BY LinearLoop DEF Linear!Reserve
<1>2. /\ step \in Call /\ step \in Nat /\ samples \in [Call -> Entry] /\ requested \in Seq(Entry)
      /\ Len(requested) = step - 1 /\ plan = <<>>
  BY <1>1 DEF LinearIInv, LinearTypes, LinearProgress, Call
<1>3. e \in Entry
  BY <1>2 DEF Current
<1>4. SamplesPerRound \in Nat \ {0} /\ step <= SamplesPerRound /\ 1 <= step
  BY <1>2, LinearSizes DEF Call
<1>5. /\ samples' = samples /\ step' \in Call
      /\ \/ phase' = "reserve" /\ step' = step + 1 /\ step < SamplesPerRound
         \/ phase' = "load" /\ step' = 1 /\ step = SamplesPerRound
  BY <1>1, <1>2, <1>4 DEF ReserveReturns, Followed, Call
<1> HIDE DEF e
<1>6. requested' \in Seq(Entry) /\ Len(requested') = step
  BY <1>1, <1>2, <1>3, AppendProperties
<1>7. LinearTypes'
  BY <1>1, <1>2, <1>4, <1>5, <1>6 DEF LinearIInv, LinearTypes, Linear!Phases, Linear!Exceptions, Call,
     LinearEntry, Three!MemoryPath, Three!BufferPath, Three!MemoryBlock, Three!BufferBlock, Three!Bytes
<1>8. LinearProgress'
  <2>1. phase' = "reserve" => step' - 1 = step
    BY <1>2, <1>5
  <2> QED BY <1>1, <1>2, <1>5, <1>6, <2>1 DEF LinearProgress
<1>9. LinearMap'
  BY <1>1 DEF LinearIInv, LinearMap
<1>10. LinearPlaces'
  <2>1. \A x \in Entry : buffer[x] = Absent /\ main[x] # Absent /\ main[x] = [path |-> posmap[x], data |-> x]
    BY <1>2, LinearEmpty
  <2> QED BY <1>1, <1>2, <2>1 DEF LinearPlaces, Live
<1>11. Three!Valid(scratch)'
  BY <1>1 DEF LinearIInv, Three!Valid
<1> QED
  BY <1>7, <1>8, <1>9, <1>10, <1>11 DEF LinearIInv

LEMMA LinearPlanKeeps ==
  ASSUME Linear!Parameters, LinearIInv, Linear!Plan
  PROVE  LinearIInv'
<1>1. /\ phase = "load" /\ plan = <<>> /\ map' = <<>> /\ phase' = phase /\ step' = step
      /\ samples' = samples /\ posmap' = posmap /\ main' = main /\ buffer' = buffer
      /\ requested' = requested /\ scratch' = scratch
  BY DEF Linear!Plan, Linear!LoadGoesOn, Linear!loopVars
<1>2. requested \in Seq(Entry) /\ Len(requested) = SamplesPerRound
  BY <1>1 DEF LinearIInv, LinearTypes, LinearProgress
<1>3. /\ plan' \in Seq(Entry \cup {Dummy}) /\ Len(plan') \in 1 .. SamplesPerRound
      /\ \A i, j \in 1 .. Len(plan') : plan'[i] = plan'[j] /\ plan'[i] # Dummy => i = j
  BY <1>2, LinearPlanned
<1>4. /\ Len(plan') \in Nat /\ 1 <= Len(plan') /\ Len(plan') <= SamplesPerRound
      /\ SamplesPerRound \in Nat
  BY <1>3, LinearSizes
<1>5. map' \in Seq(LinearEntry) /\ Len(map') = 0
  BY <1>1, EmptySeq
<1>6. LinearTypes'
  BY <1>1, <1>3, <1>4, <1>5 DEF LinearIInv, LinearTypes, Linear!Phases, Linear!Exceptions, Call,
     LinearEntry, Three!MemoryPath, Three!BufferPath, Three!MemoryBlock, Three!BufferBlock, Three!Bytes
<1>7. LinearProgress'
  BY <1>1, <1>2, <1>4, <1>5 DEF LinearProgress
<1>8. LinearMap'
  BY <1>3, <1>5 DEF LinearMap
<1>9. LinearPlaces'
  <2>1. \A x \in Entry : buffer[x] = Absent /\ main[x] # Absent /\ main[x] = [path |-> posmap[x], data |-> x]
    BY <1>1, LinearEmpty
  <2>2. \A i \in 1 .. Len(map') : FALSE
    BY <1>5
  <2> QED BY <1>1, <2>1, <2>2 DEF LinearPlaces, Live
<1>10. Three!Valid(scratch)'
  BY <1>1 DEF LinearIInv, Three!Valid
<1> QED
  BY <1>6, <1>7, <1>8, <1>9, <1>10 DEF LinearIInv
LEMMA LinearMoveKeeps ==
  ASSUME Linear!Parameters, LinearIInv, Linear!MoveToBuffer
  PROVE  LinearIInv'
<1> DEFINE e == plan[Len(map) + 1]
           n == Len(map) + 1
<1>1. /\ phase = "load" /\ Len(map) \in Nat /\ n \in 1 .. Len(plan)
      /\ step' = step /\ samples' = samples /\ requested' = requested /\ plan' = plan
      /\ \/ phase' = "load" /\ n < Len(plan)
         \/ phase' = "download" /\ n = Len(plan)
      /\ e \in Entry \cup {Dummy} /\ (e \in Entry => buffer[e] = Absent)
  BY LinearMoveDoes
<1>2. PICK newPath \in Three!BufferPath, home \in Three!MemoryPath :
              /\ map' = Append(map, [id |-> e, path |-> newPath, home |-> home])
              /\ e \notin Entry =>
                   posmap' = posmap /\ main' = main /\ buffer' = buffer /\ scratch' = scratch
              /\ e \in Entry =>
                   /\ posmap' = [posmap EXCEPT ![e] = home]
                   /\ main' = [main EXCEPT ![e] = Absent]
                   /\ scratch' = [scratch EXCEPT !.data = e]
                   /\ buffer' = [buffer EXCEPT ![e] = [path |-> newPath, bytes |-> scratch']]
  BY LinearMoveDoes
<1>3. e = plan[n]
  OBVIOUS
<1> HIDE DEF e, n
<1>4. /\ map \in Seq(LinearEntry) /\ requested \in Seq(Entry) /\ Len(requested) = SamplesPerRound
      /\ plan \in Seq(Entry \cup {Dummy}) /\ Len(plan) \in Nat /\ Len(plan) <= SamplesPerRound
      /\ posmap \in [Entry -> Three!MemoryPath] /\ SamplesPerRound \in Nat
      /\ main \in [Entry -> Three!MemoryBlock \cup {Absent}]
      /\ buffer \in [Entry -> Three!BufferBlock \cup {Absent}]
      /\ scratch \in Three!Bytes /\ Three!Valid(scratch)
  BY <1>1, LenProperties, LinearSizes DEF LinearIInv, LinearTypes, LinearProgress
<1>5. n \in Nat /\ n = Len(map) + 1 /\ 1 <= n /\ n <= Len(plan) /\ plan # <<>>
  <2>1. n = Len(map) + 1
    BY DEF n
  <2>2. n \in Nat /\ 1 <= n /\ n <= Len(plan)
    BY <1>1, <1>4, <2>1
  <2>3. plan = <<>> => Len(plan) = 0
    BY EmptySeq
  <2> QED BY <2>1, <2>2, <2>3
<1>6. /\ map' \in Seq(LinearEntry) /\ Len(map') = n
      /\ map'[n] = [id |-> e, path |-> newPath, home |-> home]
      /\ \A i \in 1 .. Len(map) : map'[i] = map[i]
  <2>1. [id |-> e, path |-> newPath, home |-> home] \in LinearEntry
    BY <1>1 DEF LinearEntry
  <2> QED BY <1>2, <1>4, <1>5, <2>1, AppendProperties
<1>7. e \in Entry => /\ scratch' \in Three!Bytes /\ Three!Valid(scratch') /\ scratch'.data = e
                     /\ main'[e] = Absent /\ posmap'[e] = home
                     /\ buffer'[e] = [path |-> newPath, bytes |-> scratch'] /\ buffer'[e] # Absent
                     /\ buffer'[e] \in Three!BufferBlock
  <2> SUFFICES ASSUME e \in Entry
      PROVE  /\ scratch' \in Three!Bytes /\ Three!Valid(scratch') /\ scratch'.data = e
             /\ main'[e] = Absent /\ posmap'[e] = home
             /\ buffer'[e] = [path |-> newPath, bytes |-> scratch'] /\ buffer'[e] # Absent
             /\ buffer'[e] \in Three!BufferBlock
    OBVIOUS
  <2>1. scratch' \in Three!Bytes /\ scratch'.data = e
    BY <1>2, <1>4 DEF Three!Bytes
  <2>2. Three!Valid(scratch')
    BY <1>2, <1>4 DEF Three!Valid, Three!Bytes
  <2>3. main'[e] = Absent /\ posmap'[e] = home /\ buffer'[e] = [path |-> newPath, bytes |-> scratch']
    BY <1>2, <1>4
  <2>4. buffer'[e] \in Three!BufferBlock
    BY <2>1, <2>3 DEF Three!BufferBlock
  <2> QED BY <2>1, <2>2, <2>3, <2>4, LinearSizes
<1>8. \A x \in Entry : x # e => posmap'[x] = posmap[x] /\ main'[x] = main[x] /\ buffer'[x] = buffer[x]
  BY <1>2, <1>4
<1>9. \A i \in 1 .. Len(map') : i = n \/ i \in 1 .. Len(map)
  BY <1>1, <1>5, <1>6
<1>10. LinearTypes'
  <2>1. /\ posmap' \in [Entry -> Three!MemoryPath]
        /\ main' \in [Entry -> Three!MemoryBlock \cup {Absent}]
        /\ buffer' \in [Entry -> Three!BufferBlock \cup {Absent}]
        /\ scratch' \in Three!Bytes
    BY <1>1, <1>2, <1>4, <1>7
  <2>2. Len(map') <= SamplesPerRound
    BY <1>4, <1>5, <1>6
  <2> QED BY <1>1, <1>6, <2>1, <2>2 DEF LinearIInv, LinearTypes, Linear!Phases, Linear!Exceptions, Call,
     LinearEntry, Three!MemoryPath, Three!BufferPath, Three!MemoryBlock, Three!BufferBlock, Three!Bytes
<1>11. LinearProgress'
  BY <1>1, <1>4, <1>5, <1>6 DEF LinearProgress
<1>12. LinearMap'
  <2>1. ASSUME NEW i \in 1 .. Len(map') PROVE i \in 1 .. Len(plan) /\ map'[i].id = plan[i]
    <3>1. CASE i = n
      BY <1>1, <1>3, <1>6, <3>1
    <3>2. CASE i \in 1 .. Len(map)
      BY <1>5, <1>6, <3>2 DEF LinearIInv, LinearMap
    <3> QED BY <1>9, <3>1, <3>2
  <2> QED BY <1>1, <2>1 DEF LinearIInv, LinearMap
<1>13. LinearPlaces'
  <2>1. ASSUME NEW x \in Entry, buffer'[x] = Absent
        PROVE  main'[x] # Absent /\ main'[x] = [path |-> posmap'[x], data |-> x]
    <3>1. x # e
      BY <1>7, <2>1
    <3> QED BY <1>8, <2>1, <3>1 DEF LinearIInv, LinearPlaces
  <2>2. ASSUME NEW x \in Entry, buffer'[x] # Absent
        PROVE  /\ main'[x] = Absent /\ buffer'[x].bytes.data = x /\ Three!Valid(buffer'[x].bytes)
               /\ \E i \in 1 .. Len(map') : /\ i \in 1 .. Len(map') /\ map'[i].id = x
                                            /\ map'[i].path = buffer'[x].path
                                            /\ map'[i].home = posmap'[x]
    <3>1. CASE x = e
      <4>1. n \in 1 .. Len(map')
        BY <1>5, <1>6
      <4>2. map'[n].id = x /\ map'[n].path = buffer'[x].path /\ map'[n].home = posmap'[x]
        BY <1>6, <1>7, <3>1
      <4>3. main'[x] = Absent /\ buffer'[x].bytes.data = x /\ Three!Valid(buffer'[x].bytes)
        BY <1>7, <3>1
      <4> QED BY <4>1, <4>2, <4>3
    <3>2. CASE x # e
      <4>1. posmap'[x] = posmap[x] /\ main'[x] = main[x] /\ buffer'[x] = buffer[x]
        BY <1>8, <3>2
      <4>2. PICK i \in 1 .. Len(map) : /\ map[i].id = x /\ map[i].path = buffer[x].path
                                       /\ map[i].home = posmap[x]
        BY <2>2, <4>1 DEF LinearIInv, LinearPlaces
      <4>3. i \in 1 .. Len(map') /\ map'[i] = map[i]
        BY <1>5, <1>6
      <4>4. main[x] = Absent /\ buffer[x].bytes.data = x /\ Three!Valid(buffer[x].bytes)
        BY <2>2, <4>1 DEF LinearIInv, LinearPlaces
      <4> QED BY <4>1, <4>2, <4>3, <4>4
    <3> QED BY <3>1, <3>2
  <2>3. ASSUME NEW i \in 1 .. Len(map'), map'[i].id # Dummy PROVE buffer'[map'[i].id] # Absent
    <3>1. CASE i = n
      <4>1. map'[i].id = e
        BY <1>6, <3>1
      <4>2. e \in Entry
        BY <1>1, <2>3, <4>1
      <4> QED BY <1>7, <4>1, <4>2
    <3>2. CASE i \in 1 .. Len(map)
      <4>1. map'[i].id = map[i].id /\ map[i].id \in Entry
        <5>1. map[i] \in LinearEntry /\ map'[i] = map[i]
          BY <1>4, <1>6, <3>2, ElementOfSeq
        <5> QED BY <2>3, <5>1 DEF LinearEntry
      <4>2. Live(i)
        BY <1>1, <1>5, <3>2 DEF Live
      <4>3. buffer[map[i].id] # Absent
        BY <2>3, <3>2, <4>1, <4>2 DEF LinearIInv, LinearPlaces
      <4>4. CASE map[i].id = e
        BY <1>7, <4>1, <4>4
      <4>5. CASE map[i].id # e
        BY <1>8, <4>1, <4>3, <4>5
      <4> QED BY <4>4, <4>5
    <3> QED BY <1>9, <3>1, <3>2
  <2>4. \A i \in 1 .. Len(map') : Live(i)'
    BY <1>1, <1>5 DEF Live
  <2>5. \A bytes : Three!Valid(bytes)' <=> Three!Valid(bytes)
    BY DEF Three!Valid
  <2> QED BY <2>1, <2>2, <2>3, <2>4, <2>5 DEF LinearPlaces, Three!Valid
<1>14. Three!Valid(scratch)'
  <2>1. Three!Valid(scratch')
    BY <1>1, <1>2, <1>4, <1>7
  <2> QED BY <2>1 DEF Three!Valid
<1> QED
  BY <1>10, <1>11, <1>12, <1>13, <1>14 DEF LinearIInv

(* A call for an entry leaves it where it was, on a path the map has.       *)
LEMMA LinearAccessKeeps ==
  ASSUME Linear!Parameters, LinearIInv, phase \in {"download", "aggregate"},
         NEW e \in Entry, NEW aggregating \in BOOLEAN, Linear!Access(e, aggregating),
         posmap' = posmap, main' = main, requested' = requested, plan' = plan,
         phase' \in {"download", "aggregate", "flush"}, phase' = "flush" => step' = 1,
         step' \in Call, samples' \in [Call -> Entry]
  PROVE  LinearIInv'
<1>1. /\ scratch' \in Three!Bytes /\ Three!Valid(scratch')
      /\ buffer[e] = Absent => map' = map /\ buffer' = buffer
      /\ buffer[e] # Absent =>
              \E newPath \in Three!BufferPath, i \in 1 .. Len(map) :
                /\ map[i].id = e /\ map' = [map EXCEPT ![i].path = newPath]
                /\ buffer' = [buffer EXCEPT ![e] = [path |-> newPath, bytes |-> scratch']]
                /\ scratch'.data = e
  BY LinearAccessDoes
<1>2. /\ map \in Seq(LinearEntry) /\ Len(map) \in Nat /\ Len(map) = Len(plan)
      /\ plan # <<>> /\ Len(requested) = SamplesPerRound /\ Len(plan) \in Nat
      /\ buffer \in [Entry -> Three!BufferBlock \cup {Absent}]
  BY LenProperties DEF LinearIInv, LinearTypes, LinearProgress
<1>3. CASE buffer[e] = Absent
  <2>1. map' = map /\ buffer' = buffer
    BY <1>1, <1>3
  <2>2. LinearTypes'
    BY <1>1, <2>1 DEF LinearIInv, LinearTypes, Linear!Phases, Linear!Exceptions, Call,
     LinearEntry, Three!MemoryPath, Three!BufferPath, Three!MemoryBlock, Three!BufferBlock, Three!Bytes
  <2>3. LinearProgress'
    <3>1. Len(plan) >= 1
      <4>1. Len(plan) = 0 => plan = <<>>
        BY EmptySeq DEF LinearIInv, LinearTypes
      <4> QED BY <1>2, <4>1
    <3> QED BY <1>2, <2>1, <3>1 DEF LinearProgress
  <2>4. LinearMap'
    BY <2>1 DEF LinearIInv, LinearMap
  <2>5. \A i \in 1 .. Len(map) : Live(i) /\ Live(i)'
    BY <1>2, <2>1 DEF Live
  <2>6. LinearPlaces'
    BY <2>1, <2>5 DEF LinearIInv, LinearPlaces, Three!Valid
  <2>7. Three!Valid(scratch)'
    BY <1>1 DEF Three!Valid
  <2> QED BY <2>2, <2>3, <2>4, <2>6, <2>7 DEF LinearIInv
<1>4. CASE buffer[e] # Absent
  <2>1. PICK newPath \in Three!BufferPath, k \in 1 .. Len(map) :
                /\ map[k].id = e /\ map' = [map EXCEPT ![k].path = newPath]
                /\ buffer' = [buffer EXCEPT ![e] = [path |-> newPath, bytes |-> scratch']]
                /\ scratch'.data = e
    BY <1>1, <1>4
  <2>2. map \in [1 .. Len(map) -> LinearEntry]
    BY <1>2, LenProperties
  <2>3. /\ map' \in [1 .. Len(map) -> LinearEntry]
        /\ map'[k].path = newPath
        /\ \A i \in 1 .. Len(map) : /\ map'[i].id = map[i].id /\ map'[i].home = map[i].home
                                    /\ i # k => map'[i] = map[i]
    BY <2>1, <2>2 DEF LinearEntry
  <2>4. map' \in Seq(LinearEntry) /\ Len(map') = Len(map)
    <3>1. map' \in Seq(LinearEntry)
      BY <1>2, <2>3, SeqDef
    <3>2. Len(map') \in Nat /\ DOMAIN map' = 1 .. Len(map')
      BY <3>1, LenProperties
    <3> DEFINE a == Len(map')
               b == Len(map)
    <3>3. a \in Nat /\ b \in Nat /\ 1 .. a = 1 .. b
      BY <1>2, <2>3, <3>2
    <3> HIDE DEF a, b
    <3>4. a = b
      BY <3>3
    <3> QED BY <3>1, <3>4 DEF a, b
  <2>5. /\ buffer'[e] = [path |-> newPath, bytes |-> scratch'] /\ buffer'[e] # Absent
        /\ buffer' \in [Entry -> Three!BufferBlock \cup {Absent}]
        /\ \A x \in Entry : x # e => buffer'[x] = buffer[x]
    <3>1. [path |-> newPath, bytes |-> scratch'] \in Three!BufferBlock
      BY <1>1, <2>1 DEF Three!BufferBlock
    <3>2. [path |-> newPath, bytes |-> scratch'] # Absent
      BY <3>1, LinearSizes
    <3> QED BY <1>2, <2>1, <3>1, <3>2
  <2>6. LinearTypes'
    BY <1>1, <2>4, <2>5 DEF LinearIInv, LinearTypes, Linear!Phases, Linear!Exceptions, Call,
     LinearEntry, Three!MemoryPath, Three!BufferPath, Three!MemoryBlock, Three!BufferBlock, Three!Bytes
  <2>7. LinearProgress'
    <3>1. Len(plan) >= 1
      <4>1. Len(plan) = 0 => plan = <<>>
        BY EmptySeq DEF LinearIInv, LinearTypes
      <4> QED BY <1>2, <4>1
    <3> QED BY <1>2, <2>4, <3>1 DEF LinearProgress
  <2>8. LinearMap'
    BY <2>3, <2>4 DEF LinearIInv, LinearMap
  <2>9. \A i \in 1 .. Len(map) : Live(i) /\ Live(i)'
    BY <1>2, <2>4 DEF Live
  <2>10. ASSUME NEW x \in Entry, buffer'[x] = Absent
         PROVE  main'[x] # Absent /\ main'[x] = [path |-> posmap'[x], data |-> x]
    BY <2>5, <2>10 DEF LinearIInv, LinearPlaces
  <2>11. ASSUME NEW x \in Entry, buffer'[x] # Absent
         PROVE  /\ main'[x] = Absent /\ buffer'[x].bytes.data = x /\ Three!Valid(buffer'[x].bytes)
                /\ \E i \in 1 .. Len(map') : /\ Live(i)' /\ map'[i].id = x
                                             /\ map'[i].path = buffer'[x].path
                                             /\ map'[i].home = posmap'[x]
    <3>1. PICK i \in 1 .. Len(map) : /\ map[i].id = x /\ map[i].path = buffer[x].path
                                     /\ map[i].home = posmap[x]
      BY <1>4, <2>5, <2>11 DEF LinearIInv, LinearPlaces
    <3>2. main'[x] = Absent
      BY <1>4, <2>5, <2>11 DEF LinearIInv, LinearPlaces
    <3>3. CASE x = e
      <4>1. i = k
        BY <1>2, <2>1, <3>1, <3>3, PlaceInMap
      <4>2. buffer'[x].bytes = scratch' /\ buffer'[x].path = newPath
        BY <2>5, <3>3
      <4> QED BY <1>1, <2>1, <2>3, <2>4, <2>9, <3>1, <3>2, <3>3, <4>1, <4>2
    <3>4. CASE x # e
      <4>1. i # k /\ buffer'[x] = buffer[x]
        BY <2>1, <2>5, <3>1, <3>4
      <4>2. buffer[x].bytes.data = x /\ Three!Valid(buffer[x].bytes)
        BY <2>11, <4>1 DEF LinearIInv, LinearPlaces
      <4> QED BY <2>3, <2>4, <2>9, <3>1, <3>2, <4>1, <4>2
    <3> QED BY <3>3, <3>4
  <2>12. ASSUME NEW i \in 1 .. Len(map'), map'[i].id # Dummy PROVE buffer'[map'[i].id] # Absent
    <3>1. map'[i].id = map[i].id /\ map[i].id \in Entry /\ i \in 1 .. Len(map)
      <4>1. i \in 1 .. Len(map) /\ map[i] \in LinearEntry
        BY <2>2, <2>4
      <4> QED BY <2>3, <2>12, <4>1 DEF LinearEntry
    <3>2. buffer[map[i].id] # Absent
      BY <2>9, <2>12, <3>1 DEF LinearIInv, LinearPlaces
    <3> QED BY <2>5, <3>1, <3>2
  <2>13. LinearPlaces'
    BY <2>10, <2>11, <2>12 DEF LinearPlaces, Three!Valid
  <2>14. Three!Valid(scratch)'
    BY <1>1 DEF Three!Valid
  <2> QED BY <2>6, <2>7, <2>8, <2>13, <2>14 DEF LinearIInv
<1> QED
  BY <1>3, <1>4

LEMMA LinearDownloadKeeps ==
  ASSUME Linear!Parameters, LinearIInv, Linear!Download
  PROVE  LinearIInv'
<1>1. /\ phase = "download" /\ DownloadReturns /\ Linear!Access(Current, FALSE)
      /\ posmap' = posmap /\ main' = main /\ requested' = requested /\ plan' = plan
  BY LinearLoop DEF Linear!Download
<1>2. step \in Call /\ samples \in [Call -> Entry]
  BY DEF LinearIInv, LinearTypes
<1>3. /\ phase' \in {"download", "aggregate"} /\ step' \in Call /\ samples' \in [Call -> Entry]
  BY <1>1, <1>2, LinearSizes DEF DownloadReturns, Followed, Shuffles, Call
<1>4. Current \in Entry
  BY <1>2 DEF Current
<1>5. FALSE \in BOOLEAN /\ phase' # "flush"
  BY <1>3
<1> QED
  BY <1>1, <1>3, <1>4, <1>5, LinearAccessKeeps

LEMMA LinearAggregateKeeps ==
  ASSUME Linear!Parameters, LinearIInv, Linear!Aggregate
  PROVE  LinearIInv'
<1>1. /\ phase = "aggregate" /\ AggregateReturns /\ Linear!Access(Current, TRUE)
      /\ posmap' = posmap /\ main' = main /\ requested' = requested /\ plan' = plan
  BY LinearLoop DEF Linear!Aggregate
<1>2. step \in Call /\ samples \in [Call -> Entry]
  BY DEF LinearIInv, LinearTypes
<1>3. /\ phase' \in {"aggregate", "flush"} /\ step' \in Call /\ samples' \in [Call -> Entry]
      /\ phase' = "flush" => step' = 1
  BY <1>1, <1>2, LinearSizes DEF AggregateReturns, Followed, Call
<1>4. Current \in Entry
  BY <1>2 DEF Current
<1>5. TRUE \in BOOLEAN
  OBVIOUS
<1> QED
  BY <1>1, <1>3, <1>4, <1>5, LinearAccessKeeps
LEMMA LinearFlushKeeps ==
  ASSUME Linear!Parameters, LinearIInv, Linear!Flush
  PROVE  LinearIInv'
<1> DEFINE e == map[step].id
<1>1. /\ phase = "flush" /\ step \in 1 .. Len(map) /\ Len(map) = Len(plan)
      /\ Len(plan) <= SamplesPerRound
      /\ posmap' = posmap /\ map' = map /\ samples' = samples
      /\ e \in Entry \cup {Dummy}
      /\ e \notin Entry => main' = main /\ buffer' = buffer /\ scratch' = scratch
      /\ e \in Entry =>
           /\ buffer[e] # Absent /\ buffer' = [buffer EXCEPT ![e] = Absent]
           /\ scratch' = buffer[e].bytes /\ scratch' \in Three!Bytes /\ Three!Valid(scratch')
           /\ main' = [main EXCEPT ![e] = [path |-> posmap[e], data |-> e]]
      /\ \/ /\ step < Len(plan) /\ step' = step + 1 /\ phase' = "flush"
            /\ requested' = requested /\ plan' = plan
         \/ /\ step = Len(plan) /\ step' = 1 /\ phase' = "sample"
            /\ requested' = <<>> /\ plan' = <<>>
  BY LinearFlushDoes
<1>2. /\ plan # <<>> /\ Len(map) \in Nat /\ step \in Nat /\ map \in Seq(LinearEntry)
      /\ Len(requested) = SamplesPerRound /\ SamplesPerRound \in Nat \ {0}
      /\ posmap \in [Entry -> Three!MemoryPath]
      /\ main \in [Entry -> Three!MemoryBlock \cup {Absent}]
      /\ buffer \in [Entry -> Three!BufferBlock \cup {Absent}]
      /\ scratch \in Three!Bytes /\ Three!Valid(scratch)
  BY <1>1, LenProperties, LinearSizes DEF LinearIInv, LinearTypes, LinearProgress, Call
<1>3. map[step].id = e
  OBVIOUS
<1> HIDE DEF e
<1>4. e # Dummy => e \in Entry
  BY <1>1
<1>5. \A i \in 1 .. Len(map) : Live(i) <=> step <= i
  BY <1>1, <1>2 DEF Live
<1>6. \A i \in 1 .. Len(map) : Live(i)' <=> step + 1 <= i
  <2>1. CASE phase' = "flush"
    BY <1>1, <1>2, <2>1 DEF Live
  <2>2. CASE phase' # "flush"
    BY <1>1, <1>2, <2>2 DEF Live
  <2> QED BY <2>1, <2>2
<1>7. /\ e \in Entry => /\ buffer'[e] = Absent /\ main'[e] # Absent
                        /\ main'[e] = [path |-> posmap[e], data |-> e]
                        /\ main'[e] \in Three!MemoryBlock
      /\ \A x \in Entry : x # e => main'[x] = main[x] /\ buffer'[x] = buffer[x]
  <2>1. e \in Entry => [path |-> posmap[e], data |-> e] \in Three!MemoryBlock
    BY <1>2 DEF Three!MemoryBlock
  <2>2. e \in Entry => [path |-> posmap[e], data |-> e] # Absent
    BY <2>1, LinearSizes
  <2> QED BY <1>1, <1>2, <2>1, <2>2
<1>8. LinearTypes'
  <2>1. /\ main' \in [Entry -> Three!MemoryBlock \cup {Absent}]
        /\ buffer' \in [Entry -> Three!BufferBlock \cup {Absent}]
        /\ scratch' \in Three!Bytes
    BY <1>1, <1>2, <1>7
  <2>2. /\ requested' \in Seq(Entry) /\ Len(requested') <= SamplesPerRound
        /\ plan' \in Seq(Entry \cup {Dummy}) /\ Len(plan') <= SamplesPerRound
    <3>1. /\ <<>> \in Seq(Entry) /\ <<>> \in Seq(Entry \cup {Dummy})
          /\ Len(<<>>) = 0 /\ 0 <= SamplesPerRound
      BY <1>2, EmptySeq
    <3>2. CASE plan' = plan /\ requested' = requested
      BY <3>2 DEF LinearIInv, LinearTypes
    <3>3. CASE plan' = <<>> /\ requested' = <<>>
      BY <3>1, <3>3
    <3> QED BY <1>1, <3>2, <3>3
  <2>3. step' \in Call /\ phase' \in Linear!Phases
    BY <1>1, <1>2 DEF Call, Linear!Phases
  <2> QED BY <1>1, <2>1, <2>2, <2>3 DEF LinearIInv, LinearTypes, Linear!Phases, Linear!Exceptions, Call,
     LinearEntry, Three!MemoryPath, Three!BufferPath, Three!MemoryBlock, Three!BufferBlock, Three!Bytes
<1>9. LinearProgress'
  <2>1. Len(<<>>) = 0
    BY EmptySeq
  <2>2. step < Len(plan) => step + 1 <= Len(plan)
    BY <1>1, <1>2
  <2> QED BY <1>1, <1>2, <2>1, <2>2 DEF LinearProgress
<1>10. LinearMap'
  <2>1. CASE plan' = plan
    BY <1>1, <2>1 DEF LinearIInv, LinearMap
  <2>2. CASE plan' = <<>>
    <3>1. \A i \in 1 .. Len(plan') : FALSE
      <4>1. Len(plan') = 0
        BY <2>2, EmptySeq
      <4> QED BY <4>1
    <3> QED BY <2>2, <3>1 DEF LinearMap
  <2> QED BY <1>1, <2>1, <2>2
<1>11. ASSUME NEW x \in Entry, buffer'[x] = Absent
       PROVE  main'[x] # Absent /\ main'[x] = [path |-> posmap'[x], data |-> x]
  <2>1. CASE x = e
    BY <1>1, <1>7, <2>1
  <2>2. CASE x # e
    BY <1>1, <1>7, <1>11, <2>2 DEF LinearIInv, LinearPlaces
  <2> QED BY <2>1, <2>2
<1>12. ASSUME NEW x \in Entry, buffer'[x] # Absent
       PROVE  /\ main'[x] = Absent /\ buffer'[x].bytes.data = x /\ Three!Valid(buffer'[x].bytes)
              /\ \E i \in 1 .. Len(map') : /\ Live(i)' /\ map'[i].id = x
                                           /\ map'[i].path = buffer'[x].path
                                           /\ map'[i].home = posmap'[x]
  <2>1. x # e /\ buffer'[x] = buffer[x] /\ main'[x] = main[x]
    BY <1>7, <1>12
  <2>2. PICK i \in 1 .. Len(map) : /\ Live(i) /\ map[i].id = x /\ map[i].path = buffer[x].path
                                   /\ map[i].home = posmap[x]
    BY <1>12, <2>1 DEF LinearIInv, LinearPlaces
  <2>3. main[x] = Absent /\ buffer[x].bytes.data = x /\ Three!Valid(buffer[x].bytes)
    BY <1>12, <2>1 DEF LinearIInv, LinearPlaces
  <2>4. i # step
    BY <1>3, <2>1, <2>2
  <2>5. Live(i)'
    BY <1>2, <1>5, <1>6, <2>2, <2>4
  <2> QED BY <1>1, <2>1, <2>2, <2>3, <2>5
<1>13. ASSUME NEW i \in 1 .. Len(map'), Live(i)', map'[i].id # Dummy
       PROVE  buffer'[map'[i].id] # Absent
  <2>1. i \in 1 .. Len(map) /\ step + 1 <= i /\ map'[i] = map[i]
    BY <1>1, <1>6, <1>13
  <2>2. map[i].id \in Entry
    <3>1. map[i] \in LinearEntry
      BY <1>2, <2>1, ElementOfSeq
    <3> QED BY <1>13, <2>1, <3>1 DEF LinearEntry
  <2>3. Live(i)
    BY <1>2, <1>5, <2>1
  <2>4. buffer[map[i].id] # Absent
    BY <1>13, <2>1, <2>3 DEF LinearIInv, LinearPlaces
  <2>5. map[i].id # e
    <3>1. SUFFICES ASSUME map[i].id = e PROVE FALSE
      OBVIOUS
    <3>2. i = step
      BY <1>1, <1>2, <1>3, <2>1, <2>2, <3>1, PlaceInMap
    <3> QED BY <1>2, <2>1, <3>2
  <2> QED BY <1>7, <2>1, <2>2, <2>4, <2>5
<1>14. LinearPlaces'
  BY <1>11, <1>12, <1>13 DEF LinearPlaces, Three!Valid
<1>15. Three!Valid(scratch)'
  <2>1. Three!Valid(scratch')
    BY <1>1, <1>2
  <2> QED BY <2>1 DEF Three!Valid
<1> QED
  BY <1>8, <1>9, <1>10, <1>14, <1>15 DEF LinearIInv

LEMMA LinearStutterKeeps ==
  ASSUME LinearIInv, UNCHANGED Linear!vars
  PROVE  LinearIInv'
<1>1. /\ phase' = phase /\ step' = step /\ samples' = samples /\ posmap' = posmap /\ main' = main
      /\ buffer' = buffer /\ requested' = requested /\ plan' = plan /\ map' = map /\ scratch' = scratch
  BY DEF Linear!vars
<1>2. LinearTypes'
  BY <1>1 DEF LinearIInv, LinearTypes, Linear!Phases, Linear!Exceptions, Call,
     LinearEntry, Three!MemoryPath, Three!BufferPath, Three!MemoryBlock, Three!BufferBlock, Three!Bytes
<1>3. LinearProgress' /\ LinearMap'
  BY <1>1 DEF LinearIInv, LinearProgress, LinearMap
<1>4. LinearPlaces' /\ Three!Valid(scratch)'
  BY <1>1 DEF LinearIInv, LinearPlaces, Live, Three!Valid
<1> QED
  BY <1>2, <1>3, <1>4 DEF LinearIInv

LEMMA LinearInvariance ==
  ASSUME Linear!Parameters
  PROVE  Linear!Spec => []LinearIInv
<1>1. Linear!Init => LinearIInv
  BY LinearInitGood
<1>2. LinearIInv /\ [Linear!Next]_(Linear!vars) => LinearIInv'
  <2> SUFFICES ASSUME LinearIInv, [Linear!Next]_(Linear!vars) PROVE LinearIInv'
    OBVIOUS
  <2>1. CASE Linear!Sample
    BY <2>1, LinearSampleKeeps
  <2>2. CASE Linear!Reserve
    BY <2>2, LinearReserveKeeps
  <2>3. CASE Linear!Plan
    BY <2>3, LinearPlanKeeps
  <2>4. CASE Linear!MoveToBuffer
    BY <2>4, LinearMoveKeeps
  <2>5. CASE Linear!Download
    BY <2>5, LinearDownloadKeeps
  <2>6. CASE Linear!Aggregate
    BY <2>6, LinearAggregateKeeps
  <2>7. CASE Linear!Flush
    BY <2>7, LinearFlushKeeps
  <2>8. CASE UNCHANGED Linear!vars
    BY <2>8, LinearStutterKeeps
  <2> QED BY <2>1, <2>2, <2>3, <2>4, <2>5, <2>6, <2>7, <2>8 DEF Linear!Next
<1> QED
  BY <1>1, <1>2, PTL DEF Linear!Spec

(* Every variable of OramBufferDPLinearScan keeps its type, whatever k is.  *)
THEOREM LinearTypeCorrect ==
  ASSUME Linear!Parameters
  PROVE  Linear!Spec => []Linear!TypeOK
<1>1. LinearIInv => Linear!TypeOK
  BY LinearTypesAre DEF LinearIInv
<1> QED
  BY <1>1, LinearInvariance, PTL

(* The two maps of OramBufferDPLinearScan tell where an entry lies: in the  *)
(* memory on the path of the position map, or in the buffer on the path of  *)
(* the scanned map, which also has the path the entry will go back to.      *)
THEOREM LinearMapsTellThePlace ==
  ASSUME Linear!Parameters
  PROVE  Linear!Spec => []Linear!MapsTellPlace
<1>1. LinearIInv => Linear!MapsTellPlace
  <2> SUFFICES ASSUME LinearIInv, NEW e \in Entry
      PROVE  \/ /\ main[e] = [path |-> posmap[e], data |-> e]
                /\ buffer[e] = Absent
             \/ /\ main[e] = Absent /\ buffer[e] # Absent
                /\ buffer[e].bytes.data = e
                /\ \E i \in Linear!At(e) : map[i].path = buffer[e].path /\ map[i].home = posmap[e]
    BY DEF Linear!MapsTellPlace
  <2>1. CASE buffer[e] = Absent
    BY <2>1 DEF LinearIInv, LinearPlaces
  <2>2. CASE buffer[e] # Absent
    BY <2>2 DEF LinearIInv, LinearPlaces, Linear!At
  <2> QED BY <2>1, <2>2
<1> QED
  BY <1>1, LinearInvariance, PTL

(* No search of OramBufferDPLinearScan fails: a flush finds every entry its *)
(* map names, and the entry passes its check.                               *)
THEOREM LinearNeverThrows ==
  ASSUME Linear!Parameters
  PROVE  Linear!Spec => []NeverThrows
<1>1. LinearIInv => NeverThrows
  BY DEF LinearIInv, LinearProgress, NeverThrows
<1> QED
  BY <1>1, LinearInvariance, PTL
=============================================================================
