---------------------------- MODULE ValidBitTree ----------------------------
(***************************************************************************)
(* ParentCounterValidBitTreeController: the valid bits of the bucket tree, *)
(* kept in pages that each hold a few levels of a subtree.  A page also    *)
(* holds the counters its child pages were last encrypted under; the       *)
(* counter of the root page is root_counter.  A path of pages is read into *)
(* a buffer, changed there and written back.                               *)
(*                                                                         *)
(* memory[p] is page p as stored: the counter of its nonce and what it     *)
(* decrypts to.  The bits of one bucket are one value.                     *)
(***************************************************************************)
EXTENDS TreePaths, FiniteSets

CONSTANTS
  Bits,                  \* what the valid bits of a bucket can be
  NoBits,                \* all of them clear
  PageLevels,            \* page_levels
  LevelsPerNonLeafPage,  \* levels_per_non_leaf_page
  LevelsPerLeafPage,     \* levels_per_leaf_page
  BytesPerBucket,        \* bytes_per_bucket
  AuthTagSize,           \* auth_tag_size
  NoPath,                \* currently_loaded_path without a value
  MaxFilled,             \* bound of the model: buckets fast_init fills
  MaxWrites              \* bound of the model on root_counter

Parameters ==
  /\ NoBits \in Bits
  /\ NoPath \notin Path
  /\ {PageLevels, LevelsPerNonLeafPage, LevelsPerLeafPage} \subseteq Nat \ {0}
  /\ PageLevels >= 2
  /\ Levels = (PageLevels - 1) * LevelsPerNonLeafPage + LevelsPerLeafPage
  /\ BytesPerBucket \in Nat \ {0} /\ AuthTagSize \in Nat
  /\ MaxFilled \in Nat /\ MaxWrites \in Nat

ASSUME ValidBitTreeAssumption == Parameters

VARIABLES
  memory,       \* memory, page by page
  rootCounter,  \* root_counter
  encrypted,    \* content_encrypted
  loaded,       \* currently_loaded_path
  buffer,       \* decrypted_buffer, a page per page level
  written,      \* history: the bits last written back for every bucket
  pending       \* history: the bits of the loaded path, level by level

vars == <<memory, rootCounter, encrypted, loaded, buffer, written, pending>>

PageLevel == 0 .. PageLevels - 1

FirstLevel(k) == k * LevelsPerNonLeafPage

LevelsIn(k) == IF k = PageLevels - 1 THEN LevelsPerLeafPage ELSE LevelsPerNonLeafPage

Page == UNION { {k} \X (0 .. TwoToThe[FirstLevel(k)] - 1) : k \in PageLevel }

PageOn(path, k) == <<k, path \div TwoToThe[Levels - 1 - FirstLevel(k)]>>

(* The page level of a bucket level: a leaf page may hold more levels. *)
PageLevelOf(l) ==
  IF l \div LevelsPerNonLeafPage >= PageLevels THEN PageLevels - 1
  ELSE l \div LevelsPerNonLeafPage

-----------------------------------------------------------------------------
(* Where things are.  A page is 2^levels buckets wide, a non-leaf page has  *)
(* room for as many 8-byte counters of children, and a tag follows it.      *)
PageSize == TwoToThe[LevelsPerNonLeafPage] * (8 + BytesPerBucket)

LeafPageSize == TwoToThe[LevelsPerLeafPage] * BytesPerBucket

SizeWithTag(k) == (IF k = PageLevels - 1 THEN LeafPageSize ELSE PageSize) + AuthTagSize

StartOfPageLevel(k) ==
  LET start[i \in PageLevel] ==
        IF i = 0 THEN 0 ELSE start[i - 1] + TwoToThe[FirstLevel(i - 1)] * SizeWithTag(i - 1)
  IN  start[k]

PageAddress(p) == StartOfPageLevel(p[1]) + p[2] * SizeWithTag(p[1])

(* A bucket's index in its page, counted level by level from the page's top. *)
IndexInPage(l, i) ==
  LET width == TwoToThe[l - FirstLevel(PageLevelOf(l))]
  IN  width - 1 + (i % width)

(* Faulty variant: leaf pages are taken to be as large as the others. *)
AddressInEvenPages(l, i) ==
  LET k == PageLevelOf(l)
  IN  StartOfPageLevel(k)
      + (i \div TwoToThe[l - FirstLevel(k)]) * (PageSize + AuthTagSize)
      + IndexInPage(l, i) * BytesPerBucket

(* get_address_of(): where fast_init writes the bits of a bucket. *)
GetAddressOf(l, i) ==
  LET k == PageLevelOf(l)
  IN  StartOfPageLevel(k)
      + (i \div TwoToThe[l - FirstLevel(k)]) * SizeWithTag(k)
      + IndexInPage(l, i) * BytesPerBucket

BucketIndex(k) == 0 .. TwoToThe[LevelsIn(k)] - 2

ChildIndex(path, k) == PageOn(path, k)[2] % TwoToThe[LevelsPerNonLeafPage]

Children(k) == IF k = PageLevels - 1 THEN {} ELSE 0 .. TwoToThe[LevelsPerNonLeafPage] - 1

(* Before encryption: bits where they were put by address, counters zero. *)
PlainPage(p) ==
  [bits |-> [i \in BucketIndex(p[1]) |->
               LET here == { n \in Bucket :
                               GetAddressOf(n[1], n[2]) = PageAddress(p) + i * BytesPerBucket }
               IN  IF here = {} THEN NoBits ELSE written[CHOOSE n \in here : TRUE]],
   counters |-> [c \in Children(p[1]) |-> 0]]

TypeOK ==
  /\ \A p \in Page :
       /\ memory[p].under \in 0 .. MaxWrites + 1
       /\ memory[p].bits \in [BucketIndex(p[1]) -> Bits]
       /\ memory[p].counters \in [Children(p[1]) -> 0 .. MaxWrites + 1]
  /\ rootCounter \in 0 .. MaxWrites + 1
  /\ encrypted \in BOOLEAN
  /\ loaded \in Path \cup {NoPath}
  /\ written \in [Bucket -> Bits]

(* fast_init() has written the bits of the buckets it filled. *)
Init ==
  /\ \E filled \in SUBSET Bucket :
       /\ Cardinality(filled) <= MaxFilled
       /\ \E b \in Bits : written = [n \in Bucket |-> IF n \in filled THEN b ELSE NoBits]
  /\ memory = [p \in Page |-> [under |-> 0, bits |-> PlainPage(p).bits,
                               counters |-> PlainPage(p).counters]]
  /\ rootCounter = 0 /\ encrypted = FALSE
  /\ loaded = NoPath /\ buffer = <<>> /\ pending = <<>>

-----------------------------------------------------------------------------
(* encrypt_contents(), from the leaves up: a child's counter in its parent  *)
(* page is advanced before the parent is encrypted, root_counter last.      *)
EncryptContents ==
  /\ ~encrypted
  /\ memory' = [p \in Page |->
       [under |-> IF p[1] = 0 THEN rootCounter + 1
                  ELSE memory[<<p[1] - 1, p[2] \div TwoToThe[LevelsPerNonLeafPage]>>]
                         .counters[p[2] % TwoToThe[LevelsPerNonLeafPage]] + 1,
        bits |-> memory[p].bits,
        counters |-> [c \in Children(p[1]) |-> memory[p].counters[c] + 1]]]
  /\ rootCounter' = rootCounter + 1
  /\ encrypted' = TRUE
  /\ UNCHANGED <<loaded, buffer, written, pending>>

(* read_path() decrypts a page under the counter in the page above it.  *)
CounterAbove(pages, root, path, k) ==
  IF k = 0 THEN root ELSE pages[k - 1].counters[ChildIndex(path, k)]

PagesOn(path) ==
  [k \in PageLevel |-> [bits |-> memory[PageOn(path, k)].bits,
                        counters |-> memory[PageOn(path, k)].counters]]

Readable(path) ==
  \A k \in PageLevel :
    memory[PageOn(path, k)].under = CounterAbove(PagesOn(path), rootCounter, path, k)

BitsInBuffer(l) ==
  buffer[PageLevelOf(l)].bits[IndexInPage(l, BucketOn(loaded, l)[2])]

ReadPath(path) ==
  /\ encrypted /\ Readable(path)
  /\ loaded' = path
  /\ buffer' = PagesOn(path)
  /\ pending' = [l \in Level |-> written[BucketOn(path, l)]]
  /\ UNCHANGED <<memory, rootCounter, encrypted, written>>

(* set_valid(), conditional_set_valid() on a bucket of the loaded path. *)
SetValid(l, b) ==
  /\ loaded # NoPath
  /\ buffer' = [buffer EXCEPT ![PageLevelOf(l)].bits[IndexInPage(l, BucketOn(loaded, l)[2])] = b]
  /\ pending' = [pending EXCEPT ![l] = b]
  /\ UNCHANGED <<memory, rootCounter, encrypted, loaded, written>>

(* Faulty variant: only the counter of the leaf page is advanced. *)
LeafCounterAdvanced ==
  [buffer EXCEPT ![PageLevels - 2].counters[ChildIndex(loaded, PageLevels - 1)] = @ + 1]

(* Faulty variant: a counter is advanced when it is read and when it is set. *)
CountersAdvancedTwice ==
  [k \in PageLevel |->
     IF k = PageLevels - 1 THEN buffer[k]
     ELSE [buffer[k] EXCEPT !.counters[ChildIndex(loaded, k + 1)] = @ + 2]]

(* The pages of the path with the counters of their children advanced. *)
CountersAdvanced ==
  [k \in PageLevel |->
     IF k = PageLevels - 1 THEN buffer[k]
     ELSE [buffer[k] EXCEPT !.counters[ChildIndex(loaded, k + 1)] = @ + 1]]

(* Faulty variant: the pages are encrypted from the root down. *)
EncryptedFromRoot(k) ==
  [under |-> CounterAbove(CountersAdvanced, rootCounter + 1, loaded, k),
   bits |-> buffer[k].bits, counters |-> buffer[k].counters]

(* A page as write_path encrypts it, from the leaf up. *)
Encrypted(k) ==
  [under |-> CounterAbove(CountersAdvanced, rootCounter + 1, loaded, k),
   bits |-> CountersAdvanced[k].bits, counters |-> CountersAdvanced[k].counters]

(* The path stays loaded and may be changed and written again. *)
WritePath ==
  /\ encrypted /\ loaded # NoPath
  /\ rootCounter <= MaxWrites
  /\ memory' = [p \in Page |-> IF p = PageOn(loaded, p[1]) THEN Encrypted(p[1]) ELSE memory[p]]
  /\ buffer' = CountersAdvanced
  /\ rootCounter' = rootCounter + 1
  /\ written' = [n \in Bucket |->
                   IF n = BucketOn(loaded, n[1]) THEN pending[n[1]] ELSE written[n]]
  /\ UNCHANGED <<encrypted, loaded, pending>>

(* to_toml() and the loading constructor: the buffer is not kept. *)
SaveAndLoad ==
  /\ loaded' = NoPath /\ buffer' = <<>> /\ pending' = <<>>
  /\ UNCHANGED <<memory, rootCounter, encrypted, written>>

Next ==
  \/ EncryptContents
  \/ WritePath
  \/ SaveAndLoad
  \/ \E path \in Path : ReadPath(path)
  \/ \E l \in Level, b \in Bits : SetValid(l, b)

Spec == Init /\ [][Next]_vars

-----------------------------------------------------------------------------
(* The chain of counters never breaks: once encrypted, every path can be   *)
(* read, although a write renews the pages of one path only and its pages  *)
(* are shared with other paths ("Auth Tag verification Failed" is never    *)
(* thrown by read_path).                                                   *)
EveryPathReadable == encrypted => \A path \in Path : Readable(path)

(* The bits of every bucket are the ones written back last, or put there   *)
(* by fast_init through get_address_of: the two ways of finding a bucket   *)
(* agree, and a write-back touches the buckets of its path alone.          *)
BitsAsWritten ==
  \A n \in Bucket :
    LET k == PageLevelOf(n[1])
        p == <<k, n[2] \div TwoToThe[n[1] - FirstLevel(k)]>>
    IN  memory[p].bits[IndexInPage(n[1], n[2])] = written[n]

(* No page is encrypted twice under one counter, whether by write_path,    *)
(* by encrypt_contents, or after a restart: its nonce is always new.       *)
NewNonces ==
  \A p \in Page : memory'[p] # memory[p] => memory'[p].under > memory[p].under

NoncesNeverRepeat == [][NewNonces]_vars
=============================================================================
