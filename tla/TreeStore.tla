------------------------------ MODULE TreeStore ------------------------------
(***************************************************************************)
(* What an ORAM expects of UntrustedMemoryController: the buckets of a     *)
(* tree, data and metadata, are apart from each other; the buckets of a    *)
(* path are read into a buffer, changed there and written back, and no     *)
(* other bucket is touched.                                                *)
(***************************************************************************)
CONSTANTS
  Kind,         \* "data" and "metadata"
  Bucket,       \* the buckets of the tree
  Level,
  Path,
  NoPath,
  BucketOn(_, _),
  Empty(_),     \* the initial content of a bucket of a kind
  Filled(_, _)  \* the content of such a bucket filled with a value

VARIABLES
  buckets,   \* buckets[k][n]: what bucket n holds of kind k
  path,      \* the path that was read, or NoPath
  buffer     \* buffer[k][l]: its buckets

treeVars == <<buckets, path, buffer>>

TreeInit ==
  /\ buckets = [k \in Kind |-> [n \in Bucket |-> Empty(k)]]
  /\ path = NoPath
  /\ buffer = [k \in Kind |-> [l \in Level |-> Empty(k)]]

ReadPath(p) ==
  /\ path' = p
  /\ buffer' = [k \in Kind |-> [l \in Level |-> buckets[k][BucketOn(p, l)]]]
  /\ UNCHANGED buckets

Fill(k, l) ==
  /\ path # NoPath
  /\ \E v \in {0, 1} : buffer' = [buffer EXCEPT ![k][l] = Filled(k, v)]
  /\ UNCHANGED <<buckets, path>>

WritePath ==
  /\ path # NoPath
  /\ buckets' = [k \in Kind |-> [n \in Bucket |->
                   IF \E l \in Level : n = BucketOn(path, l)
                   THEN buffer[k][CHOOSE l \in Level : n = BucketOn(path, l)]
                   ELSE buckets[k][n]]]
  /\ path' = NoPath
  /\ buffer' = [k \in Kind |-> [l \in Level |-> Empty(k)]]

TreeNext ==
  \/ WritePath
  \/ \E p \in Path : ReadPath(p)
  \/ \E k \in Kind, l \in Level : Fill(k, l)

TreeSpec == TreeInit /\ [][TreeNext]_treeVars
=============================================================================
