-------------------------------- MODULE Trie --------------------------------
(***************************************************************************)
(* The Merkle prefix trie of byzcoin/trie: nodes stored in a bucket under  *)
(* their hash, set and delete along the bits of a key, staging tries that  *)
(* keep a list of instructions until they are committed, and inclusion and *)
(* absence proofs.                                                         *)
(*                                                                         *)
(* A hash stands for itself: the hash of a node is the node, in which the  *)
(* children of an interior node are again hashes.  A node is found only    *)
(* if it is in the bucket.  A key is the sequence of its bits (noHashKey).  *)
(***************************************************************************)
EXTENDS Integers, FiniteSets, Sequences, FiniteSetsExt, SequencesExt, Functions, TLC

CONSTANTS TrieKeys,      \* sequences of BOOLEAN of one length, TRUE is left
          TrieValues,
          TrieMaxStaged, \* bound: instructions in a staging trie
          TrieMaxOps     \* bound: instructions applied to the source
ASSUME TrieAssumption == {TrieMaxStaged, TrieMaxOps} \subseteq Nat

VARIABLES tBucket,   \* the nodes in the bucket
          tRoot,     \* the value of entryKey
          tMap,      \* history: the pairs that were set and not deleted
          tOverlay, tDeleted, tInstrs,   \* StagingTrie
          tOps       \* instructions applied so far
trieVars == <<tBucket, tRoot, tMap, tOverlay, tDeleted, tInstrs, tOps>>

newEmptyNode(prefix) == [kind |-> "empty", prefix |-> prefix]
newLeafNode(prefix, key, value) == [kind |-> "leaf", prefix |-> prefix, key |-> key, value |-> value]
newInteriorNode(left, right) == [kind |-> "interior", left |-> left, right |-> right]
NoHash == [kind |-> "nil"]
OpSet(k, v) == [op |-> "set", key |-> k, value |-> v]
OpDel(k) == [op |-> "del", key |-> k, value |-> 0]

-----------------------------------------------------------------------------
(* set: what becomes of the bucket and the hash of the changed node.       *)
Result(bucket, hash) == [bucket |-> bucket, hash |-> hash]

RECURSIVE extendLeaf(_, _, _, _)
\* The children of the interior node that replaces a leaf with this prefix.
Pair(goesLeft, one, other) ==
    IF goesLeft THEN [left |-> one, right |-> other] ELSE [left |-> other, right |-> one]
extendLeaf(bucket, prefix, old, new) ==
    LET b1 == old.key[Len(prefix) + 1]  b2 == new.key[Len(prefix) + 1]
    IN  IF b1 # b2
        THEN LET one == newLeafNode(Append(prefix, b1), old.key, old.value)
                 other == newLeafNode(Append(prefix, b2), new.key, new.value)
             IN  [bucket |-> bucket \union {one, other}, pair |-> Pair(b1, one, other)]
        ELSE LET below == extendLeaf(bucket, Append(prefix, b1), old, new)
                 interior == newInteriorNode(below.pair.left, below.pair.right)
                 empty == newEmptyNode(Append(prefix, ~b1))
             IN  [bucket |-> below.bucket \union {interior, empty}, pair |-> Pair(b1, interior, empty)]

RECURSIVE set(_, _, _, _)
Replace(bucket, old, new) == (bucket \ {old}) \union {new}
set(bucket, hash, depth, new) ==
    CASE hash \notin bucket -> Result(bucket, NoHash)
      [] hash.kind = "empty" ->
             LET leaf == newLeafNode(hash.prefix, new.key, new.value)
             IN  Result(Replace(bucket, hash, leaf), leaf)
      [] hash.kind = "leaf" ->
             IF hash.key = new.key
             THEN LET leaf == [hash EXCEPT !.value = new.value] IN Result(Replace(bucket, hash, leaf), leaf)
             ELSE LET ext == extendLeaf(bucket, hash.prefix, hash, new)
                      interior == newInteriorNode(ext.pair.left, ext.pair.right)
                  IN  Result((ext.bucket \union {interior}) \ {hash}, interior)
      [] hash.kind = "interior" ->
             LET left == new.key[depth + 1]
                 below == set(bucket, IF left THEN hash.left ELSE hash.right, depth + 1, new)
                 node == IF left THEN [hash EXCEPT !.left = below.hash] ELSE [hash EXCEPT !.right = below.hash]
             IN  IF below.hash = NoHash THEN Result(bucket, NoHash)
                 ELSE Result(Replace(below.bucket, hash, node), node)

\* A deleted leaf becomes an empty node; NoHash means nothing was deleted.
RECURSIVE del(_, _, _, _)
del(bucket, hash, depth, key) ==
    CASE hash \notin bucket -> Result(bucket, NoHash)
      [] hash.kind = "empty" -> Result(bucket, NoHash)
      [] hash.kind = "leaf" ->
             IF hash.key # key THEN Result(bucket, NoHash)
             ELSE LET empty == newEmptyNode(hash.prefix) IN Result(Replace(bucket, hash, empty), empty)
      [] hash.kind = "interior" ->
             LET left == key[depth + 1]
                 below == del(bucket, IF left THEN hash.left ELSE hash.right, depth + 1, key)
                 node == IF left THEN [hash EXCEPT !.left = below.hash] ELSE [hash EXCEPT !.right = below.hash]
             IN  IF below.hash = NoHash THEN Result(bucket, NoHash)
                 ELSE Result(Replace(below.bucket, hash, node), node)

SetWithBucket(t, instr) ==
    LET new == set(t.bucket, t.root, 0, instr)
    IN  IF new.hash = NoHash THEN t ELSE [bucket |-> new.bucket, root |-> new.hash]
DeleteWithBucket(t, key) ==
    LET new == del(t.bucket, t.root, 0, key)
    IN  IF new.hash = NoHash THEN t ELSE [bucket |-> new.bucket, root |-> new.hash]
\* One database transaction.
BatchWithBucket(t, instrs) ==
    FoldLeft(LAMBDA s, i : IF i.op = "set" THEN SetWithBucket(s, i) ELSE DeleteWithBucket(s, i.key), t, instrs)
Source == [bucket |-> tBucket, root |-> tRoot]

-----------------------------------------------------------------------------
(* Lookups and proofs.                                                     *)
RECURSIVE get(_, _, _, _)
Found(value) == [found |-> TRUE, value |-> value]
NotFound == [found |-> FALSE, value |-> 0]
get(bucket, hash, depth, key) ==
    CASE hash \notin bucket -> [found |-> FALSE, value |-> "node key does not exist in get"]
      [] hash.kind = "empty" -> NotFound
      [] hash.kind = "leaf" -> IF hash.key = key THEN Found(hash.value) ELSE NotFound
      [] OTHER -> get(bucket, IF key[depth + 1] THEN hash.left ELSE hash.right, depth + 1, key)
StagingGet(key) ==
    IF key \in tDeleted THEN NotFound
    ELSE IF key \in DOMAIN tOverlay THEN Found(tOverlay[key])
    ELSE get(tBucket, tRoot, 0, key)

RECURSIVE getProof(_, _, _, _, _)
getProof(bucket, hash, depth, key, interiors) ==
    IF hash.kind = "interior" /\ hash \in bucket
    THEN getProof(bucket, IF key[depth + 1] THEN hash.left ELSE hash.right, depth + 1, key, Append(interiors, hash))
    ELSE [interiors |-> interiors, edge |-> hash]
GetProof(t, key) == getProof(t.bucket, t.root, 0, key, << >>)

\* The hash the path of a key leads to after the i-th interior node.
NextHash(proof, key, i) == IF key[i] THEN proof.interiors[i].left ELSE proof.interiors[i].right
\* Mutant: the edge is not compared with the hash the chain leads to.
ChainOnly(proof, key) ==
    /\ proof.interiors # << >>
    /\ \A i \in 2 .. Len(proof.interiors) : NextHash(proof, key, i - 1) = proof.interiors[i]
ChainOK(proof, key) ==
    /\ proof.interiors # << >>
    /\ \A i \in 2 .. Len(proof.interiors) : NextHash(proof, key, i - 1) = proof.interiors[i]
    /\ NextHash(proof, key, Len(proof.interiors)) = proof.edge
    /\ SubSeq(key, 1, Len(proof.interiors)) = proof.edge.prefix
ProofExists(proof, key) ==
    IF ~ChainOK(proof, key) THEN "error"
    ELSE IF proof.edge.kind = "leaf" /\ proof.edge.key = key THEN "present" ELSE "absent"

-----------------------------------------------------------------------------
NewTrieRoot == newInteriorNode(newEmptyNode(<<TRUE>>), newEmptyNode(<<FALSE>>))
NoStaging == tOverlay' = << >> /\ tDeleted' = {} /\ tInstrs' = << >>
Without(f, k) == Restrict(f, DOMAIN f \ {k})
ApplyMap(map, instrs) ==
    FoldLeft(LAMBDA s, i : IF i.op = "set" THEN (i.key :> i.value) @@ s ELSE Without(s, i.key), map, instrs)
Apply(t, instrs) ==
    /\ tOps + Len(instrs) <= TrieMaxOps /\ tOps' = tOps + Len(instrs)
    /\ tBucket' = t.bucket /\ tRoot' = t.root
    /\ tMap' = ApplyMap(tMap, instrs)

\* A direct change of the source makes the staging tries invalid.
Batch(instrs) == Apply(BatchWithBucket(Source, instrs), instrs) /\ NoStaging
StagingSet(k, v) ==
    /\ Len(tInstrs) < TrieMaxStaged
    /\ tDeleted' = tDeleted \ {k} /\ tOverlay' = (k :> v) @@ tOverlay
    /\ tInstrs' = Append(tInstrs, OpSet(k, v))
    /\ UNCHANGED <<tBucket, tRoot, tMap, tOps>>
StagingDelete(k) ==
    /\ Len(tInstrs) < TrieMaxStaged
    /\ tDeleted' = tDeleted \union {k} /\ tOverlay' = Without(tOverlay, k)
    /\ tInstrs' = Append(tInstrs, OpDel(k))
    /\ UNCHANGED <<tBucket, tRoot, tMap, tOps>>
Commit == tInstrs # << >> /\ Apply(BatchWithBucket(Source, tInstrs), tInstrs) /\ NoStaging

TrieInit ==
    /\ tRoot = NewTrieRoot /\ tBucket = {NewTrieRoot, NewTrieRoot.left, NewTrieRoot.right}
    /\ tMap = << >> /\ tOverlay = << >> /\ tDeleted = {} /\ tInstrs = << >> /\ tOps = 0
TrieNext ==
    \/ \E k \in TrieKeys, v \in TrieValues : Batch(<<OpSet(k, v)>>) \/ StagingSet(k, v)
    \/ \E k \in TrieKeys : Batch(<<OpDel(k)>>) \/ StagingDelete(k)
    \/ Commit

-----------------------------------------------------------------------------
TrieTypeOK ==
    /\ tRoot \in tBucket /\ DOMAIN tMap \subseteq TrieKeys /\ DOMAIN tOverlay \subseteq TrieKeys
    /\ tDeleted \subseteq TrieKeys /\ tOps \in 0 .. TrieMaxOps

(* What the trie answers is what was written, from the source, through a    *)
(* staging trie and in the dry run behind its GetRoot and GetProof, after   *)
(* leaves were split, overwritten and emptied in any order; and the bucket  *)
(* holds the nodes below the root and no others, so IsValid finds the trie  *)
(* valid (trie.go, staging.go).                                             *)
Dry == BatchWithBucket(Source, tInstrs)
Answer(map, k) == IF k \in DOMAIN map THEN Found(map[k]) ELSE NotFound
RECURSIVE Below(_)
Below(hash) == {hash} \union (IF hash.kind = "interior" THEN Below(hash.left) \union Below(hash.right) ELSE {})
IsValid ==
    /\ \A n \in {n \in Below(tRoot) : n.kind = "leaf"} : ProofExists(GetProof(Source, n.key), n.key) = "present"
    /\ Cardinality(tBucket) = Cardinality(Below(tRoot))
TrieAnswers ==
    /\ IsValid /\ tBucket = Below(tRoot)
    /\ \A k \in TrieKeys : /\ get(tBucket, tRoot, 0, k) = Answer(tMap, k)
                           /\ StagingGet(k) = Answer(ApplyMap(tMap, tInstrs), k)
                           /\ StagingGet(k) = get(Dry.bucket, Dry.root, 0, k)

(* A proof made for one key and checked for another one is refused or tells *)
(* the truth about that other key; checked for its own key it is accepted   *)
(* (proof.go, Exists).                                                      *)
ProofsSound ==
    \A j, k \in TrieKeys :
        LET answer == ProofExists(GetProof(Dry, j), k)
        IN  /\ answer # "error" => (answer = "present") = StagingGet(k).found
            /\ j = k => answer # "error"
=============================================================================
