--------------------------- MODULE StateTrieProofs ---------------------------
(* Proofs about StateTrie, for every number of blocks, of storers, restarts,    *)
(* failures and truncated downloads: types, and that the root and the index of  *)
(* a whole trie always belong to the same block when no block is applied while  *)
(* a download writes.                                                           *)
EXTENDS StateTrie, NatLemmas

-----------------------------------------------------------------------------
(* The operators.                                                          *)

\* The root after a block that exists is named by that block or an earlier one.
LEMMA RootType ==
    ASSUME NEW i \in Int, i >= -1
    PROVE  /\ Root(i) \in Int /\ Root(i) <= i /\ Root(i) >= -1
           /\ i >= 0 => Root(i) >= 0
<1>1. CASE i < 0
    BY <1>1 DEF Root
<1>2. CASE i >= 0
    <2> DEFINE S == {j \in 0..i : j \notin Unchanged}
    <2>1. S \in SUBSET Nat /\ \A x \in S : x <= i
        OBVIOUS
    <2>2. 0 \in S
        BY <1>2, StateTrieAssumption
    <2>3. Max(S) \in S
        <3>1. S # {} /\ i \in Nat
            BY <1>2, <2>2
        <3> HIDE DEF S
        <3> QED  BY <2>1, <3>1, MaxNat
    <2> QED  BY <1>2, <2>3 DEF Root
<1> QED  BY <1>1, <1>2

-----------------------------------------------------------------------------
(* Types. TypeOK alone is not inductive: a block is applied that a storer,  *)
(* the catch-up or the repair has reached, which must be one that exists.   *)

Place == {"idle", "load", "fetch", "replay", "sync", "download", "entry", "index",
          "nodes", "check", "verified"}

CatchUpOK == catchUp \in [pc : Place, target : Block, from : 0..height, to : 0..height]

StorersOK == storers \subseteq [from : 0..height, to : 0..height]

RepairOK == boot \in {"repair", "store"} => repairing <= top

TypeInv == TypeOK /\ CatchUpOK /\ StorersOK /\ RepairOK

\* The three databases entries after VerifiedStoreAll of a block that exists.
LEMMA VerifiedStoreAllType ==
    ASSUME TypeInv, NEW i \in 0..height, VerifiedStoreAll(i)
    PROVE  /\ root' \in NoTrie..height /\ index' \in -1..height
           /\ nodes' \in {"none", "some", "all"}
<1>1. Root(i) \in NoTrie..height
    BY RootType DEF TypeInv, TypeOK, Block, NoTrie
<1> QED  BY <1>1 DEF TypeInv, TypeOK, Block, VerifiedStoreAll, trieVars

\* The same for a whole callback.
LEMMA UpdateTrieType ==
    ASSUME TypeInv, NEW i \in 0..height, UpdateTrie(i)
    PROVE  /\ root' \in NoTrie..height /\ index' \in -1..height
           /\ nodes' \in {"none", "some", "all"}
           /\ loaded' \in BOOLEAN /\ wanted' \subseteq Block
<1>1. Root(0) \in NoTrie..height
    BY RootType DEF TypeInv, TypeOK, Block, NoTrie
<1>2. i \in Block
    BY StateTrieAssumption DEF TypeInv, TypeOK, Block
<1> USE DEF TypeInv, TypeOK, trieVars
<1>3. CASE /\ i = 0 /\ ~loaded /\ root = NoTrie
           /\ root' = Root(0) /\ index' = 0 /\ nodes' = "all"
           /\ loaded' = TRUE
           /\ UNCHANGED wanted
    BY <1>1, <1>3
<1>4. CASE UNCHANGED <<trieVars, loaded, wanted>>
    BY <1>4
<1>5. CASE loaded' = TRUE /\ UNCHANGED <<trieVars, wanted>>
    BY <1>5
<1>6. CASE loaded' = TRUE /\ wanted' = wanted \union {i} /\ UNCHANGED trieVars
    BY <1>2, <1>6
<1>7. CASE loaded' = TRUE /\ VerifiedStoreAll(i) /\ UNCHANGED wanted
    BY <1>7, VerifiedStoreAllType
<1> QED  BY <1>3, <1>4, <1>5, <1>6, <1>7 DEF UpdateTrie

\* What TypeOK says of the running catch-up.
LEMMA CatchUpFields ==
    ASSUME NEW h \in Block,
           NEW c \in [pc : Place, target : Block, from : 0..h, to : 0..h]
    PROVE  /\ c.pc \in {"idle", "load", "fetch", "replay", "sync", "download", "entry",
                        "index", "nodes", "check", "verified"}
           /\ {c.target, c.from, c.to} \subseteq Block
<1>1. MaxBlocks \in Nat
    BY StateTrieAssumption
<1>2. 0..h \subseteq Block
    BY <1>1 DEF Block
<1> QED  BY <1>2 DEF Place

\* Init satisfies the strengthened type invariant.
LEMMA InitTypeInv == Init => TypeInv
<1> SUFFICES ASSUME Init PROVE TypeInv
    OBVIOUS
<1>1. MaxBlocks \in Nat
    BY StateTrieAssumption
<1>2. "idle" \in Place /\ 0 \in Block /\ 0 \in 0..height
    BY <1>1 DEF Init, Place, Block
<1>3. CatchUpOK
    BY <1>2 DEF Init, CatchUpOK, Idle
<1>4. /\ catchUp.pc \in Place
      /\ {catchUp.target, catchUp.from, catchUp.to} \subseteq Block
    BY <1>2 DEF Init, Idle
<1>5. height \in Block /\ top \in -1..height /\ root \in NoTrie..height /\ index \in -1..height
    BY <1>1 DEF Init, Block, NoTrie
<1>6. nodes \in {"none", "some", "all"} /\ loaded \in BOOLEAN /\ boot \in {"up"}
    BY DEF Init
<1>7. TypeOK
    BY <1>2, <1>4, <1>5, <1>6 DEF Init, TypeOK, Place
<1> QED  BY <1>3, <1>7 DEF Init, TypeInv, StorersOK, RepairOK

\* Every step preserves it: one case per action.
LEMMA NextTypeInv == TypeInv /\ [Next]_vars => TypeInv'
<1> SUFFICES ASSUME TypeInv, [Next]_vars PROVE TypeInv'
    OBVIOUS
<1>0. MaxBlocks \in Nat /\ FetchBlocks \in Nat /\ FetchBlocks >= 2
    BY StateTrieAssumption
<1> USE <1>0 DEF TypeInv, TypeOK, CatchUpOK, StorersOK, RepairOK, Block, Storer
<1>a. 0..height \subseteq 0..MaxBlocks /\ height \in Nat
    OBVIOUS
<1>b. Idle \in [pc : Place, target : Block, from : 0..height, to : 0..height]
    <2>1. "idle" \in Place /\ 0 \in Block /\ 0 \in 0..height
        BY DEF Place
    <2> QED  BY <2>1 DEF Idle
<1>c. \A t \in Block, p \in Place :
            [Idle EXCEPT !.pc = p, !.target = t]
              \in [pc : Place, target : Block, from : 0..height, to : 0..height]
    BY <1>b
<1>1. CASE NewBlock
    <2>1. 0..height \subseteq 0..height' /\ NoTrie..height \subseteq NoTrie..height'
        BY <1>1 DEF NewBlock, NoTrie
    <2> QED  BY <1>1, <2>1 DEF NewBlock, trieVars, bootVars, boundVars
<1>2. CASE ReceiveLink
    BY <1>2 DEF ReceiveLink, trieVars, bootVars, boundVars
<1>3. CASE SyncChain
    <2>1. Max({top, 0}) \in 0..height
        BY MaxMinOfTwo
    <2> QED  BY <1>3, <2>1 DEF SyncChain, trieVars, bootVars, boundVars
<1>4. ASSUME NEW s \in storers, Callback(s) PROVE TypeInv'
    <2>1. s \in [from : 0..height, to : 0..height]
        OBVIOUS
    <2>2. s.from < s.to => [s EXCEPT !.from = @ + 1] \in [from : 0..height, to : 0..height]
        BY <2>1
    <2>3. storers' \subseteq [from : 0..height, to : 0..height]
        BY <1>4, <2>2 DEF Callback
    <2>4. UpdateTrie(s.from) /\ s.from \in 0..height
        BY <1>4, <2>1 DEF Callback
    <2>5. /\ root' \in NoTrie..height /\ index' \in -1..height
          /\ nodes' \in {"none", "some", "all"}
          /\ loaded' \in BOOLEAN /\ wanted' \subseteq Block
        BY <2>4, UpdateTrieType
    <2> QED  BY <1>4, <2>3, <2>5 DEF Callback, bootVars, boundVars
<1>5. ASSUME NEW i \in wanted, StartCatchUp(i) PROVE TypeInv'
    <2>1. catchUp' \in [pc : Place, target : Block, from : 0..height, to : 0..height]
        BY <1>5, <1>b DEF StartCatchUp, Place
    <2>2. boot' \in {boot, "start"}
        BY <1>5 DEF StartCatchUp, CatchUpAllReturns
    <2> QED  BY <1>5, <2>1, <2>2, CatchUpFields DEF StartCatchUp, trieVars, boundVars
<1>6. CASE VerifyBlock
    <2>1. catchUp' \in [pc : Place, target : Block, from : 0..height, to : 0..height]
        BY <1>6, <1>b DEF VerifyBlock, Place
    <2>2. boot' \in {boot, "start"}
        BY <1>6 DEF VerifyBlock, CatchUpAllReturns
    <2>3. /\ root' \in NoTrie..height /\ index' \in -1..height
          /\ nodes' \in {"none", "some", "all"} /\ top' \in -1..height /\ top <= top'
        BY <1>6, VerifiedStoreAllType, MaxMinOfTwo DEF VerifyBlock, trieVars
    <2>4. (boot' \in {"repair", "store"} => repairing' <= top') /\ loaded' \in BOOLEAN
        BY <1>6, <2>2, <2>3 DEF VerifyBlock
    <2> QED  BY <1>6, <2>1, <2>2, <2>3, <2>4, CatchUpFields DEF VerifyBlock, boundVars
<1>7. CASE CatchUp
  <2>1. CASE LoadTrie
    <3>1. Min({index, top}) \in Int /\ Min({index, top}) <= height
        <4>1. index \in Int /\ top \in Int /\ index <= height
            OBVIOUS
        <4>2. Min({index, top}) = IF index <= top THEN index ELSE top
            BY <4>1, MaxMinOfTwo
        <4> QED  BY <4>1, <4>2
    <3>2. catchUp' \in [pc : Place, target : Block, from : 0..height, to : 0..height]
        <4> DEFINE low == Min({index, top})
        <4>1. "download" \in Place /\ "fetch" \in Place
            BY DEF Place
        <4>2. \A p \in Place : [catchUp EXCEPT !.pc = p]
                \in [pc : Place, target : Block, from : 0..height, to : 0..height]
            OBVIOUS
        <4>3. low \in 0..height => [catchUp EXCEPT !.pc = "fetch", !.from = low]
                \in [pc : Place, target : Block, from : 0..height, to : 0..height]
            BY <4>1
        <4>4. \/ catchUp' \in {Idle, [catchUp EXCEPT !.pc = "download"]}
              \/ ~(low < 0) /\ catchUp' = [catchUp EXCEPT !.pc = "fetch", !.from = low]
            BY <2>1 DEF LoadTrie
        <4>5. ~(low < 0) => low \in 0..height
            BY <3>1
        <4> HIDE DEF low
        <4> QED  BY <1>b, <4>1, <4>2, <4>3, <4>4, <4>5
    <3>3. /\ root' \in NoTrie..height /\ index' \in -1..height
          /\ nodes' \in {"none", "some", "all"} /\ loaded' \in BOOLEAN
        <4>1. Root(-1) = -1 /\ -1 \in NoTrie..height /\ -1 \in -1..height
            BY DEF Root, NoTrie
        <4>2. \/ UNCHANGED trieVars
              \/ root' = Root(-1) /\ index' = -1 /\ nodes' = "all"
            BY <2>1 DEF LoadTrie
        <4>3. loaded' \in {loaded, TRUE}
            BY <2>1 DEF LoadTrie
        <4> QED  BY <4>1, <4>2, <4>3 DEF trieVars
    <3> QED  BY <2>1, <3>2, <3>3, CatchUpFields DEF LoadTrie, bootVars, boundVars
  <2>2. CASE FetchAndStore
    <3>1. Min({catchUp.from + FetchBlocks - 1, height}) \in 0..height
        <4> DEFINE k == catchUp.from + FetchBlocks - 1
        <4>1. k \in Int /\ height \in Int /\ k >= 0 /\ height >= 0
            OBVIOUS
        <4> HIDE DEF k
        <4>2. Min({k, height}) = IF k <= height THEN k ELSE height
            BY <4>1, MaxMinOfTwo
        <4> QED  BY <4>1, <4>2 DEF k
    <3>2. catchUp' \in [pc : Place, target : Block, from : 0..height, to : 0..height]
        <4>1. {"replay", "sync"} \subseteq Place
            BY DEF Place
        <4>2. \A p \in Place, i \in 0..height, j \in 0..height :
                [catchUp EXCEPT !.pc = p, !.from = i, !.to = j]
                  \in [pc : Place, target : Block, from : 0..height, to : 0..height]
            OBVIOUS
        <4>3. \A p \in Place, j \in 0..height : [catchUp EXCEPT !.pc = p, !.to = j]
                  \in [pc : Place, target : Block, from : 0..height, to : 0..height]
            OBVIOUS
        <4>4. 0 \in 0..height /\ height \in 0..height
            OBVIOUS
        <4> QED  BY <2>2, <3>1, <4>1, <4>2, <4>3, <4>4 DEF FetchAndStore
    <3>3. top' \in top..height
        BY <2>2, <3>2, MaxMinOfTwo DEF FetchAndStore
    <3> QED  BY <2>2, <3>2, <3>3, CatchUpFields DEF FetchAndStore, trieVars, bootVars, boundVars
  <2>3. CASE Replay
    <3>1. UpdateTrie(catchUp.from) /\ catchUp.from \in 0..height
        BY <2>3 DEF Replay
    <3>2. /\ root' \in NoTrie..height /\ index' \in -1..height
          /\ nodes' \in {"none", "some", "all"}
          /\ loaded' \in BOOLEAN /\ wanted' \subseteq Block
        BY <3>1, UpdateTrieType
    <3>3. catchUp' \in [pc : Place, target : Block, from : 0..height, to : 0..height]
        <4>1. "fetch" \in Place
            BY DEF Place
        <4>2. catchUp.from < catchUp.to => [catchUp EXCEPT !.from = @ + 1]
                  \in [pc : Place, target : Block, from : 0..height, to : 0..height]
            OBVIOUS
        <4> QED  BY <2>3, <1>b, <4>1, <4>2 DEF Replay
    <3> QED  BY <2>3, <3>2, <3>3, CatchUpFields DEF Replay, bootVars, boundVars
  <2>4. CASE DownloadStart
    <3>1. catchUp' \in [pc : Place, target : Block, from : 0..height, to : 0..height]
        <4>1. "entry" \in Place /\ height \in 0..height
            BY DEF Place
        <4> QED  BY <2>4, <4>1 DEF DownloadStart
    <3> QED  BY <2>4, <3>1, CatchUpFields DEF DownloadStart, trieVars, bootVars, boundVars
  <2>5. CASE DownloadEntry
    <3>1. Root(catchUp.to) \in NoTrie..height
        BY RootType DEF NoTrie
    <3>2. nodes' \in {"none", "some", "all"}
        BY <2>5 DEF DownloadEntry
    <3> QED  BY <2>5, <3>1, <3>2 DEF DownloadEntry, bootVars, boundVars, Place
  <2>6. CASE DownloadIndex
    <3>1. nodes' \in {"none", "some", "all"}
        BY <2>6 DEF DownloadIndex
    <3> QED  BY <2>6, <3>1 DEF DownloadIndex, bootVars, boundVars, Place
  <2>7. CASE DownloadNodes
    BY <2>7 DEF DownloadNodes, bootVars, boundVars, Place
  <2>8. CASE DownloadCheck
    <3>1. loaded' \in BOOLEAN
        BY <2>8 DEF DownloadCheck
    <3>2. catchUp' \in [pc : Place, target : Block, from : 0..height, to : 0..height]
        BY <2>8, <1>b DEF DownloadCheck, Place
    <3> QED  BY <2>8, <3>1, <3>2, CatchUpFields DEF DownloadCheck, trieVars, bootVars, boundVars
  <2>9. CASE DownloadBlocks
    <3>1. top' \in top..height
        BY <2>9, MaxMinOfTwo DEF DownloadBlocks
    <3>2. catchUp' \in [pc : Place, target : Block, from : 0..height, to : 0..height]
        <4>1. "sync" \in Place /\ height \in 0..height /\ 0 \in 0..height
            BY DEF Place
        <4> QED  BY <2>9, <4>1 DEF DownloadBlocks
    <3> QED  BY <2>9, <3>1, <3>2, CatchUpFields
             DEF DownloadBlocks, trieVars, bootVars, boundVars
  <2> QED  BY <1>7, <2>1, <2>2, <2>3, <2>4, <2>5, <2>6, <2>7, <2>8, <2>9 DEF CatchUp
<1>8. CASE CatchUpFails
    BY <1>8, <1>b, CatchUpFields DEF CatchUpFails, trieVars, bootVars
<1>9. CASE DownloadTruncated
    BY <1>9 DEF DownloadTruncated, trieVars, bootVars, Place
<1>10. CASE Crash
    <2>1. boot' \in {"up", "catchup"}
        BY <1>10 DEF Crash
    <2> QED  BY <1>10, <1>b, <2>1, CatchUpFields DEF Crash, trieVars
<1>11. CASE Boot
  <2>1. CASE CatchUpAll
    <3>1. catchUp' \in [pc : Place, target : Block, from : 0..height, to : 0..height]
        BY <2>1, <1>b DEF CatchUpAll, Place
    <3>2. boot' \in {"wait", "start"}
        BY <2>1 DEF CatchUpAll
    <3> QED  BY <2>1, <3>1, <3>2, CatchUpFields DEF CatchUpAll, trieVars
  <2>2. CASE CatchUpAllDone
    BY <2>2 DEF CatchUpAllDone, trieVars, boundVars
  <2>3. CASE StartChain
    <3> DEFINE same == {j \in 0..top : Root(j) = root}
    <3>1. repairing' = IF same = {} THEN 0 ELSE Max(same)
        BY <2>3 DEF StartChain
    <3>2. boot' \in {"failed", "up", "repair"} /\ (same = {} => boot' = "failed")
        BY <2>3 DEF StartChain
    <3>3. same # {} => Max(same) \in 0..top
        <4> SUFFICES ASSUME same # {} PROVE Max(same) \in 0..top
            OBVIOUS
        <4>1. same \in SUBSET Nat /\ \A x \in same : x <= top
            OBVIOUS
        <4>2. top \in Nat
            OBVIOUS
        <4>3. Max(same) \in same
            <5> HIDE DEF same
            <5> QED  BY <4>1, <4>2, MaxNat
        <4> QED  BY <4>3
    <3>4. loaded' \in BOOLEAN
        BY <2>3 DEF StartChain, Readable
    <3> HIDE DEF same
    <3> QED  BY <2>3, <3>1, <3>2, <3>3, <3>4 DEF StartChain, trieVars, boundVars
  <2>4. CASE RepairNext
    BY <2>4 DEF RepairNext, trieVars, boundVars
  <2>5. CASE RepairStore
    <3>1. repairing \in 0..height
        BY <2>5 DEF RepairStore
    <3>2. /\ root' \in NoTrie..height /\ index' \in -1..height
          /\ nodes' \in {"none", "some", "all"}
        BY <2>5, <3>1, VerifiedStoreAllType DEF RepairStore
    <3>3. boot' \in {"repair", "failed"}
        BY <2>5 DEF RepairStore
    <3> QED  BY <2>5, <3>1, <3>2, <3>3 DEF RepairStore, boundVars
  <2> QED  BY <1>11, <2>1, <2>2, <2>3, <2>4, <2>5 DEF Boot
<1>12. CASE UNCHANGED vars
    BY <1>12 DEF vars, trieVars, bootVars, boundVars
<1> QED  BY <1>1, <1>2, <1>3, <1>4, <1>5, <1>6, <1>7, <1>8, <1>9, <1>10, <1>11, <1>12
         DEF Next

\* The types of the databases, of the running catch-up and of the start-up are
\* kept by every step, whatever the number of blocks and of failures.
THEOREM TypeCorrect == Spec => []TypeOK
<1>1. TypeInv => TypeOK
    BY DEF TypeInv
<1> QED  BY <1>1, InitTypeInv, NextTypeInv, PTL DEF Spec

-----------------------------------------------------------------------------
(* The trie and its index. TrieMatchesIndex alone is not inductive: between  *)
(* the entries of a download it does not say which block they come from.     *)

\* Once the entry with the root is written it is the root of the block whose
\* trie is downloaded, and so is the index.
DownloadOK ==
    /\ catchUp.pc \in {"index", "nodes"} => root = Root(catchUp.to)
    /\ catchUp.pc = "nodes" => index = catchUp.to

MatchInv == TypeInv /\ TrieMatchesIndex /\ DownloadOK

\* VerifiedStoreAll keeps root and index together.
LEMMA VerifiedStoreAllMatches ==
    ASSUME TrieMatchesIndex, NEW i, VerifiedStoreAll(i)
    PROVE  TrieMatchesIndex'
    BY DEF TrieMatchesIndex, VerifiedStoreAll, trieVars, Root

\* The same for a whole callback.
LEMMA UpdateTrieMatches ==
    ASSUME TrieMatchesIndex, NEW i, UpdateTrie(i)
    PROVE  TrieMatchesIndex'
<1>1. CASE root' = Root(0) /\ index' = 0
    BY <1>1 DEF TrieMatchesIndex, Root
<1>2. CASE UNCHANGED trieVars
    BY <1>2 DEF TrieMatchesIndex, trieVars, Root
<1>3. CASE VerifiedStoreAll(i)
    BY <1>3, VerifiedStoreAllMatches
<1> QED  BY <1>1, <1>2, <1>3 DEF UpdateTrie, trieVars

\* Every step preserves the invariant: most leave the trie alone, and none but
\* the download itself writes to it while it is under way.
LEMMA NextMatchInv ==
    ASSUME Concurrent = FALSE, MatchInv, [Next]_vars
    PROVE  TrieMatchesIndex' /\ DownloadOK'
<1> USE DEF MatchInv
<1>a. catchUp \in [pc : Place, target : Block, from : 0..height, to : 0..height]
    BY DEF TypeInv, CatchUpOK
<1>b. Idle.pc = "idle"
    BY DEF Idle
<1>c. ASSUME UNCHANGED trieVars,
             \/ catchUp' = catchUp
             \/ catchUp'.pc \notin {"index", "nodes"}
      PROVE  TrieMatchesIndex' /\ DownloadOK'
    BY <1>c DEF TrieMatchesIndex, DownloadOK, trieVars, Root
<1>d. ASSUME TrieMatchesIndex', catchUp'.pc \notin {"index", "nodes"}
      PROVE  TrieMatchesIndex' /\ DownloadOK'
    BY <1>d DEF DownloadOK
<1>1. CASE NewBlock \/ ReceiveLink \/ SyncChain
    BY <1>1, <1>c DEF NewBlock, ReceiveLink, SyncChain
<1>2. ASSUME NEW s \in storers, Callback(s) PROVE TrieMatchesIndex' /\ DownloadOK'
    <2>1. catchUp' = catchUp /\ catchUp.pc \notin {"index", "nodes"}
        BY <1>2 DEF Callback, MayWrite
    <2>2. TrieMatchesIndex'
        BY <1>2, UpdateTrieMatches DEF Callback
    <2> QED  BY <2>1, <2>2, <1>d
<1>3. ASSUME NEW i \in wanted, StartCatchUp(i) PROVE TrieMatchesIndex' /\ DownloadOK'
    <2>1. UNCHANGED trieVars /\ (catchUp' = catchUp \/ catchUp'.pc = "load")
        BY <1>3 DEF StartCatchUp, Idle
    <2> QED  BY <2>1, <1>c
<1>4. CASE VerifyBlock
    <2>1. catchUp'.pc = "load"
        BY <1>4 DEF VerifyBlock, Idle
    <2>2. VerifiedStoreAll(0) \/ UNCHANGED trieVars
        BY <1>4 DEF VerifyBlock
    <2> QED  BY <2>1, <2>2, <1>c, <1>d, VerifiedStoreAllMatches
<1>5. CASE LoadTrie
    <2>1. catchUp'.pc \in {"idle", "download", "fetch"}
        BY <1>5, <1>a, <1>b DEF LoadTrie
    <2>2. UNCHANGED trieVars \/ (root' = Root(-1) /\ index' = -1)
        BY <1>5 DEF LoadTrie
    <2>3. CASE UNCHANGED trieVars
        BY <2>1, <2>3, <1>c
    <2>4. CASE root' = Root(-1) /\ index' = -1
        BY <2>1, <2>4, <1>d DEF TrieMatchesIndex, Root
    <2> QED  BY <2>2, <2>3, <2>4
<1>6. CASE FetchAndStore
    <2>1. catchUp'.pc \in {"replay", "sync"}
        BY <1>6, <1>a DEF FetchAndStore
    <2> QED  BY <1>6, <2>1, <1>c DEF FetchAndStore
<1>7. CASE Replay
    <2>1. catchUp'.pc \in {"replay", "sync", "fetch", "idle"}
        BY <1>7, <1>a, <1>b DEF Replay
    <2>2. TrieMatchesIndex'
        BY <1>7, UpdateTrieMatches DEF Replay
    <2> QED  BY <2>1, <2>2, <1>d
<1>8. CASE DownloadStart
    <2>1. catchUp'.pc = "entry"
        BY <1>8, <1>a DEF DownloadStart
    <2> QED  BY <1>8, <2>1, <1>c DEF DownloadStart
<1>9. CASE DownloadEntry
    <2>1. catchUp'.pc = "index" /\ catchUp'.to = catchUp.to
        BY <1>9, <1>a DEF DownloadEntry
    <2>2. root' = Root(catchUp.to) /\ index' = index
        BY <1>9 DEF DownloadEntry
    <2>3. CASE root' = root
        <3>1. nodes' = nodes
            BY <1>9, <2>3 DEF DownloadEntry
        <3> QED  BY <2>1, <2>2, <2>3, <3>1 DEF TrieMatchesIndex, DownloadOK, Root
    <2>4. CASE root' # root
        <3>1. nodes' # "all"
            BY <1>9, <2>4 DEF DownloadEntry
        <3> QED  BY <2>1, <2>2, <3>1 DEF TrieMatchesIndex, DownloadOK, Root
    <2> QED  BY <2>3, <2>4
<1>10. CASE DownloadIndex
    <2>1. catchUp'.pc = "nodes" /\ catchUp'.to = catchUp.to
        BY <1>10, <1>a DEF DownloadIndex
    <2>2. root' = root /\ root = Root(catchUp.to) /\ index' = catchUp.to
        BY <1>10 DEF DownloadIndex, DownloadOK
    <2> QED  BY <2>1, <2>2 DEF TrieMatchesIndex, DownloadOK, Root
<1>11. CASE DownloadNodes
    <2>1. catchUp'.pc = "check"
        BY <1>11, <1>a DEF DownloadNodes
    <2>2. root' = root /\ index' = index /\ root = Root(index)
        BY <1>11 DEF DownloadNodes, DownloadOK
    <2> QED  BY <2>1, <2>2 DEF TrieMatchesIndex, DownloadOK, Root
<1>12. CASE DownloadCheck \/ DownloadBlocks \/ DownloadTruncated
    <2>1. catchUp'.pc \in {"verified", "idle", "sync", "check"}
        BY <1>12, <1>a, <1>b DEF DownloadCheck, DownloadBlocks, DownloadTruncated
    <2> QED  BY <1>12, <2>1, <1>c DEF DownloadCheck, DownloadBlocks, DownloadTruncated
<1>13. CASE CatchUpFails \/ Crash
    BY <1>13, <1>b, <1>c DEF CatchUpFails, Crash
<1>14. CASE CatchUpAll
    <2>1. catchUp' = catchUp \/ catchUp'.pc = "load"
        BY <1>14 DEF CatchUpAll, Idle
    <2> QED  BY <1>14, <2>1, <1>c DEF CatchUpAll
<1>15. CASE CatchUpAllDone \/ StartChain \/ RepairNext
    BY <1>15, <1>c DEF CatchUpAllDone, StartChain, RepairNext
<1>16. CASE RepairStore
    <2>1. catchUp' = catchUp /\ catchUp.pc \notin {"index", "nodes"}
        BY <1>16 DEF RepairStore, MayWrite
    <2>2. TrieMatchesIndex'
        BY <1>16, VerifiedStoreAllMatches DEF RepairStore
    <2> QED  BY <2>1, <2>2, <1>d
<1>17. CASE UNCHANGED vars
    BY <1>17, <1>c DEF vars
<1> QED  BY <1>1, <1>2, <1>3, <1>4, <1>5, <1>6, <1>7, <1>8, <1>9, <1>10, <1>11, <1>12,
            <1>13, <1>14, <1>15, <1>16, <1>17 DEF Next, CatchUp, Boot

\* The root and the index of a trie that has all its nodes belong to the same
\* block, after any interleaving of callbacks, catch-ups, downloads that fail or
\* end early, repairs and restarts, as long as a download is alone to write
\* (downloadDB, service.go:1225-1347, whose entries are stored one by one).
THEOREM TrieAlwaysMatchesIndex ==
    ASSUME Concurrent = FALSE
    PROVE  Spec => []TrieMatchesIndex
<1>1. Init => MatchInv
    <2>1. Init => TrieMatchesIndex /\ DownloadOK
        <3> SUFFICES ASSUME Init PROVE TrieMatchesIndex /\ DownloadOK
            OBVIOUS
        <3>1. Root(0) = 0
            BY RootType
        <3> QED  BY <3>1 DEF Init, TrieMatchesIndex, DownloadOK, Idle
    <2> QED  BY <2>1, InitTypeInv DEF MatchInv
<1>2. MatchInv /\ [Next]_vars => MatchInv'
    BY NextTypeInv, NextMatchInv DEF MatchInv
<1>3. MatchInv => TrieMatchesIndex
    BY DEF MatchInv
<1> QED  BY <1>1, <1>2, <1>3, PTL DEF Spec
=============================================================================
