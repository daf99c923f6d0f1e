------------------------------ MODULE StateTrie ------------------------------
(***************************************************************************)
(* How one conode keeps its state trie in step with its skipchain           *)
(* (byzcoin/service.go): the callback that applies a stored block, catching *)
(* up by replaying blocks or by downloading the trie of another node, and   *)
(* the repair after a restart. The callback, the only running catch-up and  *)
(* the start-up routine are goroutines that share the two databases.        *)
(*                                                                         *)
(* The other nodes have all blocks up to height. The roots of a trie are    *)
(* named by blocks: the root after block i is Root(i), which a block        *)
(* without state changes (an upgrade, or only refused transactions) shares  *)
(* with the one before. All forward links are of level 0.                   *)
(***************************************************************************)
EXTENDS Integers, FiniteSets, FiniteSetsExt

CONSTANTS
    Unchanged,      \* blocks without state changes
    DownloadAll,    \* catchupDownloadAll
    FetchBlocks,    \* catchupFetchBlocks
    MaxBlocks,      \* bound: index of the last block
    MaxStorers,     \* bound: goroutines, catch-up aside, that store blocks
    MaxCrashes,     \* bound: restarts of the conode
    MaxFailures,    \* bound: requests to other nodes that fail
    MaxTruncated,   \* bound: downloads that end early
    Concurrent      \* bound: whether blocks are applied during a download

Block == 0..MaxBlocks

ASSUME StateTrieAssumption ==
    /\ Unchanged \subseteq 1..MaxBlocks
    /\ FetchBlocks \in Nat /\ FetchBlocks >= 2
    /\ {DownloadAll, MaxBlocks, MaxStorers, MaxCrashes, MaxFailures,
        MaxTruncated} \subseteq Nat
    /\ Concurrent \in BOOLEAN

VARIABLES
    height,     \* index of the latest block of the other nodes
    top,        \* index of the latest block in the own skipchain database
    root,       \* bucket of the trie: the entry with the root,
    index,      \* trieIndexKey,
    nodes,      \* and how many of the nodes below the root it has
    loaded,     \* whether the trie is in stateTries
    storers,    \* the blocks for which StoreBlocks still runs the callback
    wanted,     \* the blocks for which "go s.catchUp" was called
    catchUp,    \* the running catch-up
    boot,       \* startAllChains: "catchup", "wait", "start", "repair",
                \* "store", "up" or "failed"
    repairing,  \* the block that repairStateTrie has reached
    crashes, failures, truncated

trieVars == <<root, index, nodes>>
bootVars == <<boot, repairing>>
boundVars == <<crashes, failures, truncated>>
vars == <<height, top, trieVars, loaded, storers, wanted, catchUp, bootVars, boundVars>>

NoTrie == -2
Root(i) == IF i < 0 THEN i ELSE Max({j \in 0..i : j \notin Unchanged})

Idle == [pc |-> "idle", target |-> 0, from |-> 0, to |-> 0]
Storer == [from : Block, to : Block]

\* The node knows the genesis block, or nothing of the chain.
Init ==
    /\ height = 0
    /\ \/ top = 0 /\ root = 0 /\ index = 0
       \/ top = -1 /\ root = NoTrie /\ index = -1
    /\ nodes = "all"
    /\ loaded = FALSE
    /\ storers = {} /\ wanted = {} /\ catchUp = Idle
    /\ boot = "up" /\ repairing = 0
    /\ crashes = 0 /\ failures = 0 /\ truncated = 0

\* getStateTrie: the trie is cached, or loadStateTrie finds its root.
Readable == loaded \/ (root # NoTrie /\ nodes # "none")

\* The callback and the repair do not look at catchingUpWG.
MayWrite == Concurrent \/ catchUp.pc \notin {"entry", "index", "nodes", "check"}

-----------------------------------------------------------------------------
(* Applying a block.                                                       *)

\* Mutant: the index stays when the root turns out to be wrong.
VerifiedStoreAllNoRollback(i) ==
    /\ root' = IF root = Root(i - 1) THEN Root(i) ELSE root
    /\ index' = i
    /\ UNCHANGED nodes

\* Mutant: the number of applied blocks is stored, not the index of the last.
VerifiedStoreAllCount(i) ==
    /\ root' = Root(i)
    /\ index' = i + 1
    /\ UNCHANGED nodes

\* The state changes of block i lead to the root in its header when the trie is
\* the one before the block, or already the one after it. With missing nodes
\* the outcome depends on which ones are needed.
VerifiedStoreAll(i) ==
    \/ /\ nodes # "none" /\ root \in {Root(i - 1), Root(i)}
       /\ root' = Root(i) /\ index' = i
       /\ UNCHANGED nodes
    \/ /\ nodes # "all" \/ root \notin {Root(i - 1), Root(i)}
       /\ UNCHANGED trieVars

\* Mutant: blocks are ignored while the node catches up.
UpdateTrieLater(i) ==
    \/ /\ i = 0 /\ ~loaded /\ root = NoTrie
       /\ root' = Root(0) /\ index' = 0 /\ nodes' = "all"
       /\ loaded' = TRUE
       /\ UNCHANGED wanted
    \/ /\ i = index + 1 /\ Readable /\ catchUp.pc = "idle"
       /\ loaded' = TRUE
       /\ VerifiedStoreAll(i)
       /\ UNCHANGED wanted
    \/ /\ root # NoTrie /\ ~(i = index + 1 /\ Readable /\ catchUp.pc = "idle")
       /\ UNCHANGED <<trieVars, loaded, wanted>>

\* updateTrieCallback for block i. For the genesis block it creates the trie
\* unless it is loaded, and gives up if the database has one.
UpdateTrie(i) ==
    \/ /\ i = 0 /\ ~loaded /\ root = NoTrie
       /\ root' = Root(0) /\ index' = 0 /\ nodes' = "all"
       /\ loaded' = TRUE
       /\ UNCHANGED wanted
    \/ /\ ~loaded /\ (IF i = 0 THEN root # NoTrie ELSE ~Readable)
       /\ UNCHANGED <<trieVars, loaded, wanted>>
    \/ /\ loaded \/ (i > 0 /\ Readable)
       /\ loaded' = TRUE
       /\ \/ i <= index /\ UNCHANGED <<trieVars, wanted>>
          \/ i > index + 1 /\ wanted' = wanted \union {i} /\ UNCHANGED trieVars
          \/ i = index + 1 /\ VerifiedStoreAll(i) /\ UNCHANGED wanted

-----------------------------------------------------------------------------
(* Blocks come in. The callbacks run after the transaction of StoreBlocks.  *)

NewBlock ==
    /\ height < MaxBlocks
    /\ height' = height + 1
    /\ UNCHANGED <<top, trieVars, loaded, storers, wanted, catchUp, bootVars, boundVars>>

\* The link to the next block is propagated.
ReceiveLink ==
    /\ 0 <= top /\ top < height
    /\ Cardinality(storers) < MaxStorers
    /\ top' = top + 1
    /\ storers' = storers \union {[from |-> top, to |-> top + 1]}
    /\ UNCHANGED <<height, trieVars, loaded, wanted, catchUp, bootVars, boundVars>>

\* Skipchain's own SyncChain, before it verifies a block.
SyncChain ==
    /\ top < height
    /\ Cardinality(storers) < MaxStorers
    /\ top' = height
    /\ storers' = storers \union {[from |-> Max({top, 0}), to |-> height]}
    /\ UNCHANGED <<height, trieVars, loaded, wanted, catchUp, bootVars, boundVars>>

Callback(s) ==
    /\ MayWrite
    /\ UpdateTrie(s.from)
    /\ storers' = (storers \ {s}) \union
                  (IF s.from < s.to THEN {[s EXCEPT !.from = @ + 1]} ELSE {})
    /\ UNCHANGED <<height, top, catchUp, bootVars, boundVars>>

-----------------------------------------------------------------------------
(* catchUp, of which catchingUpWG lets one run at a time.                   *)

\* The catch-up that startAllChains waits for has ended before the next begins.
CatchUpAllReturns ==
    boot' = IF boot = "wait" /\ catchUp.pc = "idle" THEN "start" ELSE boot

\* A goroutine started by the callback.
StartCatchUp(i) ==
    /\ wanted' = wanted \ {i}
    /\ catchUp' = IF catchUp.pc = "idle"
                  THEN [Idle EXCEPT !.pc = "load", !.target = i] ELSE catchUp
    /\ CatchUpAllReturns
    /\ UNCHANGED <<height, top, trieVars, loaded, storers, repairing, boundVars>>

\* verifySkipBlock is asked for a block after the latest one, and finds that
\* the trie is not the one before it (catchupFromID). A genesis block is
\* stored once more.
VerifyBlock ==
    /\ Readable
    /\ index # height
    /\ catchUp.pc = "idle"
    /\ loaded' = TRUE
    /\ \/ height = 0 /\ top' = Max({top, 0}) /\ VerifiedStoreAll(0)
       \/ height > 0 /\ UNCHANGED <<top, trieVars>>
    /\ catchUp' = [Idle EXCEPT !.pc = "load", !.target = height]
    /\ CatchUpAllReturns
    /\ UNCHANGED <<height, storers, wanted, repairing, boundVars>>

\* The trie is loaded or created, and the way to catch up chosen. A replay
\* starts at the block of the trie, or at the latest one that is stored.
LoadTrie ==
    /\ catchUp.pc = "load"
    /\ \/ /\ Readable
          /\ loaded' = TRUE
          /\ catchUp' =
               IF catchUp.target - index > DownloadAll
               THEN [catchUp EXCEPT !.pc = "download"]
               ELSE IF Min({index, top}) < 0 THEN Idle
               ELSE [catchUp EXCEPT !.pc = "fetch", !.from = Min({index, top})]
          /\ UNCHANGED trieVars
       \/ /\ ~Readable /\ catchUp.target < DownloadAll
          /\ \/ /\ root = NoTrie
                /\ root' = Root(-1) /\ index' = -1 /\ nodes' = "all"
                /\ loaded' = TRUE
             \/ /\ root # NoTrie
                /\ UNCHANGED <<trieVars, loaded>>
          /\ catchUp' = Idle
       \/ /\ ~Readable /\ catchUp.target >= DownloadAll
          /\ catchUp' = [catchUp EXCEPT !.pc = "download"]
          /\ UNCHANGED <<trieVars, loaded>>
    /\ UNCHANGED <<height, top, storers, wanted, bootVars, boundVars>>

\* The next blocks are fetched from other nodes and stored. After the last of
\* them SyncChain goes through the whole chain.
FetchAndStore ==
    /\ \/ /\ catchUp.pc = "fetch" /\ catchUp.from < catchUp.target
          /\ catchUp' = [catchUp EXCEPT !.pc = "replay",
                           !.to = Min({catchUp.from + FetchBlocks - 1, height})]
       \/ /\ catchUp.pc = "fetch" /\ catchUp.from >= catchUp.target
          /\ catchUp' = [catchUp EXCEPT !.pc = "sync", !.from = 0, !.to = height]
    /\ top' = Max({top, catchUp'.to})
    /\ UNCHANGED <<height, trieVars, loaded, storers, wanted, bootVars, boundVars>>

\* The callbacks for the stored blocks.
Replay ==
    /\ catchUp.pc \in {"replay", "sync"}
    /\ UpdateTrie(catchUp.from)
    /\ catchUp' = IF catchUp.from < catchUp.to THEN [catchUp EXCEPT !.from = @ + 1]
                  ELSE IF catchUp.pc = "replay" THEN [catchUp EXCEPT !.pc = "fetch"]
                  ELSE Idle
    /\ UNCHANGED <<height, top, storers, bootVars, boundVars>>

\* Another node does not answer.
CatchUpFails ==
    /\ catchUp.pc \in {"fetch", "download", "entry", "index", "verified"}
    /\ failures < MaxFailures
    /\ failures' = failures + 1
    /\ catchUp' = Idle
    /\ UNCHANGED <<height, top, trieVars, loaded, storers, wanted, bootVars, crashes,
                   truncated>>

-----------------------------------------------------------------------------
(* downloadDB. The entries come in the order of their keys: the root before *)
(* the index, and nodes between and after them. The bucket that is deleted  *)
(* first is not the one of the trie, so that the old entries remain.        *)

DownloadStart ==
    /\ catchUp.pc = "download"
    /\ loaded' = FALSE
    /\ catchUp' = [catchUp EXCEPT !.pc = "entry", !.to = height]
    /\ UNCHANGED <<height, top, trieVars, storers, wanted, bootVars, boundVars>>

DownloadEntry ==
    /\ catchUp.pc = "entry"
    /\ root' = Root(catchUp.to)
    /\ nodes' \in IF root' = root THEN {nodes} ELSE {"none", "some"}
    /\ catchUp' = [catchUp EXCEPT !.pc = "index"]
    /\ UNCHANGED <<height, top, index, loaded, storers, wanted, bootVars, boundVars>>

DownloadIndex ==
    /\ catchUp.pc = "index"
    /\ index' = catchUp.to
    /\ nodes' \in IF nodes = "none" THEN {"none", "some"} ELSE {nodes}
    /\ catchUp' = [catchUp EXCEPT !.pc = "nodes"]
    /\ UNCHANGED <<height, top, root, loaded, storers, wanted, bootVars, boundVars>>

DownloadNodes ==
    /\ catchUp.pc = "nodes"
    /\ nodes' = "all"
    /\ catchUp' = [catchUp EXCEPT !.pc = "check"]
    /\ UNCHANGED <<height, top, root, index, loaded, storers, wanted, bootVars, boundVars>>

\* The other node gives up (DownloadState waits a minute for the next request)
\* and closes its channel: a short answer looks like the last one.
DownloadTruncated ==
    /\ catchUp.pc \in {"entry", "index", "nodes"}
    /\ truncated < MaxTruncated
    /\ truncated' = truncated + 1
    /\ catchUp' = [catchUp EXCEPT !.pc = "check"]
    /\ UNCHANGED <<height, top, trieVars, loaded, storers, wanted, bootVars, crashes,
                   failures>>

\* The root must be the one in the header of the block that the index names.
DownloadCheck ==
    /\ catchUp.pc = "check"
    /\ \/ /\ root # NoTrie /\ nodes # "none"
          /\ index >= 0 /\ root = Root(index)
          /\ loaded' = TRUE
          /\ catchUp' = [catchUp EXCEPT !.pc = "verified"]
       \/ /\ ~(root # NoTrie /\ nodes # "none" /\ index >= 0 /\ root = Root(index))
          /\ catchUp' = Idle
          /\ UNCHANGED loaded
    /\ UNCHANGED <<height, top, trieVars, storers, wanted, bootVars, boundVars>>

\* The blocks of the chain are stored.
DownloadBlocks ==
    /\ catchUp.pc = "verified"
    /\ catchUp' = [catchUp EXCEPT !.pc = "sync", !.from = 0, !.to = height]
    /\ top' = Max({top, height})
    /\ UNCHANGED <<height, trieVars, loaded, storers, wanted, bootVars, boundVars>>

-----------------------------------------------------------------------------
(* startAllChains.                                                         *)

\* The conode restarts with what its databases hold.
Crash ==
    /\ crashes < MaxCrashes
    /\ crashes' = crashes + 1
    /\ loaded' = FALSE
    /\ storers' = {} /\ wanted' = {} /\ catchUp' = Idle
    /\ boot' = IF top < 0 THEN "up" ELSE "catchup"
    /\ UNCHANGED <<height, top, trieVars, repairing, failures, truncated>>

\* catchupAll: other nodes are asked for the latest block, and may be down. A
\* catch-up that runs already is not waited for.
CatchUpAll ==
    /\ boot = "catchup"
    /\ \/ /\ boot' = IF catchUp.pc = "idle" THEN "wait" ELSE "start"
          /\ catchUp' = IF catchUp.pc = "idle"
                        THEN [Idle EXCEPT !.pc = "load", !.target = height] ELSE catchUp
          /\ UNCHANGED failures
       \/ /\ failures < MaxFailures /\ failures' = failures + 1
          /\ boot' = "start"
          /\ UNCHANGED catchUp
    /\ UNCHANGED <<height, top, trieVars, loaded, storers, wanted, repairing,
                   crashes, truncated>>

CatchUpAllDone ==
    /\ boot = "wait"
    /\ catchUp.pc = "idle"
    /\ boot' = "start"
    /\ UNCHANGED <<height, top, trieVars, loaded, storers, wanted, catchUp,
                   repairing, boundVars>>

\* startChain and fixInconsistencyIfAny: the latest block with the root of the
\* trie is where the repair starts.
StartChain ==
    LET same == {j \in 0..top : Root(j) = root}
    IN  /\ boot = "start"
        /\ loaded' = Readable
        /\ boot' = IF ~Readable \/ same = {} THEN "failed"
                   ELSE IF Root(top) = root THEN "up" ELSE "repair"
        /\ repairing' = IF same = {} THEN 0 ELSE Max(same)
        /\ UNCHANGED <<height, top, trieVars, storers, wanted, catchUp, boundVars>>

\* repairStateTrie: the next block must follow the index of the trie.
RepairNext ==
    /\ boot = "repair"
    /\ boot' = IF repairing = top THEN "up"
               ELSE IF index + 1 # repairing + 1 THEN "failed" ELSE "store"
    /\ repairing' = IF repairing = top THEN repairing ELSE repairing + 1
    /\ UNCHANGED <<height, top, trieVars, loaded, storers, wanted, catchUp, boundVars>>

\* Its state changes are stored without the lock of the callback.
RepairStore ==
    /\ boot = "store"
    /\ MayWrite
    /\ VerifiedStoreAll(repairing)
    /\ boot' = IF root' = Root(repairing) /\ index' = repairing THEN "repair" ELSE "failed"
    /\ UNCHANGED <<height, top, loaded, storers, wanted, catchUp, repairing, boundVars>>

-----------------------------------------------------------------------------
CatchUp == \/ LoadTrie \/ FetchAndStore \/ Replay
           \/ DownloadStart \/ DownloadEntry \/ DownloadIndex \/ DownloadNodes
           \/ DownloadCheck \/ DownloadBlocks
Boot == CatchUpAll \/ CatchUpAllDone \/ StartChain \/ RepairNext \/ RepairStore

Next ==
    \/ NewBlock \/ ReceiveLink \/ SyncChain
    \/ \E s \in storers : Callback(s)
    \/ \E i \in wanted : StartCatchUp(i)
    \/ VerifyBlock
    \/ CatchUp \/ CatchUpFails \/ DownloadTruncated
    \/ Crash \/ Boot

\* Goroutines run by themselves. The leader goes on proposing blocks, so that a
\* node is asked to verify one, for which skipchain first syncs the chain.
Fairness ==
    /\ WF_vars(CatchUp) /\ WF_vars(Boot)
    /\ WF_vars(\E s \in storers : Callback(s))
    /\ WF_vars(\E i \in wanted : StartCatchUp(i))
    /\ WF_vars(SyncChain) /\ WF_vars(VerifyBlock)

Spec == Init /\ [][Next]_vars /\ Fairness

-----------------------------------------------------------------------------
(* Properties.                                                             *)

\* Type invariant.
TypeOK ==
    /\ height \in Block /\ top \in -1..height
    /\ root \in NoTrie..height /\ index \in -1..height
    /\ nodes \in {"none", "some", "all"} /\ loaded \in BOOLEAN
    /\ storers \subseteq Storer /\ wanted \subseteq Block
    /\ catchUp.pc \in {"idle", "load", "fetch", "replay", "sync", "download", "entry",
                       "index", "nodes", "check", "verified"}
    /\ {catchUp.target, catchUp.from, catchUp.to} \subseteq Block
    /\ boot \in {"catchup", "wait", "start", "repair", "store", "up", "failed"}
    /\ repairing \in Block

\* A trie that has all its nodes is the state after the block that its index
\* names (VerifiedStoreAll, statetrie.go:341, and the end of downloadDB,
\* service.go:1345), whatever mixture of callbacks, downloads, repairs and
\* restarts has written to it.
TrieMatchesIndex == root # NoTrie /\ nodes = "all" => root = Root(index)

\* A failure, a truncation or a restart has cut short a download, or a restart
\* the creation of the trie.
CutShort == \/ nodes # "all" /\ catchUp.pc = "idle"
            \/ index = -1 /\ boot = "catchup"

\* Unless a request to another node fails or a download is cut short, the node
\* ends up with the state of the latest block and stays there (catchUp,
\* service.go:1490), although a catch-up that comes while another one runs is
\* dropped and a restart forgets the running one.
CatchesUp ==
    \/ <>(failures + truncated > 0 \/ CutShort)
    \/ <>[](index = height /\ root = Root(height) /\ nodes = "all")
=============================================================================
