----------------------------- MODULE TxPipeline -----------------------------
(***************************************************************************)
(* The leader's transaction pipeline (byzcoin/tx_pipeline.go): the leader   *)
(* loop of txPipeline.start, the background routine createBlocks, the two   *)
(* channels between them, and the callers of Service.AddTransaction that    *)
(* feed the pipeline while holding txPipelinesMutex.                        *)
(*                                                                         *)
(* A state trie is abstracted to the set of transactions applied to it.    *)
(* The signer counters of ByzCoin make a transaction applicable only once  *)
(* and only after the transactions it builds on; the roster of the chain   *)
(* configuration is the set of applied configuration transactions, each    *)
(* of which adds or removes one node.                                      *)
(***************************************************************************)
EXTENDS Naturals, Sequences, FiniteSets, SequencesExt

CONSTANTS
    Tx,            \* client transactions
    ConfigTx,      \* the transactions that change the roster by one node
    After,         \* After[t]: what must be applied before t is accepted
    Weight,        \* Weight[t]: encoded size of t (txSize)
    Overhead,      \* what the encoding of the block adds to its transactions
    MaxBlockSize,  \* GetBlockSize
    MaxVersion,    \* CurrentVersion of the conode
    CtxCap,        \* capacity of ctxChan (200 in the code)
    MaxTxHashes,   \* maxTxHashes (1000 in the code)
    MaxSubmit,     \* bound: number of calls to AddTransaction
    MaxFailures,   \* bound: number of proposals or version reads that fail
    MayStop        \* whether the stop signal may be given

ASSUME PipelineAssumption ==
    /\ ConfigTx \subseteq Tx
    /\ After \in [Tx -> SUBSET Tx]
    /\ Weight \in [Tx -> Nat]
    /\ {Overhead, MaxBlockSize, MaxVersion, MaxSubmit, MaxFailures} \subseteq Nat
    /\ {CtxCap, MaxTxHashes} \subseteq Nat \ {0}
    /\ MayStop \in BOOLEAN

VARIABLES
    \* channels and callers
    ctxChan,       \* transactions sent by AddTransaction
    needUpgrade,   \* requested versions, at most one
    sender,        \* version an AddTransaction still has to send while it
                   \* holds txPipelinesMutex, 0 when the mutex is free
    stopSignal,    \* TRUE once the stop channel is closed
    submitted,     \* number of AddTransaction calls so far
    \* leader loop
    leader,        \* "select", "fill", "wait" (in wg.Wait) or "done"
    newVersion,    \* p.newVersion
    txQueue,       \* p.txQueue
    txHashes,      \* the most recent transactions, for duplicates
    currentState,  \* the proposedTransactions under construction
    \* between the leader loop and createBlocks
    newBlock,      \* channel of capacity one
    closed,        \* newBlock has been closed
    blockSent,     \* number of signals in the channel of capacity one
    \* createBlocks
    worker,        \* "recv", "propose", "signal" or "done"
    inState,       \* the proposal createBlocks works on
    \* the chain
    ledger,        \* transactions applied to the committed state trie
    blocks,        \* the blocks added to the chain
    failures,
    \* history
    arrived,       \* transactions accepted into txQueue, in order
    proposed       \* transactions of the proposals handled by createBlocks

chanVars   == <<ctxChan, needUpgrade, sender, stopSignal, submitted>>
leaderVars == <<leader, newVersion, txQueue, txHashes, currentState, arrived>>
workerVars == <<worker, inState, ledger, blocks, proposed>>
vars == <<chanVars, leaderVars, newBlock, closed, blockSent, workerVars, failures>>

TxResult == [tx : Tx, accepted : BOOLEAN]
Version == 0..MaxVersion
Proposal == [sst : SUBSET Tx, txs : Seq(TxResult), newVersion : Version]

\* proposedTransactions without transactions and version on the trie sst.
Empty(sst) == [sst |-> sst, txs |-> <<>>, newVersion |-> 0]

Txs(results) == [i \in DOMAIN results |-> results[i].tx]

\* The version in the header of the latest block.
ChainVersion == IF blocks = <<>> THEN 0 ELSE Last(blocks).version

-----------------------------------------------------------------------------
(* Processing of transactions on a staging trie.                           *)

\* processOneTx succeeds: every signer counter is the next one.
Accepts(sst, t) == t \notin sst /\ After[t] \subseteq sst

\* The tries after the first 0, 1, ... transactions of the sequence q.
Tries(sst, q) ==
    LET st[i \in 0..Len(q)] ==
            IF i = 0 THEN sst
            ELSE st[i-1] \union (IF Accepts(st[i-1], q[i]) THEN {q[i]} ELSE {})
    IN  st

\* The results, in order, of running the transactions of q on sst.
Results(sst, q) ==
    [i \in 1..Len(q) |-> [tx |-> q[i], accepted |-> Accepts(Tries(sst, q)[i-1], q[i])]]

\* proposedTransactions.size, for the given transactions.
Size(q) == Overhead + FoldSeq(LAMBDA t, sum : Weight[t] + sum, 0, q)

\* Mutant: the weight of the block is checked without the new transaction.
TakenOneTooMany(s, q) ==
    CHOOSE n \in 0..Len(q) :
        /\ \A k \in 1..n : Size(Txs(s.txs) \o SubSeq(q, 1, k - 1)) <= MaxBlockSize
        /\ n < Len(q) => Size(Txs(s.txs) \o SubSeq(q, 1, n)) > MaxBlockSize

\* How many transactions of the queue q addTransactions takes into s: it
\* stops at the first one that would make the block too big.
Taken(s, q) ==
    CHOOSE n \in 0..Len(q) :
        /\ \A k \in 1..n : Size(Txs(s.txs) \o SubSeq(q, 1, k)) <= MaxBlockSize
        /\ n < Len(q) => Size(Txs(s.txs) \o SubSeq(q, 1, n + 1)) > MaxBlockSize

\* proposedTransactions.addTransactions: the new proposal.
AddTransactions(s, q) ==
    LET pre == SubSeq(q, 1, Taken(s, q))
    IN  [s EXCEPT !.sst = Tries(s.sst, pre)[Len(pre)],
                  !.txs = @ \o Results(s.sst, pre)]

IsEmpty(s) == s.txs = <<>> /\ s.newVersion = 0

\* proposedTransactions.copy forgets the version.
Copy(s) == [s EXCEPT !.newVersion = 0]

\* The roster of the configuration stored in a trie.
Roster(sst) == sst \intersect ConfigTx

\* ChainConfig.checkNewRoster: at most one node joins or leaves.
CheckNewRoster(config, roster) ==
    Cardinality((config \ roster) \union (roster \ config)) <= 1

-----------------------------------------------------------------------------
Init ==
    /\ ctxChan = <<>> /\ needUpgrade = <<>> /\ sender = 0
    /\ stopSignal = FALSE /\ submitted = 0
    /\ leader = "select" /\ newVersion = 0 /\ txQueue = <<>> /\ txHashes = <<>>
    /\ currentState = Empty({}) /\ arrived = <<>>
    /\ newBlock = <<>> /\ closed = FALSE /\ blockSent = 0
    /\ worker = "recv" /\ inState = Empty({})
    /\ ledger = {} /\ blocks = <<>> /\ proposed = <<>> /\ failures = 0

-----------------------------------------------------------------------------
(* Service.AddTransaction on the leader, for a client of version v.        *)

AddTransaction(t, v) ==
    /\ submitted < MaxSubmit
    /\ ~stopSignal
    /\ Weight[t] <= MaxBlockSize
    /\ sender = 0
    /\ Len(ctxChan) < CtxCap
    /\ ctxChan' = Append(ctxChan, t)
    /\ sender' = IF ChainVersion < v THEN v ELSE 0
    /\ submitted' = submitted + 1
    /\ UNCHANGED <<needUpgrade, stopSignal, leaderVars, newBlock, closed,
                   blockSent, workerVars, failures>>

\* The second channel operation of the same call, still under the mutex.
SendUpgrade ==
    /\ sender > 0
    /\ needUpgrade = <<>>
    /\ needUpgrade' = <<sender>>
    /\ sender' = 0
    /\ UNCHANGED <<ctxChan, stopSignal, submitted, leaderVars, newBlock, closed,
                   blockSent, workerVars, failures>>

\* cleanupGoroutines, DebugRemove or updateTrieCallback of an old leader.
Stop ==
    /\ MayStop
    /\ ~stopSignal
    /\ stopSignal' = TRUE
    /\ UNCHANGED <<ctxChan, needUpgrade, sender, submitted, leaderVars, newBlock,
                   closed, blockSent, workerVars, failures>>

-----------------------------------------------------------------------------
(* The leader loop: one action per case of its select, then the rest of    *)
(* the iteration.                                                          *)

LeaderStop ==
    /\ leader = "select"
    /\ stopSignal
    /\ closed' = TRUE
    /\ leader' = "wait"
    /\ UNCHANGED <<chanVars, newVersion, txQueue, txHashes, currentState, arrived,
                   newBlock, blockSent, workerVars, failures>>

LeaderBlockSent ==
    /\ leader = "select"
    /\ blockSent > 0
    /\ blockSent' = blockSent - 1
    /\ newVersion' = 0
    /\ leader' = "fill"
    /\ UNCHANGED <<chanVars, txQueue, txHashes, currentState, arrived, newBlock,
                   closed, workerVars, failures>>

LeaderUpgrade ==
    /\ leader = "select"
    /\ needUpgrade # <<>>
    /\ needUpgrade' = Tail(needUpgrade)
    /\ \/ /\ newVersion' = IF Head(needUpgrade) > ChainVersion
                           THEN Head(needUpgrade) ELSE newVersion
          /\ leader' = "fill"
          /\ UNCHANGED failures
       \/ \* GetVersion failed
          /\ failures < MaxFailures
          /\ failures' = failures + 1
          /\ UNCHANGED <<newVersion, leader>>
    /\ UNCHANGED <<ctxChan, sender, stopSignal, submitted, txQueue, txHashes,
                   currentState, arrived, newBlock, closed, blockSent, workerVars>>

\* Mutant: one hash too many is kept.
RememberTooMany(t) ==
    LET all == Append(txHashes, t)
    IN  IF Len(all) > MaxTxHashes + 1
        THEN SubSeq(all, Len(all) - MaxTxHashes, Len(all)) ELSE all

\* The hashes kept after t has been added.
Remember(t) ==
    LET all == Append(txHashes, t)
    IN  IF Len(all) > MaxTxHashes
        THEN SubSeq(all, Len(all) - MaxTxHashes + 1, Len(all)) ELSE all

LeaderTx ==
    /\ leader = "select"
    /\ ctxChan # <<>>
    /\ ctxChan' = Tail(ctxChan)
    /\ LET t == Head(ctxChan)
       IN  \/ /\ t \in ToSet(txHashes)
              /\ UNCHANGED <<leader, txHashes, txQueue, arrived>>
           \/ /\ t \notin ToSet(txHashes)
              /\ txHashes' = Remember(t)
              /\ txQueue' = Append(txQueue, t)
              /\ arrived' = Append(arrived, t)
              /\ leader' = "fill"
    /\ UNCHANGED <<needUpgrade, sender, stopSignal, submitted, newVersion,
                   currentState, newBlock, closed, blockSent, workerVars, failures>>

\* The proposal the iteration continues with: a pending one is fetched back.
Fetched == IF newBlock = <<>> THEN currentState ELSE Head(newBlock)

\* Mutant: the transactions of the replaced proposal are forgotten.
ProposeVersionOnly ==
    /\ newVersion > 0
    /\ newBlock' = <<[Empty(Fetched.sst) EXCEPT !.newVersion = newVersion]>>
    /\ currentState' = Fetched
    /\ UNCHANGED txQueue

\* Mutant: the recovered transactions go to the end of the queue.
ProposeVersionAppend ==
    /\ newVersion > 0
    /\ newBlock' = <<[Empty(Fetched.sst) EXCEPT !.newVersion = newVersion]>>
    /\ txQueue' = txQueue \o Txs(Fetched.txs)
    /\ currentState' = Fetched

\* A version proposal; the transactions of the fetched one are queued again.
ProposeVersion ==
    /\ newVersion > 0
    /\ newBlock' = <<[Empty(Fetched.sst) EXCEPT !.newVersion = newVersion]>>
    /\ txQueue' = Txs(Fetched.txs) \o txQueue
    /\ currentState' = Fetched

\* Mutant: after a proposal the next one starts again from the trie of the
\* fetched one, without the transactions just proposed.
FillBlockOldTrie ==
    LET s == AddTransactions(Fetched, txQueue)
    IN  /\ newVersion = 0
        /\ txQueue' = SubSeq(txQueue, Taken(Fetched, txQueue) + 1, Len(txQueue))
        /\ newBlock' = IF IsEmpty(s) THEN <<>> ELSE <<Copy(s)>>
        /\ currentState' = IF IsEmpty(s) THEN s ELSE Empty(Fetched.sst)

\* As many queued transactions as fit; an empty proposal is kept back.
FillBlock ==
    LET s == AddTransactions(Fetched, txQueue)
    IN  /\ newVersion = 0
        /\ txQueue' = SubSeq(txQueue, Taken(Fetched, txQueue) + 1, Len(txQueue))
        /\ newBlock' = IF IsEmpty(s) THEN <<>> ELSE <<Copy(s)>>
        /\ currentState' = IF IsEmpty(s) THEN s ELSE Empty(s.sst)

LeaderFill ==
    /\ leader = "fill"
    /\ ProposeVersion \/ FillBlock
    /\ leader' = "select"
    /\ UNCHANGED <<chanVars, newVersion, txHashes, arrived, closed, blockSent,
                   workerVars, failures>>

\* wg.Wait returns.
LeaderDone ==
    /\ leader = "wait"
    /\ worker = "done"
    /\ leader' = "done"
    /\ UNCHANGED <<chanVars, newVersion, txQueue, txHashes, currentState, arrived,
                   newBlock, closed, blockSent, workerVars, failures>>

-----------------------------------------------------------------------------
(* createBlocks and the processor's two proposals.                         *)

WorkerRecv ==
    /\ worker = "recv"
    /\ \/ /\ newBlock # <<>>
          /\ inState' = Head(newBlock)
          /\ newBlock' = <<>>
          /\ worker' = "propose"
       \/ /\ newBlock = <<>>
          /\ closed
          /\ worker' = "done"
          /\ UNCHANGED <<inState, newBlock>>
    /\ UNCHANGED <<chanVars, leaderVars, closed, blockSent, ledger, blocks,
                   proposed, failures>>

\* The committed trie with the transactions of the proposal applied.
StateAfter == LET q == Txs(inState.txs) IN Tries(ledger, q)[Len(q)]

\* Mutant: the block is made for the roster of the chain's current
\* configuration, before its own transactions.
BlockRosterBefore == Roster(ledger)

\* The roster in the block: the one in the proposal's own trie, or for an
\* upgrade the one of the latest block.
BlockRoster == IF inState.newVersion = 0 THEN Roster(inState.sst)
               ELSE IF blocks = <<>> THEN {} ELSE Last(blocks).roster

\* createNewBlock has transactions, and verifySkipBlock accepts the version
\* and the roster.
Acceptable ==
    /\ inState.newVersion = 0 => inState.txs # <<>>
    /\ inState.newVersion > 0 => inState.newVersion >= ChainVersion
    /\ CheckNewRoster(Roster(StateAfter), BlockRoster)

\* ProposeBlock or ProposeUpgradeBlock succeeds. createNewBlock recomputes the
\* results on the committed trie; an upgrade block carries no transactions.
WorkerPropose ==
    /\ worker = "propose"
    /\ Acceptable
    /\ blocks' = Append(blocks,
           [txs     |-> Results(ledger, Txs(inState.txs)),
            version |-> IF inState.newVersion > 0 THEN inState.newVersion ELSE ChainVersion,
            roster  |-> BlockRoster,
            config  |-> Roster(StateAfter)])
    /\ ledger' = StateAfter
    /\ worker' = "signal"
    /\ proposed' = proposed \o Txs(inState.txs)
    /\ UNCHANGED <<chanVars, leaderVars, newBlock, closed, blockSent, inState, failures>>

\* The proposal is refused, or the nodes do not sign it in time: the error is
\* logged and the transactions of the proposal are gone.
WorkerFail ==
    /\ worker = "propose"
    /\ \/ ~Acceptable /\ UNCHANGED failures
       \/ Acceptable /\ failures < MaxFailures /\ failures' = failures + 1
    /\ worker' = "signal"
    /\ proposed' = proposed \o Txs(inState.txs)
    /\ UNCHANGED <<chanVars, leaderVars, newBlock, closed, blockSent, inState,
                   ledger, blocks>>

\* Mutant: a proposal ends without telling the leader loop.
WorkerSignalNothing ==
    /\ worker = "signal"
    /\ worker' = "recv"
    /\ UNCHANGED <<chanVars, leaderVars, newBlock, closed, blockSent, inState,
                   ledger, blocks, proposed, failures>>

WorkerSignal ==
    /\ worker = "signal"
    /\ blockSent < 1
    /\ blockSent' = blockSent + 1
    /\ worker' = "recv"
    /\ UNCHANGED <<chanVars, leaderVars, newBlock, closed, inState, ledger, blocks,
                   proposed, failures>>

-----------------------------------------------------------------------------
Leader == \/ LeaderStop \/ LeaderBlockSent \/ LeaderUpgrade \/ LeaderTx
          \/ LeaderFill \/ LeaderDone
Worker == WorkerRecv \/ WorkerPropose \/ WorkerFail \/ WorkerSignal

Next ==
    \/ \E t \in Tx, v \in Version : AddTransaction(t, v)
    \/ SendUpgrade \/ Stop
    \/ Leader
    \/ Worker

\* Go schedules every routine that can run, and its select takes a ready case
\* at random, so a case that stays ready is taken. Callers and the stop
\* signal come from outside and are not fair.
Fairness ==
    /\ WF_vars(Leader) /\ WF_vars(Worker) /\ WF_vars(SendUpgrade)
    /\ SF_vars(LeaderStop) /\ SF_vars(LeaderBlockSent)

Spec == Init /\ [][Next]_vars /\ Fairness

-----------------------------------------------------------------------------
(* Properties.                                                             *)

\* Type invariant: the channels respect their capacities, and proposals are
\* proposedTransactions.
TypeOK ==
    /\ ctxChan \in Seq(Tx) /\ Len(ctxChan) <= CtxCap
    /\ needUpgrade \in Seq(Version) /\ Len(needUpgrade) <= 1
    /\ sender \in Version /\ stopSignal \in BOOLEAN
    /\ leader \in {"select", "fill", "wait", "done"}
    /\ newVersion \in Version
    /\ txQueue \in Seq(Tx)
    /\ txHashes \in Seq(Tx) /\ Len(txHashes) <= MaxTxHashes
    /\ currentState \in Proposal /\ inState \in Proposal
    /\ newBlock \in Seq(Proposal) /\ Len(newBlock) <= 1
    /\ closed \in BOOLEAN /\ blockSent \in 0..1
    /\ worker \in {"recv", "propose", "signal", "done"}
    /\ ledger \subseteq Tx

Pending == IF newBlock = <<>> THEN {} ELSE ToSet(Txs(Head(newBlock).txs))
InFlight == IF worker = "propose" THEN ToSet(Txs(inState.txs)) ELSE {}

\* A transaction the leader loop has taken from ctxChan is still queued, in the
\* pending proposal, being proposed, or has been proposed: neither fetching a
\* pending proposal back nor replacing it by a version proposal (start, lines
\* 110-132) drops one.
NoTxLost ==
    ToSet(arrived) \subseteq
        ToSet(txQueue) \union Pending \union InFlight \union ToSet(proposed)

First(q, t) == CHOOSE i \in DOMAIN q : q[i] = t /\ \A j \in 1..(i - 1) : q[j] # t

\* Transactions are proposed in the order in which the leader loop received
\* them, whatever versions are proposed in between: the signer counters of a
\* client's second transaction are only valid after its first.
ProposedInOrder ==
    \A t, u \in ToSet(arrived) :
        /\ u \in ToSet(proposed)
        /\ First(arrived, t) < First(arrived, u)
        => /\ t \in ToSet(proposed)
           /\ First(proposed, t) < First(proposed, u)

\* No proposal, pending or in flight, exceeds the maximal block size, although
\* it is extended in place while it waits (addTransactions, lines 333-337).
BlockFits ==
    \A s \in {inState} \union ToSet(newBlock) :
        s.txs # <<>> => Size(Txs(s.txs)) <= MaxBlockSize

\* "The older states must be committed before the newer state can be used"
\* (txProcessor.ProcessTx, lines 182-186): the results the leader computed
\* ahead of time are the ones createNewBlock computes on the committed trie.
CommittedBeforeUsed ==
    [][blocks' # blocks => Last(blocks').txs = inState.txs]_vars

\* verifySkipBlock checks "whether the roster in newSB matches the config"
\* (service.go:2118): the roster of every block is the one of the
\* configuration it leads to.
RosterMatchesConfig ==
    \A i \in DOMAIN blocks : blocks[i].roster = blocks[i].config

\* Every transaction the leader loop has queued is eventually proposed.
TxEventuallyProposed ==
    \A t \in Tx : t \in ToSet(txQueue) ~> t \in ToSet(proposed)

\* Once stopped, the pipeline ends: "TestClose closes the go-routines that are
\* polling for transactions" (service.go:2616) and waits for them.
StopTerminates == stopSignal ~> leader = "done"
=============================================================================
