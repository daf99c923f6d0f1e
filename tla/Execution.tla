----------------------------- MODULE Execution ------------------------------
(***************************************************************************)
(* How a node executes the transactions of proposed and of agreed blocks   *)
(* (createStateChanges in byzcoin/service.go), with the cache of one       *)
(* result that the verification of a block leaves for its callback         *)
(* (statechange_cache.go), and how a chain is replayed from its blocks     *)
(* without that cache (statereplay.go).                                    *)
(*                                                                         *)
(* The state of the trie is the counter of each signer and what contracts  *)
(* have written of the block's time; its root is the state itself.  Blocks *)
(* are numbered from 1, the state before block 1 is that of the genesis    *)
(* block.  The leader is another node.                                     *)
(***************************************************************************)
EXTENDS Integers, Sequences

CONSTANTS ExTxs,        \* transactions: sequences of instructions [who, n, timed]
          ExSigners,
          ExMaxTxs,     \* bound: transactions of a block
          ExMaxBlocks,  \* bound: blocks
          ExTimes,      \* timestamps a leader may give a block
          ExMaxDownloads

\* AddTransaction refuses a transaction without instructions; no block is of time 0.
ASSUME ExecutionAssumption ==
    /\ {ExMaxTxs, ExMaxBlocks, ExMaxDownloads} \subseteq Nat /\ 0 \notin ExTimes
    /\ ExTxs \subseteq Seq([who : ExSigners, n : Nat, timed : BOOLEAN]) \ {<< >>}

VARIABLES exChain,       \* the agreed blocks [txs, root, scs, time]
          exProposal,    \* the proposed block, or no block
          exState,       \* the node's state trie
          exIndex,       \* and the block it belongs to
          exCache,       \* stateChangeCache
          exReplay,      \* a running or ended replay
          exFailed,      \* history: the node refused an honest proposal, or could not apply a block
          exRetimed,     \* history: transactions that depend on the time were proposed twice
          exDownloads    \* history: how often the trie was downloaded

exVars == <<exChain, exProposal, exState, exIndex, exCache, exReplay, exFailed, exRetimed, exDownloads>>

Genesis == [counters |-> [s \in ExSigners |-> 0], clock |-> 0]
NoChanges == [counters |-> << >>, clock |-> 0]
NoResult == [digest |-> << >>, root |-> Genesis, txOut |-> << >>, states |-> NoChanges]
NoProposal == [txs |-> << >>, root |-> Genesis, scs |-> NoChanges, time |-> 0]
StateAt(i) == IF i = 0 THEN Genesis ELSE exChain[i].root
Tip == Len(exChain)

-----------------------------------------------------------------------------
(* Executing transactions.                                                 *)
ExecuteInstruction(r, in, time) ==
    IF ~r.ok \/ in.n # r.st.counters[in.who] + 1 THEN [r EXCEPT !.ok = FALSE]
    ELSE [r EXCEPT !.st.counters[in.who] = in.n, !.st.clock = IF in.timed THEN time ELSE @]
\* All instructions, or nothing.
ExecuteAll(st, tx, time) ==
    LET after[n \in 0 .. Len(tx)] ==
            IF n = 0 THEN [ok |-> TRUE, st |-> st] ELSE ExecuteInstruction(after[n - 1], tx[n], time)
    IN  after[Len(tx)]
ExecuteTx(st, tx, time) ==
    LET r == ExecuteAll(st, tx, time)
    IN  [ok |-> r.ok, st |-> IF r.ok THEN r.st ELSE st]
ExecuteNext(a, tx, time) ==
    LET r == ExecuteTx(a.st, tx, time)
    IN  [st |-> r.st, out |-> Append(a.out, [tx |-> tx, ok |-> r.ok]), changes |-> a.changes \/ r.ok]
Execute(st, txs, time) ==
    LET after[n \in 0 .. Len(txs)] ==
            IF n = 0 THEN [st |-> st, out |-> << >>, changes |-> FALSE]
            ELSE ExecuteNext(after[n - 1], txs[n], time)
    IN  after[Len(txs)]
\* The state changes: what they write, to be stored in whatever trie there is.
StateChanges(old, new) ==
    [counters |-> [s \in {x \in ExSigners : new.counters[x] # old.counters[x]} |-> new.counters[s]],
     clock |-> IF new.clock # old.clock THEN new.clock ELSE 0]
StoreAll(st, scs) ==
    [counters |-> [s \in ExSigners |-> IF s \in DOMAIN scs.counters THEN scs.counters[s] ELSE st.counters[s]],
     clock |-> IF scs.clock # 0 THEN scs.clock ELSE st.clock]
Txs(results) == [i \in DOMAIN results |-> results[i].tx]

CacheUpdate(out, root, scs) == [digest |-> out, root |-> root, txOut |-> out, states |-> scs]
\* Mutant: the cache is asked for the chain alone.
AnyDigest(cache, results) == cache # NoResult
CacheHit(cache, results) == cache # NoResult /\ cache.digest = results
\* The digest is over transactions and whether they are accepted, not over the
\* state they are executed on nor the time.
createStateChanges(st, results, time) ==
    IF CacheHit(exCache, results) THEN [root |-> exCache.root, out |-> exCache.txOut, scs |-> exCache.states, cache |-> exCache]
    ELSE LET e == Execute(st, Txs(results), time)
             scs == StateChanges(st, e.st)
         IN  [root |-> e.st, out |-> e.out, scs |-> scs,
              cache |-> IF e.changes THEN CacheUpdate(e.out, e.st, scs) ELSE exCache]

-----------------------------------------------------------------------------
(* Blocks.                                                                 *)
Timed(results) == \E i \in DOMAIN results : results[i].ok /\ \E j \in DOMAIN results[i].tx : results[i].tx[j].timed
Propose(txs, time) ==
    LET e == Execute(StateAt(Tip), txs, time) IN
    /\ exProposal = NoProposal /\ Tip < ExMaxBlocks
    /\ exProposal' = [txs |-> e.out, root |-> e.st, scs |-> StateChanges(StateAt(Tip), e.st), time |-> time]
    /\ exRetimed' = (exRetimed \/ (Timed(e.out) /\ exCache.txOut = e.out /\ exCache.root.clock # time))
    /\ UNCHANGED <<exChain, exState, exIndex, exCache, exReplay, exFailed, exDownloads>>
\* verifySkipBlock, when the node has the state before the block.
VerifyProposal ==
    /\ exProposal # NoProposal /\ exIndex = Tip
    /\ LET r == createStateChanges(exState, exProposal.txs, exProposal.time)
       IN  /\ exCache' = r.cache
           /\ exFailed' = (exFailed \/ r.out # exProposal.txs \/ r.root # exProposal.root \/ r.scs # exProposal.scs)
    /\ UNCHANGED <<exChain, exProposal, exState, exIndex, exReplay, exRetimed, exDownloads>>
\* Too few nodes sign, or the leader changes.
Abandon ==
    /\ exProposal # NoProposal /\ exProposal' = NoProposal
    /\ UNCHANGED <<exChain, exState, exIndex, exCache, exReplay, exFailed, exRetimed, exDownloads>>
Agree ==
    /\ exProposal # NoProposal /\ exProposal' = NoProposal /\ exChain' = Append(exChain, exProposal)
    /\ UNCHANGED <<exState, exIndex, exCache, exReplay, exFailed, exRetimed, exDownloads>>
\* updateTrieCallback, and repairStateTrie: the trie is rolled back when the root is wrong.
ApplyBlock ==
    /\ exIndex < Tip
    /\ LET b == exChain[exIndex + 1]
           r == createStateChanges(exState, b.txs, b.time)
       IN  /\ exCache' = r.cache
           /\ IF StoreAll(exState, r.scs) = b.root THEN exState' = b.root /\ exIndex' = exIndex + 1 /\ UNCHANGED exFailed
              ELSE exFailed' = TRUE /\ UNCHANGED <<exState, exIndex>>
    /\ UNCHANGED <<exChain, exProposal, exReplay, exRetimed, exDownloads>>
\* downloadDB: the state comes without executing anything.
Download ==
    /\ exIndex < Tip /\ exDownloads < ExMaxDownloads /\ exDownloads' = exDownloads + 1
    /\ exState' = StateAt(Tip) /\ exIndex' = Tip
    /\ UNCHANGED <<exChain, exProposal, exCache, exReplay, exFailed, exRetimed>>
ExRestart ==
    /\ exCache # NoResult /\ exCache' = NoResult
    /\ UNCHANGED <<exChain, exProposal, exState, exIndex, exReplay, exFailed, exRetimed, exDownloads>>

-----------------------------------------------------------------------------
(* ReplayState: from the genesis block, or from a copy of the node's trie. *)
NoReplay == [at |-> "none", block |-> 0, st |-> Genesis, left |-> 0]
ReplayState(copy, blocks) ==
    /\ exReplay.at = "none"
    /\ exReplay' = LET first == IF copy THEN exIndex + 1 ELSE 1
                       st == IF copy THEN exState ELSE Genesis
                   IN  [at |-> IF first > Tip THEN "nothing" ELSE "running", block |-> first, st |-> st,
                        left |-> IF blocks < 0 THEN Tip ELSE blocks]
    /\ UNCHANGED <<exChain, exProposal, exState, exIndex, exCache, exFailed, exRetimed, exDownloads>>
ReplayTx(r, res, time) ==
    LET p == ExecuteTx(r.st, res.tx, time)
    IN  [ok |-> r.ok /\ p.ok = res.ok, st |-> IF res.ok THEN p.st ELSE r.st]
ReplayTxs(st, b) ==
    LET after[n \in 0 .. Len(b.txs)] ==
            IF n = 0 THEN [ok |-> TRUE, st |-> st] ELSE ReplayTx(after[n - 1], b.txs[n], b.time)
    IN  after[Len(b.txs)]
ReplayBlock ==
    /\ exReplay.at = "running"
    /\ LET b == exChain[exReplay.block]
           r == ReplayTxs(exReplay.st, b)
       IN  exReplay' =
             IF exReplay.left = 0 THEN [exReplay EXCEPT !.at = "done", !.block = @ - 1]
             ELSE IF ~r.ok \/ r.st # b.root THEN [exReplay EXCEPT !.at = "failed"]
             ELSE IF exReplay.block = Tip THEN [exReplay EXCEPT !.at = "done", !.st = r.st]
             ELSE [exReplay EXCEPT !.block = @ + 1, !.st = r.st, !.left = @ - 1]
    /\ UNCHANGED <<exChain, exProposal, exState, exIndex, exCache, exFailed, exRetimed, exDownloads>>

ExInit ==
    /\ exChain = << >> /\ exProposal = NoProposal /\ exState = Genesis /\ exIndex = 0 /\ exCache = NoResult
    /\ exReplay = NoReplay /\ exFailed = FALSE /\ exRetimed = FALSE /\ exDownloads = 0
ExNext ==
    \/ \E txs \in UNION {[1 .. n -> ExTxs] : n \in 1 .. ExMaxTxs}, time \in ExTimes : Propose(txs, time)
    \/ VerifyProposal \/ Abandon \/ Agree \/ ApplyBlock \/ Download \/ ExRestart
    \/ \E copy \in BOOLEAN, n \in -1 .. 1 : ReplayState(copy, n)
    \/ ReplayBlock

-----------------------------------------------------------------------------
ExTypeOK ==
    /\ Tip <= ExMaxBlocks /\ exIndex \in 0 .. Tip /\ exFailed \in BOOLEAN /\ exRetimed \in BOOLEAN
    /\ exReplay.at \in {"none", "nothing", "running", "done", "failed"} /\ exReplay.block \in 0 .. Tip + 1
    /\ exDownloads \in 0 .. ExMaxDownloads

(* A node that has the state before a block never refuses an honest block  *)
(* nor fails to apply an agreed one because of what an abandoned proposal  *)
(* left in the cache, whatever was proposed, verified and abandoned before *)
(* (createStateChanges, stateChangeCache), but for two cases: its trie was *)
(* downloaded since, or transactions that depend on the time of the block  *)
(* were proposed again with another time.  And a replay never fails: it    *)
(* ends in the state of the last block it went through (ReplayState).      *)
ExecutionAgrees ==
    /\ exFailed => exRetimed \/ exDownloads > 0
    /\ exState = StateAt(exIndex)
    /\ exReplay.at # "failed" /\ (exReplay.at = "done" => exReplay.st = StateAt(exReplay.block))
=============================================================================
