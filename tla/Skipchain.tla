------------------------------ MODULE Skipchain ------------------------------
(***************************************************************************)
(* How a block is added to a skipchain (skipchain/skipchain.go): the leader *)
(* of a round proposes it, a threshold of the roster verifies it and then   *)
(* acknowledges it (the two phases of byzcoinx/byzcoinx.go), and the signed *)
(* forward link is propagated and stored together with the block            *)
(* (skipchain/struct.go). Nodes restart, requests and links arrive late or  *)
(* never, and nodes that missed blocks fetch them from another one.         *)
(*                                                                         *)
(* Only links of level 0 are modelled, and the roster keeps its members.    *)
(* A block is named by its number in the order of the proposals, and the    *)
(* forward link to block b, which comes from the block before b, by b.      *)
(***************************************************************************)
EXTENDS Integers, FiniteSets, Sequences

CONSTANTS
    Node,          \* the roster
    Proposer,      \* nodes that act as leader: several of them around a
                   \* view-change, when the old one still thinks it leads
    SlowLeader,    \* whether the leader's own verification of a block may
                   \* still run when its round has timed out
    Restarting,    \* bound: nodes that restart
    MaxProposals,  \* bound: number of proposed blocks
    MaxRestarts    \* bound: number of restarts

Genesis == 0
Block == 0..MaxProposals

ASSUME SkipchainAssumption ==
    /\ IsFiniteSet(Node)
    /\ Proposer \subseteq Node
    /\ Restarting \subseteq Node
    /\ SlowLeader \in BOOLEAN
    /\ MaxProposals \in Nat
    /\ MaxRestarts \in Nat

VARIABLES
    blocks,    \* the proposals: the leader, the block before and all blocks before
    db,        \* db[n]: the blocks in the database of node n
    links,     \* links[n]: the blocks that a forward link in it points to
    latest,    \* latest[n]: db.latestBlocks
    checking,  \* checking[n]: blocks whose verification is running
    verified,  \* verified[n]: verifyNewBlockBuffer
    buffer,    \* buffer[n]: blockBuffer, at most one block
    phase,     \* phase[n]: where the round that n leads is
    adding,    \* adding[n]: the block of that round
    signed,    \* signed[n]: the signatures that n has in the phase it leads
    signers,   \* signers[b]: the mask in the signature of the link to b
    sent,      \* blocks whose signed link was sent out
    restarts

dbVars == <<db, links, latest>>
sigVars == <<signers, sent>>
nodeVars == <<checking, verified, buffer>>
roundVars == <<phase, adding, signed>>
vars == <<blocks, dbVars, nodeVars, roundVars, sigVars, restarts>>

\* byzcoinx.Threshold
Threshold == Cardinality(Node) - (Cardinality(Node) - 1) \div 3

Made == 1..Len(blocks)
Prev(b) == blocks[b].prev
Back(b) == IF b = Genesis THEN {} ELSE blocks[b].back
Index(b) == Cardinality(Back(b))

HasFollower(n, x) == \E b \in links[n] : Prev(b) = x

Init ==
    /\ blocks = <<>>
    /\ db = [n \in Node |-> {Genesis}]
    /\ links = [n \in Node |-> {}]
    /\ latest = [n \in Node |-> Genesis]
    /\ checking = [n \in Node |-> {}]
    /\ verified = [n \in Node |-> {}]
    /\ buffer = [n \in Node |-> {}]
    /\ phase = [n \in Node |-> "idle"]
    /\ adding = [n \in Node |-> Genesis]
    /\ signed = [n \in Node |-> {}]
    /\ signers = [b \in Block |-> {}]
    /\ sent = {}
    /\ restarts = 0

-----------------------------------------------------------------------------
(* SkipBlockDB.StoreBlocks. A block that is known only gets the links it    *)
(* does not have; a new one moves the cached latest block if it is higher.  *)

\* Mutant: the link of a known block is replaced.
NewLinksReplace(n, S) == links[n] \union S

NewLinks(n, S) == links[n] \union {b \in S : ~HasFollower(n, Prev(b))}

\* Mutant: the index has to be higher by two.
HigherOffByOne(n, S) ==
    IF \A b \in S : Index(b) <= Index(latest[n]) + 1 THEN latest[n]
    ELSE CHOOSE b \in S : \A c \in S : Index(c) <= Index(b)

Higher(n, S) ==
    IF \A b \in S : Index(b) <= Index(latest[n]) THEN latest[n]
    ELSE CHOOSE b \in S : \A c \in S : Index(c) <= Index(b)

\* Mutant: the genesis block of a fetched chain counts as linked to as well.
StoreBlocksGenesisToo(n, S) ==
    /\ db' = [db EXCEPT ![n] = @ \union S]
    /\ links' = [links EXCEPT ![n] = @ \union S]
    /\ latest' = [latest EXCEPT ![n] = Higher(n, S \ db[n])]

StoreBlocks(n, S) ==
    /\ db' = [db EXCEPT ![n] = @ \union S]
    /\ links' = [links EXCEPT ![n] = NewLinks(n, S \ {Genesis})]
    /\ latest' = [latest EXCEPT ![n] = Higher(n, S \ db[n])]

\* What a node serves to others: the blocks its forward links lead to.
Chain(n) == {b \in db[n] : (Back(b) \union {b}) \ {Genesis} \subseteq links[n]}

-----------------------------------------------------------------------------
(* The leader's side of a round: StoreSkipBlockInternal, which holds the    *)
(* lock of the chain, forwardLinkLevel0 and ByzCoinX.                       *)

\* A block after the latest one is proposed; the leader starts to verify it.
Propose(p) ==
    LET b == Len(blocks) + 1
        x == latest[p]
    IN  /\ p \in Proposer
        /\ phase[p] = "idle"
        /\ Len(blocks) < MaxProposals
        /\ ~HasFollower(p, x)
        /\ blocks' = Append(blocks, [leader |-> p, prev |-> x, back |-> Back(x) \union {x}])
        /\ phase' = [phase EXCEPT ![p] = "prepare"]
        /\ adding' = [adding EXCEPT ![p] = b]
        /\ checking' = [checking EXCEPT ![p] = @ \union {b}]
        /\ UNCHANGED <<dbVars, verified, buffer, signed, sigVars, restarts>>

\* Mutant: half of the roster signs.
EnoughHalf(p) == 2 * Cardinality(signed[p]) >= Cardinality(Node)

Enough(p) == Cardinality(signed[p]) >= Threshold

\* The prepare signature is complete; the leader acknowledges first.
StartCommit(p) ==
    LET b == adding[p]
    IN  /\ phase[p] = "prepare"
        /\ Enough(p)
        /\ b \in verified[p]
        /\ phase' = [phase EXCEPT ![p] = "commit"]
        /\ signed' = [signed EXCEPT ![p] = {p}]
        /\ verified' = [verified EXCEPT ![p] = @ \ {b}]
        /\ UNCHANGED <<blocks, dbVars, checking, buffer, adding, sigVars, restarts>>

\* The commit signature is complete, and no other link got signed meanwhile.
FinishCommit(p) ==
    LET b == adding[p]
    IN  /\ phase[p] = "commit"
        /\ Enough(p)
        /\ ~HasFollower(p, Prev(b))
        /\ phase' = [phase EXCEPT ![p] = "store"]
        /\ signed' = [signed EXCEPT ![p] = {}]
        /\ signers' = [signers EXCEPT ![b] = signed[p]]
        /\ UNCHANGED <<blocks, dbVars, nodeVars, adding, sent, restarts>>

\* Not enough nodes sign in time, or another link was stored during signing.
\* The verifications that the round has started go on.
Fail(p) ==
    /\ phase[p] \in {"prepare", "commit"}
    /\ SlowLeader \/ adding[p] \notin checking[p]
    /\ phase' = [phase EXCEPT ![p] = "idle"]
    /\ signed' = [signed EXCEPT ![p] = {}]
    /\ buffer' = [buffer EXCEPT ![p] = {}]
    /\ UNCHANGED <<blocks, dbVars, checking, verified, adding, sigVars, restarts>>

\* propagateForwardLinkHandler: the link is stored if the block it points to
\* is the one in the buffer, which is cleared afterwards.
HandleForwardLink(n, b) ==
    \/ /\ Prev(b) \in db[n] /\ buffer[n] = {b}
       /\ StoreBlocks(n, {b})
       /\ buffer' = [buffer EXCEPT ![n] = {}]
    \/ /\ ~(Prev(b) \in db[n] /\ buffer[n] = {b})
       /\ UNCHANGED <<dbVars, buffer>>

\* Mutant: the link is sent to the other nodes, the leader's own handler runs
\* like theirs.
PropagateUnstored(p) ==
    LET b == adding[p]
    IN  /\ phase[p] = "store"
        /\ sent' = sent \union {b}
        /\ phase' = [phase EXCEPT ![p] = "spread"]
        /\ UNCHANGED <<blocks, dbVars, nodeVars, adding, signed, signers, restarts>>

\* Propagate.Dispatch at the root: the handler runs before the link is sent
\* to the children, whether or not it returns an error.
Propagate(p) ==
    LET b == adding[p]
    IN  /\ phase[p] = "store"
        /\ HandleForwardLink(p, b)
        /\ sent' = sent \union {b}
        /\ phase' = [phase EXCEPT ![p] = "spread"]
        /\ UNCHANGED <<blocks, checking, verified, adding, signed, signers, restarts>>

\* The children have answered or the propagation has timed out.
EndRound(p) ==
    /\ phase[p] = "spread"
    /\ phase' = [phase EXCEPT ![p] = "idle"]
    /\ UNCHANGED <<blocks, dbVars, nodeVars, adding, signed, sigVars, restarts>>

-----------------------------------------------------------------------------
(* The other nodes, and all nodes outside of a round.                       *)

\* bftForwardLinkLevel0, up to the verification functions, for a block that its
\* leader has verified and sent: the request may arrive after the round is over.
\* A node without the block before asks another one, m.
Check(n, b, m) ==
    /\ b \in verified[blocks[b].leader]
    /\ b \notin verified[n] \union checking[n]
    /\ \/ /\ Prev(b) \in db[n]
          /\ ~HasFollower(n, Prev(b))
          /\ m = n
          /\ UNCHANGED dbVars
       \/ /\ Prev(b) \notin db[n]
          /\ Prev(b) \in Chain(m)
          /\ \A c \in (Chain(m) \ {Genesis}) \union links[n] : Prev(c) # Prev(b)
          /\ StoreBlocks(n, Chain(m))
    /\ checking' = [checking EXCEPT ![n] = @ \union {b}]
    /\ UNCHANGED <<blocks, verified, buffer, roundVars, sigVars, restarts>>

\* The rest of it, possibly long after the round is over: the signature counts
\* only if the leader still waits for it.
Prepare(n, b) ==
    LET p == blocks[b].leader
    IN  /\ checking' = [checking EXCEPT ![n] = @ \ {b}]
        /\ verified' = [verified EXCEPT ![n] = @ \union {b}]
        /\ buffer' = [buffer EXCEPT ![n] = {b}]
        /\ signed' = IF phase[p] = "prepare" /\ b = adding[p]
                     THEN [signed EXCEPT ![p] = @ \union {n}] ELSE signed
        /\ UNCHANGED <<blocks, dbVars, phase, adding, sigVars, restarts>>

\* bftForwardLinkLevel0Ack. After the round it would change nothing but the
\* entry, which nothing else reads.
Ack(n, p) ==
    /\ phase[p] = "commit" /\ n # p
    /\ adding[p] \in verified[n]
    /\ verified' = [verified EXCEPT ![n] = @ \ {adding[p]}]
    /\ signed' = [signed EXCEPT ![p] = @ \union {n}]
    /\ UNCHANGED <<blocks, dbVars, checking, buffer, phase, adding, sigVars, restarts>>

\* The link reaches a child of the propagation.
ReceiveLink(n, b) ==
    /\ n # blocks[b].leader
    /\ HandleForwardLink(n, b)
    /\ UNCHANGED <<blocks, checking, verified, roundVars, sigVars, restarts>>

\* propagateProofHandler, and SyncChain started by ByzCoin: n gets the chain
\* of node m.
Sync(n, m) ==
    /\ ~(Chain(m) \subseteq db[n])
    /\ StoreBlocks(n, Chain(m))
    /\ UNCHANGED <<blocks, nodeVars, roundVars, sigVars, restarts>>

\* A node restarts: only the database is left, and GetLatest follows its links
\* from the genesis block.
Restart(n) ==
    /\ n \in Restarting
    /\ restarts < MaxRestarts
    /\ restarts' = restarts + 1
    /\ checking' = [checking EXCEPT ![n] = {}]
    /\ verified' = [verified EXCEPT ![n] = {}]
    /\ buffer' = [buffer EXCEPT ![n] = {}]
    /\ phase' = [phase EXCEPT ![n] = "idle"]
    /\ signed' = [signed EXCEPT ![n] = {}]
    /\ latest' = [latest EXCEPT ![n] =
                    CHOOSE b \in Chain(n) : ~HasFollower(n, b)]
    /\ UNCHANGED <<blocks, db, links, adding, sigVars>>

-----------------------------------------------------------------------------
Next ==
    \/ \E n \in Node :
        \/ Propose(n) \/ StartCommit(n) \/ FinishCommit(n) \/ Fail(n)
        \/ Propagate(n) \/ EndRound(n)
        \/ \E b \in Made, m \in Node : Check(n, b, m)
        \/ \E b \in checking[n] : Prepare(n, b)
        \/ \E p \in Node : Ack(n, p)
        \/ \E b \in sent : ReceiveLink(n, b)
        \/ \E m \in Node : Sync(n, m)
        \/ Restart(n)

Spec == Init /\ [][Next]_vars

-----------------------------------------------------------------------------
(* Properties.                                                             *)

\* The types of the databases, buffers and rounds.
TypeOK ==
    /\ blocks \in Seq([leader : Proposer, prev : Block, back : SUBSET Block])
    /\ Len(blocks) <= MaxProposals
    /\ db \in [Node -> SUBSET Block]
    /\ links \in [Node -> SUBSET (1..MaxProposals)]
    /\ latest \in [Node -> Block]
    /\ checking \in [Node -> SUBSET Block]
    /\ verified \in [Node -> SUBSET Block]
    /\ buffer \in [Node -> SUBSET Block]
    /\ phase \in [Node -> {"idle", "prepare", "commit", "store", "spread"}]
    /\ adding \in [Node -> Block]
    /\ signed \in [Node -> SUBSET Node]
    /\ signers \in [Block -> SUBSET Node]
    /\ sent \subseteq Block

\* "Skipchains never change and don't allow for split views" (README.md:36): no
\* two nodes have forward links from one block to different ones (StoreBlocks,
\* struct.go:859), so that a leader that restarts or whose round fails at any
\* moment does not get a second block signed after one that was sent out.
NoSplitView ==
    \A n, m \in Node : \A a \in links[n], b \in links[m] :
        Prev(a) = Prev(b) => a = b

\* Even when several nodes lead, two links from one block share the signatures
\* of more than a third of the roster (byzcoinx.Threshold): with less than that
\* many nodes signing twice, the chain does not split.
SplitIsSigned ==
    \A n, m \in Node : \A a \in links[n], b \in links[m] :
        Prev(a) = Prev(b) =>
            3 * Cardinality(signers[a] \intersect signers[b]) > Cardinality(Node)

\* Whatever the others do, a node keeps the links it has, and never has two from
\* the same block (StoreBlocks, struct.go:872).
NodeFinal ==
    [][\A n \in Node :
         /\ links[n] \subseteq links'[n]
         /\ \A a, b \in links'[n] : blocks'[a].prev = blocks'[b].prev => a = b]_vars

\* The cached latest block (latestUpdate, struct.go:1010) is the last one of the
\* node's chain, after any mixture of links, syncs and restarts.
LatestIsTip == \A n \in Node : latest[n] \in Chain(n) /\ ~HasFollower(n, latest[n])
=============================================================================
