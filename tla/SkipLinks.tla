------------------------------ MODULE SkipLinks ------------------------------
(***************************************************************************)
(* Forward links of all levels of one chain, the shortest proofs they give *)
(* and the catch-up along them.  The chain does not fork (Skipchain is     *)
(* about that), so a block is its index and a forward link is the index it *)
(* points to.  A node's database maps the blocks it has to their lists of  *)
(* forward links, where a list may have holes: a link of level 2 that      *)
(* arrives before the one of level 1 is stored after an empty link.        *)
(***************************************************************************)
EXTENDS Integers, FiniteSets, Sequences, FiniteSetsExt, SequencesExt

CONSTANTS LinkNodes,      \* the conodes of the roster
          LinkLeader,     \* the node at the start of the roster
          LinkThreshold,  \* signatures a link needs
          BaseHeight, MaximumHeight,
          MaxIndex        \* bound: index of the last block

ASSUME LinksAssumption ==
    /\ LinkLeader \in LinkNodes
    /\ LinkThreshold \in 1 .. Cardinality(LinkNodes)
    /\ BaseHeight \in Nat \ {0, 1} /\ MaximumHeight \in Nat \ {0} /\ MaxIndex \in Nat

EmptyLink == -1
Indexes == 0 .. MaxIndex
Power[h \in Nat] == IF h = 0 THEN 1 ELSE BaseHeight * Power[h - 1]

\* Height of a new block: how often the index can be divided by the base.
HeightOf(i) ==
    IF i = 0 THEN MaximumHeight
    ELSE Max({h \in 1 .. MaximumHeight : i % Power[h - 1] = 0})
\* The back-link of level h: the closest block before i that is high enough.
BackLink(i, h) == Max({j \in 0 .. i - 1 : HeightOf(j) > h})
BackLinks(i) == {BackLink(i, h) : h \in 0 .. HeightOf(i) - 1}

\* Highest level that can be followed from block i towards the target.
Level(d) == Max({h \in 0 .. MaxIndex : Power[h] <= d})
PathHeight(i, target) == Min({Level(target - i), HeightOf(i) - 1})
PathIndex(i, target) == i + Power[PathHeight(i, target)]

AddForwardLink(links, to, h) ==
    [k \in 1 .. Max({Len(links), h + 1}) |->
        IF k = h + 1 THEN to ELSE IF k <= Len(links) THEN links[k] ELSE EmptyLink]

-----------------------------------------------------------------------------
(* The database d of a node.                                               *)
Blocks(d) == DOMAIN d
Tip(d) == Max(Blocks(d))

HasForwardLink(d, i) ==
    \/ i = 0
    \/ \E h \in 0 .. HeightOf(i) - 1 :
        LET prev == BackLink(i, h)
        IN  prev \in Blocks(d) /\ Len(d[prev]) > h /\ d[prev][h + 1] = i

\* A known block only gets the links beyond the ones it has, and only those
\* whose level fits the distance of a target that is there.
NewLinks(d, b) ==
    {k \in Len(d[b.i]) + 1 .. Len(b.links) :
        /\ b.links[k] # EmptyLink
        /\ b.links[k] \in Blocks(d) => Level(b.links[k] - b.i) = k - 1
        /\ k <= HeightOf(b.i)}
Merged(d, b) ==
    LET new == NewLinks(d, b)
    IN  IF new = {} THEN d[b.i]
        ELSE [k \in 1 .. Max(new) |->
                IF k <= Len(d[b.i]) THEN d[b.i][k]
                ELSE IF k \in new THEN b.links[k] ELSE EmptyLink]

\* One transaction: a block that nothing links to undoes all of it.
StoreBlocks(d, blocks) ==
    LET linked(k) ==
            \/ blocks[k].i \in Blocks(d)
            \/ HasForwardLink(d, blocks[k].i)
            \/ \E j \in 1 .. k - 1 : blocks[k].i \in ToSet(blocks[j].links)
        add(e, b) == [i \in Blocks(e) \union {b.i} |->
                        IF i # b.i THEN e[i] ELSE IF i \in Blocks(e) THEN Merged(e, b) ELSE b.links]
        after[k \in 0 .. Len(blocks)] == IF k = 0 THEN d ELSE add(after[k - 1], blocks[k])
    IN  IF \A k \in DOMAIN blocks : linked(k) /\ Len(blocks[k].links) <= HeightOf(blocks[k].i)
        THEN after[Len(blocks)] ELSE d

\* The blocks from start on, each the next of the one before; a block that is
\* its own next is the last.
Walk(next, start) ==
    LET at[k \in Indexes] == IF k = 0 THEN start ELSE next[at[k - 1]]
    IN  [k \in 1 .. Min({n \in Indexes : next[at[n]] = at[n]}) + 1 |-> at[k - 1]]
\* The next block by the highest link up to maxHeight, if that block is there.
\* No list is longer than MaximumHeight.
HighestLink(d, maxHeight) ==
    LET link(i) == d[i][Min({Len(d[i]), maxHeight})]
    IN  [i \in Blocks(d) |-> IF d[i] # << >> /\ link(i) \in Blocks(d) THEN link(i) ELSE i]

\* The closest block that is reachable before or at dest; dest < 0 stands for
\* the highest link.
\* Mutant: the highest known link, also when it leads past dest.
JumpsPastDest(d, i, dest) == {k \in DOMAIN d[i] : d[i][k] \in Blocks(d)}
Jumps(d, i, dest) ==
    {k \in DOMAIN d[i] : d[i][k] \in Blocks(d) /\ (dest < 0 \/ d[i][k] <= dest)}
getHighestJump(d, i, dest) == d[i][Max(Jumps(d, i, dest))]

NoProof == << >>
\* Proof from the genesis block to dest, NoProof if there is none.
getPath(d, dest) ==
    LET next == [i \in Blocks(d) |-> IF i = dest \/ Jumps(d, i, dest) = {} THEN i
                                     ELSE getHighestJump(d, i, dest)]
        path == Walk(next, 0)
    IN  IF Last(path) = dest \/ (dest < 0 /\ d[Last(path)] = << >>) THEN path ELSE NoProof
WithLinks(d, path) == [k \in DOMAIN path |-> [i |-> path[k], links |-> d[path[k]]]]

\* The checks of a proof: every block is linked with the next both ways.
verifyChain(blocks) ==
    \A k \in 1 .. Len(blocks) - 1 :
        /\ blocks[k].i \in BackLinks(blocks[k + 1].i)
        /\ blocks[k + 1].i \in ToSet(blocks[k].links)

\* The links of a proof can be taken out of it: each is at the level of its distance.
GetForwardLinks(blocks) ==
    \A k \in 1 .. Len(blocks) - 1 :
        LET h == Level(blocks[k + 1].i - blocks[k].i)
        IN  Len(blocks[k].links) > h /\ blocks[k].links[h + 1] # EmptyLink

\* Answer to a GetBlocks request: along the highest links, as far as they
\* lead to known blocks.
HandleGetBlocks(d, start) ==
    IF start \in Blocks(d) THEN WithLinks(d, Walk(HighestLink(d, MaximumHeight), start)) ELSE << >>

\* Answer to a client: along the highest links up to maxHeight, at most
\* maxBlocks blocks unless that is 0.
GetUpdateChain(d, start, maxHeight, maxBlocks) ==
    LET chain == Walk(HighestLink(d, maxHeight), start)
    IN  IF maxBlocks = 0 THEN chain ELSE SubSeq(chain, 1, Min({maxBlocks, Len(chain)}))

\* SyncChain of a node with database d from a node with database e; when the
\* first block cannot be linked it starts again at the genesis block.
SyncChain(d, e, latest) ==
    LET reply   == HandleGetBlocks(e, latest)
        genesis == HandleGetBlocks(e, 0)
    IN  IF reply = << >> \/ ~verifyChain(reply) THEN d
        ELSE IF HasForwardLink(d, latest) THEN StoreBlocks(d, reply)
        ELSE IF verifyChain(genesis) THEN StoreBlocks(d, genesis) ELSE d

-----------------------------------------------------------------------------
VARIABLES db,        \* database of every node
          reqs,      \* ForwardSignature requests under way to the leader
          sending    \* propagated links under way to a node

linkVars == <<db, reqs, sending>>

LinksInit ==
    /\ db = [n \in LinkNodes |-> [i \in {0} |-> << >>]]
    /\ reqs = {} /\ sending = {}

\* A propagated link of level h > 0 is attached to its block.
propagateForwardLinkHandler(d, l) ==
    IF l.from \notin Blocks(d) \/ l.h >= HeightOf(l.from) THEN d
    ELSE StoreBlocks(d, <<[i |-> l.from, links |-> AddForwardLink(d[l.from], l.to, l.h)]>>)
propagateProofHandler(d, proof) ==
    IF proof # << >> /\ verifyChain(proof) THEN StoreBlocks(d, proof) ELSE d

\* The level-0 link to a new block: the signers sync to its predecessor, and
\* the ones that the propagation reaches store the link and the block.  Then
\* the leader asks for the links of the higher levels.
NewBlock(signers, reached) ==
    LET tip    == Tip(db[LinkLeader])
        new    == tip + 1
        synced == [n \in LinkNodes |->
                    IF n \in signers /\ tip \notin Blocks(db[n])
                    THEN SyncChain(db[n], db[LinkLeader], tip) ELSE db[n]]
        pair   == <<[i |-> tip, links |-> <<new>>], [i |-> new, links |-> << >>]>>
    IN  /\ tip < MaxIndex
        /\ LinkLeader \in reached /\ reached \subseteq signers
        /\ Cardinality(signers) >= LinkThreshold
        /\ \A n \in signers : tip \in Blocks(synced[n])
        /\ db' = [n \in LinkNodes |->
                    IF n \in reached THEN StoreBlocks(synced[n], pair) ELSE synced[n]]
        /\ reqs' = reqs \union {[from |-> BackLink(new, h), to |-> new, h |-> h] :
                                h \in 1 .. HeightOf(new) - 1}
        /\ UNCHANGED sending

\* The links that prove the newest block, along the highest links from the
\* source; empty when they do not lead to it.
Reaches(d, l) ==
    l.from \in Blocks(d) /\ l.to \in ToSet(Walk(HighestLink(d, MaximumHeight), l.from))
bftForwardLink(d, l) ==
    /\ l.from \in Blocks(d)
    /\ PathIndex(l.from, l.to) = l.to /\ PathHeight(l.from, l.to) = l.h
    /\ Len(d[l.from]) <= l.h
Signed(dbs, l) ==
    /\ l.h < HeightOf(l.to) /\ BackLink(l.to, l.h) = l.from
    /\ Reaches(dbs[LinkLeader], l)
    /\ Cardinality({n \in LinkNodes : bftForwardLink(dbs[n], l)}) >= LinkThreshold

\* The leader makes a link: it stores it itself and sends it to the others.
ForwardLinkHandler(l) ==
    /\ l \in reqs
    /\ reqs' = reqs \ {l}
    /\ IF Signed(db, l)
       THEN /\ db' = [db EXCEPT ![LinkLeader] = propagateForwardLinkHandler(@, l)]
            /\ sending' = sending \union {<<n, l>> : n \in LinkNodes \ {LinkLeader}}
       ELSE UNCHANGED <<db, sending>>

\* A propagated link arrives, in any order, or is lost.
ReceiveLink(p) ==
    /\ p \in sending
    /\ sending' = sending \ {p}
    /\ db' = [db EXCEPT ![p[1]] = propagateForwardLinkHandler(@, p[2])]
    /\ UNCHANGED reqs
LoseLink(p) == p \in sending /\ sending' = sending \ {p} /\ UNCHANGED <<db, reqs>>

\* OptimizeProof: the missing links of one block, lowest first, or for every
\* block on the way to the latest one the link that is missing there.  Every
\* link is made by the roster; the new proof goes to the nodes it reaches.
addForwardLink(dbs, l) ==
    IF Signed(dbs, l) THEN [dbs EXCEPT ![LinkLeader] = propagateForwardLinkHandler(@, l)]
    ELSE dbs
optimizeBlock(i) ==
    LET latest  == Tip(db[LinkLeader])
        length  == Len(db[LinkLeader][i])
        add(dbs, h) == addForwardLink(dbs, [from |-> i, to |-> i + Power[h], h |-> h])
        missing == Max({0, PathHeight(i, latest) + 1 - length})
        after[k \in 0 .. missing] == IF k = 0 THEN db ELSE add(after[k - 1], length + k - 1)
    IN  after[missing]
optimizeCheck(dbs, i) ==
    LET target == Tip(db[LinkLeader])
        h      == PathHeight(i, target)
    IN  IF h > 0 /\ Len(dbs[LinkLeader][i]) <= h
        THEN addForwardLink(dbs, [from |-> i, to |-> PathIndex(i, target), h |-> h])
        ELSE dbs
optimizeChain ==
    LET path == getPath(db[LinkLeader], -1)
        after[k \in 0 .. Len(path) - 1] == IF k = 0 THEN db ELSE optimizeCheck(after[k - 1], path[k])
    IN  after[Len(path) - 1]
OptimizeProof(i, reached) ==
    LET latest == Tip(db[LinkLeader])
        dbs    == IF i = 0 THEN optimizeChain ELSE optimizeBlock(i)
        dest   == IF i = 0 THEN -1 ELSE i
        proof  == WithLinks(dbs[LinkLeader], getPath(dbs[LinkLeader], dest))
    IN  /\ i \in Blocks(db[LinkLeader]) /\ i < latest
        /\ dbs # db
        /\ db' = [n \in LinkNodes |->
                    IF n \in reached \ {LinkLeader} THEN propagateProofHandler(dbs[n], proof) ELSE dbs[n]]
        /\ UNCHANGED <<reqs, sending>>

\* GetLatest walks along the highest links to known blocks, from the newest
\* block in memory or, after a restart, from the genesis block; it cuts off
\* the links above them and stores the block again.
GetLatest(n, start) ==
    LET d == db[n]
        known(i) == IF Jumps(d, i, -1) = {} THEN 0 ELSE Max(Jumps(d, i, -1))
        next == [i \in Blocks(d) |-> IF known(i) = 0 THEN i ELSE d[i][known(i)]]
    IN  /\ start \in {0, Tip(d)}
        /\ db' = [db EXCEPT ![n] = [i \in Blocks(d) |->
                        IF i \in ToSet(Walk(next, start)) THEN SubSeq(d[i], 1, known(i)) ELSE d[i]]]
        /\ UNCHANGED <<reqs, sending>>

\* A node catches up from another one.
Sync(n, m) ==
    /\ n # m
    /\ db' = [db EXCEPT ![n] = SyncChain(@, db[m], Tip(db[n]))]
    /\ UNCHANGED <<reqs, sending>>
PropagateProof(n) ==
    /\ db' = [db EXCEPT ![n] = propagateProofHandler(@,
                WithLinks(db[LinkLeader], getPath(db[LinkLeader], -1)))]
    /\ UNCHANGED <<reqs, sending>>

LinksNext ==
    \/ \E signers, reached \in SUBSET LinkNodes : NewBlock(signers, reached)
    \/ \E l \in reqs : ForwardLinkHandler(l)
    \/ \E p \in sending : ReceiveLink(p) \/ LoseLink(p)
    \/ \E i \in Indexes : \E reached \in SUBSET LinkNodes : OptimizeProof(i, reached)
    \/ \E n, m \in LinkNodes : Sync(n, m)
    \/ \E n \in LinkNodes : \E i \in Indexes : GetLatest(n, i)
    \/ \E n \in LinkNodes : PropagateProof(n)

-----------------------------------------------------------------------------
LinksTypeOK ==
    /\ \A n \in LinkNodes : \A i \in Blocks(db[n]) :
        i \in Indexes /\ db[n][i] \in Seq(Indexes \union {EmptyLink})
    /\ reqs \subseteq [from : Indexes, to : Indexes, h : 0 .. MaximumHeight]
    /\ sending \subseteq (LinkNodes \X [from : Indexes, to : Indexes, h : 0 .. MaximumHeight])

(* However the links of the levels arrive at the leader, with holes, after   *)
(* later ones or by an optimisation, it proves every block of the chain: its *)
(* walk along the highest known links never ends early, the proof verifies   *)
(* with the back-links, and a client that asks for updates gets to the       *)
(* newest block (getPath, GetUpdateChain, AddForwardLink, StoreBlocks).      *)
LeaderProvesEveryBlock ==
    LET d == db[LinkLeader]
    IN  \A i \in Blocks(d) :
            /\ getPath(d, i) # NoProof
            /\ verifyChain(WithLinks(d, getPath(d, i))) /\ GetForwardLinks(WithLinks(d, getPath(d, i)))
            /\ Last(getPath(d, -1)) = Tip(d)
            /\ Last(GetUpdateChain(d, i, MaximumHeight, 0)) = Tip(d)

(* A forward link jumps exactly as far as its level says, on every node and  *)
(* also when links arrive out of order and leave holes (AddForwardLink,      *)
(* StoreBlocks, propagateForwardLinkHandler).                                *)
LinksMatchLevel ==
    \A n \in LinkNodes : \A i \in Blocks(db[n]) : \A k \in DOMAIN db[n][i] :
        db[n][i][k] \in {EmptyLink, i + Power[k - 1]}
=============================================================================
