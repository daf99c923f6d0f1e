--------------------------- MODULE SkipchainProofs ---------------------------
(* Proofs about Skipchain, for every roster, every number of blocks and of      *)
(* restarts: types, the shared signatures of two links from one block, and that *)
(* one leader whose verification ends with its round never splits the chain and *)
(* that every node then takes the end of its chain for the latest block; and    *)
(* that the databases then implement the sequence of blocks of Ledger.          *)
EXTENDS MCSkipchain, SequenceTheorems, FiniteSetTheorems, WellFoundedInduction, TLAPS

-----------------------------------------------------------------------------
(* Maxima, which the CHOOSE of Higher and of Restart rely on.               *)

\* A set of bounded numbers that is not empty has a largest element.
LEMMA Largest ==
    ASSUME NEW S, S # {}, NEW f, NEW K \in Nat,
           \A x \in S : f[x] \in Nat /\ f[x] <= K
    PROVE  \E x \in S : \A y \in S : f[y] <= f[x]
<1> DEFINE T == {K - f[x] : x \in S}
<1>1. T \subseteq Nat /\ T # {}
    OBVIOUS
<1>2. PICK t \in T : \A u \in T : ~(<<u, t>> \in OpToRel(<, Nat))
    <2> HIDE DEF T
    <2> QED  BY <1>1, WFMin, NatLessThanWellFounded
<1>3. \A u \in T : ~(u < t)
    BY <1>1, <1>2 DEF OpToRel
<1>4. PICK x \in S : t = K - f[x]
    OBVIOUS
<1>5. ASSUME NEW y \in S PROVE f[y] <= f[x]
    <2>1. K - f[y] \in T
        OBVIOUS
    <2>2. ~(K - f[y] < K - f[x])
        BY <1>3, <1>4, <2>1
    <2> QED  BY <2>2
<1> QED  BY <1>5

-----------------------------------------------------------------------------
(* Types. TypeOK alone is not inductive: Append, CHOOSE and the lookups in  *)
(* blocks need the shape of the chains as well.                             *)

\* Every block comes after its predecessor, and knows all blocks before it.
BlocksOK == \A b \in Made :
    /\ Prev(b) \in 0..(b - 1)
    /\ blocks[b].back = Back(Prev(b)) \union {Prev(b)}

\* What a node has is about blocks that were proposed, every link leads to a
\* block in the database, and a round is about a block that its leader proposed.
NodesOK == \A n \in Node :
    /\ db[n] \subseteq Made \union {Genesis} /\ Genesis \in db[n]
    /\ links[n] \subseteq Made /\ links[n] \subseteq db[n]
    /\ latest[n] \in db[n]
    /\ checking[n] \subseteq Made
    /\ verified[n] \subseteq Made
    /\ buffer[n] \subseteq Made
    /\ phase[n] # "idle" => adding[n] \in Made /\ blocks[adding[n]].leader = n

SentOK == sent \subseteq Made

TypeInv == TypeOK /\ BlocksOK /\ NodesOK /\ SentOK

\* Blocks come after the ones they point back to, and belong to a proposer.
LEMMA MadeType ==
    ASSUME TypeInv
    PROVE  /\ Len(blocks) \in Nat
           /\ Made \subseteq 1..MaxProposals
           /\ \A b \in Made : /\ b \in Nat /\ b \in Block /\ b # Genesis
                              /\ blocks[b].leader \in Proposer
                              /\ blocks[b].leader \in Node
                              /\ Prev(b) \in Made \union {Genesis}
                              /\ Prev(b) \in Block /\ Prev(b) < b
<1> DEFINE R == [leader : Proposer, prev : Block, back : SUBSET Block]
<1>1. blocks \in Seq(R) /\ Len(blocks) <= MaxProposals /\ MaxProposals \in Nat
    BY SkipchainAssumption DEF TypeInv, TypeOK
<1>2. Len(blocks) \in Nat /\ \A b \in Made : blocks[b] \in R
    <2> HIDE DEF R
    <2> QED  BY <1>1 DEF Made
<1>3. Made \subseteq 1..MaxProposals
    BY <1>1, <1>2 DEF Made
<1>4. ASSUME NEW b \in Made
      PROVE /\ b \in Nat /\ b \in Block /\ b # Genesis
            /\ blocks[b].leader \in Proposer
            /\ blocks[b].leader \in Node
            /\ Prev(b) \in Made \union {Genesis}
            /\ Prev(b) \in Block /\ Prev(b) < b
    <2>1. b \in 1..Len(blocks) /\ b \in 1..MaxProposals /\ blocks[b] \in R
        BY <1>2, <1>3 DEF Made
    <2>2. Prev(b) \in 0..(b - 1)
        BY DEF TypeInv, BlocksOK
    <2>3. blocks[b].leader \in Proposer /\ Proposer \subseteq Node
        BY <2>1, SkipchainAssumption
    <2>4. b \in Nat /\ b \in Block /\ b # Genesis
        BY <1>1, <2>1 DEF Block, Genesis
    <2>5. Prev(b) \in Made \union {Genesis} /\ Prev(b) < b
        BY <1>2, <2>1, <2>2 DEF Made, Genesis
    <2>6. Prev(b) \in Block
        BY <1>1, <2>1, <2>2 DEF Block
    <2> QED  BY <2>3, <2>4, <2>5, <2>6
<1> QED  BY <1>2, <1>3, <1>4

\* The back-links and the index of a block stay within the blocks that were made.
LEMMA BackType ==
    ASSUME TypeInv, NEW b \in Made \union {Genesis}
    PROVE  Back(b) \subseteq Block /\ Index(b) \in Nat /\ Index(b) <= MaxProposals + 1
<1>1. Back(b) \subseteq Block
    <2> DEFINE R == [leader : Proposer, prev : Block, back : SUBSET Block]
    <2>1. blocks \in Seq(R)
        BY DEF TypeInv, TypeOK
    <2>2. b # Genesis => blocks[b] \in R
        <3> HIDE DEF R
        <3> QED  BY <2>1 DEF Made
    <2>3. b # Genesis => blocks[b].back \subseteq Block
        BY <2>2
    <2> QED  BY <2>3 DEF Back
<1>2. MaxProposals \in Nat /\ 0 \in Int /\ MaxProposals \in Int
    BY SkipchainAssumption
<1>3. IsFiniteSet(Block) /\ Cardinality(Block) = MaxProposals + 1
    BY <1>2, FS_Interval DEF Block
<1>4. IsFiniteSet(Back(b)) /\ Cardinality(Back(b)) <= Cardinality(Block)
    BY <1>1, <1>3, FS_Subset
<1> QED  BY <1>1, <1>3, <1>4, FS_CardinalityType DEF Index

\* The cached latest block moves to one of the new blocks or stays.
LEMMA HigherType ==
    ASSUME TypeInv, NEW n \in Node, NEW S, S \subseteq Made \union {Genesis}
    PROVE  Higher(n, S) \in S \/ Higher(n, S) = latest[n]
<1>1. CASE \A b \in S : Index(b) <= Index(latest[n])
    BY <1>1 DEF Higher
<1>2. CASE ~(\A b \in S : Index(b) <= Index(latest[n]))
    <2> DEFINE f == [b \in S |-> Index(b)]
    <2>1. S # {} /\ \A b \in S : f[b] \in Nat /\ f[b] <= MaxProposals + 1
        BY <1>2, BackType
    <2>2. MaxProposals + 1 \in Nat
        BY SkipchainAssumption
    <2>3. \E b \in S : \A c \in S : f[c] <= f[b]
        <3> HIDE DEF f
        <3> QED  BY <2>1, <2>2, Largest
    <2>4. \E b \in S : \A c \in S : Index(c) <= Index(b)
        BY <2>3
    <2> QED  BY <1>2, <2>4 DEF Higher
<1> QED  BY <1>1, <1>2

\* What following forward links reaches is stored and linked.
LEMMA ChainType ==
    ASSUME TypeInv, NEW n \in Node
    PROVE  /\ Chain(n) \subseteq db[n]
           /\ Chain(n) \ {Genesis} \subseteq links[n]
           /\ Genesis \in Chain(n)
BY DEF TypeInv, NodesOK, Chain, Back, Genesis

\* A chain has an end, so that GetLatest finds a block after a restart.
LEMMA ChainEnds ==
    ASSUME TypeInv, NEW n \in Node
    PROVE  \E b \in Chain(n) : ~HasFollower(n, b)
<1> DEFINE f == [b \in Chain(n) |-> b]
<1>1. MaxProposals \in Nat
    BY SkipchainAssumption
<1>2. \A b \in Chain(n) : b \in Made \union {Genesis}
    BY ChainType DEF TypeInv, NodesOK
<1>3. \A b \in Chain(n) : f[b] \in Nat /\ f[b] <= MaxProposals
    BY <1>1, <1>2, MadeType DEF Genesis
<1>4. Chain(n) # {}
    BY ChainType
<1>5. PICK b \in Chain(n) : \A c \in Chain(n) : f[c] <= f[b]
    <2> HIDE DEF f
    <2> QED  BY <1>1, <1>3, <1>4, Largest
<1>6. ASSUME NEW c \in links[n], Prev(c) = b PROVE FALSE
    <2>1. c \in Made /\ c \in db[n] /\ c # Genesis /\ b < c /\ b \in Nat /\ c \in Nat
        BY <1>6, <1>3, MadeType DEF TypeInv, NodesOK
    <2>2. Back(c) = Back(b) \union {b}
        BY <1>6, <2>1 DEF TypeInv, BlocksOK, Back
    <2>3. c \in Chain(n)
        BY <1>6, <2>1, <2>2 DEF Chain
    <2> QED  BY <1>5, <2>1, <2>3
<1> QED  BY <1>6 DEF HasFollower

\* StoreBlocks keeps what NodesOK says about the database of a node.
LEMMA StoreBlocksType ==
    ASSUME TypeInv, NEW n \in Node, NEW S, S \subseteq Made \union {Genesis},
           StoreBlocks(n, S)
    PROVE  /\ db' \in [Node -> SUBSET Block]
           /\ links' \in [Node -> SUBSET (1..MaxProposals)]
           /\ latest' \in [Node -> Block]
           /\ \A m \in Node :
                 /\ db'[m] \subseteq Made \union {Genesis} /\ Genesis \in db'[m]
                 /\ links'[m] \subseteq Made /\ links'[m] \subseteq db'[m]
                 /\ latest'[m] \in db'[m]
<1>1. S \subseteq Block /\ S \ {Genesis} \subseteq Made /\ S \ {Genesis} \subseteq 1..MaxProposals
    <2>1. Made \subseteq Block /\ Made \subseteq 1..MaxProposals
        BY MadeType
    <2>2. Genesis \in Block
        BY SkipchainAssumption DEF Block, Genesis
    <2> QED  BY <2>1, <2>2
<1>2. NewLinks(n, S \ {Genesis}) \subseteq links[n] \union (S \ {Genesis})
    BY DEF NewLinks
<1>3. Higher(n, S \ db[n]) \in S \/ Higher(n, S \ db[n]) = latest[n]
    BY HigherType
<1>4. db' = [db EXCEPT ![n] = db[n] \union S] /\ db \in [Node -> SUBSET Block]
    BY DEF StoreBlocks, TypeInv, TypeOK
<1>5. links' = [links EXCEPT ![n] = NewLinks(n, S \ {Genesis})]
      /\ links \in [Node -> SUBSET (1..MaxProposals)]
    BY DEF StoreBlocks, TypeInv, TypeOK
<1>6. latest' = [latest EXCEPT ![n] = Higher(n, S \ db[n])] /\ latest \in [Node -> Block]
    BY DEF StoreBlocks, TypeInv, TypeOK
<1>7. db' \in [Node -> SUBSET Block]
    BY <1>1, <1>4
<1>8. links' \in [Node -> SUBSET (1..MaxProposals)]
    BY <1>1, <1>2, <1>5
<1>9. latest' \in [Node -> Block]
    BY <1>1, <1>3, <1>6
<1>10. ASSUME NEW m \in Node
       PROVE /\ db'[m] \subseteq Made \union {Genesis} /\ Genesis \in db'[m]
             /\ links'[m] \subseteq Made /\ links'[m] \subseteq db'[m]
             /\ latest'[m] \in db'[m]
    <2>1. /\ db[m] \subseteq Made \union {Genesis} /\ Genesis \in db[m]
          /\ links[m] \subseteq Made /\ links[m] \subseteq db[m]
          /\ latest[m] \in db[m]
        BY DEF TypeInv, NodesOK
    <2>2. CASE m = n
        BY <1>1, <1>2, <1>3, <1>4, <1>5, <1>6, <2>1, <2>2
    <2>3. CASE m # n
        BY <1>4, <1>5, <1>6, <2>1, <2>3
    <2> QED  BY <2>2, <2>3
<1> QED  BY <1>7, <1>8, <1>9, <1>10

\* A step that stores blocks and touches nothing else that TypeInv is about but
\* checking and buffer.
LEMMA StoreStep ==
    ASSUME TypeInv, NEW n \in Node, NEW S, S \subseteq Made \union {Genesis},
           StoreBlocks(n, S), UNCHANGED <<blocks, verified, phase, adding, signed, signers>>,
           checking' \in [Node -> SUBSET Made], buffer' \in [Node -> SUBSET Made],
           sent' \subseteq Made
    PROVE  TypeInv'
<1>1. Made \subseteq Block
    BY MadeType
<1>2. checking' \in [Node -> SUBSET Block] /\ buffer' \in [Node -> SUBSET Block] /\ sent' \subseteq Block
    BY <1>1
<1>3. /\ db' \in [Node -> SUBSET Block]
      /\ links' \in [Node -> SUBSET (1..MaxProposals)]
      /\ latest' \in [Node -> Block]
    BY StoreBlocksType
<1>4. \A m \in Node :
                 /\ db'[m] \subseteq Made \union {Genesis} /\ Genesis \in db'[m]
                 /\ links'[m] \subseteq Made /\ links'[m] \subseteq db'[m]
                 /\ latest'[m] \in db'[m]
    BY StoreBlocksType
<1>5. TypeOK'
    BY <1>2, <1>3 DEF TypeInv, TypeOK
<1>6. BlocksOK'
    BY DEF TypeInv, BlocksOK, Made, Prev, Back
<1>7. NodesOK'
    BY <1>4 DEF TypeInv, NodesOK, Made
<1>8. SentOK'
    BY DEF SentOK, Made
<1> QED  BY <1>5, <1>6, <1>7, <1>8 DEF TypeInv

\* A step that leaves the blocks and the databases alone.
LEMMA KeepStep ==
    ASSUME TypeInv, UNCHANGED <<blocks, dbVars>>,
           checking' \in [Node -> SUBSET Made], verified' \in [Node -> SUBSET Made],
           buffer' \in [Node -> SUBSET Made],
           phase' \in [Node -> {"idle", "prepare", "commit", "store", "spread"}],
           adding' = adding,
           \A n \in Node : phase'[n] # "idle" => phase[n] # "idle",
           signed' \in [Node -> SUBSET Node], signers' \in [Block -> SUBSET Node],
           sent' \subseteq Made
    PROVE  TypeInv'
<1>1. Made \subseteq Block
    BY MadeType
<1>2. /\ checking' \in [Node -> SUBSET Block] /\ verified' \in [Node -> SUBSET Block]
      /\ buffer' \in [Node -> SUBSET Block] /\ sent' \subseteq Block
    BY <1>1
<1>3. TypeOK'
    BY <1>2 DEF TypeInv, TypeOK, dbVars
<1>4. BlocksOK'
    BY DEF TypeInv, BlocksOK, Made, Prev, Back
<1>5. NodesOK'
    <2> SUFFICES ASSUME NEW n \in Node
                 PROVE  /\ (db[n] \subseteq Made \union {Genesis} /\ Genesis \in db[n])'
                        /\ (links[n] \subseteq Made /\ links[n] \subseteq db[n])'
                        /\ (latest[n] \in db[n])'
                        /\ (checking[n] \subseteq Made)'
                        /\ (verified[n] \subseteq Made)'
                        /\ (buffer[n] \subseteq Made)'
                        /\ (phase[n] # "idle" => adding[n] \in Made /\ blocks[adding[n]].leader = n)'
        BY DEF NodesOK
    <2> QED  BY DEF TypeInv, NodesOK, Made, dbVars
<1>6. SentOK'
    BY DEF SentOK, Made
<1> QED  BY <1>3, <1>4, <1>5, <1>6 DEF TypeInv

\* The node variables in terms of the proposed blocks.
LEMMA InMade ==
    ASSUME TypeInv
    PROVE  /\ checking \in [Node -> SUBSET Made] /\ verified \in [Node -> SUBSET Made]
           /\ buffer \in [Node -> SUBSET Made]
           /\ phase \in [Node -> {"idle", "prepare", "commit", "store", "spread"}]
           /\ adding \in [Node -> Block]
           /\ signed \in [Node -> SUBSET Node] /\ signers \in [Block -> SUBSET Node]
           /\ sent \subseteq Made
BY DEF TypeInv, TypeOK, NodesOK, SentOK

\* After a start every node has the genesis block only.
LEMMA InitType == Init => TypeInv
BY SkipchainAssumption DEF Init, TypeInv, TypeOK, BlocksOK, NodesOK, SentOK, Made, Block, Genesis

\* A new block comes after the latest one of its leader.
LEMMA ProposeType ==
    ASSUME TypeInv, NEW p \in Node, Propose(p)
    PROVE  TypeInv'
<1> DEFINE R == [leader : Proposer, prev : Block, back : SUBSET Block]
           b == Len(blocks) + 1
           x == latest[p]
           r == [leader |-> p, prev |-> x, back |-> Back(x) \union {x}]
           after(c) == IF c = Genesis THEN {} ELSE blocks'[c].back
<1>1. blocks' = Append(blocks, r) /\ p \in Proposer /\ Len(blocks) < MaxProposals
      /\ phase' = [phase EXCEPT ![p] = "prepare"]
      /\ adding' = [adding EXCEPT ![p] = b]
      /\ checking' = [checking EXCEPT ![p] = checking[p] \union {b}]
      /\ UNCHANGED <<db, links, latest, verified, buffer, signed, signers, sent>>
    BY DEF Propose, dbVars, sigVars
<1>2. x \in Made \union {Genesis} /\ x \in Block
    BY DEF TypeInv, TypeOK, NodesOK
<1>3. r \in R
    BY <1>1, <1>2, BackType
<1>4. blocks \in Seq(R) /\ Len(blocks) \in Nat /\ MaxProposals \in Nat
    BY MadeType, SkipchainAssumption DEF TypeInv, TypeOK
<1>5. /\ blocks' \in Seq(R) /\ Len(blocks') = b /\ blocks'[b] = r
      /\ \A c \in Made : blocks'[c] = blocks[c]
    <2> HIDE DEF R, r
    <2> QED  BY <1>1, <1>3, <1>4 DEF Made
<1>6. Made' = Made \union {b} /\ b \in 1..MaxProposals /\ b \notin Made
    BY <1>1, <1>4, <1>5 DEF Made
<1>7. b \in Block /\ x \in 0..(b - 1)
    BY <1>1, <1>2, <1>4, <1>6 DEF Block, Made, Genesis
<1>8. TypeOK'
    <2>1. /\ checking' \in [Node -> SUBSET Block]
          /\ phase' \in [Node -> {"idle", "prepare", "commit", "store", "spread"}]
          /\ adding' \in [Node -> Block]
        BY <1>1, <1>7 DEF TypeInv, TypeOK
    <2>2. Len(blocks') <= MaxProposals
        BY <1>1, <1>4, <1>5
    <2> QED  BY <1>1, <1>5, <2>1, <2>2 DEF TypeInv, TypeOK
<1>9. \A c \in Made \union {Genesis} : after(c) = Back(c)
    BY <1>5 DEF Back
<1>10. BlocksOK'
    <2> SUFFICES ASSUME NEW c \in Made \union {b}
                 PROVE  /\ blocks'[c].prev \in 0..(c - 1)
                        /\ blocks'[c].back = after(blocks'[c].prev) \union {blocks'[c].prev}
        BY <1>6 DEF BlocksOK, Prev, Back
    <2>1. CASE c = b
        <3>1. blocks'[c].prev = x /\ blocks'[c].back = Back(x) \union {x}
            BY <1>5, <2>1
        <3>2. after(x) = Back(x)
            BY <1>2, <1>9
        <3> HIDE DEF after
        <3> QED  BY <1>7, <2>1, <3>1, <3>2
    <2>2. CASE c \in Made
        <3>1. blocks'[c] = blocks[c]
            BY <1>5, <2>2
        <3>2. Prev(c) \in Made \union {Genesis}
            BY <2>2, MadeType
        <3>3. blocks[c].back = Back(Prev(c)) \union {Prev(c)} /\ Prev(c) \in 0..(c - 1)
            BY <2>2 DEF TypeInv, BlocksOK
        <3>4. after(Prev(c)) = Back(Prev(c))
            BY <1>9, <3>2
        <3> HIDE DEF after
        <3> QED  BY <3>1, <3>3, <3>4 DEF Prev
    <2> QED  BY <2>1, <2>2
<1>11. NodesOK'
    <2> SUFFICES ASSUME NEW n \in Node
                 PROVE  /\ (db[n] \subseteq Made \union {Genesis} /\ Genesis \in db[n])'
                        /\ (links[n] \subseteq Made /\ links[n] \subseteq db[n])'
                        /\ (latest[n] \in db[n])'
                        /\ (checking[n] \subseteq Made)'
                        /\ (verified[n] \subseteq Made)'
                        /\ (buffer[n] \subseteq Made)'
                        /\ (phase[n] # "idle" => adding[n] \in Made /\ blocks[adding[n]].leader = n)'
        BY DEF NodesOK
    <2>1. /\ db[n] \subseteq Made \union {Genesis} /\ Genesis \in db[n]
          /\ links[n] \subseteq Made /\ links[n] \subseteq db[n]
          /\ latest[n] \in db[n]
          /\ checking[n] \subseteq Made
          /\ verified[n] \subseteq Made
          /\ buffer[n] \subseteq Made
          /\ phase[n] # "idle" => adding[n] \in Made /\ blocks[adding[n]].leader = n
        BY DEF TypeInv, NodesOK
    <2>2. /\ phase \in [Node -> {"idle", "prepare", "commit", "store", "spread"}]
          /\ adding \in [Node -> Block] /\ checking \in [Node -> SUBSET Made]
        BY InMade
    <2>3. checking'[n] \subseteq Made'
        BY <1>1, <1>6, <2>1, <2>2
    <2>4. CASE n = p
        <3>1. adding'[n] = b /\ blocks'[b].leader = p
            BY <1>1, <1>5, <2>2, <2>4
        <3> QED  BY <1>1, <1>6, <2>1, <2>3, <2>4, <3>1
    <2>5. CASE n # p
        <3>1. adding'[n] = adding[n] /\ phase'[n] = phase[n]
            BY <1>1, <2>2, <2>5
        <3>2. phase[n] # "idle" => adding[n] \in Made' /\ blocks'[adding[n]].leader = n
            BY <1>5, <1>6, <2>1
        <3>3. /\ db'[n] = db[n] /\ links'[n] = links[n] /\ latest'[n] = latest[n]
              /\ verified'[n] = verified[n] /\ buffer'[n] = buffer[n]
            BY <1>1
        <3> QED  BY <1>6, <2>1, <2>3, <3>1, <3>2, <3>3
    <2> QED  BY <2>4, <2>5
<1>12. SentOK'
    BY <1>1, <1>6 DEF TypeInv, SentOK
<1> QED  BY <1>8, <1>10, <1>11, <1>12 DEF TypeInv

\* Every step of the round, of storing and of a restart keeps the types.
LEMMA TypeStep == TypeInv /\ [Next]_vars => TypeInv'
<1> SUFFICES ASSUME TypeInv, [Next]_vars PROVE TypeInv'
    OBVIOUS
<1> USE InMade
<1>1. ASSUME NEW p \in Node, Propose(p) PROVE TypeInv'
    BY <1>1, ProposeType
<1>2. ASSUME NEW p \in Node, StartCommit(p) PROVE TypeInv'
    BY <1>2, KeepStep DEF StartCommit, sigVars
<1>3. ASSUME NEW p \in Node, FinishCommit(p) PROVE TypeInv'
    BY <1>3, KeepStep DEF FinishCommit, nodeVars
<1>4. ASSUME NEW p \in Node, Fail(p) PROVE TypeInv'
    BY <1>4, KeepStep DEF Fail, sigVars
<1>5. ASSUME NEW p \in Node, EndRound(p) PROVE TypeInv'
    BY <1>5, KeepStep DEF EndRound, nodeVars, sigVars
<1>6. ASSUME NEW n \in Node, NEW b \in Made, HandleForwardLink(n, b), sent' \subseteq Made,
             UNCHANGED <<blocks, checking, verified, adding, signed, signers>>,
             phase' \in [Node -> {"idle", "prepare", "commit", "store", "spread"}],
             \A m \in Node : phase'[m] # "idle" => phase[m] # "idle"
      PROVE TypeInv'
    <2>1. CASE UNCHANGED <<dbVars, buffer>>
        BY <1>6, <2>1, KeepStep
    <2>2. CASE StoreBlocks(n, {b}) /\ buffer' = [buffer EXCEPT ![n] = {}]
        <3>1. buffer' \in [Node -> SUBSET Made]
            BY <2>2
        <3>2. /\ db' \in [Node -> SUBSET Block]
              /\ links' \in [Node -> SUBSET (1..MaxProposals)]
              /\ latest' \in [Node -> Block]
            BY <2>2, StoreBlocksType
        <3>3. \A m \in Node :
                 /\ db'[m] \subseteq Made \union {Genesis} /\ Genesis \in db'[m]
                 /\ links'[m] \subseteq Made /\ links'[m] \subseteq db'[m]
                 /\ latest'[m] \in db'[m]
            BY <2>2, StoreBlocksType
        <3>4. TypeOK'
            BY <1>6, <3>1, <3>2, MadeType DEF TypeInv, TypeOK
        <3>5. BlocksOK'
            BY <1>6 DEF TypeInv, BlocksOK, Made, Prev, Back
        <3>6. NodesOK'
            BY <1>6, <3>1, <3>3 DEF TypeInv, NodesOK, Made
        <3> QED  BY <1>6, <3>4, <3>5, <3>6 DEF TypeInv, SentOK, Made
    <2> QED  BY <1>6, <2>1, <2>2 DEF HandleForwardLink
<1>7. ASSUME NEW p \in Node, Propagate(p) PROVE TypeInv'
    <2>1. adding[p] \in Made
        BY <1>7 DEF Propagate, TypeInv, NodesOK
    <2> QED  BY <1>6, <1>7, <2>1 DEF Propagate
<1>8. ASSUME NEW n \in Node, NEW b \in sent, ReceiveLink(n, b) PROVE TypeInv'
    BY <1>6, <1>8 DEF ReceiveLink, roundVars, sigVars
<1>9. \A m \in Node : Chain(m) \subseteq Made \union {Genesis}
    BY ChainType DEF TypeInv, NodesOK
<1>10. ASSUME NEW n \in Node, NEW b \in Made, NEW m \in Node, Check(n, b, m) PROVE TypeInv'
    <2>1. checking' \in [Node -> SUBSET Made]
        BY <1>10 DEF Check
    <2>2. CASE UNCHANGED dbVars
        BY <1>10, <2>1, <2>2, KeepStep DEF Check, roundVars, sigVars
    <2>3. CASE StoreBlocks(n, Chain(m))
        BY <1>9, <1>10, <2>1, <2>3, StoreStep DEF Check, roundVars, sigVars
    <2> QED  BY <1>10, <2>2, <2>3 DEF Check
<1>11. ASSUME NEW n \in Node, NEW b \in checking[n], Prepare(n, b) PROVE TypeInv'
    <2>1. b \in Made /\ blocks[b].leader \in Node
        BY MadeType
    <2>2. signed' \in [Node -> SUBSET Node]
        BY <1>11, <2>1 DEF Prepare
    <2> QED  BY <1>11, <2>1, <2>2, KeepStep DEF Prepare, sigVars
<1>12. ASSUME NEW n \in Node, NEW p \in Node, Ack(n, p) PROVE TypeInv'
    BY <1>12, KeepStep DEF Ack, sigVars
<1>13. ASSUME NEW n \in Node, NEW m \in Node, Sync(n, m) PROVE TypeInv'
    BY <1>9, <1>13, StoreStep DEF Sync, nodeVars, roundVars, sigVars
<1>14. ASSUME NEW n \in Node, Restart(n) PROVE TypeInv'
    <2>1. (CHOOSE b \in Chain(n) : ~HasFollower(n, b)) \in db[n]
        BY ChainEnds, ChainType
    <2>2. latest' \in [Node -> Block] /\ \A m \in Node : latest'[m] \in db[m]
        BY <1>14, <2>1 DEF Restart, TypeInv, TypeOK, NodesOK
    <2>3. /\ checking' \in [Node -> SUBSET Made] /\ verified' \in [Node -> SUBSET Made]
          /\ buffer' \in [Node -> SUBSET Made]
          /\ phase' \in [Node -> {"idle", "prepare", "commit", "store", "spread"}]
          /\ \A m \in Node : phase'[m] # "idle" => phase[m] # "idle"
          /\ signed' \in [Node -> SUBSET Node]
          /\ UNCHANGED <<blocks, db, links, adding, signers, sent>>
        BY <1>14 DEF Restart, sigVars
    <2>4. TypeOK'
        BY <2>2, <2>3, MadeType DEF TypeInv, TypeOK
    <2>5. BlocksOK'
        BY <2>3 DEF TypeInv, BlocksOK, Made, Prev, Back
    <2>6. NodesOK'
        BY <2>2, <2>3 DEF TypeInv, NodesOK, Made
    <2> QED  BY <2>3, <2>4, <2>5, <2>6 DEF TypeInv, SentOK, Made
<1>15. ASSUME UNCHANGED vars PROVE TypeInv'
    BY <1>15, KeepStep DEF vars, nodeVars, roundVars, sigVars
<1> QED  BY <1>1, <1>2, <1>3, <1>4, <1>5, <1>7, <1>8, <1>10, <1>11, <1>12, <1>13, <1>14, <1>15
            DEF Next

\* The databases, buffers and rounds keep their types whatever the roster, the
\* leaders and the number of blocks and restarts (skipchain.go, struct.go).
THEOREM TypeCorrect == Spec => []TypeOK
<1>1. TypeInv => TypeOK
    BY DEF TypeInv
<1> QED  BY InitType, TypeStep, <1>1, PTL DEF Spec

-----------------------------------------------------------------------------
(* Signatures. A link is stored only after it was signed, and the signed     *)
(* links are known before they are stored: those sent out and those of the   *)
(* leaders that are about to store them.                                     *)

Signed(b) == Cardinality(signers[b]) >= Threshold

QuorumInv ==
    /\ \A n \in Node : \A b \in links[n] : Signed(b)
    /\ \A b \in sent : Signed(b)
    /\ \A p \in Node : phase[p] = "store" => Signed(adding[p])

\* The links that StoreBlocks adds.
LEMMA LinksAdded ==
    ASSUME TypeInv, NEW n \in Node, NEW S, StoreBlocks(n, S)
    PROVE  \A m \in Node : links'[m] \subseteq links[m] \union (S \ {Genesis})
BY DEF StoreBlocks, NewLinks, TypeInv, TypeOK

\* What a step keeps when the signatures stay as they are.
LEMMA QuorumKept ==
    ASSUME TypeInv, QuorumInv, UNCHANGED signers,
           \A n \in Node : \A b \in links'[n] :
               (\E m \in Node : b \in links[m]) \/ Signed(b),
           \A b \in sent' : b \in sent \/ Signed(b),
           \A p \in Node : phase'[p] = "store" => phase[p] = "store" /\ adding'[p] = adding[p]
    PROVE  QuorumInv'
BY DEF QuorumInv, Signed, Threshold

\* No step sends or stores a link without a threshold of signatures.
LEMMA QuorumStep == TypeInv /\ QuorumInv /\ [Next]_vars => QuorumInv'
<1> SUFFICES ASSUME TypeInv, QuorumInv, [Next]_vars PROVE QuorumInv'
    OBVIOUS
<1> USE InMade
<1>1. ASSUME NEW p \in Node, Propose(p) PROVE QuorumInv'
    BY <1>1, QuorumKept DEF Propose, dbVars, sigVars
<1>2. ASSUME NEW p \in Node, StartCommit(p) PROVE QuorumInv'
    BY <1>2, QuorumKept DEF StartCommit, dbVars, sigVars
<1>3. ASSUME NEW p \in Node, FinishCommit(p) PROVE QuorumInv'
    <2>1. adding[p] \in Block /\ Cardinality(signed[p]) >= Threshold
        BY <1>3 DEF FinishCommit, Enough
    <2>2. /\ signers' = [signers EXCEPT ![adding[p]] = signed[p]]
          /\ UNCHANGED <<links, sent, adding>>
          /\ phase' = [phase EXCEPT ![p] = "store"]
        BY <1>3 DEF FinishCommit, dbVars
    <2>3. \A b \in Block : Signed(b) => Signed(b)'
        BY <2>1, <2>2 DEF Signed, Threshold
    <2>4. Signed(adding[p])'
        BY <2>1, <2>2 DEF Signed, Threshold
    <2>5. \A n \in Node : links[n] \subseteq Block
        BY MadeType DEF TypeInv, NodesOK
    <2>6. sent \subseteq Block
        BY MadeType
    <2>7. \A n \in Node : \A b \in links'[n] : Signed(b)'
        BY <2>2, <2>3, <2>5 DEF QuorumInv
    <2>8. \A b \in sent' : Signed(b)'
        BY <2>2, <2>3, <2>6 DEF QuorumInv
    <2>9. ASSUME NEW q \in Node, phase'[q] = "store" PROVE Signed(adding[q])'
        <3>1. CASE q = p
            BY <2>4, <3>1
        <3>2. CASE q # p
            <4>1. Signed(adding[q]) /\ adding[q] \in Block /\ adding'[q] = adding[q]
                BY <2>2, <2>9, <3>2 DEF QuorumInv
            <4> QED  BY <2>3, <4>1 DEF Signed
        <3> QED  BY <3>1, <3>2
    <2> QED  BY <2>7, <2>8, <2>9 DEF QuorumInv
<1>4. ASSUME NEW p \in Node, Fail(p) PROVE QuorumInv'
    BY <1>4, QuorumKept DEF Fail, dbVars, sigVars
<1>5. ASSUME NEW p \in Node, EndRound(p) PROVE QuorumInv'
    BY <1>5, QuorumKept DEF EndRound, dbVars, sigVars
<1>6. ASSUME NEW n \in Node, NEW b, Signed(b), HandleForwardLink(n, b)
      PROVE \A m \in Node : \A c \in links'[m] : (\E k \in Node : c \in links[k]) \/ Signed(c)
    BY <1>6, LinksAdded DEF HandleForwardLink, dbVars
<1>7. ASSUME NEW p \in Node, Propagate(p) PROVE QuorumInv'
    <2>1. Signed(adding[p])
        BY <1>7 DEF Propagate, QuorumInv
    <2>2. \A m \in Node : \A c \in links'[m] : (\E k \in Node : c \in links[k]) \/ Signed(c)
        BY <1>6, <1>7, <2>1 DEF Propagate
    <2> QED  BY <1>7, <2>1, <2>2, QuorumKept DEF Propagate
<1>8. ASSUME NEW n \in Node, NEW b \in sent, ReceiveLink(n, b) PROVE QuorumInv'
    <2>1. Signed(b)
        BY DEF QuorumInv
    <2>2. \A m \in Node : \A c \in links'[m] : (\E k \in Node : c \in links[k]) \/ Signed(c)
        BY <1>6, <1>8, <2>1 DEF ReceiveLink
    <2> QED  BY <1>8, <2>2, QuorumKept DEF ReceiveLink, roundVars, sigVars
<1>9. ASSUME NEW n \in Node, NEW m \in Node, StoreBlocks(n, Chain(m))
      PROVE \A k \in Node : \A c \in links'[k] : \E l \in Node : c \in links[l]
    BY <1>9, LinksAdded, ChainType
<1>10. ASSUME NEW n \in Node, NEW b \in Made, NEW m \in Node, Check(n, b, m) PROVE QuorumInv'
    <2>1. \A k \in Node : \A c \in links'[k] : \E l \in Node : c \in links[l]
        BY <1>9, <1>10 DEF Check, dbVars
    <2> QED  BY <1>10, <2>1, QuorumKept DEF Check, roundVars, sigVars
<1>11. ASSUME NEW n \in Node, NEW b \in checking[n], Prepare(n, b) PROVE QuorumInv'
    BY <1>11, QuorumKept DEF Prepare, dbVars, sigVars
<1>12. ASSUME NEW n \in Node, NEW p \in Node, Ack(n, p) PROVE QuorumInv'
    BY <1>12, QuorumKept DEF Ack, dbVars, sigVars
<1>13. ASSUME NEW n \in Node, NEW m \in Node, Sync(n, m) PROVE QuorumInv'
    BY <1>9, <1>13, QuorumKept DEF Sync, roundVars, sigVars
<1>14. ASSUME NEW n \in Node, Restart(n) PROVE QuorumInv'
    BY <1>14, QuorumKept DEF Restart, sigVars
<1>15. ASSUME UNCHANGED vars PROVE QuorumInv'
    BY <1>15, QuorumKept DEF vars, dbVars, roundVars, sigVars
<1> QED  BY <1>1, <1>2, <1>3, <1>4, <1>5, <1>7, <1>8, <1>10, <1>11, <1>12, <1>13, <1>14, <1>15
            DEF Next

\* Two thresholds of signers have more than a third of the roster in common.
LEMMA QuorumsMeet ==
    ASSUME NEW A \in SUBSET Node, NEW B \in SUBSET Node,
           Cardinality(A) >= Threshold, Cardinality(B) >= Threshold
    PROVE  3 * Cardinality(A \intersect B) > Cardinality(Node)
<1>1. IsFiniteSet(Node) /\ Cardinality(Node) \in Nat
    BY SkipchainAssumption, FS_CardinalityType
<1>2. IsFiniteSet(A) /\ IsFiniteSet(B) /\ IsFiniteSet(A \union B)
      /\ Cardinality(A \union B) <= Cardinality(Node)
      /\ Cardinality(A) <= Cardinality(Node)
    BY <1>1, FS_Subset
<1>3. Cardinality(A \union B) = Cardinality(A) + Cardinality(B) - Cardinality(A \intersect B)
    BY <1>2, FS_Union
<1>4. IsFiniteSet(A \intersect B)
    BY <1>2, FS_Intersection
<1>5. /\ Cardinality(A) \in Nat /\ Cardinality(B) \in Nat
      /\ Cardinality(A \intersect B) \in Nat /\ Cardinality(A \union B) \in Nat
    BY <1>2, <1>4, FS_CardinalityType
<1>6. \A N \in Nat : 3 * ((N - 1) \div 3) <= N - 1 /\ (N - 1) \div 3 \in Int
    OBVIOUS
<1>7. ASSUME NEW N \in Nat, NEW d \in Int, 3 * d <= N - 1,
             NEW a \in Nat, NEW b \in Nat, NEW i \in Nat, NEW u \in Nat,
             a >= N - d, b >= N - d, u <= N, u = a + b - i
      PROVE  3 * i > N
    BY <1>7
<1> QED  BY <1>1, <1>2, <1>3, <1>5, <1>6, <1>7 DEF Threshold

\* Whoever leads, and however many nodes do, two forward links from one block
\* share the signatures of more than a third of the roster: the threshold of
\* byzcoinx.go:340 is what keeps a chain from splitting.
THEOREM SplitAlwaysSigned == Spec => []SplitIsSigned
<1>1. Init => QuorumInv
    BY DEF Init, QuorumInv
<1>2. TypeInv /\ QuorumInv => SplitIsSigned
    <2> SUFFICES ASSUME TypeInv, QuorumInv,
                        NEW n \in Node, NEW m \in Node, NEW a \in links[n], NEW b \in links[m]
                 PROVE  3 * Cardinality(signers[a] \intersect signers[b]) > Cardinality(Node)
        BY DEF SplitIsSigned
    <2>1. a \in Block /\ b \in Block
        BY MadeType DEF TypeInv, NodesOK
    <2>2. signers[a] \in SUBSET Node /\ signers[b] \in SUBSET Node
        BY <2>1 DEF TypeInv, TypeOK
    <2> QED  BY <2>2, QuorumsMeet DEF QuorumInv, Signed
<1> QED  BY InitType, TypeStep, QuorumStep, <1>1, <1>2, PTL DEF Spec

-----------------------------------------------------------------------------
(* One node's view.                                                         *)

\* No node has two links from one block.
OneFollower == \A n \in Node : \A a, b \in links[n] : Prev(a) = Prev(b) => a = b

\* What a step may do to the links of a node, and to what they refer to.
FinalStep == \A n \in Node :
    /\ links[n] \subseteq links'[n]
    /\ \A a, b \in links'[n] : blocks'[a].prev = blocks'[b].prev => a = b

\* StoreBlocks keeps the links of a node and adds none from a linked block.
LEMMA StoreFinal ==
    ASSUME TypeInv, OneFollower, NEW n \in Node, NEW S, StoreBlocks(n, S), UNCHANGED blocks,
           \A a, b \in S \ {Genesis} : Prev(a) = Prev(b) => a = b
    PROVE  FinalStep
<1>1. links' = [links EXCEPT ![n] = NewLinks(n, S \ {Genesis})]
      /\ links \in [Node -> SUBSET (1..MaxProposals)]
    BY DEF StoreBlocks, TypeInv, TypeOK
<1>2. ASSUME NEW m \in Node
      PROVE  /\ links[m] \subseteq links'[m]
             /\ \A a, b \in links'[m] : Prev(a) = Prev(b) => a = b
    <2>1. CASE m # n
        BY <1>1, <2>1 DEF OneFollower
    <2>2. CASE m = n
        <3>1. links'[m] = links[n] \union {b \in S \ {Genesis} : ~HasFollower(n, Prev(b))}
            BY <1>1, <2>2 DEF NewLinks
        <3> QED  BY <2>2, <3>1 DEF OneFollower, HasFollower
    <2> QED  BY <2>1, <2>2
<1> QED  BY <1>2 DEF FinalStep, Prev

\* A step that stores no link keeps them final.
LEMMA LinksKept ==
    ASSUME TypeInv, OneFollower, UNCHANGED <<blocks, links>>
    PROVE  FinalStep
BY DEF FinalStep, OneFollower, Prev

\* No step removes a link or adds a second one from a block.
LEMMA FinalAlways == TypeInv /\ OneFollower /\ [Next]_vars => FinalStep
<1> SUFFICES ASSUME TypeInv, OneFollower, [Next]_vars PROVE FinalStep
    OBVIOUS
<1>1. ASSUME NEW p \in Node, Propose(p) PROVE FinalStep
    <2> DEFINE r == [leader |-> p, prev |-> latest[p], back |-> Back(latest[p]) \union {latest[p]}]
               R == [leader : Proposer, prev : Block, back : SUBSET Block]
    <2>1. blocks' = Append(blocks, r) /\ links' = links
        BY <1>1 DEF Propose, dbVars
    <2>2. blocks \in Seq(R)
        BY DEF TypeInv, TypeOK
    <2>3. \A c \in Made : blocks'[c] = blocks[c]
        <3> HIDE DEF r, R
        <3> QED  BY <2>1, <2>2 DEF Made
    <2>4. \A n \in Node : links[n] \subseteq Made
        BY DEF TypeInv, NodesOK
    <2>5. links' = links
        BY <2>1
    <2> QED  BY <2>3, <2>4, <2>5 DEF FinalStep, OneFollower, Prev
<1>2. ASSUME NEW n \in Node, NEW b, HandleForwardLink(n, b), UNCHANGED blocks PROVE FinalStep
    BY <1>2, StoreFinal, LinksKept DEF HandleForwardLink, dbVars
<1>3. ASSUME NEW n \in Node, NEW m \in Node, StoreBlocks(n, Chain(m)), UNCHANGED blocks
      PROVE FinalStep
    <2>1. \A a, b \in Chain(m) \ {Genesis} : Prev(a) = Prev(b) => a = b
        BY ChainType DEF OneFollower
    <2> QED  BY <1>3, <2>1, StoreFinal
<1>4. ASSUME NEW p \in Node, StartCommit(p) PROVE FinalStep
    BY <1>4, LinksKept DEF StartCommit, dbVars
<1>5. ASSUME NEW p \in Node, FinishCommit(p) PROVE FinalStep
    BY <1>5, LinksKept DEF FinishCommit, dbVars
<1>6. ASSUME NEW p \in Node, Fail(p) PROVE FinalStep
    BY <1>6, LinksKept DEF Fail, dbVars
<1>7. ASSUME NEW p \in Node, Propagate(p) PROVE FinalStep
    BY <1>2, <1>7 DEF Propagate
<1>8. ASSUME NEW p \in Node, EndRound(p) PROVE FinalStep
    BY <1>8, LinksKept DEF EndRound, dbVars
<1>9. ASSUME NEW n \in Node, NEW b \in Made, NEW m \in Node, Check(n, b, m) PROVE FinalStep
    BY <1>3, <1>9, LinksKept DEF Check, dbVars
<1>10. ASSUME NEW n \in Node, NEW b \in checking[n], Prepare(n, b) PROVE FinalStep
    BY <1>10, LinksKept DEF Prepare, dbVars
<1>11. ASSUME NEW n \in Node, NEW p \in Node, Ack(n, p) PROVE FinalStep
    BY <1>11, LinksKept DEF Ack, dbVars
<1>12. ASSUME NEW n \in Node, NEW b \in sent, ReceiveLink(n, b) PROVE FinalStep
    BY <1>2, <1>12 DEF ReceiveLink
<1>13. ASSUME NEW n \in Node, NEW m \in Node, Sync(n, m) PROVE FinalStep
    BY <1>3, <1>13 DEF Sync
<1>14. ASSUME NEW n \in Node, Restart(n) PROVE FinalStep
    BY <1>14, LinksKept DEF Restart
<1>15. ASSUME UNCHANGED vars PROVE FinalStep
    BY <1>15, LinksKept DEF vars, dbVars
<1> QED  BY <1>1, <1>4, <1>5, <1>6, <1>7, <1>8, <1>9, <1>10, <1>11, <1>12, <1>13, <1>14, <1>15
            DEF Next

\* No node gets two links from one block.
LEMMA OneFollowerStep == TypeInv /\ OneFollower /\ [Next]_vars => OneFollower'
BY FinalAlways DEF FinalStep, OneFollower, Prev

\* Whoever leads, a node keeps every forward link it has stored and never has two
\* from one block (StoreBlocks, struct.go:872).
THEOREM NodeViewFinal == Spec => NodeFinal
<1>1. Init => OneFollower
    BY DEF Init, OneFollower
<1>2. TypeInv /\ OneFollower /\ [Next]_vars => [FinalStep]_vars
    BY FinalAlways
<1> QED  BY InitType, TypeStep, OneFollowerStep, <1>1, <1>2, PTL DEF Spec, NodeFinal, FinalStep

-----------------------------------------------------------------------------
(* One leader. Every link starts at the leader's database: the leader stores *)
(* it before it sends it, because from the prepare phase on its buffer holds *)
(* the block of its round, which no late verification replaces.              *)

LeaderInv(p) ==
    /\ \A n \in Node : links[n] \subseteq links[p]
    /\ sent \subseteq links[p]
    /\ checking[p] \subseteq {adding[p]}
    /\ phase[p] # "prepare" => checking[p] = {}
    /\ phase[p] = "prepare" /\ adding[p] \in verified[p] => checking[p] = {}
    /\ phase[p] = "prepare" /\ adding[p] \in verified[p] => buffer[p] = {adding[p]}
    /\ phase[p] \in {"commit", "store"} => buffer[p] = {adding[p]}
    /\ phase[p] \in {"prepare", "commit", "store"} => Prev(adding[p]) \in db[p]
    /\ phase[p] = "store" => ~HasFollower(p, Prev(adding[p]))

\* While p is the only leader, nobody else has a round.
LEMMA OthersIdle ==
    ASSUME TypeInv, NEW p \in Node, Proposer = {p}
    PROVE  /\ \A n \in Node : n # p => phase[n] = "idle"
           /\ \A b \in Made : blocks[b].leader = p
BY MadeType DEF TypeInv, NodesOK

\* A step in which p does nothing and the others get only links that p has.
LEMMA LeaderKept ==
    ASSUME NEW p \in Node, LeaderInv(p),
           UNCHANGED <<blocks, sent, phase[p], adding[p], checking[p], verified[p], buffer[p]>>,
           links'[p] = links[p], db[p] \subseteq db'[p],
           \A n \in Node : links'[n] \subseteq links[p]
    PROVE  LeaderInv(p)'
BY DEF LeaderInv, HasFollower, Prev

\* Each step keeps the leader ahead: it stores a link before anybody else can.
LEMMA LeaderStep ==
    ASSUME NEW p \in Node, Proposer = {p}, SlowLeader = FALSE,
           TypeInv, LeaderInv(p), [Next]_vars
    PROVE  LeaderInv(p)'
<1> USE InMade, OthersIdle
<1>1. ASSUME Propose(p) PROVE LeaderInv(p)'
    <2> DEFINE r == [leader |-> p, prev |-> latest[p], back |-> Back(latest[p]) \union {latest[p]}]
               R == [leader : Proposer, prev : Block, back : SUBSET Block]
               b == Len(blocks) + 1
    <2>1. blocks' = Append(blocks, r) /\ blocks \in Seq(R) /\ Len(blocks) \in Nat
        BY <1>1, MadeType DEF Propose, TypeInv, TypeOK
    <2>2. blocks'[b] = r
        <3> HIDE DEF r, R
        <3> QED  BY <2>1
    <2>3. blocks'[b].prev = latest[p] /\ latest[p] \in db[p]
        BY <2>2 DEF TypeInv, NodesOK
    <2>4. b \notin verified[p]
        BY <2>1 DEF Made
    <2> HIDE DEF b
    <2>5. /\ phase[p] = "idle" /\ phase'[p] = "prepare" /\ adding'[p] = b
          /\ checking'[p] = checking[p] \union {b}
          /\ UNCHANGED <<db, links, verified, buffer, sent>>
        BY <1>1 DEF Propose, dbVars, sigVars, b
    <2> QED  BY <2>3, <2>4, <2>5 DEF LeaderInv, Prev
<1>2. ASSUME StartCommit(p) PROVE LeaderInv(p)'
    <2>1. /\ phase[p] = "prepare" /\ adding[p] \in verified[p] /\ phase'[p] = "commit"
          /\ UNCHANGED <<blocks, db, links, checking, buffer, adding, sent>>
        BY <1>2 DEF StartCommit, dbVars, sigVars
    <2> QED  BY <2>1 DEF LeaderInv, Prev
<1>3. ASSUME FinishCommit(p) PROVE LeaderInv(p)'
    <2>1. /\ phase[p] = "commit" /\ ~HasFollower(p, Prev(adding[p])) /\ phase'[p] = "store"
          /\ UNCHANGED <<blocks, db, links, checking, verified, buffer, adding, sent>>
        BY <1>3 DEF FinishCommit, dbVars, nodeVars
    <2> QED  BY <2>1 DEF LeaderInv, Prev, HasFollower
<1>4. ASSUME Fail(p) PROVE LeaderInv(p)'
    <2>1. /\ adding[p] \notin checking[p] /\ phase'[p] = "idle"
          /\ UNCHANGED <<blocks, db, links, checking, verified, adding, sent>>
        BY <1>4 DEF Fail, dbVars, sigVars
    <2> QED  BY <2>1 DEF LeaderInv, Prev
<1>5. ASSUME EndRound(p) PROVE LeaderInv(p)'
    <2>1. /\ phase[p] = "spread" /\ phase'[p] = "idle"
          /\ UNCHANGED <<blocks, db, links, checking, verified, buffer, adding, sent>>
        BY <1>5 DEF EndRound, dbVars, nodeVars, sigVars
    <2> QED  BY <2>1 DEF LeaderInv, Prev
<1>6. ASSUME Propagate(p) PROVE LeaderInv(p)'
    <2> DEFINE b == adding[p]
    <2>1. /\ phase[p] = "store" /\ HandleForwardLink(p, b) /\ phase'[p] = "spread"
          /\ sent' = sent \union {b} /\ UNCHANGED <<blocks, checking, verified, adding>>
        BY <1>6 DEF Propagate
    <2>2. StoreBlocks(p, {b})
        BY <2>1 DEF HandleForwardLink, LeaderInv
    <2>3. b \in Made /\ b # Genesis
        BY <2>1, MadeType DEF TypeInv, NodesOK
    <2>4. NewLinks(p, {b} \ {Genesis}) = links[p] \union {b}
        BY <2>1, <2>3 DEF NewLinks, LeaderInv
    <2>5. links' = [links EXCEPT ![p] = links[p] \union {b}] /\ db' = [db EXCEPT ![p] = db[p] \union {b}]
          /\ links \in [Node -> SUBSET (1..MaxProposals)] /\ db \in [Node -> SUBSET Block]
        BY <2>2, <2>4 DEF StoreBlocks, TypeInv, TypeOK
    <2>6. links'[p] = links[p] \union {b} /\ \A n \in Node : links'[n] \subseteq links[n] \union {b}
        BY <2>5
    <2>7. \A n \in Node : links'[n] \subseteq links'[p]
        BY <2>6 DEF LeaderInv
    <2>8. sent' \subseteq links'[p]
        BY <2>1, <2>6 DEF LeaderInv
    <2>9. checking'[p] = {}
        BY <2>1 DEF LeaderInv
    <2> HIDE DEF b
    <2> QED  BY <2>1, <2>7, <2>8, <2>9 DEF LeaderInv
<1>7. ASSUME NEW n \in Node, NEW b \in Made, NEW m \in Node, Check(n, b, m) PROVE LeaderInv(p)'
    <2>1. n # p
        BY <1>7 DEF Check
    <2>2. db'[p] = db[p] /\ links'[p] = links[p] /\ checking'[p] = checking[p]
        BY <1>7, <2>1 DEF Check, StoreBlocks, dbVars, TypeInv, TypeOK
    <2>3. \A k \in Node : links'[k] \subseteq links[k] \union links[m]
        BY <1>7, LinksAdded, ChainType DEF Check, dbVars
    <2> QED  BY <1>7, <2>2, <2>3, LeaderKept DEF Check, roundVars, sigVars, LeaderInv
<1>8. ASSUME NEW n \in Node, NEW b \in checking[n], Prepare(n, b) PROVE LeaderInv(p)'
    <2>1. CASE n = p
        <3>1. b = adding[p] /\ phase[p] = "prepare"
            BY <1>8, <2>1 DEF LeaderInv
        <3>2. /\ checking'[p] = checking[p] \ {b} /\ buffer'[p] = {b}
              /\ UNCHANGED <<blocks, db, links, phase, adding, sent>>
            BY <1>8, <2>1 DEF Prepare, dbVars, sigVars
        <3> QED  BY <3>1, <3>2 DEF LeaderInv, Prev
    <2>2. CASE n # p
        BY <1>8, <2>2, LeaderKept DEF Prepare, dbVars, sigVars, LeaderInv
    <2> QED  BY <2>1, <2>2
<1>9. ASSUME NEW n \in Node, NEW q \in Node, Ack(n, q) PROVE LeaderInv(p)'
    <2>1. q = p /\ n # p
        BY <1>9 DEF Ack
    <2> QED  BY <1>9, <2>1, LeaderKept DEF Ack, dbVars, sigVars, LeaderInv
<1>10. ASSUME NEW n \in Node, NEW b \in sent, ReceiveLink(n, b) PROVE LeaderInv(p)'
    <2>1. n # p /\ b \in links[p]
        BY <1>10 DEF ReceiveLink, LeaderInv
    <2>2. db'[p] = db[p] /\ links'[p] = links[p] /\ buffer'[p] = buffer[p]
        BY <1>10, <2>1 DEF ReceiveLink, HandleForwardLink, StoreBlocks, dbVars, TypeInv, TypeOK
    <2>3. \A k \in Node : links'[k] \subseteq links[k] \union {b}
        BY <1>10, LinksAdded DEF ReceiveLink, HandleForwardLink, dbVars
    <2> QED  BY <1>10, <2>1, <2>2, <2>3, LeaderKept DEF ReceiveLink, roundVars, sigVars, LeaderInv
<1>11. ASSUME NEW n \in Node, NEW m \in Node, Sync(n, m) PROVE LeaderInv(p)'
    <2>1. \A k \in Node : links'[k] \subseteq links[k] \union links[m]
        BY <1>11, LinksAdded, ChainType DEF Sync
    <2>2. links[p] \subseteq links'[p] /\ db[p] \subseteq db'[p]
        BY <1>11 DEF Sync, StoreBlocks, NewLinks, TypeInv, TypeOK
    <2>3. \A k \in Node : links[k] \subseteq links[p]
        BY DEF LeaderInv
    <2>4. links'[p] = links[p] /\ \A k \in Node : links'[k] \subseteq links[p]
        BY <2>1, <2>2, <2>3
    <2> QED  BY <1>11, <2>2, <2>4, LeaderKept DEF Sync, nodeVars, roundVars, sigVars
<1>12. ASSUME NEW n \in Node, Restart(n) PROVE LeaderInv(p)'
    <2>1. CASE n = p
        <3>1. /\ phase'[p] = "idle" /\ checking'[p] = {}
              /\ UNCHANGED <<blocks, db, links, adding, sent>>
            BY <1>12, <2>1 DEF Restart, sigVars
        <3> QED  BY <3>1 DEF LeaderInv
    <2>2. CASE n # p
        BY <1>12, <2>2, LeaderKept DEF Restart, sigVars, LeaderInv
    <2> QED  BY <2>1, <2>2
<1>13. ASSUME UNCHANGED vars PROVE LeaderInv(p)'
    BY <1>13, LeaderKept DEF vars, dbVars, nodeVars, roundVars, sigVars, LeaderInv
<1>14. ASSUME NEW n \in Node,
              Propose(n) \/ StartCommit(n) \/ FinishCommit(n) \/ Fail(n) \/ Propagate(n) \/ EndRound(n)
       PROVE n = p
    BY <1>14 DEF Propose, StartCommit, FinishCommit, Fail, Propagate, EndRound
<1> QED  BY <1>1, <1>2, <1>3, <1>4, <1>5, <1>6, <1>7, <1>8, <1>9, <1>10, <1>11, <1>12, <1>13, <1>14
            DEF Next

\* With one leader whose verification ends with its round, there is never a split
\* view, whatever rounds fail, whoever restarts and whatever is lost: the leader
\* stores a link before it sends it (messaging/propagate.go:197).
THEOREM OneLeaderNoSplit ==
    ASSUME NEW p \in Node, Proposer = {p}, SlowLeader = FALSE
    PROVE  Spec => []NoSplitView
<1>1. Init => LeaderInv(p) /\ OneFollower
    BY DEF Init, LeaderInv, OneFollower
<1>2. TypeInv /\ LeaderInv(p) /\ [Next]_vars => LeaderInv(p)'
    BY LeaderStep
<1>3. LeaderInv(p) /\ OneFollower => NoSplitView
    BY DEF LeaderInv, OneFollower, NoSplitView
<1> QED  BY InitType, TypeStep, OneFollowerStep, <1>1, <1>2, <1>3, PTL DEF Spec
-----------------------------------------------------------------------------
(* The cached latest block. The blocks of one leader form one chain: in the  *)
(* leader's database, a block comes after every block with a lower number.   *)

\* A block comes after blocks with lower numbers only.
BacksBefore == \A b \in Made : Back(b) \subseteq 0..(b - 1)

\* In a set of blocks, each one comes after all those with lower numbers.
Linear(D) ==
    /\ D \subseteq Made \union {Genesis}
    /\ \A b \in D : Back(b) \subseteq D
    /\ \A a, b \in D : a < b => a \in Back(b)

\* A node has a link to every block in its database, all blocks before it, and
\* none that is later than the cached one.
Whole(n) ==
    /\ db[n] \subseteq links[n] \union {Genesis}
    /\ \A b \in db[n] : Back(b) \subseteq db[n] /\ b <= latest[n]

ChainInv(p) ==
    /\ BacksBefore
    /\ \A n \in Node : Whole(n)
    /\ Linear(db[p])
    /\ phase[p] \in {"prepare", "commit", "store"} =>
          Prev(adding[p]) = latest[p] /\ \A x \in db[p] : x < adding[p]

\* Of two blocks of one chain, the one with the lower number has the lower index.
LEMMA IndexGrows ==
    ASSUME TypeInv, BacksBefore, NEW D, Linear(D), NEW a \in D, NEW b \in D, a < b
    PROVE  Index(a) < Index(b)
<1>1. a \in Made \union {Genesis} /\ b \in Made \union {Genesis} /\ a \in Nat /\ b \in Nat
    BY MadeType DEF Linear, Genesis
<1>2. b \in Made
    BY <1>1 DEF Genesis
<1>3. ASSUME NEW x \in Back(a) PROVE x \in Nat /\ x < a /\ x \in Back(b)
    <2>1. a \in Made /\ x \in D
        BY <1>1 DEF Back, Linear
    <2>2. x \in 0..(a - 1)
        BY <2>1 DEF BacksBefore
    <2>3. x \in Nat /\ x < a /\ x < b
        BY <1>1, <2>2
    <2> QED  BY <2>1, <2>3 DEF Linear
<1>4. a \notin Back(a) /\ a \in Back(b) /\ Back(a) \subseteq Back(b)
    BY <1>1, <1>3 DEF Linear
<1>5. IsFiniteSet(Back(b))
    <2>1. MaxProposals \in Nat /\ 0 \in Int /\ MaxProposals \in Int
        BY SkipchainAssumption
    <2>2. IsFiniteSet(Block)
        BY <2>1, FS_Interval DEF Block
    <2> QED  BY <1>1, <2>2, BackType, FS_Subset
<1>6. Cardinality(Back(a)) <= Cardinality(Back(b)) /\ Cardinality(Back(a)) # Cardinality(Back(b))
    BY <1>4, <1>5, FS_Subset
<1>7. Index(a) \in Nat /\ Index(b) \in Nat
    BY <1>1, BackType
<1> QED  BY <1>6, <1>7 DEF Index

\* After new blocks of the chain the cached block is the last one.
LEMMA HigherIsLast ==
    ASSUME TypeInv, BacksBefore, NEW n \in Node, NEW D, Linear(D),
           NEW S, S \subseteq D, latest[n] \in D
    PROVE  /\ Higher(n, S) \in S \/ Higher(n, S) = latest[n]
           /\ latest[n] <= Higher(n, S)
           /\ \A b \in S : b <= Higher(n, S)
<1>1. D \subseteq Nat /\ S \subseteq Made \union {Genesis}
    BY MadeType DEF Linear, Genesis
<1>2. \A a, b \in D : Index(a) \in Nat /\ Index(b) \in Nat /\ (a < b => Index(a) < Index(b))
    BY IndexGrows, BackType DEF Linear
<1>3. \A a, b \in D : Index(a) <= Index(b) => a <= b
    BY <1>1, <1>2
<1>4. Higher(n, S) \in S \/ Higher(n, S) = latest[n]
    BY <1>1, HigherType
<1>5. CASE \A b \in S : Index(b) <= Index(latest[n])
    <2>1. Higher(n, S) = latest[n]
        BY <1>5 DEF Higher
    <2>2. \A b \in S : b <= latest[n]
        BY <1>3, <1>5
    <2>3. latest[n] \in Nat
        BY <1>1
    <2> QED  BY <2>1, <2>2, <2>3
<1>6. CASE ~(\A b \in S : Index(b) <= Index(latest[n]))
    <2>1. PICK b \in S : ~(Index(b) <= Index(latest[n]))
        BY <1>6
    <2> DEFINE f == [c \in S |-> Index(c)]
    <2>2. \A c \in S : f[c] \in Nat /\ f[c] <= MaxProposals + 1
        BY <1>1, BackType
    <2>3. MaxProposals + 1 \in Nat
        BY SkipchainAssumption
    <2>4. \E h \in S : \A c \in S : f[c] <= f[h]
        <3> HIDE DEF f
        <3> QED  BY <2>1, <2>2, <2>3, Largest
    <2>5. \E h \in S : \A c \in S : Index(c) <= Index(h)
        BY <2>4
    <2>6. Higher(n, S) \in S /\ \A c \in S : Index(c) <= Index(Higher(n, S))
        BY <1>6, <2>5 DEF Higher
    <2>7. \A c \in S : c <= Higher(n, S)
        BY <1>3, <2>6
    <2>8. Index(latest[n]) <= Index(b)
        BY <1>2, <2>1
    <2>9. latest[n] <= b /\ b <= Higher(n, S)
        BY <1>3, <2>7, <2>8
    <2>10. latest[n] \in Nat /\ b \in Nat /\ Higher(n, S) \in Nat
        BY <1>1, <2>6
    <2>11. latest[n] <= Higher(n, S)
        <3> HIDE DEF f
        <3> QED  BY <2>9, <2>10
    <2> QED  BY <2>6, <2>7, <2>11
<1> QED  BY <1>4, <1>5, <1>6

\* Blocks of the chain that come with all blocks before them are stored whole.
LEMMA StoreWhole ==
    ASSUME TypeInv, BacksBefore, \A m \in Node : Whole(m), UNCHANGED blocks,
           NEW n \in Node, NEW S, StoreBlocks(n, S), \A b \in S : Back(b) \subseteq db[n] \union S,
           NEW D, Linear(D), db[n] \union S \subseteq D
    PROVE  /\ \A m \in Node : Whole(m)'
           /\ \A m \in Node : m # n => db'[m] = db[m] /\ links'[m] = links[m] /\ latest'[m] = latest[m]
           /\ db'[n] = db[n] \union S
           /\ links'[n] = links[n] \union (S \ {Genesis})
<1>1. /\ db' = [db EXCEPT ![n] = db[n] \union S] /\ db \in [Node -> SUBSET Block]
      /\ links' = [links EXCEPT ![n] = NewLinks(n, S \ {Genesis})]
      /\ links \in [Node -> SUBSET (1..MaxProposals)]
      /\ latest' = [latest EXCEPT ![n] = Higher(n, S \ db[n])] /\ latest \in [Node -> Block]
    BY DEF StoreBlocks, TypeInv, TypeOK
<1>2. \A m \in Node : m # n => db'[m] = db[m] /\ links'[m] = links[m] /\ latest'[m] = latest[m]
    BY <1>1
<1>3. db'[n] = db[n] \union S /\ links'[n] = NewLinks(n, S \ {Genesis})
      /\ latest'[n] = Higher(n, S \ db[n])
    BY <1>1
<1>4. D \subseteq Nat /\ D \subseteq Made \union {Genesis}
    BY MadeType DEF Linear, Genesis
<1>5. ASSUME NEW b \in S \ {Genesis}, NEW c \in links[n], Prev(c) = Prev(b), c < b PROVE FALSE
    <2>1. c \in D /\ b \in D /\ b \in Made /\ c \in Made
        BY <1>4 DEF TypeInv, NodesOK
    <2>2. c \in Back(b) /\ Back(b) = Back(Prev(b)) \union {Prev(b)}
        BY <1>5, <2>1 DEF Linear, TypeInv, BlocksOK, Back
    <2>3. Prev(c) < c /\ Prev(b) \in Nat /\ c \in Nat /\ Prev(b) \in Made \union {Genesis}
        BY <2>1, MadeType DEF Genesis
    <2>4. c \in Back(Prev(b))
        BY <1>5, <2>2, <2>3
    <2>5. c \in 0..(Prev(b) - 1)
        BY <2>3, <2>4 DEF BacksBefore, Back
    <2> QED  BY <1>5, <2>3, <2>5
<1>6. ASSUME NEW b \in S \ {Genesis}, NEW c \in links[n], Prev(c) = Prev(b), b < c PROVE FALSE
    <2>1. c \in D /\ b \in D /\ b \in Made /\ c \in Made
        BY <1>4 DEF TypeInv, NodesOK
    <2>2. b \in Back(c) /\ Back(c) = Back(Prev(c)) \union {Prev(c)}
        BY <1>6, <2>1 DEF Linear, TypeInv, BlocksOK, Back
    <2>3. Prev(b) < b /\ Prev(c) \in Nat /\ b \in Nat /\ Prev(c) \in Made \union {Genesis}
        BY <2>1, MadeType DEF Genesis
    <2>4. b \in Back(Prev(c))
        BY <1>6, <2>2, <2>3
    <2>5. b \in 0..(Prev(c) - 1)
        BY <2>3, <2>4 DEF BacksBefore, Back
    <2> QED  BY <1>6, <2>3, <2>5
<1>7. ASSUME NEW b \in S \ {Genesis}, HasFollower(n, Prev(b)) PROVE b \in links[n]
    <2>1. PICK c \in links[n] : Prev(c) = Prev(b)
        BY <1>7 DEF HasFollower
    <2>2. c \in Nat /\ b \in Nat
        BY <1>4, MadeType DEF TypeInv, NodesOK
    <2>3. c = b
        BY <1>5, <1>6, <2>1, <2>2
    <2> QED  BY <2>3
<1>8. links'[n] = links[n] \union (S \ {Genesis})
    BY <1>3, <1>7 DEF NewLinks
<1>9. latest[n] \in D /\ S \ db[n] \subseteq D
    BY DEF TypeInv, NodesOK
<1>10. latest[n] <= latest'[n] /\ (\A b \in S \ db[n] : b <= latest'[n]) /\ latest'[n] \in D
    BY <1>3, <1>9, HigherIsLast
<1>11. \A b \in db[n] : b <= latest[n] /\ b \in Nat
    BY <1>4 DEF Whole
<1>12. ASSUME NEW b \in db[n] \union S PROVE b <= latest'[n]
    <2>1. latest[n] \in Nat /\ latest'[n] \in Nat /\ b \in Nat
        BY <1>4, <1>9, <1>10
    <2>2. CASE b \in db[n]
        <3>1. b <= latest[n] /\ latest[n] <= latest'[n]
            BY <1>10, <1>11, <2>2
        <3> QED  BY <2>1, <3>1
    <2>3. CASE b \in S \ db[n]
        BY <1>10, <2>3
    <2> QED  BY <2>2, <2>3
<1>13. \A b \in db[n] \union S : Back(b) \subseteq db[n] \union S
    BY DEF Whole
<1>14. db[n] \union S \subseteq (links[n] \union (S \ {Genesis})) \union {Genesis}
    BY DEF Whole
<1>15. Whole(n)'
    BY <1>3, <1>8, <1>12, <1>13, <1>14 DEF Whole, Back
<1>16. ASSUME NEW m \in Node, m # n PROVE Whole(m)'
    BY <1>2, <1>16 DEF Whole, Back
<1> QED  BY <1>2, <1>3, <1>8, <1>15, <1>16
\* All blocks of a node are on its chain.
LEMMA ChainIsDb ==
    ASSUME TypeInv, NEW n \in Node, Whole(n)
    PROVE  Chain(n) = db[n]
BY DEF Whole, Chain

\* The end of a node's chain is its last block: GetLatest finds that one.
LEMMA EndIsLast ==
    ASSUME TypeInv, BacksBefore, NEW n \in Node, Whole(n), NEW D, Linear(D), db[n] \subseteq D,
           NEW x \in db[n], ~HasFollower(n, x), NEW y \in db[n]
    PROVE  y <= x
<1> DEFINE T == {c \in db[n] : x < c}
           f == [c \in T |-> MaxProposals - c]
<1>1. db[n] \subseteq Nat /\ MaxProposals \in Nat /\ \A c \in db[n] : c <= MaxProposals
    <2>1. MaxProposals \in Nat
        BY SkipchainAssumption
    <2>2. \A c \in Made : c \in Nat /\ c <= MaxProposals
        BY MadeType, <2>1
    <2> QED  BY <2>1, <2>2 DEF Linear, Genesis
<1>2. CASE T = {}
    BY <1>1, <1>2
<1>3. CASE T # {}
    <2>1. \A c \in T : f[c] \in Nat /\ f[c] <= MaxProposals
        BY <1>1
    <2>2. PICK c \in T : \A d \in T : f[d] <= f[c]
        <3> HIDE DEF f, T
        <3> QED  BY <1>1, <1>3, <2>1, Largest
    <2>3. c \in db[n] /\ x < c /\ \A d \in db[n] : x < d => c <= d
        <3>1. c \in db[n] /\ x < c /\ f[c] = MaxProposals - c
            OBVIOUS
        <3>2. ASSUME NEW d \in db[n], x < d PROVE c <= d
            <4>1. f[d] = MaxProposals - d /\ f[d] <= f[c]
                BY <2>2, <3>2
            <4>2. c \in Nat /\ d \in Nat /\ MaxProposals \in Nat
                BY <1>1, <3>1
            <4> HIDE DEF f, T
            <4> QED  BY <3>1, <4>1, <4>2
        <3> QED  BY <3>1, <3>2
    <2> HIDE DEF f, T
    <2>4. c \in Made /\ c \in links[n]
        BY <1>1, <2>3 DEF Linear, Whole, Genesis
    <2>5. Back(c) = Back(Prev(c)) \union {Prev(c)} /\ Prev(c) \in Made \union {Genesis}
          /\ Prev(c) < c
        BY <2>4, MadeType DEF TypeInv, BlocksOK, Back
    <2>6. Prev(c) \in db[n] /\ x \in Back(c)
        BY <2>3, <2>5 DEF Whole, Linear
    <2>7. ~(x < Prev(c))
        BY <1>1, <2>3, <2>5, <2>6
    <2>8. x \in Back(Prev(c)) => x \in 0..(Prev(c) - 1)
        BY <2>5 DEF BacksBefore, Back
    <2>9. x = Prev(c)
        BY <1>1, <2>5, <2>6, <2>7, <2>8
    <2> QED  BY <2>4, <2>9 DEF HasFollower
<1> QED  BY <1>2, <1>3

\* A step that leaves the blocks and the databases alone and starts no round.
LEMMA ChainKept ==
    ASSUME NEW p \in Node, ChainInv(p), UNCHANGED <<blocks, db, links, latest>>,
           phase'[p] \in {"prepare", "commit", "store"} =>
               phase[p] \in {"prepare", "commit", "store"} /\ adding'[p] = adding[p]
    PROVE  ChainInv(p)'
<1>1. BacksBefore' /\ Linear(db[p])'
    BY DEF ChainInv, BacksBefore, Linear, Back, Made
<1>2. \A n \in Node : Whole(n)'
    BY DEF ChainInv, Whole, Back
<1> QED  BY <1>1, <1>2 DEF ChainInv, Prev

\* A step in which a node other than the leader stores blocks that the leader has.
LEMMA ChainStored ==
    ASSUME NEW p \in Node, TypeInv, ChainInv(p), NEW n \in Node, n # p, UNCHANGED blocks,
           NEW S, StoreBlocks(n, S), \A b \in S : Back(b) \subseteq db[n] \union S,
           db[n] \union S \subseteq db[p],
           UNCHANGED <<phase, adding>>
    PROVE  ChainInv(p)'
<1>1. /\ \A m \in Node : Whole(m)'
      /\ db'[p] = db[p] /\ latest'[p] = latest[p]
    BY StoreWhole DEF ChainInv
<1>2. BacksBefore' /\ Linear(db[p])'
    BY <1>1 DEF ChainInv, BacksBefore, Linear, Back, Made
<1> QED  BY <1>1, <1>2 DEF ChainInv, Prev

\* The other nodes have only blocks that the leader has.
LEMMA LeaderHasAll ==
    ASSUME NEW p \in Node, TypeInv, LeaderInv(p), ChainInv(p), NEW m \in Node
    PROVE  Chain(m) = db[m] /\ db[m] \subseteq db[p]
           /\ \A b \in Chain(m) : Back(b) \subseteq Chain(m)
<1>1. Chain(m) = db[m]
    BY ChainIsDb DEF ChainInv
<1>2. db[m] \subseteq links[m] \union {Genesis} /\ links[m] \subseteq links[p]
      /\ links[p] \subseteq db[p] /\ Genesis \in db[p]
    BY DEF ChainInv, Whole, LeaderInv, TypeInv, NodesOK
<1>3. \A b \in db[m] : Back(b) \subseteq db[m]
    BY DEF ChainInv, Whole
<1> QED  BY <1>1, <1>2, <1>3

\* The leader proposes a block after its last one.
LEMMA ChainProposed ==
    ASSUME NEW p \in Node, TypeInv, ChainInv(p), Propose(p)
    PROVE  ChainInv(p)'
<1> DEFINE R == [leader : Proposer, prev : Block, back : SUBSET Block]
           b == Len(blocks) + 1
           x == latest[p]
           r == [leader |-> p, prev |-> x, back |-> Back(x) \union {x}]
           after(c) == IF c = Genesis THEN {} ELSE blocks'[c].back
<1>1. /\ blocks' = Append(blocks, r) /\ adding' = [adding EXCEPT ![p] = b]
      /\ UNCHANGED <<db, links, latest>>
    BY DEF Propose, dbVars
<1>2. blocks \in Seq(R) /\ Len(blocks) \in Nat /\ adding'[p] = b
    BY <1>1, MadeType DEF TypeInv, TypeOK
<1>3. Len(blocks') = b /\ blocks'[b] = r /\ \A c \in Made : blocks'[c] = blocks[c]
    <2> HIDE DEF R, r
    <2> QED  BY <1>1, <1>2 DEF Made
<1>4. Made' = Made \union {b} /\ b \notin Made /\ b \in Nat /\ b # Genesis
    BY <1>2, <1>3 DEF Made, Genesis
<1>5. \A c \in Made \union {Genesis} : after(c) = Back(c) /\ c \in Nat /\ c < b
    BY <1>2, <1>3 DEF Back, Made, Genesis
<1>6. \A n \in Node : db[n] \subseteq Made \union {Genesis} /\ latest[n] \in db[n]
    BY DEF TypeInv, NodesOK
<1>7. after(b) = Back(x) \union {x}
    BY <1>3, <1>4
<1>8. \A c \in Made \union {Genesis} : Back(c) \subseteq 0..(c - 1)
    BY DEF ChainInv, BacksBefore, Back
<1>9. after(b) \subseteq 0..(b - 1)
    <2>1. x \in Made \union {Genesis} /\ x \in Nat /\ x < b
        BY <1>5, <1>6
    <2>2. Back(x) \subseteq 0..(x - 1)
        BY <1>8, <2>1
    <2>3. 0..(x - 1) \subseteq 0..(b - 1) /\ x \in 0..(b - 1)
        BY <1>4, <2>1
    <2> HIDE DEF after
    <2> QED  BY <1>7, <2>2, <2>3
<1>10. BacksBefore'
    <2>1. \A c \in Made' : after(c) \subseteq 0..(c - 1)
        <3> HIDE DEF after
        <3> QED  BY <1>4, <1>5, <1>8, <1>9
    <2> QED  BY <2>1 DEF BacksBefore, Back
<1>11. ASSUME NEW n \in Node PROVE Whole(n)'
    <2>1. \A c \in db[n] : after(c) = Back(c)
        BY <1>5, <1>6
    <2>2. Whole(n)
        BY DEF ChainInv
    <2>3. \A c \in db[n] : after(c) \subseteq db[n] /\ c <= latest[n]
        <3> HIDE DEF after
        <3> QED  BY <2>1, <2>2 DEF Whole
    <2> QED  BY <1>1, <2>2, <2>3 DEF Whole, Back
<1>12. Linear(db[p])'
    <2>1. \A c \in db[p] : after(c) = Back(c)
        BY <1>5, <1>6
    <2>2. /\ db[p] \subseteq Made' \union {Genesis}
          /\ \A c \in db[p] : after(c) \subseteq db[p]
          /\ \A a, c \in db[p] : a < c => a \in after(c)
        <3> HIDE DEF after
        <3> QED  BY <1>4, <1>6, <2>1 DEF ChainInv, Linear
    <2> QED  BY <1>1, <2>2 DEF Linear, Back
<1>13. blocks'[b].prev = latest'[p] /\ \A c \in db'[p] : c < b
    BY <1>1, <1>3, <1>5, <1>6
<1> HIDE DEF b
<1> QED  BY <1>2, <1>10, <1>11, <1>12, <1>13 DEF ChainInv, Prev

\* The leader stores the block of its round after its last one.
LEMMA ChainPropagated ==
    ASSUME NEW p \in Node, TypeInv, LeaderInv(p), ChainInv(p), Propagate(p)
    PROVE  ChainInv(p)'
<1> DEFINE b == adding[p]
           D == db[p] \union {b}
<1>1. /\ phase[p] = "store" /\ HandleForwardLink(p, b) /\ phase' = [phase EXCEPT ![p] = "spread"]
      /\ UNCHANGED <<blocks, adding>>
    BY DEF Propagate
<1>2. StoreBlocks(p, {b}) /\ phase'[p] = "spread"
    BY <1>1, InMade DEF HandleForwardLink, LeaderInv
<1>3. b \in Made /\ Prev(b) = latest[p] /\ latest[p] \in db[p] /\ \A x \in db[p] : x < b
    BY <1>1 DEF ChainInv, TypeInv, NodesOK
<1>4. Back(b) = Back(latest[p]) \union {latest[p]}
    BY <1>3, MadeType DEF TypeInv, BlocksOK, Back
<1>5. db[p] \subseteq Made \union {Genesis} /\ D \subseteq Nat
    BY <1>3, MadeType DEF TypeInv, NodesOK, Genesis
<1>6. Back(b) \subseteq db[p]
    BY <1>3, <1>4 DEF ChainInv, Whole
<1>7. Linear(D)
    <2>1. \A c \in D : Back(c) \subseteq D
        BY <1>6 DEF ChainInv, Whole
    <2>2. ASSUME NEW a \in D, NEW c \in D, a < c PROVE a \in Back(c)
        <3>1. CASE a \in db[p] /\ c \in db[p]
            BY <2>2, <3>1 DEF ChainInv, Linear
        <3>2. CASE a = b
            <4>1. c \in db[p] => c < b /\ c \in Nat /\ b \in Nat
                BY <1>3, <1>5
            <4> QED  BY <1>5, <2>2, <3>2, <4>1
        <3>3. CASE a \in db[p] /\ c = b
            <4>1. a <= latest[p] /\ a \in Nat /\ latest[p] \in Nat
                BY <1>3, <1>5, <3>3 DEF ChainInv, Whole
            <4>2. a = latest[p] \/ a < latest[p]
                BY <4>1
            <4>3. a < latest[p] => a \in Back(latest[p])
                BY <1>3, <3>3 DEF ChainInv, Linear
            <4> QED  BY <1>4, <3>3, <4>2, <4>3
        <3> QED  BY <3>1, <3>2, <3>3
    <2> HIDE DEF b
    <2> QED  BY <1>3, <1>5, <2>1, <2>2 DEF Linear
<1>8. /\ \A m \in Node : Whole(m)'
      /\ db'[p] = D
    <2> HIDE DEF b
    <2>1. \A c \in {b} : Back(c) \subseteq db[p] \union {b}
        BY <1>6
    <2> QED  BY <1>1, <1>2, <1>7, <2>1, StoreWhole DEF ChainInv
<1>9. BacksBefore' /\ Linear(db[p])'
    <2> HIDE DEF D
    <2> QED  BY <1>1, <1>7, <1>8 DEF ChainInv, BacksBefore, Linear, Back, Made
<1> QED  BY <1>2, <1>8, <1>9 DEF ChainInv

\* ChainInv is kept by every step of a system with one leader.
LEMMA ChainStep ==
    ASSUME NEW p \in Node, Proposer = {p}, SlowLeader = FALSE,
           TypeInv, LeaderInv(p), ChainInv(p), [Next]_vars
    PROVE  ChainInv(p)'
<1> USE InMade, OthersIdle
<1>1. ASSUME StartCommit(p) PROVE ChainInv(p)'
    BY <1>1, ChainKept DEF StartCommit, dbVars
<1>2. ASSUME FinishCommit(p) PROVE ChainInv(p)'
    BY <1>2, ChainKept DEF FinishCommit, dbVars
<1>3. ASSUME Fail(p) PROVE ChainInv(p)'
    BY <1>3, ChainKept DEF Fail, dbVars
<1>4. ASSUME EndRound(p) PROVE ChainInv(p)'
    BY <1>4, ChainKept DEF EndRound, dbVars
<1>5. ASSUME NEW n \in Node, NEW b \in Made, NEW m \in Node, Check(n, b, m) PROVE ChainInv(p)'
    <2>1. n # p
        BY <1>5 DEF Check
    <2>2. UNCHANGED <<blocks, phase, adding>>
        BY <1>5 DEF Check, roundVars
    <2>3. CASE UNCHANGED dbVars
        BY <2>2, <2>3, ChainKept DEF dbVars
    <2>4. CASE StoreBlocks(n, Chain(m))
        BY <2>1, <2>2, <2>4, ChainStored, LeaderHasAll
    <2> QED  BY <1>5, <2>3, <2>4 DEF Check
<1>6. ASSUME NEW n \in Node, NEW b \in checking[n], Prepare(n, b) PROVE ChainInv(p)'
    BY <1>6, ChainKept DEF Prepare, dbVars
<1>7. ASSUME NEW n \in Node, NEW q \in Node, Ack(n, q) PROVE ChainInv(p)'
    BY <1>7, ChainKept DEF Ack, dbVars
<1>8. ASSUME NEW n \in Node, NEW b \in sent, ReceiveLink(n, b) PROVE ChainInv(p)'
    <2>1. n # p /\ b \in db[p] /\ b \in Made
        BY <1>8 DEF ReceiveLink, LeaderInv, TypeInv, NodesOK
    <2>2. UNCHANGED <<blocks, phase, adding>>
        BY <1>8 DEF ReceiveLink, roundVars
    <2>3. CASE UNCHANGED dbVars
        BY <2>2, <2>3, ChainKept DEF dbVars
    <2>4. CASE Prev(b) \in db[n] /\ StoreBlocks(n, {b})
        <3>1. Back(b) = Back(Prev(b)) \union {Prev(b)}
            BY <2>1, MadeType DEF TypeInv, BlocksOK, Back
        <3>2. Back(Prev(b)) \subseteq db[n]
            BY <2>4 DEF ChainInv, Whole
        <3>3. \A c \in {b} : Back(c) \subseteq db[n] \union {b}
            BY <2>4, <3>1, <3>2
        <3>4. db[n] \union {b} \subseteq db[p]
            BY <2>1, LeaderHasAll
        <3> QED  BY <2>1, <2>2, <2>4, <3>3, <3>4, ChainStored
    <2> QED  BY <1>8, <2>3, <2>4 DEF ReceiveLink, HandleForwardLink, dbVars
<1>9. ASSUME NEW n \in Node, NEW m \in Node, Sync(n, m) PROVE ChainInv(p)'
    <2>1. n # p
        BY <1>9, LeaderHasAll DEF Sync
    <2>2. StoreBlocks(n, Chain(m)) /\ UNCHANGED <<blocks, phase, adding>>
        BY <1>9 DEF Sync, roundVars
    <2> QED  BY <2>1, <2>2, ChainStored, LeaderHasAll
<1>10. ASSUME NEW n \in Node, Restart(n) PROVE ChainInv(p)'
    <2> DEFINE t == CHOOSE b \in Chain(n) : ~HasFollower(n, b)
    <2>1. t \in Chain(n) /\ ~HasFollower(n, t)
        BY ChainEnds
    <2>2. t \in db[n] /\ db[n] \subseteq db[p]
        BY <2>1, LeaderHasAll
    <2>3. /\ latest' = [latest EXCEPT ![n] = t] /\ UNCHANGED <<blocks, db, links, adding>>
          /\ latest \in [Node -> Block] /\ phase' = [phase EXCEPT ![n] = "idle"]
        BY <1>10 DEF Restart, TypeInv, TypeOK
    <2> HIDE DEF t
    <2>4. \A y \in db[n] : y <= t
        BY <2>1, <2>2, EndIsLast DEF ChainInv
    <2>5. BacksBefore' /\ Linear(db[p])'
        BY <2>3 DEF ChainInv, BacksBefore, Linear, Back, Made
    <2>6. ASSUME NEW m \in Node PROVE Whole(m)'
        <3>1. \A y \in db[m] : y <= latest'[m]
            BY <2>3, <2>4 DEF ChainInv, Whole
        <3> QED  BY <2>3, <3>1 DEF ChainInv, Whole, Back
    <2>7. n = p => phase'[p] = "idle"
        BY <2>3
    <2>8. n # p => phase'[p] = phase[p] /\ latest'[p] = latest[p]
        BY <2>3
    <2> QED  BY <2>3, <2>5, <2>6, <2>7, <2>8 DEF ChainInv, Prev
<1>11. ASSUME UNCHANGED vars PROVE ChainInv(p)'
    BY <1>11, ChainKept DEF vars, dbVars, roundVars
<1>12. ASSUME NEW n \in Node,
              Propose(n) \/ StartCommit(n) \/ FinishCommit(n) \/ Fail(n) \/ Propagate(n) \/ EndRound(n)
       PROVE n = p
    BY <1>12 DEF Propose, StartCommit, FinishCommit, Fail, Propagate, EndRound
<1>13. ASSUME Propose(p) \/ Propagate(p) PROVE ChainInv(p)'
    BY <1>13, ChainProposed, ChainPropagated
<1> QED  BY <1>1, <1>2, <1>3, <1>4, <1>5, <1>6, <1>7, <1>8, <1>9, <1>10, <1>11, <1>12, <1>13
            DEF Next

\* ChainInv holds at first.
LEMMA InitChain == ASSUME NEW p \in Node, Init PROVE ChainInv(p)
BY DEF Init, ChainInv, BacksBefore, Whole, Linear, Made, Back, Genesis

\* With one leader whose verification ends with its round, the cached latest block
\* of every node is the end of its chain, after any mixture of links, syncs and
\* restarts (latestUpdate, struct.go:1010): the index picks the right block,
\* because no node stores a block without those before it.
THEOREM LatestAlwaysTip ==
    ASSUME NEW p \in Node, Proposer = {p}, SlowLeader = FALSE
    PROVE  Spec => []LatestIsTip
<1>1. Init => LeaderInv(p) /\ ChainInv(p)
    BY InitChain DEF Init, LeaderInv
<1>2. TypeInv /\ LeaderInv(p) /\ ChainInv(p) /\ [Next]_vars => LeaderInv(p)' /\ ChainInv(p)'
    BY LeaderStep, ChainStep
<1>3. TypeInv /\ ChainInv(p) => LatestIsTip
    <2> SUFFICES ASSUME TypeInv, ChainInv(p), NEW n \in Node
                 PROVE  latest[n] \in Chain(n) /\ ~HasFollower(n, latest[n])
        BY DEF LatestIsTip
    <2>1. Whole(n) /\ Chain(n) = db[n] /\ latest[n] \in db[n]
        BY ChainIsDb DEF ChainInv, TypeInv, NodesOK
    <2>2. ASSUME NEW c \in links[n], Prev(c) = latest[n] PROVE FALSE
        <3>1. c \in Made /\ c \in db[n]
            BY DEF TypeInv, NodesOK
        <3>2. c <= latest[n] /\ latest[n] < c /\ c \in Nat /\ latest[n] \in Nat
            BY <2>1, <2>2, <3>1, MadeType DEF Whole, Genesis
        <3> QED  BY <3>2
    <2> QED  BY <2>1, <2>2 DEF HasFollower
<1> QED  BY InitType, TypeStep, <1>1, <1>2, <1>3, PTL DEF Spec

-----------------------------------------------------------------------------
(* Sorted: the elements of a finite set of numbers by their rank.           *)

UpTo(S, b) == {c \in S : c <= b}
Rank(S, b) == Cardinality(UpTo(S, b))
Numbers(S) == IsFiniteSet(S) /\ S \subseteq Nat

\* T has, with an element, all smaller elements of S.
Initial(T, S) == T \subseteq S /\ \A a \in S, b \in T : a < b => a \in T

\* Ranks are between one and the number of elements, and larger for larger ones.
LEMMA RankGrows ==
    ASSUME NEW S, Numbers(S), NEW a \in S
    PROVE  /\ Rank(S, a) \in 1..Cardinality(S)
           /\ \A b \in S : a < b => Rank(S, a) < Rank(S, b)
<1>1. IsFiniteSet(S) /\ S \subseteq Nat /\ Cardinality(S) \in Nat
    BY FS_CardinalityType DEF Numbers
<1>2. ASSUME NEW b \in S
      PROVE  /\ IsFiniteSet(UpTo(S, b)) /\ Rank(S, b) \in Nat /\ Rank(S, b) <= Cardinality(S)
    BY <1>1, FS_Subset, FS_CardinalityType DEF UpTo, Rank
<1>3. Rank(S, a) >= 1
    <2>1. a \in UpTo(S, a)
        BY <1>1 DEF UpTo
    <2>2. Cardinality(UpTo(S, a)) # 0
        BY <1>2, <2>1, FS_EmptySet
    <2> QED  BY <1>2, <2>2 DEF Rank
<1>4. ASSUME NEW b \in S, a < b PROVE Rank(S, a) < Rank(S, b)
    <2>1. UpTo(S, a) \subseteq UpTo(S, b) /\ b \in UpTo(S, b) /\ b \notin UpTo(S, a)
        <3>1. a \in Nat /\ b \in Nat /\ \A c \in S : c \in Nat
            BY <1>1
        <3>2. b <= b /\ ~(b <= a) /\ \A c \in S : c <= a => c <= b
            BY <1>4, <3>1
        <3> QED  BY <3>2 DEF UpTo
    <2>2. Rank(S, a) <= Rank(S, b) /\ Rank(S, a) # Rank(S, b)
        BY <1>2, <2>1, FS_Subset DEF Rank
    <2> QED  BY <1>2, <2>2
<1> QED  BY <1>1, <1>2, <1>3, <1>4

\* Every rank is taken.
LEMMA RankTaken ==
    ASSUME NEW S, Numbers(S), NEW i \in 1..Cardinality(S)
    PROVE  \E b \in S : Rank(S, b) = i
<1> DEFINE C == 1..Cardinality(S)
           f == [b \in S |-> Rank(S, b)]
<1>1. IsFiniteSet(S) /\ S \subseteq Nat /\ Cardinality(S) \in Nat
    BY FS_CardinalityType DEF Numbers
<1>2. IsFiniteSet(C) /\ Cardinality(C) = Cardinality(S)
    <2>1. 1 \in Int /\ Cardinality(S) \in Int
        BY <1>1
    <2>2. IsFiniteSet(C) /\ Cardinality(C) = IF 1 > Cardinality(S) THEN 0 ELSE Cardinality(S) - 1 + 1
        BY <2>1, FS_Interval
    <2> QED  BY <1>1, <2>2
<1>3. f \in [S -> C]
    BY RankGrows
<1>4. ASSUME NEW a \in S, NEW b \in S, f[a] = f[b] PROVE a = b
    <2>1. Rank(S, a) = Rank(S, b) /\ Rank(S, a) \in Nat /\ Rank(S, b) \in Nat
        BY <1>4, RankGrows
    <2>2. ~(a < b) /\ ~(b < a)
        BY <2>1, RankGrows
    <2> QED  BY <1>1, <2>2
<1>5. f \in Injection(S, C)
    <2> HIDE DEF f, C
    <2> QED  BY <1>3, <1>4 DEF Injection, IsInjective
<1>6. f \in Surjection(S, C)
    <2> HIDE DEF f, C
    <2> QED  BY <1>2, <1>5, FS_Injection
<1>7. \E b \in S : f[b] = i
    <2>1. i \in C
        OBVIOUS
    <2> HIDE DEF f, C
    <2> QED  BY <1>6, <2>1 DEF Surjection
<1> QED  BY <1>7

\* The element of a given rank is the one at that place of the sequence.
LEMMA SortedAt ==
    ASSUME NEW S, Numbers(S)
    PROVE  /\ Sorted(S) \in Seq(S) /\ Len(Sorted(S)) = Cardinality(S) /\ Cardinality(S) \in Nat
           /\ Sorted(S) \in [1..Cardinality(S) -> S]
           /\ \A i \in 1..Cardinality(S) : Sorted(S)[i] \in S /\ Rank(S, Sorted(S)[i]) = i
           /\ \A b \in S : Rank(S, b) \in 1..Cardinality(S) /\ Sorted(S)[Rank(S, b)] = b
<1>1. S \subseteq Nat /\ Cardinality(S) \in Nat
    BY FS_CardinalityType DEF Numbers
<1>2. ASSUME NEW i \in 1..Cardinality(S)
      PROVE  Sorted(S)[i] \in S /\ Rank(S, Sorted(S)[i]) = i
    <2>1. \E b \in S : Cardinality({c \in S : c <= b}) = i
        BY RankTaken DEF Rank, UpTo
    <2>2. Sorted(S)[i] = CHOOSE b \in S : Cardinality({c \in S : c <= b}) = i
        BY DEF Sorted
    <2> QED  BY <2>1, <2>2 DEF Rank, UpTo
<1>3. ASSUME NEW b \in S
      PROVE  Rank(S, b) \in 1..Cardinality(S) /\ Sorted(S)[Rank(S, b)] = b
    <2>1. Rank(S, b) \in 1..Cardinality(S)
        BY RankGrows
    <2>2. PICK c \in S : c = Sorted(S)[Rank(S, b)] /\ Rank(S, c) = Rank(S, b)
        BY <1>2, <2>1
    <2>3. Rank(S, b) \in Nat
        BY <1>1, <2>1
    <2>4. ~(b < c) /\ ~(c < b)
        BY <2>2, <2>3, RankGrows
    <2> QED  BY <1>1, <2>1, <2>2, <2>4
<1>4. Sorted(S) \in [1..Cardinality(S) -> S]
    <2> DEFINE e(i) == CHOOSE b \in S : Cardinality({c \in S : c <= b}) = i
    <2>1. Sorted(S) = [i \in 1..Cardinality(S) |-> e(i)]
        BY DEF Sorted
    <2> HIDE DEF e
    <2>2. \A i \in 1..Cardinality(S) : e(i) \in S
        BY <1>2, <2>1
    <2> QED  BY <2>1, <2>2
<1>5. Sorted(S) \in Seq(S) /\ Len(Sorted(S)) = Cardinality(S)
    BY <1>1, <1>4
<1> QED  BY <1>1, <1>2, <1>3, <1>4, <1>5

\* An initial part of the set is an initial part of the sequence.
LEMMA SortedInitial ==
    ASSUME NEW S, Numbers(S), NEW T, Initial(T, S)
    PROVE  /\ Numbers(T) /\ Cardinality(T) \in 0..Cardinality(S)
           /\ (T # S => Cardinality(T) < Cardinality(S))
           /\ Sorted(T) = SubSeq(Sorted(S), 1, Cardinality(T))
<1>1. IsFiniteSet(S) /\ S \subseteq Nat /\ Cardinality(S) \in Nat /\ T \subseteq S
    BY FS_CardinalityType DEF Numbers, Initial
<1>2. IsFiniteSet(T) /\ Cardinality(T) <= Cardinality(S) /\ (T # S => Cardinality(T) # Cardinality(S))
    BY <1>1, FS_Subset
<1>3. Cardinality(T) \in Nat /\ Numbers(T)
    BY <1>1, <1>2, FS_CardinalityType DEF Numbers
<1>4. ASSUME NEW i \in 1..Cardinality(T) PROVE Sorted(T)[i] = Sorted(S)[i]
    <2> DEFINE x == Sorted(T)[i]
    <2>1. x \in T /\ Rank(T, x) = i
        BY <1>3, SortedAt
    <2> HIDE DEF x
    <2>2. UpTo(T, x) = UpTo(S, x)
        <3>1. ASSUME NEW c \in S, c <= x PROVE c \in T
            <4>1. c < x \/ c = x
                BY <1>1, <2>1, <3>1
            <4> QED  BY <2>1, <4>1 DEF Initial
        <3> QED  BY <1>1, <3>1 DEF UpTo
    <2>3. Rank(S, x) = i /\ x \in S
        BY <1>1, <2>1, <2>2 DEF Rank
    <2>4. Sorted(S)[i] = x
        BY <2>3, SortedAt
    <2> QED  BY <2>4 DEF x
<1>5. Sorted(T) = SubSeq(Sorted(S), 1, Cardinality(T))
    <2> DEFINE q == Sorted(S)
               r == Sorted(T)
               k == Cardinality(T)
    <2>1. q \in Seq(S) /\ Len(q) = Cardinality(S)
        BY SortedAt
    <2>2. r \in [1..k -> T] /\ Len(r) = k /\ k \in Nat
        BY <1>3, SortedAt
    <2>3. \A i \in 1..k : r[i] = q[i]
        BY <1>4
    <2>4. k <= Len(q) /\ Len(q) \in Nat
        BY <1>1, <1>2, <2>1
    <2> HIDE DEF q, r, k
    <2>5. SubSeq(q, 1, k) \in Seq(S) /\ Len(SubSeq(q, 1, k)) = k /\ \A i \in 1..k : SubSeq(q, 1, k)[i] = q[i]
        BY <2>1, <2>2, <2>4
    <2>6. r \in Seq(S)
        <3>1. r \in [1..k -> S]
            BY <1>1, <2>2
        <3> QED  BY <2>2, <3>1
    <2>7. r = SubSeq(q, 1, k)
        <3> DEFINE u == SubSeq(q, 1, k)
        <3>1. u \in Seq(S) /\ Len(u) = Len(r) /\ \A i \in 1..Len(r) : r[i] = u[i]
            BY <2>2, <2>3, <2>5
        <3> HIDE DEF u
        <3>2. r = u
            BY <2>6, <3>1, SeqEqual
        <3> QED  BY <3>2 DEF u
    <2> QED  BY <2>7 DEF q, r, k
<1> QED  BY <1>1, <1>2, <1>3, <1>5
\* A larger element comes at the end.
LEMMA SortedAppend ==
    ASSUME NEW S, Numbers(S), NEW b \in Nat, \A c \in S : c < b
    PROVE  Sorted(S \union {b}) = Append(Sorted(S), b)
<1> DEFINE U == S \union {b}
           k == Cardinality(S)
<1>1. IsFiniteSet(S) /\ S \subseteq Nat /\ k \in Nat /\ b \notin S
    BY FS_CardinalityType DEF Numbers
<1>2. Numbers(U) /\ Cardinality(U) = k + 1
    BY <1>1, FS_AddElement DEF Numbers
<1>3. Initial(S, U)
    BY <1>1 DEF Initial
<1>4. Sorted(S) = SubSeq(Sorted(U), 1, k)
    <2> HIDE DEF U
    <2> QED  BY <1>2, <1>3, SortedInitial
<1>5. Sorted(U)[k + 1] = b
    <2>1. UpTo(U, b) = U /\ b \in U
        <3>1. \A c \in S \union {b} : c <= b
            BY <1>1
        <3> QED  BY <3>1 DEF UpTo
    <2> HIDE DEF U
    <2> QED  BY <1>2, <2>1, SortedAt DEF Rank
<1>6. Sorted(U) \in Seq(U) /\ Len(Sorted(U)) = k + 1 /\ b \in U
    <2>1. b \in U
        OBVIOUS
    <2> HIDE DEF U
    <2> QED  BY <1>2, <2>1, SortedAt
<1> DEFINE q == Sorted(U)
           u == SubSeq(q, 1, k)
           w == Append(u, b)
<1>7. Sorted(S) = u
    BY <1>4
<1> HIDE DEF U, q, k
<1>8. q \in Seq(U) /\ Len(q) = k + 1 /\ k \in Nat /\ q[k + 1] = b
    BY <1>1, <1>5, <1>6 DEF q
<1>9. u \in Seq(U) /\ Len(u) = k /\ \A i \in 1..k : u[i] = q[i]
    BY <1>8
<1> HIDE DEF u
<1>10. w \in Seq(U) /\ Len(w) = k + 1 /\ w[k + 1] = b /\ \A i \in 1..k : w[i] = u[i]
    BY <1>6, <1>8, <1>9
<1> HIDE DEF w
<1>11. \A i \in 1..(k + 1) : w[i] = q[i]
    BY <1>8, <1>9, <1>10
<1>12. w = q
    BY <1>8, <1>10, <1>11, SeqEqual
<1> QED  BY <1>7, <1>12 DEF w, q, U

-----------------------------------------------------------------------------
(* The refinement. Every node has an initial part of the leader's links.    *)

ViewsInv(p) ==
    /\ Numbers(links[p])
    /\ \A n \in Node : Initial(links[n], links[p])

\* ViewsInv follows from the invariants of a system with one leader.
LEMMA ViewsHold ==
    ASSUME NEW p \in Node, TypeInv, LeaderInv(p), ChainInv(p)
    PROVE  ViewsInv(p)
<1>1. Numbers(links[p])
    <2>1. links[p] \subseteq 1..MaxProposals /\ MaxProposals \in Nat
        BY SkipchainAssumption DEF TypeInv, TypeOK
    <2>2. IsFiniteSet(1..MaxProposals)
        BY <2>1, FS_Interval
    <2> QED  BY <2>1, <2>2, FS_Subset DEF Numbers
<1>2. ASSUME NEW n \in Node PROVE Initial(links[n], links[p])
    <2>1. links[n] \subseteq links[p]
        BY DEF LeaderInv
    <2>2. ASSUME NEW a \in links[p], NEW b \in links[n], a < b PROVE a \in links[n]
        <3>1. a \in db[p] /\ b \in db[p] /\ b \in db[n] /\ a \in Made
            BY <2>1 DEF TypeInv, NodesOK
        <3>2. a \in db[n] /\ a # Genesis
            BY <2>2, <3>1, MadeType DEF ChainInv, Linear, Whole
        <3> QED  BY <3>2 DEF ChainInv, Whole
    <2> QED  BY <2>1, <2>2 DEF Initial
<1> QED  BY <1>1, <1>2 DEF ViewsInv

\* The links of all nodes are those of the leader.
LEMMA AllLinks ==
    ASSUME NEW p \in Node, ViewsInv(p)
    PROVE  UNION {links[n] : n \in Node} = links[p]
BY DEF ViewsInv, Initial

\* What a step does to the links: nothing, one node learns some, or the leader adds
\* one that is later than all others.
LEMMA LinksEffect ==
    ASSUME NEW p \in Node, Proposer = {p}, SlowLeader = FALSE,
           TypeInv, LeaderInv(p), ChainInv(p), [Next]_vars
    PROVE  \/ links' = links
           \/ \E n \in Node : /\ n # p
                              /\ links' = [links EXCEPT ![n] = links'[n]]
                              /\ links[n] \subseteq links'[n]
           \/ \E b \in 1..MaxProposals : /\ links' = [links EXCEPT ![p] = links[p] \union {b}]
                                         /\ \A c \in links[p] : c < b
<1> DEFINE Kept == links' = links
           Learnt == \E n \in Node : /\ n # p
                                     /\ links' = [links EXCEPT ![n] = links'[n]]
                                     /\ links[n] \subseteq links'[n]
           Added == \E b \in 1..MaxProposals :
                        /\ links' = [links EXCEPT ![p] = links[p] \union {b}]
                        /\ \A c \in links[p] : c < b
<1> USE OthersIdle
<1>1. ASSUME NEW n \in Node, n # p, NEW S, StoreBlocks(n, S) PROVE Learnt
    <2>1. links' = [links EXCEPT ![n] = NewLinks(n, S \ {Genesis})]
          /\ links \in [Node -> SUBSET (1..MaxProposals)]
        BY <1>1 DEF StoreBlocks, TypeInv, TypeOK
    <2>2. links'[n] = NewLinks(n, S \ {Genesis})
        BY <2>1
    <2>3. links' = [links EXCEPT ![n] = links'[n]] /\ links[n] \subseteq links'[n]
        BY <2>1, <2>2 DEF NewLinks
    <2> QED  BY <1>1, <2>3
<1>2. ASSUME Propagate(p) PROVE Added
    <2> DEFINE b == adding[p]
    <2>1. phase[p] = "store" /\ HandleForwardLink(p, b)
        BY <1>2 DEF Propagate
    <2>2. StoreBlocks(p, {b})
        BY <2>1 DEF HandleForwardLink, LeaderInv
    <2>3. b \in Made /\ b # Genesis /\ b \in 1..MaxProposals
        BY <2>1, MadeType DEF TypeInv, NodesOK
    <2>4. NewLinks(p, {b} \ {Genesis}) = links[p] \union {b}
        BY <2>1, <2>3 DEF NewLinks, LeaderInv
    <2>5. \A c \in links[p] : c < b
        BY <2>1 DEF ChainInv, TypeInv, NodesOK
    <2> QED  BY <2>2, <2>3, <2>4, <2>5 DEF StoreBlocks
<1>3. ASSUME NEW n \in Node, NEW b \in Made, NEW m \in Node, Check(n, b, m) PROVE Kept \/ Learnt
    <2>1. n # p
        BY <1>3 DEF Check
    <2> HIDE DEF Learnt
    <2> QED  BY <1>1, <1>3, <2>1 DEF Check, dbVars
<1>4. ASSUME NEW n \in Node, NEW b \in sent, ReceiveLink(n, b) PROVE Kept \/ Learnt
    <2>1. n # p
        BY <1>4 DEF ReceiveLink, TypeInv, SentOK
    <2> HIDE DEF Learnt
    <2> QED  BY <1>1, <1>4, <2>1 DEF ReceiveLink, HandleForwardLink, dbVars
<1>5. ASSUME NEW n \in Node, NEW m \in Node, Sync(n, m) PROVE Learnt
    <2>1. n # p
        BY <1>5, LeaderHasAll DEF Sync
    <2> HIDE DEF Learnt
    <2> QED  BY <1>1, <1>5, <2>1 DEF Sync
<1>6. ASSUME NEW n \in Node,
             \/ Propose(n) \/ StartCommit(n) \/ FinishCommit(n) \/ Fail(n) \/ EndRound(n)
             \/ \E b \in checking[n] : Prepare(n, b)
             \/ \E q \in Node : Ack(n, q)
             \/ Restart(n)
      PROVE  Kept
    BY <1>6 DEF Propose, StartCommit, FinishCommit, Fail, EndRound, Prepare, Ack, Restart, dbVars
<1>7. ASSUME UNCHANGED vars PROVE Kept
    BY <1>7 DEF vars, dbVars
<1>8. ASSUME NEW n \in Node, Propagate(n) PROVE n = p
    BY <1>8 DEF Propagate
<1>9. Kept \/ Learnt \/ Added
    <2> HIDE DEF Kept, Learnt, Added
    <2> QED  BY <1>2, <1>3, <1>4, <1>5, <1>6, <1>7, <1>8 DEF Next
<1> QED  BY <1>9

\* A node that learns links takes a step Learn of the ledger, or none.
LEMMA LearnStep ==
    ASSUME NEW p \in Node, TypeInv, ViewsInv(p), ViewsInv(p)', NEW n \in Node, n # p,
           links' = [links EXCEPT ![n] = links'[n]], links[n] \subseteq links'[n]
    PROVE  Abstract!Learn(n) \/ UNCHANGED Abstract!vars
<1> DEFINE L == links[p]
           T == links'[n]
           V == [m \in Node |-> Sorted(links[m])]
           W == [m \in Node |-> Sorted(links'[m])]
<1>1. links \in [Node -> SUBSET (1..MaxProposals)] /\ links'[p] = L
    BY DEF TypeInv, TypeOK
<1>2. UNION {links[m] : m \in Node} = L
    BY AllLinks
<1>3. UNION {links'[m] : m \in Node} = L
    BY <1>1 DEF ViewsInv, Initial
<1>4. Numbers(L) /\ Initial(links[n], L) /\ Initial(T, L)
    BY <1>1 DEF ViewsInv
<1>5. Sorted(T) = SubSeq(Sorted(L), 1, Cardinality(T)) /\ Cardinality(T) \in 0..Cardinality(L)
      /\ Numbers(T) /\ Cardinality(L) \in Nat /\ Len(Sorted(L)) = Cardinality(L)
    <2> HIDE DEF L, T
    <2> QED  BY <1>4, SortedInitial, SortedAt
<1>6. W = [V EXCEPT ![n] = Sorted(T)]
    <2>1. ASSUME NEW m \in Node, m # n PROVE links'[m] = links[m]
        BY <1>1, <2>1
    <2> QED  BY <2>1
<1>7. V[n] = Sorted(links[n])
    OBVIOUS
<1>8. CASE T = links[n]
    <2>1. links' = links
        BY <1>1, <1>8
    <2> QED  BY <2>1 DEF Abstract!vars
<1>9. CASE T # links[n]
    <2>1. Initial(links[n], T)
        BY <1>4 DEF Initial
    <2>2. Cardinality(links[n]) < Cardinality(T) /\ Cardinality(links[n]) \in Nat
          /\ Len(Sorted(links[n])) = Cardinality(links[n])
        <3> HIDE DEF T
        <3> QED  BY <1>5, <1>9, <2>1, SortedInitial, SortedAt
    <2>3. Cardinality(T) \in (Len(V[n]) + 1)..Len(Sorted(L))
        <3> HIDE DEF T, L, V
        <3> QED  BY <1>5, <1>7, <2>2
    <2>4. \E k \in (Len(V[n]) + 1)..Len(Sorted(L)) : W = [V EXCEPT ![n] = SubSeq(Sorted(L), 1, k)]
        <3> HIDE DEF T, L, V, W
        <3> QED  BY <1>5, <1>6, <2>3
    <2>5. \E k \in (Len(V[n]) + 1)..Len(Sorted(UNION {links[m] : m \in Node})) :
              W = [V EXCEPT ![n] = SubSeq(Sorted(UNION {links[m] : m \in Node}), 1, k)]
        <3> HIDE DEF L, V, W
        <3> QED  BY <1>2, <2>4
    <2>6. Sorted(UNION {links'[m] : m \in Node}) = Sorted(UNION {links[m] : m \in Node})
        BY <1>2, <1>3
    <2> QED  BY <2>5, <2>6 DEF Abstract!Learn, Sorted
<1> QED  BY <1>8, <1>9

\* The leader that stores its block takes a step Add of the ledger.
LEMMA AddStep ==
    ASSUME NEW p \in Node, TypeInv, ViewsInv(p), ViewsInv(p)', NEW b \in 1..MaxProposals,
           links' = [links EXCEPT ![p] = links[p] \union {b}], \A c \in links[p] : c < b
    PROVE  Abstract!Add(p, b)
<1> DEFINE L == links[p]
           V == [m \in Node |-> Sorted(links[m])]
           W == [m \in Node |-> Sorted(links'[m])]
<1>1. links \in [Node -> SUBSET (1..MaxProposals)] /\ links'[p] = L \union {b}
    BY DEF TypeInv, TypeOK
<1>2. UNION {links[m] : m \in Node} = L
    BY AllLinks
<1>3. UNION {links'[m] : m \in Node} = L \union {b}
    BY <1>1 DEF ViewsInv, Initial
<1>4. b \in Nat
    BY SkipchainAssumption
<1>5. Sorted(L \union {b}) = Append(Sorted(L), b)
    BY <1>4, SortedAppend DEF ViewsInv
<1>6. W = [V EXCEPT ![p] = Sorted(L \union {b})]
    <2>1. ASSUME NEW m \in Node, m # p PROVE links'[m] = links[m]
        BY <1>1, <2>1
    <2> QED  BY <1>1, <2>1
<1>7. V[p] = Sorted(L)
    OBVIOUS
<1>8. /\ V[p] = Sorted(UNION {links[m] : m \in Node})
      /\ Sorted(UNION {links'[m] : m \in Node}) = Append(Sorted(UNION {links[m] : m \in Node}), b)
      /\ W = [V EXCEPT ![p] = Sorted(UNION {links'[m] : m \in Node})]
    <2> HIDE DEF L, V, W
    <2> QED  BY <1>2, <1>3, <1>5, <1>6, <1>7
<1> QED  BY <1>8 DEF Abstract!Add, Sorted

\* With one leader whose verification ends with its round, the databases of the
\* nodes implement one ledger, whatever rounds fail, whoever restarts and however
\* nodes learn of blocks (StoreBlocks, struct.go:859): the leader adds a block
\* after all others, and every node learns the blocks in that order.
THEOREM LedgerImplemented ==
    ASSUME NEW p \in Node, Proposer = {p}, SlowLeader = FALSE
    PROVE  Spec => ImplementsLedger
<1>1. Init => LeaderInv(p) /\ ChainInv(p)
    BY InitChain DEF Init, LeaderInv
<1>2. TypeInv /\ LeaderInv(p) /\ ChainInv(p) /\ [Next]_vars => LeaderInv(p)' /\ ChainInv(p)'
    BY LeaderStep, ChainStep
<1>3. TypeInv /\ LeaderInv(p) /\ ChainInv(p) => ViewsInv(p)
    BY ViewsHold
<1>4. Init => Abstract!Init
    <2> SUFFICES ASSUME Init PROVE Abstract!Init
        OBVIOUS
    <2>1. links = [n \in Node |-> {}] /\ UNION {links[n] : n \in Node} = {}
        BY DEF Init
    <2>2. Cardinality({}) = 0
        BY FS_EmptySet
    <2>3. Sorted({}) = <<>>
        BY <2>2 DEF Sorted
    <2> QED  BY <2>1, <2>3 DEF Abstract!Init
<1>5. TypeInv /\ LeaderInv(p) /\ ChainInv(p) /\ ViewsInv(p) /\ ViewsInv(p)' /\ [Next]_vars
      => [Abstract!Next]_Abstract!vars
    <2> SUFFICES ASSUME TypeInv, LeaderInv(p), ChainInv(p), ViewsInv(p), ViewsInv(p)', [Next]_vars
                 PROVE  Abstract!Next \/ UNCHANGED Abstract!vars
        OBVIOUS
    <2>1. CASE links' = links
        BY <2>1 DEF Abstract!vars
    <2>2. CASE \E n \in Node : /\ n # p
                               /\ links' = [links EXCEPT ![n] = links'[n]]
                               /\ links[n] \subseteq links'[n]
        BY <2>2, LearnStep DEF Abstract!Next
    <2>3. CASE \E b \in 1..MaxProposals : /\ links' = [links EXCEPT ![p] = links[p] \union {b}]
                                          /\ \A c \in links[p] : c < b
        BY <2>3, AddStep DEF Abstract!Next
    <2> QED  BY <2>1, <2>2, <2>3, LinksEffect
<1> QED  BY InitType, TypeStep, <1>1, <1>2, <1>3, <1>4, <1>5, PTL
            DEF Spec, ImplementsLedger, Abstract!Spec
=============================================================================
