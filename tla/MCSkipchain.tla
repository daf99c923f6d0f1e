----------------------------- MODULE MCSkipchain -----------------------------
(* Instances of Skipchain for TLC, and the ledger it implements while one node *)
(* leads: the blocks of a chain have increasing numbers, so that the set of    *)
(* blocks that forward links point to, sorted, is the sequence of blocks.      *)
EXTENDS Skipchain, TLC

Sorted(S) == [i \in 1..Cardinality(S) |->
                CHOOSE b \in S : Cardinality({c \in S : c <= b}) = i]

Abstract == INSTANCE Ledger WITH
    Value <- 1..MaxProposals,
    ledger <- Sorted(UNION {links[n] : n \in Node}),
    view <- [n \in Node |-> Sorted(links[n])]

\* The databases of the nodes form one ledger (StoreBlocks, struct.go:859): a
\* block is added only after all others, and nodes learn about blocks in order.
ImplementsLedger == Abstract!Spec

\* The nodes that lead are alike, and so are the others.
Alike == Permutations(Node \ Proposer) \union Permutations(Proposer)
=============================================================================
