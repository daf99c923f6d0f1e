---------------------------- MODULE ClientProofs ----------------------------
(***************************************************************************)
(* Proofs for clients.  A node answers from its state trie, which lags     *)
(* behind the blocks it knows or, after a download of the state, runs      *)
(* ahead of them; blocks and links arrive in any order along the links     *)
(* that exist.  NewProof chooses the links, Proof.Verify checks them with  *)
(* the rosters they carry, and the client remembers the latest block of    *)
(* the proofs it accepts (proof.go, api.go).                               *)
(*                                                                         *)
(* A block is its index, its state root is that index too: the trie of a   *)
(* node at index i has the root that block i announces.  Signatures are    *)
(* the roster that made them.                                              *)
(***************************************************************************)
EXTENDS Integers, FiniteSets, Sequences, FiniteSetsExt, SequencesExt

CONSTANTS PNodes,        \* the nodes, in the order of the client's roster
          PRosters,      \* rosters a block can have
          PSpans,        \* how many blocks the links of each level lead over
          PMaxIndex      \* bound: blocks after the genesis block

NoRoster == "none"
NoIndex == -1
ASSUME ClientProofsAssumption ==
    /\ PNodes \in Seq(STRING) /\ PNodes # << >>
    /\ PRosters # {} /\ NoRoster \notin PRosters
    /\ PSpans \subseteq Nat \ {0} /\ 1 \in PSpans
    /\ PMaxIndex \in Nat

PNodeSet == ToSet(PNodes)

VARIABLES pRoster,   \* roster of every block of the chain
          pHas,      \* pHas[n]: blocks in the database of a node
          pLinks,    \* pLinks[n]: <<block, span>> of the forward links it has stored
          pTrie,     \* pTrie[n]: index of its state trie
          pGenesis,  \* Client.Genesis is known
          pLatest,   \* Client.Latest
          pWait      \* Client.WaitPropagation under way

pVars == <<pRoster, pHas, pLinks, pTrie, pGenesis, pLatest, pWait>>
pNodeVars == <<pRoster, pHas, pLinks, pTrie>>
pClientVars == <<pGenesis, pLatest, pWait>>

PTip == Len(pRoster) - 1
RosterOf(i) == pRoster[i + 1]
ChainLinks == {l \in (0 .. PTip) \X PSpans : l[1] % l[2] = 0 /\ l[1] + l[2] <= PTip}

-----------------------------------------------------------------------------
(* Forward links and proofs.                                               *)
\* Mutant: the roster is compared with that of the block just before.
ComparesPrevious(from, to) == IF RosterOf(to) = RosterOf(to - 1) THEN NoRoster ELSE RosterOf(to)
NewRosterOf(from, to) == IF RosterOf(to) = RosterOf(from) THEN NoRoster ELSE RosterOf(to)
\* A link is signed by the roster of its source block.
NewForwardLink(from, to) ==
    [from |-> from, to |-> to, roster |-> NewRosterOf(from, to), signer |-> RosterOf(from)]
SyntheticLink(id) == [from |-> NoIndex, to |-> id, roster |-> RosterOf(id), signer |-> NoRoster]

NoProof == [ok |-> FALSE]
\* The highest link to a known block that does not lead past the state trie.
LinksFrom(n, i) == {k \in PSpans : <<i, k>> \in pLinks[n]}
Fitting(n, i) == {k \in LinksFrom(n, i) : i + k \in pHas[n] /\ i + k <= pTrie[n]}
FollowLink(n, w) ==
    IF ~w.ok \/ LinksFrom(n, w.at) = {} \/ w.at >= pTrie[n] THEN w
    ELSE IF Fitting(n, w.at) = {} THEN [w EXCEPT !.ok = FALSE]
    ELSE LET to == w.at + Max(Fitting(n, w.at))
         IN  [w EXCEPT !.at = to, !.links = Append(@, NewForwardLink(w.at, to))]
\* Every link leads on: as many rounds as there are blocks are enough.
NewProof(n, id) ==
    LET after[k \in 0 .. PTip] ==
            IF k = 0 THEN [ok |-> TRUE, at |-> id, links |-> <<SyntheticLink(id)>>]
            ELSE FollowLink(n, after[k - 1])
        end == after[PTip]
    IN  IF id \notin pHas[n] \/ ~end.ok \/ end.at # pTrie[n] THEN NoProof
        ELSE [ok |-> TRUE, links |-> end.links, latest |-> end.at, root |-> pTrie[n]]

VerifyInclusionProof(p) == p.root = p.latest
\* Every link is checked with the roster the links before it lead to.
VerifyLink(st, l) ==
    IF ~st.ok \/ l.signer # st.roster \/ l.from # st.id THEN [st EXCEPT !.ok = FALSE]
    ELSE [ok |-> TRUE, id |-> l.to, roster |-> IF l.roster = NoRoster THEN st.roster ELSE l.roster]
Verify(p, id, roster) ==
    LET after[k \in 0 .. Len(p.links) - 1] ==
            IF k = 0 THEN [ok |-> TRUE, id |-> id, roster |-> roster]
            ELSE VerifyLink(after[k - 1], p.links[k + 1])
        end == after[Len(p.links) - 1]
    IN  VerifyInclusionProof(p) /\ p.links # << >> /\ end.ok /\ end.id = p.latest
VerifyFromBlock(p, block) == Verify(p, block, RosterOf(block))

\* The answer of a node; barrier = NoIndex if no block must be contained.
GetProofAnswer(n, id, barrier) ==
    LET p == NewProof(n, id)
    IN  IF barrier = NoIndex \/ (p.ok /\ barrier \in pHas[n] /\ p.latest >= barrier) THEN p ELSE NoProof

-----------------------------------------------------------------------------
(* The nodes.  The first one makes the blocks and knows all of them.       *)
PLeader == PNodes[1]
NewSkipBlock(r) ==
    /\ PTip < PMaxIndex /\ pRoster' = Append(pRoster, r)
    /\ pHas' = [pHas EXCEPT ![PLeader] = @ \union {PTip + 1}]
    /\ pLinks' = [pLinks EXCEPT ![PLeader] = @ \union {<<PTip, 1>>}]
    /\ UNCHANGED pTrie /\ UNCHANGED pClientVars
\* A block is stored with a link that leads to it from a known block; a link
\* over several blocks may come without the block it leads to.
StoreLink(n, l, withBlock) ==
    /\ l \in ChainLinks /\ l[1] \in pHas[n] /\ (withBlock \/ l[2] > 1)
    /\ pLinks' = [pLinks EXCEPT ![n] = @ \union {l}]
    /\ pHas' = [pHas EXCEPT ![n] = IF withBlock THEN @ \union {l[1] + l[2]} ELSE @]
    /\ UNCHANGED <<pRoster, pTrie>> /\ UNCHANGED pClientVars
UpdateTrie(n) ==
    /\ pTrie[n] + 1 \in pHas[n]
    /\ pTrie' = [pTrie EXCEPT ![n] = @ + 1]
    /\ UNCHANGED <<pRoster, pHas, pLinks>> /\ UNCHANGED pClientVars
\* The state is taken over from a node that is ahead.
DownloadState(n, m) ==
    /\ pTrie[m] > pTrie[n]
    /\ pTrie' = [pTrie EXCEPT ![n] = pTrie[m]]
    /\ UNCHANGED <<pRoster, pHas, pLinks>> /\ UNCHANGED pClientVars

-----------------------------------------------------------------------------
(* The client; one node answers a request.                                 *)
Accepts(p, from, barrier) ==
    p.ok /\ VerifyFromBlock(p, from) /\ (barrier # NoIndex => p.latest >= barrier)
Newer(latest, p) == IF latest < p.latest THEN p.latest ELSE latest
getProofRaw(n, from, barrier) ==
    LET p == GetProofAnswer(n, from, barrier)
    IN  /\ Accepts(p, from, barrier)
        /\ pLatest' = Newer(pLatest, p)
        /\ UNCHANGED <<pGenesis, pWait>> /\ UNCHANGED pNodeVars
fetchGenesis ==
    /\ ~pGenesis /\ pGenesis' = TRUE /\ pLatest' = 0
    /\ UNCHANGED pWait /\ UNCHANGED pNodeVars
\* GetProof, GetProofFromLatest (also AddTransactionAndWait, whose proof starts
\* at the latest block) and GetProofAfter.
GetProof(n) == pGenesis /\ getProofRaw(n, 0, NoIndex)
GetProofFromLatest(n) == pLatest # NoIndex /\ getProofRaw(n, pLatest, NoIndex)
GetProofAfter(n, full, barrier) ==
    pGenesis /\ barrier \in 0 .. PTip /\ getProofRaw(n, IF full THEN 0 ELSE pLatest, barrier)

\* WaitPropagation: one pass over the nodes after the other.
NotWaiting == [on |-> FALSE]
StartWait(index) ==
    /\ pGenesis /\ ~pWait.on
    /\ pWait' = [on |-> TRUE, node |-> 1, sb |-> 0, index |-> index, heard |-> {}, done |-> FALSE]
    /\ UNCHANGED <<pGenesis, pLatest>> /\ UNCHANGED pNodeVars
NextPass(w) == [w EXCEPT !.node = 1, !.heard = {}]
Advance(w) ==
    IF w.node < Len(PNodes) THEN [w EXCEPT !.node = @ + 1]
    ELSE IF w.sb >= w.index THEN [w EXCEPT !.done = TRUE] ELSE NextPass(w)
\* An error is ignored, an unexpected index starts the next pass.
WaitPropagation(answers) ==
    LET n == PNodes[pWait.node]
        p == GetProofAnswer(n, 0, NoIndex)
        heard == [pWait EXCEPT !.heard = @ \union {n}]
    IN  /\ pWait.on /\ ~pWait.done
        /\ IF answers /\ Accepts(p, 0, NoIndex)
           THEN /\ pLatest' = Newer(pLatest, p)
                /\ pWait' = IF p.latest > pWait.sb
                            THEN LET w == [heard EXCEPT !.sb = p.latest]
                                 IN  IF pWait.node > 1 THEN NextPass(w) ELSE Advance(w)
                            ELSE IF p.latest < pWait.sb THEN NextPass(heard) ELSE Advance(heard)
           ELSE pWait' = Advance(pWait) /\ UNCHANGED pLatest
        /\ UNCHANGED pGenesis /\ UNCHANGED pNodeVars

\* After 10 passes.
GiveUp ==
    /\ pWait.on /\ pWait' = NotWaiting
    /\ UNCHANGED <<pGenesis, pLatest>> /\ UNCHANGED pNodeVars

PInit ==
    /\ pRoster = <<CHOOSE r \in PRosters : TRUE>>
    /\ pHas = [n \in PNodeSet |-> {0}] /\ pLinks = [n \in PNodeSet |-> {}]
    /\ pTrie = [n \in PNodeSet |-> 0]
    /\ pGenesis = FALSE /\ pLatest = NoIndex
    /\ pWait = NotWaiting
PNext ==
    \/ \E r \in PRosters : NewSkipBlock(r)
    \/ \E n \in PNodeSet, l \in ChainLinks, b \in BOOLEAN : StoreLink(n, l, b)
    \/ \E n \in PNodeSet : UpdateTrie(n) \/ (\E m \in PNodeSet : DownloadState(n, m))
    \/ fetchGenesis
    \/ \E n \in PNodeSet : \/ GetProof(n) \/ GetProofFromLatest(n)
                           \/ \E b \in BOOLEAN, i \in 0 .. PTip : GetProofAfter(n, b, i)
    \/ StartWait(PMaxIndex)
    \/ \E b \in BOOLEAN : WaitPropagation(b)
    \/ GiveUp

-----------------------------------------------------------------------------
PTypeOK ==
    /\ ToSet(pRoster) \subseteq PRosters
    /\ pHas \in [PNodeSet -> SUBSET (0 .. PTip)] /\ \A n \in PNodeSet : pLinks[n] \subseteq ChainLinks
    /\ pTrie \in [PNodeSet -> 0 .. PTip] /\ pLatest \in NoIndex .. PTip

(* Whatever blocks and links a node holds, the proofs it serves verify from *)
(* the block they start at, through changes of the roster and links over    *)
(* several blocks; a node that knows the chain up to its trie serves one    *)
(* from each of its blocks (NewProof, Proof.Verify).                        *)
Complete(n) == \A i \in 0 .. pTrie[n] : i \in pHas[n] /\ (i < pTrie[n] => <<i, 1>> \in pLinks[n])
ProofsServed ==
    \A n \in PNodeSet : \A i \in 0 .. PTip :
        LET p == NewProof(n, i)
        IN  /\ p.ok => VerifyFromBlock(p, i) /\ p.latest >= i
            /\ Complete(n) /\ i <= pTrie[n] => p.ok

(* When WaitPropagation returns, every node that answered in the last pass  *)
(* has the block, although nodes go on while others are asked (api.go).     *)
PropagationSeen ==
    pWait.on => (pWait.done => \A n \in pWait.heard : pTrie[n] >= pWait.index)

ProofsHold == ProofsServed /\ PropagationSeen
=============================================================================
