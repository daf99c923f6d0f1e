------------------------------ MODULE SkipFollow ------------------------------
(***************************************************************************)
(* Which chains a conode takes part in.  The conode FSelf keeps the public *)
(* keys of the clients that are linked to it, and two lists of chains it   *)
(* follows.  They decide about requests to store blocks, genesis blocks    *)
(* that are propagated to it, and the question of a leader whether it      *)
(* would be part of a new roster (ExtendRoster), of which the leader's     *)
(* side is here too.  The other conodes answer as they like, or not.       *)
(***************************************************************************)
EXTENDS Integers, FiniteSets, Sequences, SequencesExt

CONSTANTS FSelf, FOthers,    \* the conode and the others
          FLeader,           \* the conode that extends a roster
          FChains, FKeys,    \* skipchains and client keys
          FMaxList           \* bound: length of the lists of FSelf

ASSUME FollowAssumption ==
    /\ FSelf \notin FOthers /\ FLeader \in FOthers /\ IsFiniteSet(FOthers)
    /\ FMaxList \in Nat

FNodes == FOthers \union {FSelf}
FRosters == {r \in SUBSET FNodes : FLeader \in r}
Policies == {"NewChainNone", "NewChainStrictNodes", "NewChainAnyNode"}
NoKey == "none"

VARIABLES clients,    \* keys of the linked clients, in the order of their links
          unlinking,  \* indices that running Unlink requests have found
          followIDs,  \* chains that are followed by their ID
          follow,     \* chains that are followed with a policy for new chains
          stored,     \* chains in the database of FSelf
          current,    \* roster of the latest block of every chain
          extend      \* the ExtendRoster protocol of the leader

followVars == <<clients, unlinking, followIDs, follow, stored, current, extend>>
adminVars == <<clients, unlinking, followIDs, follow>>

NoExtend == [on |-> FALSE]

FollowInit ==
    /\ clients = << >> /\ unlinking = {} /\ followIDs = << >> /\ follow = << >>
    /\ stored = {}
    /\ current \in [FChains -> {{FLeader}, {FSelf}}]
    /\ extend = NoExtend

\* Anybody may administrate a conode without clients, then only its clients.
verifySigs(signer) == clients = << >> \/ signer \in ToSet(clients)
\* A block is stored if its sender is a client or a node of a followed chain.
authenticate(signer) ==
    \/ signer = FSelf
    \/ \E k \in DOMAIN follow : signer \in follow[k].roster
    \/ signer \in ToSet(clients)

-----------------------------------------------------------------------------
(* Links of clients.  The owner of the node signs a link, the key itself its *)
(* removal.  Unlink reads and writes the list without the lock, so another   *)
(* request can come between its search and its removal.                      *)
CreateLinkPrivate(k) ==
    /\ Len(clients) < FMaxList
    /\ clients' = Append(clients, k)
    /\ UNCHANGED <<unlinking, followIDs, follow, stored, current, extend>>

UnlinkFind(k) ==
    /\ k \in ToSet(clients)
    /\ unlinking' = unlinking \union {SelectInSeq(clients, LAMBDA x : x = k)}
    /\ UNCHANGED <<clients, followIDs, follow, stored, current, extend>>
UnlinkRemove(i) ==
    /\ i \in unlinking
    /\ unlinking' = unlinking \ {i}
    /\ clients' = IF i <= Len(clients) THEN RemoveAt(clients, i) ELSE clients
    /\ UNCHANGED <<followIDs, follow, stored, current, extend>>

(* Followed chains.  A chain is followed with the roster it has now: later   *)
(* updates ask for one block starting with the one that is known.            *)
AddFollowID(c, signer) ==
    /\ verifySigs(signer) /\ Len(followIDs) < FMaxList
    /\ followIDs' = Append(followIDs, c)
    /\ UNCHANGED <<clients, unlinking, follow, stored, current, extend>>

\* Where the chain is found: the nodes of all rosters that are known, or the
\* conode named in the request.
SearchNodes ==
    UNION {follow[k].roster : k \in DOMAIN follow} \union UNION {current[c] : c \in stored}
getLastBlock(node, c) == IF node = FSelf THEN c \in stored ELSE node \in current[c]
AddFollowChain(c, policy, node, signer) ==
    /\ verifySigs(signer) /\ Len(follow) < FMaxList
    /\ getLastBlock(node, c)
    /\ follow' = Append(follow, [chain |-> c, policy |-> policy, roster |-> current[c]])
    /\ UNCHANGED <<clients, unlinking, followIDs, stored, current, extend>>
AddFollowSearch(c, policy, signer) == \E node \in SearchNodes : AddFollowChain(c, policy, node, signer)
AddFollowLookup(c, policy, node, signer) == AddFollowChain(c, policy, node, signer)

\* The first entry of the list that is one of these is removed.
Without(list, these) ==
    LET k == SelectInSeq(list, LAMBDA x : x \in these)
    IN  IF k = 0 THEN list ELSE RemoveAt(list, k)
DelFollow(c, signer) ==
    /\ verifySigs(signer)
    /\ followIDs' = Without(followIDs, {c})
    /\ follow' = Without(follow, {x \in Range(follow) : x.chain = c})
    /\ <<followIDs, follow>>' # <<followIDs, follow>>
    /\ UNCHANGED <<clients, unlinking, stored, current, extend>>

-----------------------------------------------------------------------------
AcceptNew(fct, roster) ==
    \/ fct.policy = "NewChainAnyNode" /\ (roster \ {FSelf}) \intersect fct.roster # {}
    \/ fct.policy = "NewChainStrictNodes" /\ roster \ {FSelf} \subseteq fct.roster

ChainIsFriendly(c) == followIDs = << >> \/ c \in stored \union ToSet(followIDs)
BlockIsFriendly(c, roster) ==
    \/ ChainIsFriendly(c)
    \/ follow = << >>
    \/ \E k \in DOMAIN follow : AcceptNew(follow[k], roster)

propagateGenesisHandler(c) ==
    /\ c \notin stored /\ FSelf \in current[c] /\ BlockIsFriendly(c, current[c])
    /\ stored' = stored \union {c}
    /\ UNCHANGED <<adminVars, current, extend>>

\* A client asks FSelf, as the leader, for a new chain.
StoreSkipBlock(c, signer) ==
    /\ clients # << >> => authenticate(signer)
    /\ c \notin stored /\ current[c] = {FSelf}
    /\ stored' = stored \union {c}
    /\ UNCHANGED <<adminVars, current, extend>>

\* The answer of FSelf to a leader that wants it in a roster.
isBlockAccepted(c, roster) ==
    \/ c \in ToSet(followIDs)
    \/ \E k \in DOMAIN follow : follow[k].chain = c \/ AcceptNew(follow[k], roster)
    \/ follow = << >> /\ followIDs = << >>

-----------------------------------------------------------------------------
(* ExtendRoster at the leader.  It waits for one value on a channel without  *)
(* buffer, and whoever sends a second one blocks.                            *)
Children == extend.roster \ {FLeader}
allowedFailures(roster) == (Cardinality(roster) - 1) \div 3
Decided(x, answer) == [x EXCEPT !.decided = TRUE, !.answer = answer]

\* StoreSkipBlock asks the nodes of a roster that is not the one before.  FLeader
\* has no clients, so that it takes blocks from everybody.
StartExtend(c, roster) ==
    /\ extend = NoExtend /\ FLeader \in current[c] /\ roster # current[c] /\ roster # {FLeader}
    /\ extend' = [on |-> TRUE, chain |-> c, roster |-> roster, asked |-> {}, replies |-> {},
                  sigs |-> {}, refused |-> FALSE, timer |-> FALSE,
                  decided |-> FALSE, answer |-> {}]
    /\ UNCHANGED <<adminVars, stored, current>>

HandleExtendRoster(n, accepts) ==
    /\ extend.on /\ n \in Children \ extend.asked
    /\ n = FSelf => (accepts <=> isBlockAccepted(extend.chain, extend.roster))
    /\ extend' = [extend EXCEPT !.asked = @ \union {n}, !.replies = @ \union {<<n, accepts>>}]
    /\ UNCHANGED <<adminVars, stored, current>>

\* Mutant: a refusal is taken like an answer that is missing.
RefusalIsSilence(n) ==
    /\ extend.on /\ ~extend.decided /\ \E accepts \in BOOLEAN : <<n, accepts>> \in extend.replies
    /\ LET accepts == <<n, TRUE>> \in extend.replies
           sigs    == IF accepts THEN extend.sigs \union {n} ELSE extend.sigs
           next    == [extend EXCEPT !.replies = {r \in @ : r[1] # n}, !.sigs = sigs, !.timer = TRUE,
                                     !.refused = @ \/ ~accepts]
       IN  extend' = IF sigs = Children THEN Decided(next, sigs) ELSE next
    /\ UNCHANGED <<adminVars, stored, current>>
\* The first reply starts the timer.  One refusal decides, and all signatures.
HandleExtendRosterReply(n) ==
    /\ extend.on /\ ~extend.decided /\ \E accepts \in BOOLEAN : <<n, accepts>> \in extend.replies
    /\ LET accepts == <<n, TRUE>> \in extend.replies
           sigs    == IF accepts THEN extend.sigs \union {n} ELSE extend.sigs
           next    == [extend EXCEPT !.replies = {r \in @ : r[1] # n}, !.sigs = sigs, !.timer = TRUE,
                                     !.refused = @ \/ ~accepts]
       IN  extend' = IF ~accepts THEN Decided(next, {})
                     ELSE IF sigs = Children THEN Decided(next, sigs) ELSE next
    /\ UNCHANGED <<adminVars, stored, current>>
ExtendTimeout ==
    /\ extend.on /\ extend.timer /\ ~extend.decided
    /\ extend' = Decided(extend, IF Cardinality(extend.sigs) >= Cardinality(Children) - allowedFailures(extend.roster)
                                 THEN extend.sigs ELSE {})
    /\ UNCHANGED <<adminVars, stored, current>>

Accepted ==
    Cardinality(extend.answer) >= Cardinality(extend.roster) - allowedFailures(extend.roster) - 1
\* The chain goes on with the new roster, or stays as it is.
willNodesAcceptBlock ==
    /\ extend.on /\ extend.decided
    /\ current' = IF Accepted THEN [current EXCEPT ![extend.chain] = extend.roster] ELSE current
    /\ extend' = NoExtend
    /\ UNCHANGED <<adminVars, stored>>

FollowNext ==
    \/ \E k \in FKeys : CreateLinkPrivate(k) \/ UnlinkFind(k)
    \/ \E i \in unlinking : UnlinkRemove(i)
    \/ \E c \in FChains : \E s \in FKeys \union {NoKey} :
        \/ StoreSkipBlock(c, s) \/ AddFollowID(c, s) \/ DelFollow(c, s)
        \/ \E p \in Policies : AddFollowSearch(c, p, s)
        \/ \E p \in Policies : \E n \in FNodes : AddFollowLookup(c, p, n, s)
    \/ \E c \in FChains : propagateGenesisHandler(c)
    \/ \E c \in FChains : \E r \in FRosters : StartExtend(c, r)
    \/ \E n \in FNodes : \E accepts \in BOOLEAN : HandleExtendRoster(n, accepts)
    \/ \E n \in FNodes : HandleExtendRosterReply(n)
    \/ ExtendTimeout
    \/ willNodesAcceptBlock

-----------------------------------------------------------------------------
FollowTypeOK ==
    /\ clients \in Seq(FKeys) /\ unlinking \subseteq Nat
    /\ followIDs \in Seq(FChains)
    /\ follow \in Seq([chain : FChains, policy : Policies, roster : SUBSET FNodes])
    /\ stored \subseteq FChains /\ current \in [FChains -> SUBSET FNodes]

(* However the answers, the refusals and the timeout interleave at a leader   *)
(* that extends a roster, the new roster is accepted only with the            *)
(* signatures of all but a third of its nodes and when no refusal has been    *)
(* handled, and a question that got a first answer is decided or will be by   *)
(* the timer (HandleExtendRosterReply, willNodesAcceptBlock).                 *)
ExtensionAgreed ==
    extend.on =>
        /\ (extend.decided /\ Accepted) =>
            /\ ~extend.refused
            /\ 3 * Cardinality(extend.roster \ (extend.answer \union {FLeader})) < Cardinality(extend.roster)
        /\ (extend.asked # {} /\ extend.replies = {}) => extend.decided \/ extend.timer
=============================================================================
