---------------------------- MODULE SigningProofs -----------------------------
(* Proofs about the protocols between conodes, for every number of nodes: what *)
(* a propagation reports, how a roster is extended, what keys, re-encryptions  *)
(* and collective signatures are made of.                                      *)
EXTENDS MCSigning, NatLemmas, SequenceTheorems

-----------------------------------------------------------------------------
(* Each behaviour runs one of the protocols.                                *)

\* A step of a behaviour that runs the propagation is one of its steps.
LEMMA MsgSteps ==
    ASSUME active = "messaging", [SigningNext]_SigningVars
    PROVE  [MsgNext]_msgVars /\ UNCHANGED active
BY DEF SigningNext, SigningVars

\* A step of a behaviour that extends rosters is one of that protocol.
LEMMA FollowSteps ==
    ASSUME active = "follow", [SigningNext]_SigningVars
    PROVE  [FollowNext]_followVars /\ UNCHANGED active
BY DEF SigningNext, SigningVars

\* The protocol that runs stays the same.
LEMMA ActiveStays ==
    ASSUME [SigningNext]_SigningVars
    PROVE  UNCHANGED active
BY DEF SigningNext, SigningVars

-----------------------------------------------------------------------------
(* Propagation. The replies that the root has counted are those of nodes     *)
(* that have handled the data and whose reply is not under way any more.     *)

Replied == propData \ ({0} \union propReplies)

PropInv ==
    /\ propState \in {"start", "waiting", "done", "timeout", "error"}
    /\ propErrors \subseteq MsgChildren
    /\ propSend \subseteq MsgChildren \ propErrors
    /\ propReplies \subseteq propData \ {0}
    /\ propData \subseteq MsgNodes \ propErrors
    /\ propSend \intersect propData = {}
    /\ propReceived = Cardinality(Replied)
    /\ propState = "start" => propData = {} /\ propSend = {}
    /\ propState # "start" => 0 \in propData
    /\ propState = "done" => propData = MsgNodes \ propErrors

\* The nodes are finitely many, the root and its children.
LEMMA MsgNodesFinite ==
    /\ MsgN \in Nat /\ MsgN >= 2 /\ 0 \in MsgNodes /\ 0 \notin MsgChildren
    /\ MsgChildren = MsgNodes \ {0}
    /\ IsFiniteSet(MsgNodes) /\ Cardinality(MsgNodes) = MsgN
    /\ IsFiniteSet(MsgChildren) /\ Cardinality(MsgChildren) = MsgN - 1
<1>1. MsgN \in Nat /\ MsgN >= 2
    BY MsgAssumption
<1>2. 0 \in Int /\ MsgN - 1 \in Int /\ ~(0 > MsgN - 1)
    BY <1>1
<1>3. IsFiniteSet(MsgNodes) /\ Cardinality(MsgNodes) = (MsgN - 1) - 0 + 1
    BY <1>2, FS_Interval DEF MsgNodes
<1>4. 0 \in MsgNodes /\ MsgChildren = MsgNodes \ {0}
    BY <1>1 DEF MsgNodes, MsgChildren
<1>5. IsFiniteSet(MsgChildren) /\ Cardinality(MsgChildren) = Cardinality(MsgNodes) - 1
    BY <1>3, <1>4, FS_RemoveElement
<1> QED  BY <1>1, <1>3, <1>4, <1>5

\* What the root has counted is a number of nodes.
LEMMA RepliedFinite ==
    ASSUME PropInv
    PROVE  /\ IsFiniteSet(propData) /\ IsFiniteSet(Replied)
           /\ Cardinality(propData) \in Nat /\ Cardinality(Replied) \in Nat
           /\ Replied \subseteq MsgChildren \ propErrors
<1>1. propData \subseteq MsgNodes /\ Replied \subseteq propData
    BY DEF PropInv, Replied
<1>2. IsFiniteSet(propData)
    BY <1>1, MsgNodesFinite, FS_Subset
<1>3. IsFiniteSet(Replied)
    BY <1>1, <1>2, FS_Subset
<1>4. Replied \subseteq MsgChildren \ propErrors
    BY MsgNodesFinite DEF PropInv, Replied
<1> QED  BY <1>2, <1>3, <1>4, FS_CardinalityType

\* A child has handled the data: its reply is under way.
LEMMA ChildInv ==
    ASSUME PropInv, NEW n \in MsgChildren, PropagateChild(n)
    PROVE  PropInv'
<1>1. /\ n \in propSend /\ propSend' = propSend \ {n}
      /\ propData' = propData \union {n} /\ propReplies' = propReplies \union {n}
      /\ UNCHANGED <<propErrors, propReceived, propState>>
    BY DEF PropagateChild
<1>2. n \notin propData /\ n \in MsgNodes \ propErrors /\ n # 0
    BY <1>1, MsgNodesFinite DEF PropInv
<1>3. Replied' = Replied
    BY <1>1, <1>2 DEF Replied
<1>4. propReceived' = Cardinality(Replied')
    BY <1>1, <1>3 DEF PropInv
<1> QED  BY <1>1, <1>2, <1>4 DEF PropInv

\* The root counts a reply, and stops when it has all of them.
LEMMA ReplyInv ==
    ASSUME PropInv, NEW n \in MsgChildren, PropagateReply(n)
    PROVE  PropInv'
<1>1. /\ propState = "waiting" /\ n \in propReplies
      /\ propReplies' = propReplies \ {n} /\ propReceived' = propReceived + 1
      /\ propState' = IF AllReplies(propReceived + 1) THEN "done" ELSE "waiting"
      /\ UNCHANGED <<propSend, propErrors, propData>>
    BY DEF PropagateReply
<1>2. Replied' = Replied \union {n} /\ n \notin Replied
    BY <1>1 DEF Replied, PropInv
<1>3. Cardinality(Replied') = Cardinality(Replied) + 1 /\ IsFiniteSet(Replied')
    BY <1>2, RepliedFinite, FS_AddElement
<1>4. propReceived' = Cardinality(Replied')
    BY <1>1, <1>3 DEF PropInv
<1>5. ASSUME propState' = "done" PROVE propData' = MsgNodes \ propErrors
    <2> DEFINE T == MsgChildren \ propErrors
    <2>1. Replied' \subseteq T
        BY <1>1, <1>2, RepliedFinite DEF PropInv
    <2>2. IsFiniteSet(propErrors) /\ propErrors \subseteq MsgChildren
        BY MsgNodesFinite, FS_Subset DEF PropInv
    <2>3. IsFiniteSet(T) /\ Cardinality(T) = Cardinality(MsgChildren) - Cardinality(MsgChildren \intersect propErrors)
        BY <2>2, MsgNodesFinite, FS_Difference
    <2>4. MsgChildren \intersect propErrors = propErrors
        BY <2>2
    <2>5. propReceived + 1 = MsgN - 1 - Cardinality(propErrors)
        BY <1>1, <1>5 DEF AllReplies
    <2>6. Cardinality(Replied') = Cardinality(T)
        BY <1>1, <1>4, <2>3, <2>4, <2>5, MsgNodesFinite
    <2>7. Replied' = T
        <3> HIDE DEF T
        <3> QED  BY <2>1, <2>3, <2>6, FS_Subset
    <2>8. 0 \in propData /\ propData \subseteq MsgNodes \ propErrors
        BY <1>1 DEF PropInv
    <2>9. T \subseteq propData
        BY <1>1, <2>7 DEF Replied
    <2> QED  BY <1>1, <2>8, <2>9, MsgNodesFinite
<1>6. propState' \in {"waiting", "done"}
    BY <1>1
<1> QED  BY <1>1, <1>4, <1>5, <1>6 DEF PropInv

\* Every step of the propagation keeps PropInv.
LEMMA PropStep ==
    ASSUME PropInv, [MsgNext]_msgVars
    PROVE  PropInv'
<1>1. ASSUME NEW errs \in SUBSET MsgChildren, PropagateRoot(errs) PROVE PropInv'
    <2>1. /\ propState = "start" /\ propData' = {0} /\ propErrors' = errs
          /\ propSend' = MsgChildren \ errs /\ propState' \in {"error", "waiting"}
          /\ UNCHANGED <<propReplies, propReceived>>
        BY <1>1 DEF PropagateRoot
    <2>2. propReplies = {} /\ Replied = {} /\ propReceived = Cardinality({})
        BY <2>1 DEF PropInv, Replied
    <2>3. Replied' = {}
        BY <2>1 DEF Replied
    <2> QED  BY <2>1, <2>2, <2>3, MsgNodesFinite DEF PropInv
<1>2. ASSUME NEW n \in MsgChildren, PropagateLost(n) PROVE PropInv'
    BY <1>2 DEF PropagateLost, PropInv, Replied
<1>3. ASSUME PropagateTimeout PROVE PropInv'
    BY <1>3 DEF PropagateTimeout, PropInv, Replied
<1>4. ASSUME UNCHANGED propVars PROVE PropInv'
    BY <1>4 DEF propVars, PropInv, Replied
<1>5. ASSUME NEW m, handleContactNodes(m) PROVE UNCHANGED propVars
    BY <1>5 DEF handleContactNodes
<1>6. ASSUME NEW c, handleDone(c) PROVE UNCHANGED propVars
    BY <1>6 DEF handleDone
<1> QED  BY <1>1, <1>2, <1>3, <1>4, <1>5, <1>6, ChildInv, ReplyInv DEF MsgNext, msgVars

\* What the root reports, from PropInv.
LEMMA PropCounted ==
    ASSUME PropInv
    PROVE  PropagationCounted
<1>1. ASSUME propState # "start" PROVE propagateStartAndWait <= Cardinality(propData)
    <2>1. 0 \in propData /\ 0 \notin Replied /\ Replied \union {0} \subseteq propData
        BY <1>1 DEF PropInv, Replied
    <2>2. Cardinality(Replied \union {0}) = Cardinality(Replied) + 1 /\ IsFiniteSet(Replied \union {0})
        BY <2>1, RepliedFinite, FS_AddElement
    <2>3. Cardinality(Replied \union {0}) <= Cardinality(propData)
        BY <2>1, RepliedFinite, FS_Subset
    <2> QED  BY <2>2, <2>3, RepliedFinite DEF PropInv, propagateStartAndWait
<1> QED  BY <1>1 DEF PropInv, PropagationCounted

\* At first nothing has been sent or counted.
LEMMA PropStart ==
    ASSUME MsgInit
    PROVE  PropInv
<1>1. propReceived = Cardinality({})
    BY FS_EmptySet DEF MsgInit
<1>2. Replied = {}
    BY DEF MsgInit, Replied
<1> QED  BY <1>1, <1>2 DEF MsgInit, PropInv

SpreadInv == active = "messaging" => PropInv

\* Whatever is lost, late or cannot be sent, a propagation reports no more nodes
\* than have handled the data, and one that ends before its timeout has reached
\* every node it could send to (messaging/propagate.go, Dispatch).
THEOREM SpreadAlwaysRight == SigningSpec => []SpreadRight
<1>1. SigningInit => SpreadInv
    <2> SUFFICES ASSUME SigningInit, active = "messaging" PROVE PropInv
        BY DEF SpreadInv
    <2>1. MsgInit
        BY DEF SigningInit
    <2> QED  BY <2>1, PropStart
<1>2. SpreadInv /\ [SigningNext]_SigningVars => SpreadInv'
    BY MsgSteps, ActiveStays, PropStep DEF SpreadInv
<1>3. SpreadInv => SpreadRight
    BY PropCounted DEF SpreadInv, SpreadRight
<1> QED  BY <1>1, <1>2, <1>3, PTL DEF SigningSpec
-----------------------------------------------------------------------------
(* Extension of a roster. A leader has asked some nodes of the roster; what   *)
(* they have signed and answered, and what it has decided, fit together.      *)

ExtendRecord ==
    [on : {TRUE}, chain : FChains, roster : FRosters, asked : SUBSET FNodes,
     replies : SUBSET (FNodes \X BOOLEAN), sigs : SUBSET FNodes, refused : BOOLEAN,
     timer : BOOLEAN, decided : BOOLEAN, answer : SUBSET FNodes]

\* The leader goes on without an extension, or with one that fits.
ExtendFits(x) ==
    /\ x \in ExtendRecord
    /\ x.roster # {FLeader}
    /\ \A r \in x.replies : r[1] \in x.roster \ {FLeader}
    /\ x.sigs \subseteq x.roster \ {FLeader}
    /\ x.answer \subseteq x.sigs
    /\ x.refused => x.decided /\ x.answer = {}
    /\ x.asked # {} => x.replies # {} \/ x.timer \/ x.decided

ExtendInv == extend # NoExtend => ExtendFits(extend)

\* An extension is on if there is one.
LEMMA ExtendOn ==
    ASSUME ExtendInv
    PROVE  extend.on <=> extend # NoExtend
<1>1. CASE extend = NoExtend
    <2>1. extend.on = FALSE
        BY <1>1 DEF NoExtend
    <2> QED  BY <1>1, <2>1
<1>2. CASE extend # NoExtend
    <2>1. extend.on \in {TRUE}
        BY <1>2 DEF ExtendInv, ExtendFits, ExtendRecord
    <2> QED  BY <1>2, <2>1
<1> QED  BY <1>1, <1>2

\* A roster of an extension is a finite set with more than the leader in it.
LEMMA RosterFinite ==
    ASSUME NEW r \in FRosters, r # {FLeader}
    PROVE  /\ IsFiniteSet(r) /\ Cardinality(r) \in Nat /\ Cardinality(r) >= 2 /\ FLeader \in r
           /\ IsFiniteSet(r \ {FLeader}) /\ Cardinality(r \ {FLeader}) = Cardinality(r) - 1
<1>1. IsFiniteSet(FNodes)
    BY FollowAssumption, FS_AddElement DEF FNodes
<1>2. IsFiniteSet(r) /\ FLeader \in r
    BY <1>1, FS_Subset DEF FRosters
<1>3. IsFiniteSet(r \ {FLeader}) /\ Cardinality(r \ {FLeader}) = Cardinality(r) - 1
    BY <1>2, FS_RemoveElement
<1>4. r \ {FLeader} # {}
    BY <1>2
<1>5. Cardinality(r \ {FLeader}) # 0
    BY <1>3, <1>4, FS_EmptySet
<1>6. Cardinality(r) \in Nat /\ Cardinality(r \ {FLeader}) \in Nat
    BY <1>2, <1>3, FS_CardinalityType
<1> QED  BY <1>2, <1>3, <1>5, <1>6
\* The answer of a node to the leader's question.
LEMMA AskedFits ==
    ASSUME ExtendInv, NEW n \in FNodes, NEW accepts \in BOOLEAN, HandleExtendRoster(n, accepts)
    PROVE  ExtendFits(extend')
<1>1. extend # NoExtend /\ n \in extend.roster \ {FLeader}
    BY ExtendOn DEF HandleExtendRoster, Children
<1>2. ExtendFits(extend)
    BY <1>1 DEF ExtendInv
<1>3. extend' = [extend EXCEPT !.asked = extend.asked \union {n},
                               !.replies = extend.replies \union {<<n, accepts>>}]
    BY DEF HandleExtendRoster
<1>4. extend' \in ExtendRecord
    <2> DEFINE q == extend.replies \union {<<n, accepts>>}
    <2>1. extend.replies \in SUBSET (FNodes \X BOOLEAN) /\ <<n, accepts>> \in FNodes \X BOOLEAN
        BY <1>2 DEF ExtendFits, ExtendRecord
    <2>2. q \in SUBSET (FNodes \X BOOLEAN)
        BY <2>1
    <2>3. extend' = [extend EXCEPT !.asked = extend.asked \union {n}, !.replies = q]
        BY <1>3
    <2> HIDE DEF q
    <2> QED  BY <1>2, <2>2, <2>3 DEF ExtendFits, ExtendRecord
<1>5. /\ extend'.roster = extend.roster /\ extend'.replies = extend.replies \union {<<n, accepts>>}
      /\ extend'.sigs = extend.sigs /\ extend'.answer = extend.answer
      /\ extend'.refused = extend.refused /\ extend'.decided = extend.decided
    BY <1>2, <1>3 DEF ExtendFits, ExtendRecord
<1>6. extend'.replies # {}
    BY <1>5
<1>7. \A r \in extend'.replies : r[1] \in extend.roster \ {FLeader}
    BY <1>1, <1>2, <1>5 DEF ExtendFits
<1> QED  BY <1>2, <1>4, <1>5, <1>6, <1>7 DEF ExtendFits

\* The leader handles an answer.
LEMMA ReplyFits ==
    ASSUME ExtendInv, NEW n \in FNodes, HandleExtendRosterReply(n)
    PROVE  ExtendFits(extend')
<1> DEFINE accepts == <<n, TRUE>> \in extend.replies
           sigs == IF accepts THEN extend.sigs \union {n} ELSE extend.sigs
           rest == {r \in extend.replies : r[1] # n}
           ref == extend.refused \/ ~accepts
           next == [extend EXCEPT !.replies = rest, !.sigs = sigs, !.timer = TRUE, !.refused = ref]
<1>1. extend # NoExtend /\ ~extend.decided
    BY ExtendOn DEF HandleExtendRosterReply
<1>2. ExtendFits(extend)
    BY <1>1 DEF ExtendInv
<1>3. extend' = IF ~accepts THEN Decided(next, {})
                ELSE IF sigs = Children THEN Decided(next, sigs) ELSE next
    BY DEF HandleExtendRosterReply
<1>4. accepts => n \in extend.roster \ {FLeader}
    BY <1>2 DEF ExtendFits
<1>5. sigs \in SUBSET FNodes /\ rest \in SUBSET (FNodes \X BOOLEAN) /\ ref \in BOOLEAN
      /\ sigs \subseteq extend.roster \ {FLeader}
    BY <1>2, <1>4 DEF ExtendFits, ExtendRecord
<1>6. /\ \A r \in rest : r[1] \in extend.roster \ {FLeader}
      /\ extend.sigs \subseteq sigs
    BY <1>2 DEF ExtendFits
<1>7. ref = ~accepts
    BY <1>1, <1>2 DEF ExtendFits
<1> HIDE DEF accepts, sigs, rest, ref
<1>8. /\ next \in ExtendRecord /\ next.roster = extend.roster /\ next.replies = rest /\ next.sigs = sigs
      /\ next.timer = TRUE /\ next.refused = ref /\ next.answer = extend.answer
      /\ next.decided = extend.decided
    BY <1>2, <1>5 DEF ExtendFits, ExtendRecord
<1> HIDE DEF next
<1>9. ASSUME NEW a \in SUBSET FNodes
      PROVE  LET d == Decided(next, a)
             IN  /\ d \in ExtendRecord /\ d.roster = extend.roster /\ d.replies = rest /\ d.sigs = sigs
                 /\ d.refused = ref /\ d.answer = a /\ d.decided = TRUE
    BY <1>8 DEF ExtendRecord, Decided
<1>10. CASE ~accepts
    <2>1. extend' = Decided(next, {})
        BY <1>3, <1>10
    <2>2. /\ extend' \in ExtendRecord /\ extend'.roster = extend.roster /\ extend'.replies = rest
          /\ extend'.sigs = sigs /\ extend'.answer = {} /\ extend'.decided = TRUE
        BY <1>9, <2>1
    <2> QED  BY <1>2, <1>5, <1>6, <2>2 DEF ExtendFits
<1>11. CASE accepts /\ sigs = Children
    <2>1. extend' = Decided(next, sigs)
        BY <1>3, <1>11
    <2>2. /\ extend' \in ExtendRecord /\ extend'.roster = extend.roster /\ extend'.replies = rest
          /\ extend'.sigs = sigs /\ extend'.answer = sigs /\ extend'.decided = TRUE
          /\ extend'.refused = ref
        BY <1>5, <1>9, <2>1
    <2> QED  BY <1>2, <1>5, <1>6, <1>7, <1>11, <2>2 DEF ExtendFits
<1>12. CASE accepts /\ sigs # Children
    <2>1. extend' = next
        BY <1>3, <1>12
    <2> QED  BY <1>2, <1>5, <1>6, <1>7, <1>8, <1>12, <2>1 DEF ExtendFits
<1> QED  BY <1>10, <1>11, <1>12

\* The leader decides with the signatures it has when its time is over.
LEMMA TimeoutFits ==
    ASSUME ExtendInv, ExtendTimeout
    PROVE  ExtendFits(extend')
<1>1. extend # NoExtend /\ ~extend.decided
    BY ExtendOn DEF ExtendTimeout
<1>2. ExtendFits(extend)
    BY <1>1 DEF ExtendInv
<1>3. PICK a \in {extend.sigs, {}} : extend' = Decided(extend, a)
    BY DEF ExtendTimeout
<1>4. a \in SUBSET FNodes /\ a \subseteq extend.sigs
    BY <1>2, <1>3 DEF ExtendFits, ExtendRecord
<1>5. /\ extend' \in ExtendRecord /\ extend'.roster = extend.roster /\ extend'.replies = extend.replies
      /\ extend'.sigs = extend.sigs /\ extend'.answer = a /\ extend'.decided = TRUE
      /\ extend'.refused = extend.refused
    BY <1>2, <1>3, <1>4 DEF ExtendFits, ExtendRecord, Decided
<1>6. ~extend.refused
    BY <1>1, <1>2 DEF ExtendFits
<1> QED  BY <1>2, <1>4, <1>5, <1>6 DEF ExtendFits

\* Every step keeps ExtendInv.
LEMMA ExtendStep ==
    ASSUME ExtendInv, [FollowNext]_followVars
    PROVE  ExtendInv'
<1>1. ASSUME ExtendFits(extend') PROVE ExtendInv'
    BY <1>1 DEF ExtendInv
<1>2. ASSUME UNCHANGED extend PROVE ExtendInv'
    BY <1>2 DEF ExtendInv, ExtendFits, ExtendRecord, NoExtend
<1>3. ASSUME NEW c \in FChains, NEW r \in FRosters, StartExtend(c, r) PROVE ExtendInv'
    <2>1. r # {FLeader}
          /\ extend' = [on |-> TRUE, chain |-> c, roster |-> r, asked |-> {}, replies |-> {},
                        sigs |-> {}, refused |-> FALSE, timer |-> FALSE,
                        decided |-> FALSE, answer |-> {}]
        BY <1>3 DEF StartExtend
    <2> QED  BY <1>1, <2>1 DEF ExtendFits, ExtendRecord
<1>4. ASSUME willNodesAcceptBlock PROVE ExtendInv'
    BY <1>4 DEF willNodesAcceptBlock, ExtendInv
<1>5. ASSUME NEW k, CreateLinkPrivate(k) \/ UnlinkFind(k) \/ UnlinkRemove(k) \/ propagateGenesisHandler(k)
      PROVE UNCHANGED extend
    BY <1>5 DEF CreateLinkPrivate, UnlinkFind, UnlinkRemove, propagateGenesisHandler
<1>6. ASSUME NEW c, NEW s,
             \/ StoreSkipBlock(c, s) \/ AddFollowID(c, s) \/ DelFollow(c, s)
             \/ \E p \in Policies : AddFollowSearch(c, p, s)
             \/ \E p \in Policies : \E n \in FNodes : AddFollowLookup(c, p, n, s)
      PROVE UNCHANGED extend
    BY <1>6 DEF StoreSkipBlock, AddFollowID, DelFollow, AddFollowSearch, AddFollowLookup, AddFollowChain
<1>7. ASSUME UNCHANGED followVars PROVE UNCHANGED extend
    BY <1>7 DEF followVars
<1> QED  BY <1>1, <1>2, <1>3, <1>4, <1>5, <1>6, <1>7, AskedFits, ReplyFits, TimeoutFits DEF FollowNext

\* How many nodes of the roster may be missing in an answer that is accepted.
LEMMA AcceptedEnough ==
    ASSUME ExtendInv, extend # NoExtend, Accepted
    PROVE  /\ extend.answer # {}
           /\ 3 * Cardinality(extend.roster \ (extend.answer \union {FLeader})) < Cardinality(extend.roster)
<1> DEFINE r == extend.roster
           a == extend.answer
           c == r \ {FLeader}
           m == c \ a
<1>1. r \in FRosters /\ r # {FLeader} /\ a \subseteq c
    BY DEF ExtendInv, ExtendFits, ExtendRecord
<1>2. IsFiniteSet(r) /\ Cardinality(r) \in Nat /\ Cardinality(r) >= 2 /\ FLeader \in r
      /\ IsFiniteSet(c) /\ Cardinality(c) = Cardinality(r) - 1
    BY <1>1, RosterFinite
<1>3. IsFiniteSet(a) /\ Cardinality(a) \in Nat
    BY <1>1, <1>2, FS_Subset, FS_CardinalityType
<1>4. IsFiniteSet(m) /\ Cardinality(m) = Cardinality(c) - Cardinality(c \intersect a)
    BY <1>2, <1>3, FS_Difference
<1>5. c \intersect a = a
    BY <1>1
<1>6. Cardinality(a) >= Cardinality(r) - (Cardinality(r) - 1) \div 3 - 1
    BY DEF Accepted, allowedFailures
<1>7. \A k \in Nat : k >= 2 => /\ 3 * ((k - 1) \div 3) <= k - 1 /\ (k - 1) \div 3 \in Nat
    OBVIOUS
<1>8. ASSUME NEW k \in Nat, k >= 2, NEW d \in Nat, 3 * d <= k - 1, NEW x \in Nat, x >= k - d - 1
      PROVE  x # 0 /\ 3 * (k - 1 - x) < k
    BY <1>8
<1>9. Cardinality(a) # 0 /\ 3 * (Cardinality(r) - 1 - Cardinality(a)) < Cardinality(r)
    BY <1>2, <1>3, <1>6, <1>7, <1>8
<1>10. a # {}
    BY <1>9, FS_EmptySet
<1>11. Cardinality(m) = Cardinality(r) - 1 - Cardinality(a)
    BY <1>2, <1>4, <1>5
<1>12. r \ (a \union {FLeader}) = m
    OBVIOUS
<1> HIDE DEF m, c
<1> QED  BY <1>9, <1>10, <1>11, <1>12

FollowInv == active = "follow" => ExtendInv

\* However answers, refusals and the timeout interleave, a leader goes on with a
\* new roster only with the signatures of all but a third of it and without a
\* refusal, and an answered question never waits without a timer
\* (skipchain/protocol.go, HandleExtendRosterReply, willNodesAcceptBlock).
THEOREM ExtensionAlwaysAgreed == SigningSpec => []FollowRight
<1>1. SigningInit => FollowInv
    BY DEF SigningInit, FollowInit, FollowInv, ExtendInv
<1>2. FollowInv /\ [SigningNext]_SigningVars => FollowInv'
    BY FollowSteps, ActiveStays, ExtendStep DEF FollowInv
<1>3. FollowInv => FollowRight
    <2> SUFFICES ASSUME ExtendInv, extend.on PROVE
            /\ (extend.decided /\ Accepted) =>
                /\ ~extend.refused
                /\ 3 * Cardinality(extend.roster \ (extend.answer \union {FLeader})) < Cardinality(extend.roster)
            /\ (extend.asked # {} /\ extend.replies = {}) => extend.decided \/ extend.timer
        BY DEF FollowInv, FollowRight, ExtensionAgreed
    <2>1. extend # NoExtend
        BY ExtendOn
    <2>2. extend.refused => extend.answer = {}
        BY <2>1 DEF ExtendInv, ExtendFits
    <2>3. extend.asked # {} /\ extend.replies = {} => extend.timer \/ extend.decided
        BY <2>1 DEF ExtendInv, ExtendFits
    <2> QED  BY <2>1, <2>2, <2>3, AcceptedEnough
<1> QED  BY <1>1, <1>2, <1>3, PTL DEF SigningSpec
-----------------------------------------------------------------------------
(* Key generation. A node leaves a stage of Dispatch only with everything that *)
(* stage reads, and a child answers WaitSetup when it has left the last one.   *)

KeyInv ==
    /\ dkgStage \in [DkgNodes -> {"init", "deals", "responses", "commits", "wait", "done"}]
    /\ dkgResponses \in [DkgNodes -> Nat] /\ dkgSecrets \in [DkgNodes -> Nat]
    /\ dkgCommit \subseteq DkgNodes /\ dkgReplied \subseteq DkgChildren
    /\ \A n \in DkgNodes : dkgStage[n] \in {"commits", "wait", "done"} =>
           dkgResponses[n] = ExpectedResponses(n)
    /\ \A n \in DkgNodes : dkgKind = "rabin" /\ dkgStage[n] \in {"wait", "done"} =>
           dkgSecrets[n] = DkgN
    /\ \A n \in dkgReplied : dkgStage[n] = "done"
    /\ dkgWait /\ dkgStage[0] = "done" => dkgReplied = DkgChildren

\* The nodes are finitely many, so are those that have sent their commitments.
LEMMA DkgNodesFinite ==
    /\ DkgN \in Nat /\ 0 \in DkgNodes /\ DkgChildren = DkgNodes \ {0}
    /\ \A C \in SUBSET DkgNodes : Cardinality(C) \in Nat /\ Cardinality(C) <= DkgN
<1>1. DkgN \in Nat /\ DkgN >= 2
    BY DkgAssumption
<1>2. 0 \in Int /\ DkgN - 1 \in Int /\ ~(0 > DkgN - 1)
    BY <1>1
<1>3. IsFiniteSet(DkgNodes) /\ Cardinality(DkgNodes) = (DkgN - 1) - 0 + 1
    BY <1>2, FS_Interval DEF DkgNodes
<1>4. Cardinality(DkgNodes) = DkgN
    BY <1>1, <1>3
<1>5. 0 \in DkgNodes
    BY <1>1 DEF DkgNodes
<1>6. ASSUME NEW C \in SUBSET DkgNodes PROVE Cardinality(C) \in Nat /\ Cardinality(C) <= DkgN
    BY <1>3, <1>4, FS_Subset, FS_CardinalityType
<1> QED  BY <1>1, <1>5, <1>6 DEF DkgChildren

\* How many responses a node expects depends on the variant only.
LEMMA ExpectedKept ==
    ASSUME UNCHANGED dkgKind
    PROVE  \A n \in DkgNodes : ExpectedResponses(n)' = ExpectedResponses(n)
BY DEF ExpectedResponses, Responders

\* The last response moves a node on, and only the last one.
LEMMA ResponseInv ==
    ASSUME KeyInv, NEW n \in DkgNodes, allResponse(n)
    PROVE  KeyInv'
<1> DEFINE got == dkgResponses[n] + 1
           last == got = ExpectedResponses(n)
<1>1. /\ dkgStage[n] = "responses"
      /\ dkgResponses' = [dkgResponses EXCEPT ![n] = got]
      /\ dkgStage' = [dkgStage EXCEPT ![n] = IF last THEN NextStage ELSE @]
      /\ UNCHANGED <<dkgKind, dkgWait, dkgSecrets, dkgReplied>>
      /\ dkgCommit' \subseteq dkgCommit \union {n}
    BY DEF allResponse
<1>2. /\ NextStage \in {"commits", "wait", "done"}
      /\ NextStage \in {"wait", "done"} => dkgKind # "rabin"
      /\ NextStage = "done" => ~dkgWait
    BY DEF NextStage
<1>3. got \in Nat
    BY DEF KeyInv
<1>4. n \notin dkgReplied
    BY <1>1 DEF KeyInv
<1> HIDE DEF got, last
<1>5. /\ dkgStage' \in [DkgNodes -> {"init", "deals", "responses", "commits", "wait", "done"}]
      /\ dkgResponses' \in [DkgNodes -> Nat] /\ dkgCommit' \subseteq DkgNodes
    BY <1>1, <1>2, <1>3 DEF KeyInv
<1>6. ASSUME NEW k \in DkgNodes, dkgStage'[k] \in {"commits", "wait", "done"}
      PROVE  dkgResponses'[k] = ExpectedResponses(k)'
    <2>1. CASE k = n
        <3>1. last
            BY <1>1, <1>6, <2>1 DEF KeyInv
        <3> QED  BY <1>1, <2>1, <3>1, ExpectedKept DEF KeyInv, last
    <2>2. CASE k # n
        BY <1>1, <1>6, <2>2, ExpectedKept DEF KeyInv
    <2> QED  BY <2>1, <2>2
<1>7. ASSUME NEW k \in DkgNodes, dkgKind' = "rabin", dkgStage'[k] \in {"wait", "done"}
      PROVE  dkgSecrets'[k] = DkgN
    BY <1>1, <1>2, <1>7 DEF KeyInv
<1>8. \A k \in dkgReplied' : dkgStage'[k] = "done"
    BY <1>1, <1>4, DkgNodesFinite DEF KeyInv
<1>9. dkgWait' /\ dkgStage'[0] = "done" => dkgReplied' = DkgChildren
    BY <1>1, <1>2, DkgNodesFinite DEF KeyInv
<1> QED  BY <1>1, <1>5, <1>6, <1>7, <1>8, <1>9 DEF KeyInv

\* The last secret commitment moves a node on, and only the last one.
LEMMA SecretInv ==
    ASSUME KeyInv, NEW n \in DkgNodes, allSecretCommit(n)
    PROVE  KeyInv'
<1> DEFINE got == dkgSecrets[n] + 1
           next == IF dkgWait THEN "wait" ELSE "done"
           more == got < DkgN
<1>1. /\ dkgStage[n] = "commits" /\ dkgSecrets[n] < Cardinality(dkgCommit)
      /\ dkgSecrets' = [dkgSecrets EXCEPT ![n] = got]
      /\ dkgStage' = [dkgStage EXCEPT ![n] = IF more THEN @ ELSE next]
      /\ UNCHANGED <<dkgKind, dkgWait, dkgResponses, dkgReplied, dkgCommit>>
    BY DEF allSecretCommit
<1>2. dkgSecrets[n] \in Nat /\ Cardinality(dkgCommit) \in Nat /\ Cardinality(dkgCommit) <= DkgN /\ DkgN \in Nat
    BY DkgNodesFinite DEF KeyInv
<1>3. got \in Nat /\ (~more => got = DkgN)
    BY <1>1, <1>2
<1>4. next \in {"wait", "done"} /\ (next = "done" => ~dkgWait)
    OBVIOUS
<1>5. n \notin dkgReplied
    BY <1>1 DEF KeyInv
<1> HIDE DEF got, next, more
<1>6. /\ dkgStage' \in [DkgNodes -> {"init", "deals", "responses", "commits", "wait", "done"}]
      /\ dkgSecrets' \in [DkgNodes -> Nat]
    BY <1>1, <1>3, <1>4 DEF KeyInv
<1>7. ASSUME NEW k \in DkgNodes, dkgStage'[k] \in {"commits", "wait", "done"}
      PROVE  dkgResponses'[k] = ExpectedResponses(k)'
    BY <1>1, <1>7, ExpectedKept DEF KeyInv
<1>8. ASSUME NEW k \in DkgNodes, dkgKind' = "rabin", dkgStage'[k] \in {"wait", "done"}
      PROVE  dkgSecrets'[k] = DkgN
    <2>1. CASE k = n
        BY <1>1, <1>3, <1>8, <2>1 DEF KeyInv
    <2>2. CASE k # n
        BY <1>1, <1>8, <2>2 DEF KeyInv
    <2> QED  BY <2>1, <2>2
<1>9. \A k \in dkgReplied' : dkgStage'[k] = "done"
    BY <1>1, <1>5, DkgNodesFinite DEF KeyInv
<1>10. dkgWait' /\ dkgStage'[0] = "done" => dkgReplied' = DkgChildren
    BY <1>1, <1>4, DkgNodesFinite DEF KeyInv
<1> QED  BY <1>1, <1>6, <1>7, <1>8, <1>9, <1>10 DEF KeyInv

\* Every step of the key generation keeps KeyInv.
LEMMA KeyStep ==
    ASSUME KeyInv, [DkgNext]_dkgVars
    PROVE  KeyInv'
<1> USE DkgNodesFinite
<1>1. ASSUME NEW n \in DkgChildren, childInit(n) PROVE KeyInv'
    BY <1>1, ExpectedKept DEF childInit, KeyInv
<1>2. ASSUME NEW n \in DkgChildren, WaitReply(n) PROVE KeyInv'
    BY <1>2, ExpectedKept DEF WaitReply, KeyInv
<1>3. ASSUME NEW n \in DkgNodes, allStartDeal(n) PROVE KeyInv'
    BY <1>3, ExpectedKept DEF allStartDeal, KeyInv
<1>4. ASSUME NEW n \in DkgNodes, allDeal(n) PROVE KeyInv'
    BY <1>4, ExpectedKept DEF allDeal, KeyInv
<1>5. ASSUME WaitSetup PROVE KeyInv'
    BY <1>5, ExpectedKept DEF WaitSetup, KeyInv
<1>6. ASSUME WaitDone PROVE KeyInv'
    BY <1>6, ExpectedKept DEF WaitDone, KeyInv
<1>7. ASSUME UNCHANGED dkgVars PROVE KeyInv'
    BY <1>7, ExpectedKept DEF dkgVars, KeyInv
<1> QED  BY <1>1, <1>2, <1>3, <1>4, <1>5, <1>6, <1>7, ResponseInv, SecretInv DEF DkgNext

-----------------------------------------------------------------------------
(* Re-encryption. Sharings are never forgotten, so that the sharing a result    *)
(* was combined from keeps its roster.                                          *)

Made == 1 .. Len(calSharings)

\* A re-encryption under way has copied a share and a polynomial that exist.
OcsFits ==
    calOcs.at = "asked" =>
        /\ calOcs.share \in Made \union {0} /\ calOcs.poly \in Made

ResultFits ==
    calResult.clean => \/ DOMAIN calResult.shares = {}
                       \/ \E s \in Made :
                              /\ \A n \in DOMAIN calResult.shares : calResult.shares[n] = s
                              /\ Cardinality(DOMAIN calResult.shares) >= Threshold(calSharings[s].roster)

Sharing == [roster : SUBSET CalNodes, key : Nat, root : CalNodes]

LtsInv ==
    /\ calRoster \subseteq CalNodes
    /\ calSharings \in Seq(Sharing)
    /\ calShare \in [CalNodes -> Made \union {0}] /\ calPoly \in [CalNodes -> Made \union {0}]
    /\ calStoring \subseteq CalNodes \X Made
    /\ calOcs.at \in {"roster", "asked"} => calOcs.root \in CalNodes
    /\ OcsFits
    /\ ResultFits

\* A step of the contracts, or one that only ends or prepares a re-encryption.
LEMMA LtsKept ==
    ASSUME LtsInv, calRoster' \subseteq CalNodes,
           UNCHANGED <<calSharings, calShare, calPoly, calStoring, calResult>>,
           \/ calOcs' = calOcs
           \/ calOcs' = NoOcs
           \/ calOcs'.at = "roster" /\ calOcs'.root \in CalNodes
    PROVE  LtsInv'
<1>1. OcsFits' /\ (calOcs'.at \in {"roster", "asked"} => calOcs'.root \in CalNodes)
    BY DEF LtsInv, OcsFits, Made, NoOcs
<1> QED  BY <1>1 DEF LtsInv, ResultFits, Made

\* A new sharing comes after the ones there are, which it does not change.
LEMMA SharingInv ==
    ASSUME LtsInv, NEW root \in CalNodes, NEW key \in Nat, NewSharing(root, key)
    PROVE  LtsInv'
<1> DEFINE x == [roster |-> calRoster, key |-> key, root |-> root]
           s == Len(calSharings) + 1
<1>1. /\ calSharings' = Append(calSharings, x)
      /\ calStoring' = calStoring \union {<<n, s>> : n \in calRoster}
      /\ UNCHANGED <<calShare, calPoly, calOcs, calResult, calRoster>>
    BY DEF NewSharing, calLedger
<1>2. x \in Sharing
    BY DEF LtsInv, Sharing
<1>3. calSharings \in Seq(Sharing) /\ Len(calSharings) \in Nat
    BY DEF LtsInv
<1> HIDE DEF x
<1>4. /\ calSharings' \in Seq(Sharing) /\ Len(calSharings') = s
      /\ \A k \in Made : calSharings'[k] = calSharings[k]
    BY <1>1, <1>2, <1>3 DEF Made
<1>5. Made \subseteq Made' /\ s \in Made'
    BY <1>3, <1>4 DEF Made
<1>6. ResultFits'
    BY <1>1, <1>4, <1>5 DEF LtsInv, ResultFits
<1>7. OcsFits'
    BY <1>1, <1>5 DEF LtsInv, OcsFits
<1>8. /\ calShare' \in [CalNodes -> Made' \union {0}] /\ calPoly' \in [CalNodes -> Made' \union {0}]
      /\ calStoring' \subseteq CalNodes \X Made'
    BY <1>1, <1>5 DEF LtsInv
<1> QED  BY <1>1, <1>4, <1>6, <1>7, <1>8 DEF LtsInv

\* A node stores a share, and the polynomial where it started the protocol.
LEMMA StoreInv ==
    ASSUME LtsInv, NEW p \in calStoring, StoreShare(p[1], p[2])
    PROVE  LtsInv'
<1> DEFINE n == p[1]
           s == p[2]
<1>1. n \in CalNodes /\ s \in Made
    BY DEF LtsInv
<1>2. /\ calStoring' \subseteq calStoring
      /\ calShare' \in {calShare, [calShare EXCEPT ![n] = s]}
      /\ calPoly' \in {calPoly, [calPoly EXCEPT ![n] = s]}
      /\ UNCHANGED <<calSharings, calOcs, calResult, calRoster>>
    <2>1. calShare \in [CalNodes -> Made \union {0}] /\ calPoly \in [CalNodes -> Made \union {0}]
        BY DEF LtsInv
    <2>2. [calShare EXCEPT ![n] = @] = calShare /\ [calPoly EXCEPT ![n] = @] = calPoly
        BY <1>1, <2>1
    <2> QED  BY <2>2 DEF StoreShare, calLedger
<1> HIDE DEF n, s
<1>3. Made' = Made
    BY <1>2 DEF Made
<1>4. calShare' \in [CalNodes -> Made' \union {0}] /\ calPoly' \in [CalNodes -> Made' \union {0}]
    BY <1>1, <1>2, <1>3 DEF LtsInv
<1> QED  BY <1>2, <1>3, <1>4 DEF LtsInv, OcsFits, ResultFits

\* What is combined when there are enough replies: shares that fit the polynomial.
LEMMA CombinedFits ==
    ASSUME LtsInv, calOcs.at = "asked", NEW replies,
           calResult' = recoverCommit(calOcs, replies), UNCHANGED calSharings
    PROVE  ResultFits'
<1> DEFINE valid == {n \in DOMAIN replies : ValidShare(replies[n], calOcs.poly)}
           Uis == [n \in valid \union {calOcs.root} |->
                       IF n = calOcs.root THEN calOcs.share ELSE replies[n]]
           x == [shares |-> Uis,
                 clean |-> calOcs.share = calOcs.poly /\ calSharings[calOcs.share].roster = calOcs.roster]
<1>1. CASE Cardinality(DOMAIN Uis) >= Threshold(calOcs.roster) /\ calResult' = x
    <2>1. ASSUME calResult'.clean
          PROVE  /\ calOcs.share \in Made'
                 /\ \A n \in DOMAIN calResult'.shares : calResult'.shares[n] = calOcs.share
                 /\ Cardinality(DOMAIN calResult'.shares) >= Threshold(calSharings'[calOcs.share].roster)
        <3>1. calOcs.share = calOcs.poly /\ calSharings[calOcs.share].roster = calOcs.roster
            <4>1. x.clean = (calOcs.share = calOcs.poly /\ calSharings[calOcs.share].roster = calOcs.roster)
                BY Zenon
            <4>2. x.clean
                BY <1>1, <2>1, Zenon
            <4> QED  BY <4>1, <4>2, Zenon
        <3>2. calOcs.share \in Made'
            BY <3>1 DEF LtsInv, OcsFits, Made
        <3>3. \A n \in DOMAIN Uis : Uis[n] = calOcs.share
            BY <3>1 DEF ValidShare
        <3>4. calResult'.shares = Uis
            BY <1>1
        <3> HIDE DEF Uis
        <3> QED  BY <1>1, <3>1, <3>2, <3>3, <3>4
    <2> QED  BY <2>1 DEF ResultFits
<1>2. CASE calResult' = calResult
    BY <1>2 DEF LtsInv, ResultFits, Made
<1> QED  BY <1>1, <1>2 DEF recoverCommit

\* Every step of Calypso keeps LtsInv.
LEMMA LtsStep ==
    ASSUME LtsInv, [CalNext]_calVars
    PROVE  LtsInv'
<1>1. ASSUME NEW r \in CalRosters, SpawnLTS(r) \/ Reshare(r) PROVE LtsInv'
    <2>1. calRoster' \subseteq CalNodes
        BY <1>1, CalypsoAssumption DEF SpawnLTS, Reshare
    <2>2. UNCHANGED <<calSharings, calShare, calPoly, calStoring, calOcs, calResult>>
        BY <1>1 DEF SpawnLTS, Reshare, calNodeVars
    <2> QED  BY <2>1, <2>2, LtsKept
<1>2. ASSUME NEW b \in BOOLEAN, SpawnRead(b) PROVE LtsInv'
    BY <1>2, LtsKept DEF SpawnRead, calNodeVars, LtsInv
<1>3. ASSUME NEW n \in CalNodes, Authorize(n) PROVE LtsInv'
    BY <1>3, LtsKept DEF Authorize, calLedger, LtsInv
<1>4. ASSUME NEW n \in CalNodes, CreateLTS(n) PROVE LtsInv'
    <2>1. Len(calSharings) + 1 \in Nat
        BY DEF LtsInv
    <2> QED  BY <1>4, <2>1, SharingInv DEF CreateLTS
<1>5. ASSUME NEW n \in CalNodes, ReshareLTS(n) PROVE LtsInv'
    <2>1. calShare[n] \in Made /\ calSharings \in Seq(Sharing)
        BY <1>5 DEF ReshareLTS, LtsInv
    <2>2. calSharings[calShare[n]] \in Sharing
        BY <2>1 DEF Made
    <2>3. calSharings[calShare[n]].key \in Nat
        BY <2>2 DEF Sharing
    <2> QED  BY <1>5, <2>3, SharingInv DEF ReshareLTS
<1>6. ASSUME NEW n \in CalNodes, DecryptKey(n) PROVE LtsInv'
    <2>1. calOcs'.at = "roster" /\ calOcs'.root \in CalNodes
        BY <1>6 DEF DecryptKey
    <2>2. UNCHANGED <<calSharings, calShare, calPoly, calStoring, calResult, calRoster>>
        BY <1>6 DEF DecryptKey, calNodeVars, calLedger
    <2> QED  BY <2>1, <2>2, LtsKept DEF LtsInv
<1>7. ASSUME StartOCS PROVE LtsInv'
    <2>1. UNCHANGED <<calSharings, calShare, calPoly, calStoring, calResult, calRoster>>
        BY <1>7 DEF StartOCS, calNodeVars, calLedger
    <2>2. CASE calPoly[calOcs.root] = 0
        BY <1>7, <2>1, <2>2, LtsKept DEF StartOCS, LtsInv
    <2>3. CASE calPoly[calOcs.root] # 0
        <3>1. calOcs.root \in CalNodes
            BY <1>7 DEF StartOCS, LtsInv
        <3>2. calShare[calOcs.root] \in Made \union {0} /\ calPoly[calOcs.root] \in Made
            BY <2>3, <3>1 DEF LtsInv
        <3>3. calOcs' = NewOCS(calOcs.root, calOcs.roster)
            BY <1>7, <2>3 DEF StartOCS
        <3>4. /\ calOcs'.at = "asked" /\ calOcs'.root = calOcs.root
              /\ calOcs'.share = calShare[calOcs.root] /\ calOcs'.poly = calPoly[calOcs.root]
            BY <3>3 DEF NewOCS
        <3> QED  BY <2>1, <3>1, <3>2, <3>4 DEF LtsInv, OcsFits, ResultFits, Made
    <2> QED  BY <2>2, <2>3
<1>8. ASSUME NEW n \in CalNodes, NEW b \in BOOLEAN, reencrypt(n, b) PROVE LtsInv'
    <2>1. /\ calOcs.at = "asked"
          /\ UNCHANGED <<calSharings, calShare, calPoly, calStoring, calRoster>>
        BY <1>8 DEF reencrypt, calNodeVars, calLedger
    <2>2. PICK todo, failures, replies :
              \/ calOcs' = NoOcs
              \/ calOcs' = [calOcs EXCEPT !.todo = todo, !.failures = failures]
              \/ calOcs' = [calOcs EXCEPT !.todo = todo, !.replies = replies]
        BY <1>8 DEF reencrypt
    <2>3. /\ calOcs'.at \in {"roster", "asked"} => calOcs'.root \in CalNodes
          /\ OcsFits'
        <3>1. CASE calOcs' = NoOcs
            BY <3>1 DEF OcsFits, NoOcs
        <3>2. CASE calOcs' = [calOcs EXCEPT !.todo = todo, !.failures = failures]
            <4>1. /\ calOcs'.at = calOcs.at /\ calOcs'.root = calOcs.root
                  /\ calOcs'.share = calOcs.share /\ calOcs'.poly = calOcs.poly
                BY <3>2
            <4> QED  BY <2>1, <4>1 DEF LtsInv, OcsFits, Made
        <3>3. CASE calOcs' = [calOcs EXCEPT !.todo = todo, !.replies = replies]
            <4>1. /\ calOcs'.at = calOcs.at /\ calOcs'.root = calOcs.root
                  /\ calOcs'.share = calOcs.share /\ calOcs'.poly = calOcs.poly
                BY <3>3
            <4> QED  BY <2>1, <4>1 DEF LtsInv, OcsFits, Made
        <3> QED  BY <2>2, <3>1, <3>2, <3>3
    <2>4. ResultFits'
        <3>1. CASE calResult' = calResult
            BY <2>1, <3>1 DEF LtsInv, ResultFits, Made
        <3>2. CASE \E r : calResult' = recoverCommit(calOcs, r)
            BY <2>1, <3>2, CombinedFits
        <3> QED  BY <1>8, <3>1, <3>2 DEF reencrypt
    <2> QED  BY <2>1, <2>3, <2>4 DEF LtsInv, Made
<1>9. ASSUME OcsTimeout PROVE LtsInv'
    BY <1>9, LtsKept DEF OcsTimeout, calNodeVars, calLedger, LtsInv
<1>10. ASSUME UNCHANGED calVars PROVE LtsInv'
    BY <1>10, LtsKept DEF calVars, LtsInv
<1> QED  BY <1>1, <1>2, <1>3, <1>4, <1>5, <1>6, <1>7, <1>8, <1>9, <1>10, StoreInv DEF CalNext

\* At first no key has been generated.
LEMMA KeyStart ==
    ASSUME DkgInit
    PROVE  KeyInv
BY DkgNodesFinite DEF DkgInit, KeyInv

\* At first there is no sharing.
LEMMA LtsStart ==
    ASSUME CalInit
    PROVE  LtsInv
<1>1. Made = {} /\ calSharings \in Seq(Sharing)
    BY DEF CalInit, Made
<1>2. DOMAIN calResult.shares = {}
    BY DEF CalInit, NoneUsed
<1> QED  BY <1>1, <1>2 DEF CalInit, LtsInv, OcsFits, ResultFits, NoOcs

KeysInv == (active = "dkg" => KeyInv) /\ (active = "calypso" => LtsInv)

\* A caller that waits for a key gets it when every node has its share, in both
\* variants of the key generation and whatever the order of its messages, and a
\* re-encryption next to resharings is combined from enough shares of one of them
\* if its roster, share and polynomial belonged together (dkg, calypso).
THEOREM KeysAlwaysRight == SigningSpec => []KeysRight
<1>1. SigningInit => KeysInv
    <2> SUFFICES ASSUME SigningInit PROVE KeysInv
        OBVIOUS
    <2>1. ASSUME active = "dkg" PROVE KeyInv
        <3>1. DkgInit
            BY <2>1 DEF SigningInit
        <3> QED  BY <3>1, KeyStart
    <2>2. ASSUME active = "calypso" PROVE LtsInv
        <3>1. CalInit
            BY <2>2 DEF SigningInit
        <3> QED  BY <3>1, LtsStart
    <2> QED  BY <2>1, <2>2 DEF KeysInv
<1>2. KeysInv /\ [SigningNext]_SigningVars => KeysInv'
    <2>1. ASSUME active = "dkg", [SigningNext]_SigningVars PROVE [DkgNext]_dkgVars
        BY <2>1 DEF SigningNext, SigningVars
    <2>2. ASSUME active = "calypso", [SigningNext]_SigningVars PROVE [CalNext]_calVars
        BY <2>2 DEF SigningNext, SigningVars
    <2> QED  BY <2>1, <2>2, ActiveStays, KeyStep, LtsStep DEF KeysInv
<1>3. KeysInv => KeysRight
    <2> SUFFICES ASSUME KeysInv PROVE KeysRight
        OBVIOUS
    <2>1. ASSUME KeyInv PROVE KeyIsEverywhere
        BY <2>1, DkgNodesFinite DEF KeyInv, KeyIsEverywhere
    <2>2. ASSUME LtsInv PROVE ReencryptedRight
        BY <2>2 DEF LtsInv, ResultFits, ReencryptedRight, RightShares
    <2> QED  BY <2>1, <2>2 DEF KeysInv, KeysRight
<1> QED  BY <1>1, <1>2, <1>3, PTL DEF SigningSpec

-----------------------------------------------------------------------------
(* Collective signing. The subtrees have all members but the root, each once:  *)
(* what their sub-leaders report adds up to the roster without the root.       *)

\* Products grow with their first factor.
LEMMA Products ==
    ASSUME NEW a \in Nat, NEW b \in Nat, NEW c \in Nat, a <= b
    PROVE  a * c \in Nat /\ (a + 1) * c = a * c + c /\ a * c <= b * c
OBVIOUS

\* Division with remainder by a number that is not larger.
LEMMA Division ==
    ASSUME NEW n \in Nat, NEW d \in Nat, 1 <= d, d <= n
    PROVE  /\ n \div d \in Nat \ {0} /\ n % d \in 0 .. d - 1
           /\ d * (n \div d) + (n % d) = n
<1>1. n % d \in 0 .. d - 1 /\ n \div d \in Int /\ d * (n \div d) + (n % d) = n
    OBVIOUS
<1>2. n \div d >= 1
    <2> SUFFICES ASSUME n \div d <= 0 PROVE FALSE
        BY <1>1
    <2>1. d * (n \div d) <= 0
        BY <1>1
    <2> QED  BY <1>1, <2>1
<1> QED  BY <1>1, <1>2

\* The number of subtrees, and the lengths that are cut for them.
LEMMA TreeNumbers ==
    /\ N \in Nat /\ N >= 2 /\ TreeCount \in Nat /\ 1 <= TreeCount /\ TreeCount <= N - 1
    /\ (N - 1) \div TreeCount \in Nat /\ (N - 1) \div TreeCount >= 1
    /\ (N - 1) % TreeCount \in 0 .. TreeCount - 1
    /\ TreeCount * ((N - 1) \div TreeCount) + ((N - 1) % TreeCount) = N - 1
<1>1. N \in Nat /\ N >= 2 /\ NSubTrees \in Nat /\ NSubTrees >= 1
    BY BlsAssumption
<1>2. BlsThreshold # 1
    BY <1>1 DEF BlsThreshold, DefaultThreshold
<1>3. TreeCount = IF N <= NSubTrees THEN N - 1 ELSE NSubTrees
    BY <1>2 DEF TreeCount
<1>4. TreeCount \in Nat /\ 1 <= TreeCount /\ TreeCount <= N - 1
    BY <1>1, <1>3
<1> DEFINE n == N - 1
<1>5. n \in Nat
    BY <1>1
<1> HIDE DEF n
<1>6. /\ n \div TreeCount \in Nat \ {0} /\ n % TreeCount \in 0 .. TreeCount - 1
      /\ TreeCount * (n \div TreeCount) + (n % TreeCount) = n
    BY <1>4, <1>5, Division DEF n
<1> QED  BY <1>1, <1>4, <1>6 DEF n

\* A list is cut into runs of length p, the first m of them one longer: what comes
\* before run x, and how long it is.
Run(x, p, m) == [from |-> (x - 1) * p + Min({x - 1, m}), len |-> IF x <= m THEN p + 1 ELSE p]
Runs(k, p, m) ==
    [x \in 1 .. k |-> (Run(x, p, m).from + 1) .. (Run(x, p, m).from + Run(x, p, m).len)]

\* A run begins where the one before it ends.
LEMMA RunsFollow ==
    ASSUME NEW x \in Nat \ {0}, NEW p \in Nat, NEW m \in Nat
    PROVE  /\ Run(x, p, m).from \in Nat /\ Run(x, p, m).len \in Nat
           /\ Run(x + 1, p, m).from = Run(x, p, m).from + Run(x, p, m).len
           /\ Run(x, p, m).from = (x - 1) * p + (IF x - 1 <= m THEN x - 1 ELSE m)
<1>1. /\ Min({x - 1, m}) = IF x - 1 <= m THEN x - 1 ELSE m
      /\ Min({x, m}) = IF x <= m THEN x ELSE m
    <2>1. x - 1 \in Int /\ x \in Int /\ m \in Int
        OBVIOUS
    <2>2. Min({x - 1, m}) = IF x - 1 <= m THEN x - 1 ELSE m
        BY <2>1, MaxMinOfTwo, Zenon
    <2>3. Min({x, m}) = IF x <= m THEN x ELSE m
        BY <2>1, MaxMinOfTwo, Zenon
    <2> QED  BY <2>2, <2>3
<1>2. (x - 1) * p \in Nat /\ x * p = (x - 1) * p + p
    BY Products
<1>3. (x + 1) - 1 = x
    OBVIOUS
<1>4. Run(x + 1, p, m).from = x * p + Min({x, m})
    BY <1>3 DEF Run
<1> QED  BY <1>1, <1>2, <1>4 DEF Run

\* n is cut into k parts of p, and m is left over.
CutsInto(n, k, p, m) ==
    /\ n \in Nat /\ k \in Nat \ {0} /\ p \in Nat \ {0} /\ m \in 0 .. k - 1
    /\ k * p + m = n

\* The k runs are disjoint, of their lengths, and have the numbers up to n.
RunsPartition(n, k, p, m) ==
    /\ \A x \in 1 .. k : /\ IsFiniteSet(Runs(k, p, m)[x])
                         /\ Cardinality(Runs(k, p, m)[x]) = Run(x, p, m).len
    /\ \A x, y \in 1 .. k : x # y => Runs(k, p, m)[x] \intersect Runs(k, p, m)[y] = {}
    /\ Joined(Runs(k, p, m), 1 .. k) = 1 .. n

\* The runs of n numbers are disjoint and have all of them.
LEMMA RunsCover ==
    ASSUME NEW n, NEW k, NEW p, NEW m, CutsInto(n, k, p, m)
    PROVE  RunsPartition(n, k, p, m)
<1> USE DEF CutsInto
<1> DEFINE F(x) == Run(x, p, m).from
           L(x) == Run(x, p, m).len
           A == [x \in 1 .. k |-> (F(x) + 1) .. (F(x) + L(x))]
<1>0. A = Runs(k, p, m)
    BY DEF Runs
<1>1. ASSUME NEW x \in Nat \ {0}
      PROVE  F(x) \in Nat /\ L(x) \in Nat /\ F(x + 1) = F(x) + L(x)
    BY RunsFollow
<1>2. ASSUME NEW x \in Nat \ {0}, NEW y \in Nat \ {0}, x <= y PROVE F(x) <= F(y)
    <2>1. F(x) = (x - 1) * p + (IF x - 1 <= m THEN x - 1 ELSE m)
        BY RunsFollow
    <2>2. F(y) = (y - 1) * p + (IF y - 1 <= m THEN y - 1 ELSE m)
        BY RunsFollow
    <2>3. x - 1 \in Nat /\ y - 1 \in Nat /\ x - 1 <= y - 1
        BY <1>2
    <2>4. (x - 1) * p \in Nat /\ (y - 1) * p \in Nat /\ (x - 1) * p <= (y - 1) * p
        BY <2>3, Products
    <2>5. (IF x - 1 <= m THEN x - 1 ELSE m) <= (IF y - 1 <= m THEN y - 1 ELSE m)
        BY <2>3
    <2> HIDE DEF F
    <2> QED  BY <2>1, <2>2, <2>3, <2>4, <2>5
<1>3. F(1) = 0 /\ F(k + 1) = n
    <2>1. F(1) = (1 - 1) * p + (IF 1 - 1 <= m THEN 1 - 1 ELSE m)
        BY RunsFollow
    <2>2. F(k + 1) = ((k + 1) - 1) * p + (IF (k + 1) - 1 <= m THEN (k + 1) - 1 ELSE m)
        BY RunsFollow
    <2>3. (k + 1) - 1 = k /\ ~(k <= m)
        OBVIOUS
    <2> HIDE DEF F
    <2> QED  BY <2>1, <2>2, <2>3
<1> HIDE DEF F, L
<1>4. ASSUME NEW x \in 1 .. k PROVE IsFiniteSet(A[x]) /\ Cardinality(A[x]) = L(x)
    <2>1. F(x) \in Nat /\ L(x) \in Nat /\ A[x] = (F(x) + 1) .. (F(x) + L(x))
        BY <1>1
    <2>2. F(x) + 1 \in Int /\ F(x) + L(x) \in Int
        BY <2>1
    <2>3. /\ IsFiniteSet(A[x])
          /\ Cardinality(A[x]) = IF F(x) + 1 > F(x) + L(x) THEN 0
                                 ELSE (F(x) + L(x)) - (F(x) + 1) + 1
        <3> HIDE DEF A
        <3> QED  BY <2>1, <2>2, FS_Interval
    <2> QED  BY <2>1, <2>3
<1>5. ASSUME NEW x \in 1 .. k, NEW y \in 1 .. k, x < y PROVE A[x] \intersect A[y] = {}
    <2>1. F(x) + L(x) <= F(y) /\ F(x) \in Nat /\ L(x) \in Nat /\ F(y) \in Nat /\ L(y) \in Nat
        BY <1>1, <1>2, <1>5
    <2> QED  BY <2>1
<1>6. ASSUME NEW q \in 1 .. n PROVE \E x \in 1 .. k : q \in A[x]
    <2> DEFINE S == {x \in 1 .. k : F(x) < q}
    <2>1. 1 \in S /\ S \subseteq Nat /\ \A x \in S : x <= k
        BY <1>3
    <2>2. PICK x \in S : \A y \in S : y <= x
        <3> HIDE DEF S
        <3> QED  BY <2>1, LargestNat
    <2>3. F(x + 1) >= q
        <3>1. CASE x = k
            BY <1>3, <3>1
        <3>2. CASE x < k
            <4>1. x + 1 \in 1 .. k /\ x + 1 \notin S
                BY <2>2, <3>2
            <4> QED  BY <1>1, <4>1
        <3> QED  BY <3>1, <3>2
    <2>4. F(x) \in Nat /\ L(x) \in Nat /\ F(x + 1) = F(x) + L(x) /\ F(x) < q
        BY <1>1
    <2> QED  BY <2>3, <2>4
<1>7. ASSUME NEW x \in 1 .. k, NEW q \in A[x] PROVE q \in 1 .. n
    <2>1. F(x) \in Nat /\ L(x) \in Nat /\ F(x) + L(x) <= n
        BY <1>1, <1>2, <1>3
    <2> QED  BY <2>1
<1>8. \A x, y \in 1 .. k : x # y => A[x] \intersect A[y] = {}
    <2> SUFFICES ASSUME NEW x \in 1 .. k, NEW y \in 1 .. k, x # y PROVE A[x] \intersect A[y] = {}
        OBVIOUS
    <2>1. x < y \/ y < x
        OBVIOUS
    <2>2. CASE x < y
        BY <1>5, <2>2
    <2>3. CASE y < x
        <3> HIDE DEF A
        <3>1. A[y] \intersect A[x] = {}
            BY <1>5, <2>3
        <3> QED  BY <3>1
    <2> QED  BY <2>1, <2>2, <2>3
<1>9. Joined(A, 1 .. k) = 1 .. n
    <2> HIDE DEF A
    <2> QED  BY <1>6, <1>7 DEF Joined
<1> HIDE DEF A
<1> QED  BY <1>0, <1>4, <1>8, <1>9 DEF L, RunsPartition

\* The subtrees are lists of members that are not empty, and as long together as
\* the roster without the root.
LEMMA TreesCover ==
    /\ IsFiniteSet(Trees) /\ genTrees \in [Trees -> Seq(Members)]
    /\ \A i \in Trees : Len(genTrees[i]) \in Nat /\ Len(genTrees[i]) >= 1
    /\ \E A : /\ \A i \in Trees : IsFiniteSet(A[i]) /\ Cardinality(A[i]) = Len(genTrees[i])
              /\ \A i, j \in Trees : i # j => A[i] \intersect A[j] = {}
              /\ Joined(A, Trees) = 1 .. N - 1
<1> DEFINE per == (N - 1) \div TreeCount
           surplus == (N - 1) % TreeCount
           F(i) == Run(i, per, surplus).from
           L(i) == Run(i, per, surplus).len
           A == Runs(TreeCount, per, surplus)
<1>1. /\ N \in Nat /\ N >= 2 /\ TreeCount \in Nat \ {0} /\ per \in Nat \ {0}
      /\ surplus \in 0 .. TreeCount - 1 /\ TreeCount * per + surplus = N - 1 /\ N - 1 \in Nat
    BY TreeNumbers
<1>2. IsFiniteSet(Trees)
    <2>1. 1 \in Int /\ TreeCount \in Int
        BY <1>1
    <2> QED  BY <2>1, FS_Interval DEF Trees
<1>3. genTrees = [i \in Trees |-> [j \in 1 .. L(i) |-> (CosiRoot + F(i) + j) % N]]
    BY DEF genTrees, Run
<1>4. CosiRoot \in Nat
    BY BlsAssumption
<1> HIDE DEF per, surplus
<1>5. \A i \in Trees : F(i) \in Nat /\ L(i) \in Nat /\ L(i) >= 1
    <2> SUFFICES ASSUME NEW i \in Trees PROVE F(i) \in Nat /\ L(i) \in Nat /\ L(i) >= 1
        OBVIOUS
    <2>1. i \in Nat \ {0} /\ per \in Nat /\ surplus \in Nat
        BY <1>1 DEF Trees
    <2>2. L(i) = IF i <= surplus THEN per + 1 ELSE per
        BY DEF Run
    <2>3. F(i) \in Nat
        BY <2>1, RunsFollow
    <2> QED  BY <1>1, <2>1, <2>2, <2>3
<1>6. /\ \A x \in 1 .. TreeCount : IsFiniteSet(A[x]) /\ Cardinality(A[x]) = L(x)
      /\ \A x, y \in 1 .. TreeCount : x # y => A[x] \intersect A[y] = {}
      /\ Joined(A, 1 .. TreeCount) = 1 .. N - 1
    <2>1. CutsInto(N - 1, TreeCount, per, surplus)
        BY <1>1 DEF CutsInto
    <2>2. RunsPartition(N - 1, TreeCount, per, surplus)
        BY <2>1, RunsCover, Zenon
    <2> QED  BY <2>2, Zenon DEF RunsPartition
<1> HIDE DEF F, L, A
<1>7. ASSUME NEW i \in Trees
      PROVE  genTrees[i] \in Seq(Members) /\ Len(genTrees[i]) = L(i)
    <2>1. genTrees[i] = [j \in 1 .. L(i) |-> (CosiRoot + F(i) + j) % N]
        BY <1>3
    <2>2. \A j \in 1 .. L(i) : (CosiRoot + F(i) + j) % N \in Members
        <3> SUFFICES ASSUME NEW j \in 1 .. L(i) PROVE (CosiRoot + F(i) + j) % N \in Members
            OBVIOUS
        <3>1. CosiRoot + F(i) + j \in Nat
            BY <1>4, <1>5
        <3> QED  BY <1>1, <3>1 DEF Members
    <2> QED  BY <1>5, <2>1, <2>2
<1>8. genTrees \in [Trees -> Seq(Members)]
    BY <1>3, <1>7
<1>9. /\ \A i \in Trees : IsFiniteSet(A[i]) /\ Cardinality(A[i]) = Len(genTrees[i])
      /\ \A i, j \in Trees : i # j => A[i] \intersect A[j] = {}
      /\ Joined(A, Trees) = 1 .. N - 1
    BY <1>6, <1>7 DEF Trees
<1> QED  BY <1>2, <1>5, <1>7, <1>8, <1>9

Instances ==
    [sl : {"announced", "waiting", "replied"}, asked : SUBSET Members, signed : SUBSET Members]

\* Whoever has an entry or has signed has verified the block, and trees are only
\* rotated.
BlsInv ==
    /\ subTrees \in [Trees -> Seq(Members)]
    /\ \A i \in Trees : Len(subTrees[i]) = Len(genTrees[i])
    /\ inst \in [Trees -> Instances]
    /\ \A i \in Trees : inst[i].signed \subseteq verified
    /\ buffer \subseteq verified /\ verified \intersect refusing = {} /\ CosiRoot \in verified
    /\ SignersVerified

\* When all answers have been counted, signatures and failures add up.
LEMMA AnswersAddUp ==
    ASSUME BlsInv, Counted = Trees
    PROVE  numSignature \in Int /\ numFailure \in Int /\ numSignature + numFailure = N - 1
<1> DEFINE w == [i \in Trees |-> Cardinality(inst[i].signed)]
           v == [i \in Trees |-> Failures(i)]
           u == [i \in Trees |-> Len(genTrees[i])]
           f == CHOOSE g : g = [s \in SUBSET Trees |->
                    IF s = {} THEN 0 ELSE Cardinality(inst[Pick(s)].signed) + g[s \ {Pick(s)}]]
           h == CHOOSE g : g = [s \in SUBSET Trees |->
                    IF s = {} THEN 0 ELSE Failures(Pick(s)) + g[s \ {Pick(s)}]]
<1>1. numSignature = f[Trees] /\ numFailure = h[Trees]
    BY Zenon DEF numSignature, numFailure, MapThenSumSet, MapThenFoldSet, Pick
<1>2. IsFiniteSet(Members)
    <2>1. 0 \in Int /\ N - 1 \in Int
        BY TreeNumbers
    <2> QED  BY <2>1, FS_Interval DEF Members
<1>3. ASSUME NEW i \in Trees
      PROVE  w[i] \in Int /\ v[i] \in Int /\ u[i] \in Int /\ u[i] = w[i] + v[i]
    <2>1. inst[i].signed \subseteq Members
        BY DEF BlsInv, Instances
    <2>2. Cardinality(inst[i].signed) \in Nat
        BY <1>2, <2>1, FS_Subset, FS_CardinalityType
    <2>3. Len(subTrees[i]) = Len(genTrees[i]) /\ Len(genTrees[i]) \in Nat
        BY TreesCover DEF BlsInv
    <2> QED  BY <2>2, <2>3 DEF Failures
<1>4. w \in [Trees -> Int] /\ v \in [Trees -> Int] /\ u \in [Trees -> Int]
    BY <1>3
<1>5. ASSUME NEW s \in SUBSET Trees, s # {} PROVE Pick(s) \in Trees
    BY <1>5 DEF Pick
<1>6. IsSum(f, Trees, w)
    <2> DEFINE P(g) == g = [s \in SUBSET Trees |->
                    IF s = {} THEN 0 ELSE Cardinality(inst[Pick(s)].signed) + g[s \ {Pick(s)}]]
    <2>1. ASSUME NEW g PROVE IsSum(g, Trees, w) <=> P(g)
        <3>1. \A s \in SUBSET Trees : s # {} => w[Pick(s)] = Cardinality(inst[Pick(s)].signed)
            BY <1>5
        <3> HIDE DEF w
        <3> QED  BY <3>1 DEF IsSum
    <2>2. \E g : IsSum(g, Trees, w)
        <3> HIDE DEF w
        <3> QED  BY <1>4, TreesCover, SumExists
    <2>3. \E g : P(g)
        BY <2>1, <2>2
    <2>4. P(f)
        <3>1. f = CHOOSE g : P(g)
            OBVIOUS
        <3> HIDE DEF P, f
        <3> QED  BY <2>3, <3>1
    <2> HIDE DEF f, w, P
    <2> QED  BY <2>1, <2>4
<1>7. IsSum(h, Trees, v)
    <2> DEFINE P(g) == g = [s \in SUBSET Trees |->
                    IF s = {} THEN 0 ELSE Failures(Pick(s)) + g[s \ {Pick(s)}]]
    <2>1. ASSUME NEW g PROVE IsSum(g, Trees, v) <=> P(g)
        <3>1. \A s \in SUBSET Trees : s # {} => v[Pick(s)] = Failures(Pick(s))
            BY <1>5
        <3> HIDE DEF v
        <3> QED  BY <3>1 DEF IsSum
    <2>2. \E g : IsSum(g, Trees, v)
        <3> HIDE DEF v
        <3> QED  BY <1>4, TreesCover, SumExists
    <2>3. \E g : P(g)
        BY <2>1, <2>2
    <2>4. P(h)
        <3>1. h = CHOOSE g : P(g)
            OBVIOUS
        <3> HIDE DEF P, h
        <3> QED  BY <2>3, <3>1
    <2> HIDE DEF h, v, P
    <2> QED  BY <2>1, <2>4
<1> HIDE DEF f, h, w, v
<1>0. IsFiniteSet(Trees)
    BY TreesCover
<1>8. PICK A : /\ \A i \in Trees : IsFiniteSet(A[i]) /\ Cardinality(A[i]) = Len(genTrees[i])
               /\ \A i, j \in Trees : i # j => A[i] \intersect A[j] = {}
               /\ Joined(A, Trees) = 1 .. N - 1
    BY TreesCover
<1>9. \A i \in Trees : u[i] = Cardinality(A[i])
    BY <1>8
<1> HIDE DEF u
<1>10. PICK e : IsSum(e, Trees, u)
    BY <1>4, TreesCover, SumExists
<1>11. f[Trees] \in Int /\ h[Trees] \in Int /\ e[Trees] = f[Trees] + h[Trees]
    <2>1. \A i \in Trees : u[i] = w[i] + v[i]
        BY <1>3
    <2> QED  BY <1>0, <1>4, <1>6, <1>7, <1>10, <2>1, SumAdds
<1>12. e[Trees] = Cardinality(1 .. N - 1)
    <2>2. e[Trees] = Cardinality(Joined(A, Trees))
        <3>1. /\ \A i \in Trees : IsFiniteSet(A[i])
              /\ \A i, j \in Trees : i # j => A[i] \intersect A[j] = {}
            BY <1>8
        <3> QED  BY <1>0, <1>9, <1>10, <3>1, SumOfSizes
    <2> QED  BY <1>8, <2>2
<1>13. Cardinality(1 .. N - 1) = N - 1
    <2>1. 1 \in Int /\ N - 1 \in Int /\ ~(1 > N - 1)
        BY TreeNumbers
    <2>2. Cardinality(1 .. N - 1) = (N - 1) - 1 + 1
        BY <2>1, FS_Interval
    <2> QED  BY <2>1, <2>2
<1> QED  BY <1>1, <1>11, <1>12, <1>13

\* The root does not wait for anybody when all subtrees have answered.
LEMMA AllAnswered == ASSUME BlsInv PROVE AnswersDecide
<1> SUFFICES ASSUME Counted = Trees, Collecting PROVE FALSE
    BY DEF AnswersDecide
<1>1. BlsThreshold \in Int /\ N \in Int
    BY TreeNumbers DEF BlsThreshold, DefaultThreshold
<1>2. numSignature < BlsThreshold - 1 /\ ~(numFailure > N - BlsThreshold)
    BY DEF Collecting, checkFailureThreshold
<1> QED  BY <1>1, <1>2, AnswersAddUp

\* A verification: only who does not refuse gets an entry, and only who has one, or
\* gets one, accepts.
LEMMA VerifyKeeps ==
    ASSUME BlsInv, NEW n, NEW ph, VerifyStep(n, ph), UNCHANGED refusing
    PROVE  /\ buffer' \subseteq verified' /\ verified' \intersect refusing' = {}
           /\ verified \subseteq verified'
           /\ Accepts(n, ph) => n \in verified'
<1>1. /\ buffer' = Entries(n, ph) /\ buffer \subseteq verified /\ verified \intersect refusing = {}
      /\ verified' = IF ph = "prep" THEN verified \union (buffer' \ buffer) ELSE verified
    BY DEF VerifyStep, BlsInv
<1>2. CASE ph = "prep"
    BY <1>1, <1>2 DEF Entries, Accepts
<1>3. CASE ph # "prep"
    BY <1>1, <1>3 DEF Entries, Accepts
<1> QED  BY <1>2, <1>3

\* A step that neither verifies nor ends the round.
LEMMA BlsKept ==
    ASSUME BlsInv, UNCHANGED <<phase, buffer, verified, refusing, final>>,
           subTrees' \in [Trees -> Seq(Members)],
           \A i \in Trees : Len(subTrees'[i]) = Len(subTrees[i]),
           inst' \in [Trees -> Instances],
           \A i \in Trees : inst'[i].signed \subseteq inst[i].signed
    PROVE  BlsInv'
<1>1. SignersVerified'
    BY DEF BlsInv, SignersVerified
<1>2. \A i \in Trees : inst'[i].signed \subseteq verified'
    BY DEF BlsInv
<1>3. \A i \in Trees : Len(subTrees'[i]) = Len(genTrees[i])
    BY DEF BlsInv
<1> QED  BY <1>1, <1>2, <1>3 DEF BlsInv

\* The first of a subtree and its leaves are members.
LEMMA SubTreeMembers ==
    ASSUME BlsInv, NEW i \in Trees
    PROVE  /\ subTrees[i] \in Seq(Members) /\ subTrees[i] # <<>>
           /\ SubLeader(subTrees[i]) \in Members /\ Leaves(subTrees[i]) \subseteq Members
           /\ Rotated(subTrees[i]) \in Seq(Members)
           /\ Len(Rotated(subTrees[i])) = Len(subTrees[i])
<1> DEFINE q == subTrees[i]
<1>1. q \in Seq(Members) /\ Len(q) \in Nat /\ Len(q) >= 1
    BY TreesCover DEF BlsInv
<1> HIDE DEF q
<1>2. q # <<>> /\ Head(q) \in Members /\ Tail(q) \in Seq(Members) /\ Len(Tail(q)) = Len(q) - 1
    BY <1>1
<1>3. Leaves(q) \subseteq Members
    BY <1>2 DEF Leaves, ToSet
<1>4. Rotated(q) \in Seq(Members) /\ Len(Rotated(q)) = Len(q)
    BY <1>1, <1>2 DEF Rotated
<1> QED  BY <1>1, <1>2, <1>3, <1>4 DEF q, SubLeader

\* A node that verifies in a running sub-protocol signs only what it accepts.
LEMMA SignStep ==
    ASSUME BlsInv, Running, NEW i \in Trees, NEW n, VerifyStep(n, phase),
           UNCHANGED <<phase, subTrees, refusing, final>>,
           inst' \in [Trees -> Instances],
           \A k \in Trees : inst'[k].signed \subseteq
               inst[k].signed \union (IF k = i /\ Accepts(n, phase) THEN {n} ELSE {})
    PROVE  BlsInv'
<1>1. SignersVerified'
    BY DEF SignersVerified, Running
<1>2. \A k \in Trees : inst'[k].signed \subseteq verified'
    BY VerifyKeeps DEF BlsInv
<1>3. CosiRoot \in verified'
    BY VerifyKeeps DEF BlsInv
<1> QED  BY <1>1, <1>2, <1>3, VerifyKeeps DEF BlsInv

\* The end of a round: a mask has at least a threshold only if it was aggregated,
\* and the commit round starts without signatures.
LEMMA EndStep ==
    ASSUME BlsInv, NEW mask, EndRound(mask),
           mask = NoMask \/ mask = makeAggregateResponse(Counted)
    PROVE  BlsInv'
<1>1. /\ final' = mask /\ subTrees' = genTrees /\ inst' = SubProtocols
      /\ UNCHANGED <<verified, refusing>>
    BY DEF EndRound
<1>2. buffer' \subseteq buffer
    BY DEF EndRound, StartRound, Entries
<1>3. phase' = "signed" => ValidSignature(mask)
    BY DEF EndRound, StartRound
<1>4. inst' \in [Trees -> Instances] /\ \A i \in Trees : inst'[i].signed = {}
    BY <1>1 DEF SubProtocols, NewInstance, Instances
<1>5. SignersVerified'
    <2> SUFFICES ASSUME ValidSignature(mask)
                 PROVE  /\ Cardinality(mask) >= BlsThreshold /\ CosiRoot \in mask
                        /\ mask \subseteq verified \ refusing
        BY <1>1, <1>3 DEF SignersVerified
    <2>1. Cardinality(mask) >= BlsThreshold /\ BlsThreshold \in Int /\ BlsThreshold >= 1
        BY TreeNumbers DEF ValidSignature, BlsThreshold, DefaultThreshold
    <2>2. mask # NoMask
        BY <2>1, FS_EmptySet DEF NoMask
    <2>3. mask = {CosiRoot} \union UNION {inst[i].signed : i \in Counted}
        BY <2>2 DEF makeAggregateResponse
    <2>4. Counted \subseteq Trees
        BY DEF Counted
    <2>5. mask \subseteq verified
        BY <2>3, <2>4 DEF BlsInv
    <2> QED  BY <2>1, <2>3, <2>5 DEF BlsInv
<1> QED  BY <1>1, <1>2, <1>4, <1>5, TreesCover DEF BlsInv

\* Every step of a collective signature keeps BlsInv.
LEMMA BlsStep ==
    ASSUME BlsInv, [BlsNext]_blsVars
    PROVE  BlsInv'
<1>0. inst \in [Trees -> Instances] /\ subTrees \in [Trees -> Seq(Members)]
    BY DEF BlsInv
<1>1. ASSUME NEW i \in Trees, dispatchSubLeader(i) PROVE BlsInv'
    <2> DEFINE n == SubLeader(subTrees[i])
               new == [sl |-> "waiting", asked |-> Leaves(subTrees[i]) \ down,
                       signed |-> IF Accepts(n, phase) THEN {n} ELSE {}]
    <2>1. /\ Running /\ VerifyStep(n, phase) /\ inst' = [inst EXCEPT ![i] = new]
          /\ UNCHANGED <<phase, subTrees, refusing, final>>
        BY <1>1 DEF dispatchSubLeader
    <2>2. new \in Instances
        BY SubTreeMembers DEF Instances
    <2>3. new.signed = IF Accepts(n, phase) THEN {n} ELSE {}
        OBVIOUS
    <2> HIDE DEF n, new
    <2>4. inst' \in [Trees -> Instances]
        BY <1>0, <2>1, <2>2
    <2>5. \A k \in Trees : inst'[k].signed \subseteq
               inst[k].signed \union (IF k = i /\ Accepts(n, phase) THEN {n} ELSE {})
        BY <1>0, <2>1, <2>3
    <2> QED  BY <2>1, <2>4, <2>5, SignStep
<1>2. ASSUME NEW i \in Trees, NEW n \in Members, dispatchLeaf(i, n) PROVE BlsInv'
    <2> DEFINE counts == inst[i].sl = "waiting" /\ SubLeader(subTrees[i]) \notin down
               new == [inst[i] EXCEPT !.asked = @ \ {n},
                           !.signed = IF counts /\ Accepts(n, phase) THEN @ \union {n} ELSE @]
    <2>1. /\ Running /\ VerifyStep(n, phase)
          /\ UNCHANGED <<phase, subTrees, refusing, final>>
        BY <1>2 DEF dispatchLeaf
    <2>2. inst' = [inst EXCEPT ![i] = new]
        BY <1>0, <1>2 DEF dispatchLeaf, Instances
    <2>3. inst[i] \in Instances
        BY <1>0
    <2>4. /\ new \in Instances
          /\ new.signed \subseteq inst[i].signed \union (IF Accepts(n, phase) THEN {n} ELSE {})
        BY <2>3 DEF Instances
    <2> HIDE DEF new
    <2>5. inst' \in [Trees -> Instances]
        BY <1>0, <2>2, <2>4
    <2>6. \A k \in Trees : inst'[k].signed \subseteq
               inst[k].signed \union (IF k = i /\ Accepts(n, phase) THEN {n} ELSE {})
        BY <1>0, <2>2, <2>4
    <2> QED  BY <2>1, <2>5, <2>6, SignStep
<1>3. ASSUME NEW i \in Trees, makeSubLeaderResponse(i) PROVE BlsInv'
    <2>1. /\ inst' = [inst EXCEPT ![i].sl = "replied"]
          /\ UNCHANGED <<phase, subTrees, buffer, verified, refusing, final>>
        BY <1>3 DEF makeSubLeaderResponse
    <2>2. inst' \in [Trees -> Instances] /\ \A k \in Trees : inst'[k].signed = inst[k].signed
        BY <1>0, <2>1 DEF Instances
    <2> QED  BY <1>0, <2>1, <2>2, BlsKept
<1>4. ASSUME NEW i \in Trees, restartSubProtocol(i) PROVE BlsInv'
    <2>1. /\ inst' = [inst EXCEPT ![i] = NewInstance]
          /\ subTrees' = subTrees \/ subTrees' = [subTrees EXCEPT ![i] = Rotated(@)]
          /\ UNCHANGED <<phase, buffer, verified, refusing, final>>
        BY <1>4 DEF restartSubProtocol
    <2>2. NewInstance \in Instances /\ NewInstance.signed = {}
        BY DEF NewInstance, Instances
    <2>3. inst' \in [Trees -> Instances] /\ \A k \in Trees : inst'[k].signed \subseteq inst[k].signed
        BY <1>0, <2>1, <2>2
    <2>4. /\ subTrees' \in [Trees -> Seq(Members)]
          /\ \A k \in Trees : Len(subTrees'[k]) = Len(subTrees[k])
        BY <1>0, <2>1, SubTreeMembers
    <2> QED  BY <2>1, <2>3, <2>4, BlsKept
<1>5. ASSUME NEW i \in Trees, CollectResponse(i) PROVE BlsInv'
    BY <1>0, <1>5, BlsKept DEF CollectResponse
<1>6. ASSUME NEW a \in late, LateAnnouncement(a) PROVE BlsInv'
    <2>1. /\ Running /\ VerifyStep(a[1], a[2])
          /\ UNCHANGED <<phase, subTrees, inst, refusing, final>>
        BY <1>6 DEF LateAnnouncement
    <2>2. SignersVerified'
        BY <2>1 DEF SignersVerified, Running
    <2> QED  BY <2>1, <2>2, VerifyKeeps DEF BlsInv
<1>7. ASSUME NEW n \in Members, Crash(n) PROVE BlsInv'
    BY <1>0, <1>7, BlsKept DEF Crash
<1>8. ASSUME CollectError \/ CollectTimeout \/ generateSignature PROVE BlsInv'
    BY <1>8, EndStep DEF CollectError, CollectTimeout, generateSignature
<1>9. ASSUME UNCHANGED blsVars PROVE BlsInv'
    BY <1>0, <1>9, BlsKept DEF blsVars
<1> QED  BY <1>1, <1>2, <1>3, <1>4, <1>5, <1>6, <1>7, <1>8, <1>9 DEF BlsNext, SubProtocolStep

\* At first only the root has verified the block.
LEMMA BlsStart ==
    ASSUME BlsInit
    PROVE  BlsInv
<1>1. inst \in [Trees -> Instances] /\ \A i \in Trees : inst[i].signed = {}
    BY DEF BlsInit, SubProtocols, NewInstance, Instances
<1>2. verified \intersect refusing = {}
    BY DEF BlsInit, Others
<1> QED  BY <1>1, <1>2, TreesCover DEF BlsInit, BlsInv, SignersVerified

SignInv == active = "bls" => BlsInv

\* Whichever sub-leaders are silent, replaced or late, and for every roster and
\* number of subtrees, a signature covers a threshold of nodes that have verified
\* the block themselves, and the root has decided once every subtree has answered
\* (blscosi/protocol, collectSignatures; byzcoinx).
THEOREM BlsAlwaysRight == SigningSpec => []BlsRight
<1>1. SigningInit => SignInv
    <2> SUFFICES ASSUME SigningInit, active = "bls" PROVE BlsInv
        BY DEF SignInv
    <2>1. BlsInit
        BY DEF SigningInit
    <2> QED  BY <2>1, BlsStart
<1>2. SignInv /\ [SigningNext]_SigningVars => SignInv'
    <2>1. ASSUME active = "bls", [SigningNext]_SigningVars PROVE [BlsNext]_blsVars
        BY <2>1 DEF SigningNext, SigningVars
    <2> QED  BY <2>1, ActiveStays, BlsStep DEF SignInv
<1>3. SignInv => BlsRight
    BY AllAnswered DEF SignInv, BlsInv, BlsRight
<1> QED  BY <1>1, <1>2, <1>3, PTL DEF SigningSpec

-----------------------------------------------------------------------------
(* Fault tolerant CoSi. A sub-leader commits again with more nodes, so that    *)
(* what the root has of a subtree is what it has ever heard of it.             *)

FtSubtree(i) == ToSet(ftGenTrees[i])

\* The subtrees are disjoint, not empty, and do not have the root.
LEMMA FtSubtrees ==
    /\ FtN \in Nat /\ FtThreshold \in Nat /\ FtThreshold >= 2
    /\ IsFiniteSet(FtTrees) /\ IsFiniteSet(FtNodes) /\ Cardinality(FtNodes) = FtN
    /\ FtRoot \in FtNodes
    /\ \A i \in FtTrees : /\ ftGenTrees[i] \in Seq(FtNodes) /\ ftGenTrees[i] # <<>>
                          /\ FtSubtree(i) \subseteq FtNodes \ {FtRoot}
    /\ ftGenTrees \in [FtTrees -> Seq(FtNodes)]
    /\ \A i, j \in FtTrees : i # j => FtSubtree(i) \intersect FtSubtree(j) = {}
<1> DEFINE n == FtN - 1
           k == FtSubTrees
           per == n \div k
           more == n % k
           F(i) == Run(i, per, more).from
           L(i) == Run(i, per, more).len
           A == Runs(k, per, more)
           first(i) == (i - 1) * per + Min({i - 1, more}) + 1
           rest == [p \in 1 .. n |-> IF p <= FtRoot THEN p - 1 ELSE p]
<1>1. /\ FtN \in Nat /\ FtRoot \in 0 .. FtN - 1 /\ k \in Nat /\ 1 <= k /\ k <= n /\ n \in Nat
      /\ FtThreshold \in Nat /\ FtThreshold >= 2
    BY FtAssumption
<1>2. IsFiniteSet(FtTrees)
    <2>1. 1 \in Int /\ k \in Int
        BY <1>1
    <2> QED  BY <2>1, FS_Interval DEF FtTrees
<1>3. IsFiniteSet(FtNodes) /\ Cardinality(FtNodes) = FtN
    <2>1. 0 \in Int /\ FtN - 1 \in Int /\ ~(0 > FtN - 1)
        BY <1>1
    <2>2. IsFiniteSet(FtNodes) /\ Cardinality(FtNodes) = (FtN - 1) - 0 + 1
        BY <2>1, FS_Interval DEF FtNodes
    <2> QED  BY <1>1, <2>2
<1>4. /\ \A p \in 1 .. n : rest[p] \in FtNodes \ {FtRoot}
      /\ \A p, q \in 1 .. n : p # q => rest[p] # rest[q]
    BY <1>1 DEF FtNodes
<1>5. FtRoot \in FtNodes
    BY <1>1 DEF FtNodes
<1>6. ftGenTrees = [i \in FtTrees |-> SubSeq(rest, first(i), first(i + 1) - 1)]
    BY Zenon DEF ftGenTrees
<1>7. \A i : first(i) = F(i) + 1
    <2>1. \A i : F(i) = (i - 1) * per + Min({i - 1, more})
        BY DEF Run
    <2> HIDE DEF F
    <2> QED  BY <2>1
<1> HIDE DEF first
<1> HIDE DEF n
<1>8. /\ per \in Nat \ {0} /\ more \in 0 .. k - 1 /\ k * per + more = n
      /\ k \in Nat \ {0} /\ n \in Nat
    BY <1>1, Division
<1> HIDE DEF per, more, k
<1>9. /\ \A x, y \in 1 .. k : x # y => A[x] \intersect A[y] = {}
      /\ Joined(A, 1 .. k) = 1 .. n
    <2>1. CutsInto(n, k, per, more)
        BY <1>8 DEF CutsInto
    <2>2. RunsPartition(n, k, per, more)
        BY <2>1, RunsCover, Zenon
    <2> QED  BY <2>2, Zenon DEF RunsPartition
<1>10. ASSUME NEW i \in FtTrees
      PROVE  /\ ftGenTrees[i] \in Seq(FtNodes \ {FtRoot}) /\ Len(ftGenTrees[i]) >= 1
             /\ \A x \in FtSubtree(i) : \E p \in A[i] : p \in 1 .. n /\ x = rest[p]
    <2>1. i \in Nat \ {0} /\ i \in 1 .. k /\ per \in Nat /\ more \in Nat
        BY <1>8 DEF FtTrees, k
    <2>2. F(i) \in Nat /\ L(i) \in Nat /\ F(i + 1) = F(i) + L(i)
        BY <2>1, RunsFollow
    <2>3. L(i) >= 1
        <3>1. L(i) = IF i <= more THEN per + 1 ELSE per
            BY DEF Run
        <3> HIDE DEF L
        <3> QED  BY <1>8, <2>1, <3>1
    <2>4. A[i] = (F(i) + 1) .. (F(i) + L(i))
        BY <2>1 DEF Runs
    <2>5. A[i] \subseteq 1 .. n
        <3> HIDE DEF A
        <3> QED  BY <1>9, <2>1 DEF Joined
    <2>6. ftGenTrees[i] = SubSeq(rest, first(i), first(i + 1) - 1)
        BY <1>6
    <2> DEFINE a == F(i) + 1
               b == F(i) + L(i)
    <2>7. ftGenTrees[i] = SubSeq(rest, a, b)
        <3>1. first(i) = a /\ first(i + 1) - 1 = b
            <4> HIDE DEF F, L
            <4> QED  BY <1>7, <2>2
        <3> QED  BY <2>6, <3>1
    <2>8. a \in Int /\ b \in Int /\ a <= b
        <3> HIDE DEF F, L
        <3> QED  BY <2>2, <2>3
    <2>9. A[i] = a .. b
        BY <2>4
    <2> HIDE DEF a, b, F, L, A, rest
    <2>10. \A p \in a .. b : rest[p] \in FtNodes \ {FtRoot}
        BY <1>4, <2>5, <2>9
    <2>11. /\ ftGenTrees[i] \in Seq(FtNodes \ {FtRoot})
           /\ Len(ftGenTrees[i]) = b - a + 1
           /\ \A j \in 1 .. b - a + 1 : ftGenTrees[i][j] = rest[a + j - 1]
        BY <2>7, <2>8, <2>10, SubSeqProperties
    <2>12. ASSUME NEW x \in FtSubtree(i) PROVE \E p \in A[i] : p \in 1 .. n /\ x = rest[p]
        <3>1. PICK j \in 1 .. b - a + 1 : x = ftGenTrees[i][j]
            BY <2>11 DEF FtSubtree, ToSet
        <3>2. a + j - 1 \in A[i] /\ x = rest[a + j - 1]
            BY <2>8, <2>9, <2>11, <3>1
        <3> QED  BY <2>5, <3>2
    <2> QED  BY <2>8, <2>11, <2>12
<1>11. ASSUME NEW i \in FtTrees
       PROVE  /\ ftGenTrees[i] \in Seq(FtNodes) /\ ftGenTrees[i] # <<>>
              /\ FtSubtree(i) \subseteq FtNodes \ {FtRoot}
    <2> HIDE DEF rest
    <2> QED  BY <1>10 DEF FtSubtree, ToSet
<1>12. ASSUME NEW i \in FtTrees, NEW j \in FtTrees, i # j, NEW x \in FtSubtree(i), x \in FtSubtree(j)
       PROVE  FALSE
    <2> HIDE DEF rest, A
    <2>1. PICK p \in A[i] : p \in 1 .. n /\ x = rest[p]
        BY <1>10
    <2>2. PICK q \in A[j] : q \in 1 .. n /\ x = rest[q]
        BY <1>10, <1>12
    <2>3. p = q
        BY <1>4, <2>1, <2>2
    <2>4. i \in 1 .. k /\ j \in 1 .. k
        BY DEF FtTrees, k
    <2> QED  BY <1>9, <1>12, <2>1, <2>2, <2>3, <2>4
<1>13. ftGenTrees \in [FtTrees -> Seq(FtNodes)]
    <2> HIDE DEF rest, F
    <2> QED  BY <1>6, <1>11
<1> HIDE DEF rest, A, F, L
<1> QED  BY <1>1, <1>2, <1>3, <1>5, <1>11, <1>12, <1>13

FtCommitment == [mask : SUBSET FtNodes, refusals : Nat]
FtSubs == [handled : SUBSET FtNodes, first : BOOLEAN, timedOut : BOOLEAN,
           out : Seq(FtCommitment), got : Nat]

\* A commitment of subtree i: nodes that accept, and a number of nodes that do not.
FtSent(i, c) ==
    /\ c.mask \subseteq FtSubtree(i) \intersect ftAccepts
    /\ \E H \in SUBSET FtSubtree(i) : c.refusals = Cardinality(H \ ftAccepts)

\* The commitments of one sub-leader grow.
FtSubFits(i, s) ==
    /\ s.handled \subseteq FtSubtree(i) /\ s.got \in 0 .. Len(s.out)
    /\ \A k \in 1 .. Len(s.out) : FtSent(i, s.out[k]) /\ s.out[k].mask \subseteq s.handled
    /\ \A k, l \in 1 .. Len(s.out) : k <= l => s.out[k].mask \subseteq s.out[l].mask

FtTreesFit ==
    /\ ftTree \in [FtTrees -> Seq(FtNodes)]
    /\ \A i \in FtTrees : ftTree[i] # <<>> /\ FtMembers(i) = FtSubtree(i)
FtSubsFit ==
    /\ ftSub \in [FtTrees -> FtSubs] /\ DOMAIN ftCommits = FtTrees
    /\ \A i \in FtTrees :
           /\ FtSubFits(i, ftSub[i])
           /\ ftCommits[i] = IF ftSub[i].got = 0 THEN FtNone ELSE ftSub[i].out[ftSub[i].got]
\* The root has the last commitment of every subtree, and with it all masks.
FtCommitsFit ==
    /\ ftShared = UNION {ftCommits[i].mask : i \in FtTrees}
    /\ ftPhase \in {"reached", "challenge", "signed"} => Cardinality(ftShared) >= FtThreshold - 1
\* The root has responses of none or of all nodes of a subtree that are in the mask.
FtResponsesFit ==
    ftPhase \in {"challenge", "signed"} =>
        /\ ftMask = {FtRoot} \union ftShared
        /\ FtRoot \in ftResponses /\ ftResponses \subseteq ftMask
        /\ \A i \in runningSubProtocols :
               ftPhase = "signed" \/ ftResponses \intersect FtSubtree(i) # {} =>
                   ftMask \intersect FtSubtree(i) \subseteq ftResponses

FtInv ==
    /\ FtRoot \in ftAccepts
    /\ FtTreesFit /\ FtSubsFit /\ FtCommitsFit /\ FtResponsesFit /\ FtRefusedByMany

\* What a sub-leader sends of the nodes it has heard of.
LEMMA FtAggregated ==
    ASSUME NEW i \in FtTrees, NEW H \in SUBSET FtSubtree(i)
    PROVE  /\ ftAggregate(H) \in FtCommitment /\ FtSent(i, ftAggregate(H))
           /\ ftAggregate(H).mask = H \intersect ftAccepts
<1>1. H \subseteq FtNodes /\ IsFiniteSet(FtNodes)
    BY FtSubtrees
<1>2. Cardinality(H \ ftAccepts) \in Nat
    BY <1>1, FS_Subset, FS_CardinalityType
<1>3. /\ ftAggregate(H).mask = H \intersect ftAccepts
      /\ ftAggregate(H).refusals = Cardinality(H \ ftAccepts)
    BY DEF ftAggregate
<1>4. ftAggregate(H) \in FtCommitment
    BY <1>1, <1>2 DEF ftAggregate, FtCommitment
<1> QED  BY <1>3, <1>4 DEF FtSent

\* A sub-leader that has heard of more nodes and may have sent once more.
LEMMA FtSendsMore ==
    ASSUME NEW i \in FtTrees, NEW s \in FtSubs, FtSubFits(i, s), NEW t \in FtSubs,
           s.handled \subseteq t.handled, t.handled \subseteq FtSubtree(i), t.got = s.got,
           t.out = s.out \/ t.out = Append(s.out, ftAggregate(t.handled))
    PROVE  FtSubFits(i, t) /\ \A k \in 1 .. Len(s.out) : t.out[k] = s.out[k]
<1>1. s.out \in Seq(FtCommitment) /\ Len(s.out) \in Nat /\ s.got \in Nat
    BY DEF FtSubs
<1>2. CASE t.out = s.out
    BY <1>2 DEF FtSubFits
<1>3. CASE t.out = Append(s.out, ftAggregate(t.handled))
    <2> DEFINE x == ftAggregate(t.handled)
               m == Len(s.out)
    <2>1. x \in FtCommitment /\ FtSent(i, x) /\ x.mask = t.handled \intersect ftAccepts
        BY FtAggregated
    <2> HIDE DEF x
    <2>2. /\ Len(t.out) = m + 1 /\ t.out[m + 1] = x
          /\ \A k \in 1 .. m : t.out[k] = s.out[k]
        BY <1>1, <1>3, <2>1 DEF x
    <2>3. \A k \in 1 .. m : s.out[k].mask \subseteq x.mask
        BY <2>1 DEF FtSubFits, FtSent
    <2>4. ASSUME NEW k \in 1 .. Len(t.out) PROVE FtSent(i, t.out[k]) /\ t.out[k].mask \subseteq t.handled
        <3>1. CASE k \in 1 .. m
            BY <2>2, <3>1 DEF FtSubFits
        <3>2. CASE k = m + 1
            BY <2>1, <2>2, <3>2
        <3> QED  BY <1>1, <2>2, <3>1, <3>2
    <2>5. ASSUME NEW k \in 1 .. Len(t.out), NEW l \in 1 .. Len(t.out), k <= l
          PROVE  t.out[k].mask \subseteq t.out[l].mask
        <3>1. CASE l \in 1 .. m
            <4>1. k \in 1 .. m
                BY <1>1, <2>2, <2>5, <3>1
            <4>2. t.out[k] = s.out[k] /\ t.out[l] = s.out[l]
                BY <2>2, <3>1, <4>1
            <4>3. s.out[k].mask \subseteq s.out[l].mask
                BY <2>5, <3>1, <4>1 DEF FtSubFits
            <4> QED  BY <4>2, <4>3
        <3>2. CASE l = m + 1 /\ k \in 1 .. m
            BY <2>2, <2>3, <3>2
        <3>3. CASE l = m + 1 /\ k = m + 1
            BY <3>3
        <3> QED  BY <1>1, <2>2, <2>5, <3>1, <3>2, <3>3
    <2>6. t.got \in 0 .. Len(t.out)
        BY <1>1, <2>2 DEF FtSubFits
    <2> QED  BY <2>2, <2>4, <2>5, <2>6 DEF FtSubFits
<1> QED  BY <1>2, <1>3

\* A step of a sub-leader in the commitment phase.
LEMMA FtSubStep ==
    ASSUME FtInv, NEW i \in FtTrees, NEW t \in FtSubs,
           ftSub[i].handled \subseteq t.handled, t.handled \subseteq FtSubtree(i),
           t.got = ftSub[i].got,
           t.out = ftSub[i].out \/ t.out = Append(ftSub[i].out, ftAggregate(t.handled)),
           ftSub' = [ftSub EXCEPT ![i] = t],
           UNCHANGED <<ftTree, ftAccepts, ftCommits, ftShared, ftPhase, ftMask, ftResponses>>
    PROVE  FtInv'
<1>1. ftSub[i] \in FtSubs /\ FtSubFits(i, ftSub[i])
    BY DEF FtInv, FtSubsFit
<1>2. FtSubFits(i, t) /\ \A k \in 1 .. Len(ftSub[i].out) : t.out[k] = ftSub[i].out[k]
    BY <1>1, FtSendsMore
<1>3. ftSub' \in [FtTrees -> FtSubs] /\ ftSub'[i] = t /\ \A k \in FtTrees \ {i} : ftSub'[k] = ftSub[k]
    BY DEF FtInv, FtSubsFit
<1>4. ftSub[i].got \in 0 .. Len(ftSub[i].out) /\ Len(ftSub[i].out) \in Nat
    BY <1>1 DEF FtSubFits, FtSubs
<1>5. ftCommits'[i] = IF t.got = 0 THEN FtNone ELSE t.out[t.got]
    BY <1>2, <1>4 DEF FtInv, FtSubsFit
<1>6. FtSubFits(i, t)'
    BY <1>2 DEF FtSubFits, FtSent
<1>7. ASSUME NEW k \in FtTrees \ {i} PROVE FtSubFits(k, ftSub[k])'
    <2>1. ftSub'[k] = ftSub[k]
        BY <1>3
    <2>2. FtSubFits(k, ftSub[k])
        BY DEF FtInv, FtSubsFit
    <2> QED  BY <2>1, <2>2 DEF FtSubFits, FtSent
<1>8. FtSubsFit'
    BY <1>3, <1>5, <1>6, <1>7 DEF FtInv, FtSubsFit
<1>9. FtTreesFit' /\ FtCommitsFit' /\ FtResponsesFit' /\ FtRefusedByMany'
    BY DEF FtInv, FtTreesFit, FtMembers, FtCommitsFit, FtResponsesFit, FtRefusedByMany,
           runningSubProtocols
<1> QED  BY <1>8, <1>9 DEF FtInv

\* What a step needs of one subtree.
LEMMA FtOfTree ==
    ASSUME FtInv, NEW i \in FtTrees
    PROVE  /\ ftSub[i] \in FtSubs /\ FtSubFits(i, ftSub[i])
           /\ ftSub[i].handled \subseteq FtSubtree(i)
           /\ ftSub[i].out \in Seq(FtCommitment) /\ ftSub[i].got \in Nat
           /\ FtMembers(i) = FtSubtree(i) /\ FtSubtree(i) \subseteq FtNodes \ {FtRoot}
<1>1. ftSub[i] \in FtSubs /\ FtSubFits(i, ftSub[i])
    BY DEF FtInv, FtSubsFit
<1>2. FtMembers(i) = FtSubtree(i)
    BY DEF FtInv, FtTreesFit
<1>3. FtSubtree(i) \subseteq FtNodes \ {FtRoot}
    BY FtSubtrees
<1>4. ftSub[i].out \in Seq(FtCommitment) /\ ftSub[i].got \in Nat
    BY <1>1 DEF FtSubs
<1>5. ftSub[i].handled \subseteq FtSubtree(i)
    BY <1>1 DEF FtSubFits
<1> QED  BY <1>1, <1>2, <1>3, <1>4, <1>5

\* A node of subtree i commits or refuses.
LEMMA FtCommitStep ==
    ASSUME FtInv, NEW i \in FtTrees, NEW n \in FtNodes, FtCommit(i, n)
    PROVE  FtInv'
<1> DEFINE s == ftSub[i]
           H == s.handled \union {n}
           share == subThreshold(ftTree[i])
           quick == ~s.first /\ (Cardinality(ftAggregate(H).mask) >= share
                                   \/ ftAggregate(H).refusals >= Len(ftTree[i]) - share + 1)
           sends == (quick \/ H = FtMembers(i)) /\ Head1(i) \in H
           t == [s EXCEPT !.handled = H, !.first = @ \/ sends,
                          !.out = IF sends THEN Append(@, ftAggregate(H)) ELSE @]
<1>1. /\ s \in FtSubs /\ s.handled \subseteq FtSubtree(i) /\ s.out \in Seq(FtCommitment)
      /\ FtMembers(i) = FtSubtree(i) /\ FtSubtree(i) \subseteq FtNodes
    BY FtOfTree
<1>2. /\ ftSub' = [ftSub EXCEPT ![i] = t] /\ n \in FtMembers(i)
      /\ UNCHANGED <<ftTree, ftAccepts, ftCommits, ftShared, ftPhase, ftMask, ftResponses>>
    BY Zenon DEF FtCommit
<1>3. H \subseteq FtSubtree(i) /\ H \subseteq FtNodes
    BY <1>1, <1>2
<1>4. ftAggregate(H) \in FtCommitment
    BY <1>3, FtAggregated
<1> HIDE DEF H, quick
<1>5. t \in FtSubs
    <2>1. sends \in BOOLEAN
        OBVIOUS
    <2>2. (s.first \/ sends) \in BOOLEAN
        OBVIOUS
    <2>3. (IF sends THEN Append(s.out, ftAggregate(H)) ELSE s.out) \in Seq(FtCommitment)
        BY <1>1, <1>4
    <2> HIDE DEF sends
    <2> QED  BY <1>1, <1>3, <2>2, <2>3 DEF FtSubs
<1>6. /\ t.handled = H /\ t.got = s.got
      /\ t.out = s.out \/ t.out = Append(s.out, ftAggregate(H))
    <2> HIDE DEF sends
    <2> QED  BY <1>1 DEF FtSubs
<1>7. s.handled \subseteq H
    BY DEF H
<1> HIDE DEF t
<1> QED  BY <1>1, <1>2, <1>3, <1>5, <1>6, <1>7, FtSubStep

\* The sub-leader of subtree i does not wait longer for its leaves.
LEMMA FtSubTimeoutStep ==
    ASSUME FtInv, NEW i \in FtTrees, FtSubTimeout(i)
    PROVE  FtInv'
<1> DEFINE s == ftSub[i]
           t == [s EXCEPT !.timedOut = TRUE, !.out = Append(@, ftAggregate(s.handled))]
<1>1. /\ s \in FtSubs /\ s.handled \subseteq FtSubtree(i) /\ s.out \in Seq(FtCommitment)
    BY FtOfTree
<1>2. /\ ftSub' = [ftSub EXCEPT ![i] = t]
      /\ UNCHANGED <<ftTree, ftAccepts, ftCommits, ftShared, ftPhase, ftMask, ftResponses>>
    <2>1. ftSub' = [ftSub EXCEPT ![i].timedOut = TRUE, ![i].out = Append(@, ftAggregate(ftSub[i].handled))]
        BY DEF FtSubTimeout
    <2>2. ftSub \in [FtTrees -> FtSubs]
        BY DEF FtInv, FtSubsFit
    <2> QED  BY <1>1, <2>1, <2>2 DEF FtSubTimeout, FtSubs
<1>3. ftAggregate(s.handled) \in FtCommitment
    BY <1>1, FtAggregated
<1>4. /\ t \in FtSubs /\ t.handled = s.handled /\ t.got = s.got
      /\ t.out = Append(s.out, ftAggregate(s.handled))
    <2>1. Append(s.out, ftAggregate(s.handled)) \in Seq(FtCommitment)
        BY <1>1, <1>3
    <2> QED  BY <1>1, <2>1 DEF FtSubs
<1> HIDE DEF t
<1> QED  BY <1>1, <1>2, <1>4, FtSubStep

\* Every refusal that the root has counted is one of a node of its own.
LEMMA FtRefusals ==
    ASSUME NEW commits,
           \A i \in FtTrees : commits[i] # FtNone => commits[i].refusals \in Nat /\ FtSent(i, commits[i])
    PROVE  sumRefusals(commits) \in Nat /\ sumRefusals(commits) <= Cardinality(FtNodes \ ftAccepts)
<1> DEFINE D == {i \in FtTrees : commits[i] # FtNone}
           w == [i \in D |-> commits[i].refusals]
           Is(i, X) == X \subseteq FtSubtree(i) \ ftAccepts /\ commits[i].refusals = Cardinality(X)
           A == [i \in D |-> CHOOSE X : Is(i, X)]
           h == CHOOSE g : g = [s \in SUBSET D |->
                    IF s = {} THEN 0 ELSE commits[Pick(s)].refusals + g[s \ {Pick(s)}]]
<1>1. sumRefusals(commits) = h[D]
    BY Zenon DEF sumRefusals, MapThenSumSet, MapThenFoldSet, Pick
<1>2. IsFiniteSet(D) /\ IsFiniteSet(FtNodes)
    BY FtSubtrees, FS_Subset
<1>3. w \in [D -> Int]
    OBVIOUS
<1>4. ASSUME NEW s \in SUBSET D, s # {} PROVE Pick(s) \in D
    BY <1>4 DEF Pick
<1>5. IsSum(h, D, w)
    <2> DEFINE P(g) == g = [s \in SUBSET D |->
                    IF s = {} THEN 0 ELSE commits[Pick(s)].refusals + g[s \ {Pick(s)}]]
    <2> HIDE DEF D
    <2>1. ASSUME NEW g PROVE IsSum(g, D, w) <=> P(g)
        <3>1. \A s \in SUBSET D : s # {} => w[Pick(s)] = commits[Pick(s)].refusals
            BY <1>4
        <3> HIDE DEF w
        <3> QED  BY <3>1 DEF IsSum
    <2>2. \E g : IsSum(g, D, w)
        <3> HIDE DEF w
        <3> QED  BY <1>2, <1>3, SumExists
    <2>3. \E g : P(g)
        BY <2>1, <2>2
    <2>4. P(h)
        <3>1. h = CHOOSE g : P(g)
            OBVIOUS
        <3> HIDE DEF P, h
        <3> QED  BY <2>3, <3>1
    <2> HIDE DEF h, w, P
    <2> QED  BY <2>1, <2>4
<1>6. ASSUME NEW i \in D PROVE Is(i, A[i])
    <2>1. \E X : Is(i, X)
        <3>1. PICK H \in SUBSET FtSubtree(i) : commits[i].refusals = Cardinality(H \ ftAccepts)
            BY DEF FtSent
        <3>2. Is(i, H \ ftAccepts)
            BY <3>1
        <3> HIDE DEF Is
        <3> QED  BY <3>2
    <2> HIDE DEF Is, D
    <2> QED  BY <2>1
<1> HIDE DEF A, h
<1>7. ASSUME NEW i \in D PROVE A[i] \subseteq FtNodes \ ftAccepts /\ IsFiniteSet(A[i])
    <2>1. A[i] \subseteq FtNodes \ ftAccepts
        BY <1>6, FtSubtrees
    <2> QED  BY <1>2, <2>1, FS_Subset
<1>8. \A i, j \in D : i # j => A[i] \intersect A[j] = {}
    BY <1>6, FtSubtrees
<1>9. \A i \in D : w[i] = Cardinality(A[i])
    BY <1>6
<1>10. IsFiniteSet(Joined(A, D)) /\ h[D] = Cardinality(Joined(A, D))
    <2> HIDE DEF D, w
    <2> QED  BY <1>2, <1>5, <1>7, <1>8, <1>9, SumOfSizes
<1>11. Joined(A, D) \subseteq FtNodes \ ftAccepts
    <2> HIDE DEF D
    <2> QED  BY <1>7 DEF Joined
<1>12. IsFiniteSet(FtNodes \ ftAccepts)
    BY <1>2, FS_Subset
<1> HIDE DEF D
<1> QED  BY <1>1, <1>10, <1>11, <1>12, FS_Subset, FS_CardinalityType

\* The root takes the next commitment of subtree i.
LEMMA FtCollectStep ==
    ASSUME FtInv, NEW i \in FtTrees, collectCommitment(i)
    PROVE  FtInv'
<1> DEFINE s == ftSub[i]
           g == s.got + 1
           com == s.out[g]
           t == [s EXCEPT !.got = g]
           commits == setCommitment(i, com)
           shared == ftShared \union com.mask
<1>1. /\ s \in FtSubs /\ FtSubFits(i, s) /\ s.out \in Seq(FtCommitment) /\ s.got \in Nat
    BY FtOfTree
<1>2. /\ ftPhase = "commit" /\ s.got < Len(s.out)
      /\ ftSub' = [ftSub EXCEPT ![i] = t]
      /\ ftCommits' = commits /\ ftShared' = shared
      /\ ftPhase' = IF tooManyRefusals(commits) THEN "refused"
                    ELSE IF Cardinality(shared) >= FtThreshold - 1 THEN "reached" ELSE "commit"
      /\ UNCHANGED <<ftTree, ftAccepts, ftMask, ftResponses>>
    <2>1. ftSub' = [ftSub EXCEPT ![i].got = @ + 1]
        BY DEF collectCommitment
    <2>2. ftSub \in [FtTrees -> FtSubs]
        BY DEF FtInv, FtSubsFit
    <2>3. ftSub' = [ftSub EXCEPT ![i] = t]
        BY <1>1, <2>1, <2>2 DEF FtSubs
    <2> HIDE DEF t
    <2> QED  BY <2>3, Zenon DEF collectCommitment
<1>3. g \in 1 .. Len(s.out) /\ g # 0
    BY <1>1, <1>2
<1>4. com \in FtCommitment /\ FtSent(i, com)
    BY <1>1, <1>3 DEF FtSubFits
<1>5. t \in FtSubs /\ t.handled = s.handled /\ t.out = s.out /\ t.got = g
    BY <1>1 DEF FtSubs
<1>6. FtSubFits(i, t)
    BY <1>1, <1>3, <1>5 DEF FtSubFits
<1>7. /\ ftSub' \in [FtTrees -> FtSubs] /\ ftSub'[i] = t
      /\ \A k \in FtTrees \ {i} : ftSub'[k] = ftSub[k]
    BY <1>2, <1>5 DEF FtInv, FtSubsFit
<1>8. /\ DOMAIN ftCommits' = FtTrees /\ ftCommits'[i] = com
      /\ \A k \in FtTrees \ {i} : ftCommits'[k] = ftCommits[k]
    BY <1>2 DEF FtInv, FtSubsFit, setCommitment
<1>9. FtSubsFit'
    <2>1. ASSUME NEW k \in FtTrees
          PROVE  /\ FtSubFits(k, ftSub[k])'
                 /\ ftCommits'[k] = IF ftSub'[k].got = 0 THEN FtNone ELSE ftSub'[k].out[ftSub'[k].got]
        <3>1. CASE k = i
            <4>1. FtSubFits(k, ftSub'[k])
                BY <1>6, <1>7, <3>1
            <4>2. ftCommits'[k] = IF ftSub'[k].got = 0 THEN FtNone ELSE ftSub'[k].out[ftSub'[k].got]
                BY <1>3, <1>5, <1>7, <1>8, <3>1
            <4> QED  BY <1>2, <4>1, <4>2 DEF FtSubFits, FtSent
        <3>2. CASE k # i
            <4>1. ftSub'[k] = ftSub[k] /\ ftCommits'[k] = ftCommits[k]
                BY <1>7, <1>8, <3>2
            <4>2. /\ FtSubFits(k, ftSub[k])
                  /\ ftCommits[k] = IF ftSub[k].got = 0 THEN FtNone ELSE ftSub[k].out[ftSub[k].got]
                BY DEF FtInv, FtSubsFit
            <4>3. ftAccepts' = ftAccepts
                BY <1>2
            <4>4. FtSubFits(k, ftSub[k])'
                BY <4>1, <4>2, <4>3 DEF FtSubFits, FtSent
            <4> QED  BY <4>1, <4>2, <4>4
        <3> QED  BY <3>1, <3>2
    <2> QED  BY <1>7, <1>8, <2>1 DEF FtSubsFit
<1>10. ftCommits[i].mask \subseteq com.mask
    <2>1. CASE s.got = 0
        <3>1. ftCommits[i] = FtNone
            BY <2>1 DEF FtInv, FtSubsFit
        <3> QED  BY <3>1 DEF FtNone
    <2>2. CASE s.got # 0
        <3>1. ftCommits[i] = s.out[s.got]
            BY <2>2 DEF FtInv, FtSubsFit
        <3>2. s.got \in 1 .. Len(s.out) /\ s.got <= g
            BY <1>1, <1>2, <2>2
        <3>3. s.out[s.got].mask \subseteq s.out[g].mask
            BY <1>1, <1>3, <3>2 DEF FtSubFits
        <3> QED  BY <3>1, <3>3
    <2> QED  BY <2>1, <2>2
<1> HIDE DEF com, t, g, commits
<1>11. ftShared' = UNION {ftCommits'[k].mask : k \in FtTrees}
    <2>1. ftShared = UNION {ftCommits[k].mask : k \in FtTrees}
        BY DEF FtInv, FtCommitsFit
    <2>2. ASSUME NEW x PROVE (\E k \in FtTrees : x \in ftCommits'[k].mask)
                         <=> x \in com.mask \/ \E k \in FtTrees : x \in ftCommits[k].mask
        BY <1>8, <1>10
    <2>3. ftShared' = ftShared \union com.mask
        BY <1>2
    <2> QED  BY <2>1, <2>2, <2>3
<1>12. FtCommitsFit'
    <2>1. ftPhase' = "reached" => Cardinality(ftShared') >= FtThreshold - 1
        BY <1>2
    <2>2. ftPhase' \notin {"challenge", "signed"}
        BY <1>2
    <2> QED  BY <1>11, <2>1, <2>2 DEF FtCommitsFit
<1>13. FtRefusedByMany'
    <2>1. ASSUME NEW k \in FtTrees, commits[k] # FtNone
          PROVE  commits[k].refusals \in Nat /\ FtSent(k, commits[k])
        <3>1. CASE k = i
            BY <1>2, <1>4, <1>8, <3>1 DEF FtCommitment
        <3>2. CASE k # i
            <4>1. commits[k] = ftCommits[k]
                BY <1>2, <1>8, <3>2
            <4>2. commits[k] = ftSub[k].out[ftSub[k].got] /\ ftSub[k].got # 0
                BY <2>1, <4>1 DEF FtInv, FtSubsFit
            <4>3. /\ ftSub[k].out \in Seq(FtCommitment) /\ ftSub[k].got \in Nat
                  /\ FtSubFits(k, ftSub[k])
                BY FtOfTree
            <4>4. ftSub[k].got \in 1 .. Len(ftSub[k].out)
                BY <4>2, <4>3 DEF FtSubFits
            <4>5. ftSub[k].out[ftSub[k].got] \in FtCommitment
                BY <4>3, <4>4
            <4>6. FtSent(k, ftSub[k].out[ftSub[k].got])
                BY <4>3, <4>4 DEF FtSubFits
            <4> QED  BY <4>2, <4>5, <4>6 DEF FtCommitment
        <3> QED  BY <3>1, <3>2
    <2>2. sumRefusals(commits) \in Nat /\ sumRefusals(commits) <= Cardinality(FtNodes \ ftAccepts)
        BY <2>1, FtRefusals
    <2>3. Cardinality(FtNodes \ ftAccepts) \in Nat /\ FtN \in Nat /\ FtThreshold \in Nat
        BY FtSubtrees, FS_Subset, FS_CardinalityType
    <2>4. ftPhase' = "refused" => tooManyRefusals(commits)
        BY <1>2
    <2>5. tooManyRefusals(commits) => Cardinality(FtNodes \ ftAccepts) > FtN - FtThreshold
        BY <2>2, <2>3 DEF tooManyRefusals
    <2> QED  BY <1>2, <2>4, <2>5 DEF FtRefusedByMany
<1>14. FtTreesFit' /\ FtResponsesFit' /\ (FtRoot \in ftAccepts)'
    <2>1. ftPhase' \notin {"challenge", "signed"}
        BY <1>2
    <2>2. FtTreesFit'
        BY <1>2 DEF FtInv, FtTreesFit, FtMembers
    <2> QED  BY <1>2, <2>1, <2>2 DEF FtInv, FtResponsesFit
<1> QED  BY <1>9, <1>12, <1>13, <1>14 DEF FtInv

\* A rotated tree has the same nodes.
LEMMA RotationKeeps ==
    ASSUME NEW S, NEW q \in Seq(S), q # <<>>
    PROVE  /\ Append(Tail(q), q[1]) \in Seq(S) /\ Append(Tail(q), q[1]) # <<>>
           /\ ToSet(Append(Tail(q), q[1])) = ToSet(q)
<1> DEFINE n == Len(q)
           r == Append(Tail(q), q[1])
<1>1. n \in Nat /\ n >= 1 /\ q[1] \in S
    BY EmptySeq
<1>2. Tail(q) \in Seq(S) /\ Len(Tail(q)) = n - 1 /\ \A k \in 1 .. n - 1 : Tail(q)[k] = q[k + 1]
    BY HeadTailProperties
<1>3. r \in Seq(S) /\ Len(r) = n /\ r[n] = q[1] /\ \A k \in 1 .. n - 1 : r[k] = q[k + 1]
    BY <1>1, <1>2
<1> HIDE DEF r
<1>4. \A k \in 1 .. n : \E l \in 1 .. n : r[k] = q[l]
    <2> TAKE k \in 1 .. n
    <2>1. CASE k = n
        BY <1>1, <1>3, <2>1
    <2>2. CASE k # n
        <3>1. k \in 1 .. n - 1 /\ k + 1 \in 1 .. n
            BY <1>1, <2>2
        <3> QED  BY <1>3, <3>1
    <2> QED  BY <2>1, <2>2
<1>5. \A l \in 1 .. n : \E k \in 1 .. n : q[l] = r[k]
    <2> TAKE l \in 1 .. n
    <2>1. CASE l = 1
        <3>1. n \in 1 .. n
            BY <1>1
        <3> QED  BY <1>3, <2>1, <3>1
    <2>2. CASE l # 1
        <3>1. l - 1 \in 1 .. n - 1 /\ l - 1 \in 1 .. n /\ (l - 1) + 1 = l
            BY <1>1, <2>2
        <3>2. r[l - 1] = q[l]
            BY <1>3, <3>1
        <3> QED  BY <3>1, <3>2
    <2> QED  BY <2>1, <2>2
<1>6. ToSet(r) = {r[k] : k \in 1 .. n} /\ ToSet(q) = {q[l] : l \in 1 .. n}
    BY <1>3 DEF ToSet
<1>7. ToSet(r) = ToSet(q)
    BY <1>4, <1>5, <1>6
<1>8. r # <<>>
    BY <1>1, <1>3
<1>9. r = Append(Tail(q), q[1])
    BY DEF r
<1> QED  BY <1>3, <1>7, <1>8, <1>9

\* The sub-leaders stay as they are.
LEMMA FtSubsStay ==
    ASSUME FtSubsFit, UNCHANGED <<ftAccepts, ftSub, ftCommits>>
    PROVE  FtSubsFit'
<1>1. ftAccepts' = ftAccepts /\ ftSub' = ftSub /\ ftCommits' = ftCommits
    OBVIOUS
<1>2. ASSUME NEW k \in FtTrees PROVE FtSubFits(k, ftSub[k])'
    <2>1. FtSubFits(k, ftSub[k])
        BY DEF FtSubsFit
    <2>2. ftSub'[k] = ftSub[k]
        BY <1>1
    <2> QED  BY <1>1, <2>1, <2>2 DEF FtSubFits, FtSent
<1> QED  BY <1>1, <1>2 DEF FtSubsFit

\* The next node of subtree i takes the place of a sub-leader that does not answer.
LEMMA FtRotateStep ==
    ASSUME FtInv, NEW i \in FtTrees, subleaderNotResponding(i)
    PROVE  FtInv'
<1> DEFINE q == Append(Tail(ftTree[i]), ftTree[i][1])
<1>1. /\ ftPhase = "commit" /\ ftSub[i].got = 0
      /\ UNCHANGED <<ftAccepts, ftCommits, ftShared, ftMask, ftResponses>>
      /\ \/ ftPhase' = "failed" /\ UNCHANGED <<ftTree, ftSub>>
         \/ /\ ftTree' = [ftTree EXCEPT ![i] = q] /\ ftSub' = [ftSub EXCEPT ![i] = NewSub]
            /\ ftPhase' = ftPhase
    BY DEF subleaderNotResponding
<1>2. ftAccepts' = ftAccepts /\ ftCommits' = ftCommits
    BY <1>1
<1>3. ftPhase' \in {"commit", "failed"}
    BY <1>1
<1>4. (FtRoot \in ftAccepts)' /\ FtCommitsFit' /\ FtResponsesFit' /\ FtRefusedByMany'
    BY <1>1, <1>3 DEF FtInv, FtCommitsFit, FtResponsesFit, FtRefusedByMany
<1>5. CASE UNCHANGED <<ftTree, ftSub>>
    <2>1. FtTreesFit'
        BY <1>5 DEF FtInv, FtTreesFit, FtMembers
    <2>2. FtSubsFit'
        BY <1>2, <1>5, FtSubsStay DEF FtInv
    <2> QED  BY <1>4, <2>1, <2>2 DEF FtInv
<1>6. CASE ftTree' = [ftTree EXCEPT ![i] = q] /\ ftSub' = [ftSub EXCEPT ![i] = NewSub]
    <2>1. ftTree \in [FtTrees -> Seq(FtNodes)] /\ ftTree[i] \in Seq(FtNodes) /\ ftTree[i] # <<>>
        BY DEF FtInv, FtTreesFit
    <2>2. q \in Seq(FtNodes) /\ q # <<>> /\ ToSet(q) = ToSet(ftTree[i])
        BY <2>1, RotationKeeps
    <2> HIDE DEF q
    <2>3. /\ ftTree' \in [FtTrees -> Seq(FtNodes)] /\ ftTree'[i] = q
          /\ \A k \in FtTrees \ {i} : ftTree'[k] = ftTree[k]
        BY <1>6, <2>1, <2>2
    <2>4. FtTreesFit'
        BY <2>2, <2>3 DEF FtInv, FtTreesFit, FtMembers
    <2>5. NewSub \in FtSubs
        BY EmptySeq DEF NewSub, FtSubs
    <2>6. /\ ftSub' \in [FtTrees -> FtSubs] /\ ftSub'[i] = NewSub
          /\ \A k \in FtTrees \ {i} : ftSub'[k] = ftSub[k]
        BY <1>6, <2>5 DEF FtInv, FtSubsFit
    <2>7. ftCommits[i] = FtNone
        BY <1>1 DEF FtInv, FtSubsFit
    <2>8. ASSUME NEW k \in FtTrees
          PROVE  /\ FtSubFits(k, ftSub[k])'
                 /\ ftCommits'[k] = IF ftSub'[k].got = 0 THEN FtNone ELSE ftSub'[k].out[ftSub'[k].got]
        <3>1. CASE k = i
            <4>1. ftSub'[k] = NewSub
                BY <2>6, <3>1
            <4>2. FtSubFits(k, ftSub[k])'
                BY <4>1 DEF FtSubFits, NewSub
            <4> QED  BY <1>2, <2>7, <3>1, <4>1, <4>2 DEF NewSub
        <3>2. CASE k # i
            <4>1. ftSub'[k] = ftSub[k] /\ ftCommits'[k] = ftCommits[k]
                BY <1>2, <2>6, <3>2
            <4>2. /\ FtSubFits(k, ftSub[k])
                  /\ ftCommits[k] = IF ftSub[k].got = 0 THEN FtNone ELSE ftSub[k].out[ftSub[k].got]
                BY DEF FtInv, FtSubsFit
            <4>3. FtSubFits(k, ftSub[k])'
                BY <1>2, <4>1, <4>2 DEF FtSubFits, FtSent
            <4> QED  BY <4>1, <4>2, <4>3
        <3> QED  BY <3>1, <3>2
    <2>9. FtSubsFit'
        BY <1>2, <2>6, <2>8 DEF FtInv, FtSubsFit
    <2> QED  BY <1>4, <2>4, <2>9 DEF FtInv
<1> QED  BY <1>1, <1>5, <1>6

\* The nodes of subtree i that are in the mask respond.
LEMMA FtRespondStep ==
    ASSUME FtInv, NEW i \in FtTrees, FtRespond(i)
    PROVE  FtInv'
<1> DEFINE new == ftMask \intersect FtSubtree(i)
<1>1. \A k \in FtTrees : FtMembers(k) = FtSubtree(k)
    BY DEF FtInv, FtTreesFit
<1>2. /\ ftPhase = "challenge" /\ i \in runningSubProtocols
      /\ ftResponses' = ftResponses \union new
      /\ ftPhase' \in {"challenge", "signed"}
      /\ UNCHANGED <<ftTree, ftAccepts, ftSub, ftCommits, ftShared, ftMask>>
      /\ ftPhase' = "signed" =>
             \A k \in runningSubProtocols \ {i} : ftResponses \intersect FtMembers(k) # {}
    BY <1>1 DEF FtRespond
<1>3. /\ ftMask = {FtRoot} \union ftShared /\ FtRoot \in ftResponses /\ ftResponses \subseteq ftMask
      /\ \A k \in runningSubProtocols :
             ftResponses \intersect FtSubtree(k) # {} => ftMask \intersect FtSubtree(k) \subseteq ftResponses
    BY <1>2 DEF FtInv, FtResponsesFit
<1>4. ASSUME NEW k \in runningSubProtocols,
             ftPhase' = "signed" \/ ftResponses' \intersect FtSubtree(k) # {}
      PROVE  ftMask \intersect FtSubtree(k) \subseteq ftResponses'
    <2>1. CASE k = i
        BY <1>2, <2>1
    <2>2. CASE k # i
        <3>1. k \in FtTrees
            BY DEF runningSubProtocols
        <3>2. FtSubtree(i) \intersect FtSubtree(k) = {}
            BY <2>2, <3>1, FtSubtrees
        <3>3. ftResponses' \intersect FtSubtree(k) = ftResponses \intersect FtSubtree(k)
            BY <1>2, <3>2
        <3>4. ftResponses \intersect FtSubtree(k) # {}
            BY <1>1, <1>2, <1>4, <2>2, <3>1, <3>3
        <3> QED  BY <1>2, <1>3, <3>4
    <2> QED  BY <2>1, <2>2
<1>5. runningSubProtocols' = runningSubProtocols
    BY <1>2 DEF runningSubProtocols
<1>6. FtResponsesFit'
    BY <1>2, <1>3, <1>4, <1>5 DEF FtResponsesFit
<1>7. FtTreesFit' /\ (FtRoot \in ftAccepts)'
    BY <1>2 DEF FtInv, FtTreesFit, FtMembers
<1>8. FtSubsFit'
    BY <1>2, FtSubsStay DEF FtInv
<1>9. FtCommitsFit' /\ FtRefusedByMany'
    BY <1>2 DEF FtInv, FtCommitsFit, FtRefusedByMany
<1> QED  BY <1>6, <1>7, <1>8, <1>9 DEF FtInv

\* Steps that leave the sub-leaders and what the root has of them alone.
LEMMA FtRootStep ==
    ASSUME FtInv, UNCHANGED <<ftTree, ftAccepts, ftSub, ftCommits, ftShared>>,
           FtResponsesFit', ftPhase' \in {ftPhase, "failed"} \/ (ftPhase = "reached" /\ ftPhase' = "challenge")
    PROVE  FtInv'
<1>1. FtTreesFit' /\ (FtRoot \in ftAccepts)'
    BY DEF FtInv, FtTreesFit, FtMembers
<1>2. FtSubsFit'
    BY FtSubsStay DEF FtInv
<1>3. FtCommitsFit' /\ FtRefusedByMany'
    BY DEF FtInv, FtCommitsFit, FtRefusedByMany
<1> QED  BY <1>1, <1>2, <1>3 DEF FtInv

\* The invariant holds initially.
LEMMA FtStart ==
    ASSUME FtInit
    PROVE  FtInv
<1>1. /\ ftTree = ftGenTrees /\ FtRoot \in ftAccepts
      /\ ftSub = [i \in FtTrees |-> NewSub] /\ ftCommits = [i \in FtTrees |-> FtNone]
      /\ ftShared = {} /\ ftPhase = "commit"
    BY DEF FtInit
<1>2. NewSub \in FtSubs
    BY EmptySeq DEF NewSub, FtSubs
<1>3. FtTreesFit
    BY <1>1, FtSubtrees DEF FtTreesFit, FtMembers, FtSubtree
<1>4. FtSubsFit
    <2>1. \A i \in FtTrees : FtSubFits(i, NewSub)
        BY DEF FtSubFits, NewSub
    <2>2. NewSub.got = 0
        BY DEF NewSub
    <2> QED  BY <1>1, <1>2, <2>1, <2>2 DEF FtSubsFit
<1>5. FtCommitsFit /\ FtResponsesFit /\ FtRefusedByMany
    BY <1>1 DEF FtCommitsFit, FtResponsesFit, FtRefusedByMany, FtNone
<1> QED  BY <1>1, <1>3, <1>4, <1>5 DEF FtInv

\* The same for every step.
LEMMA FtStep ==
    ASSUME FtInv, FtNext \/ UNCHANGED ftVars
    PROVE  FtInv'
<1>1. CASE \E i \in FtTrees : \E n \in FtNodes : FtCommit(i, n)
    BY <1>1, FtCommitStep
<1>2. CASE \E i \in FtTrees : FtSubTimeout(i)
    BY <1>2, FtSubTimeoutStep
<1>3. CASE \E i \in FtTrees : collectCommitment(i)
    BY <1>3, FtCollectStep
<1>4. CASE \E i \in FtTrees : subleaderNotResponding(i)
    BY <1>4, FtRotateStep
<1>5. CASE \E i \in FtTrees : FtRespond(i)
    BY <1>5, FtRespondStep
<1>6. CASE FtRootTimeout \/ FtResponseTimeout
    <2>1. /\ ftPhase' = "failed"
          /\ UNCHANGED <<ftTree, ftAccepts, ftSub, ftCommits, ftShared>>
        BY <1>6 DEF FtRootTimeout, FtResponseTimeout
    <2>2. FtResponsesFit'
        BY <2>1 DEF FtResponsesFit
    <2> QED  BY <2>1, <2>2, FtRootStep
<1>7. CASE FtChallenge
    <2>1. /\ ftPhase = "reached" /\ ftPhase' = "challenge"
          /\ UNCHANGED <<ftTree, ftAccepts, ftSub, ftCommits, ftShared>>
          /\ ftMask' = {FtRoot} \union UNION {ftCommits[i].mask : i \in FtTrees}
          /\ ftResponses' = {FtRoot}
        BY <1>7 DEF FtChallenge
    <2>2. ftMask' = {FtRoot} \union ftShared'
        BY <2>1 DEF FtInv, FtCommitsFit
    <2>3. \A i \in FtTrees : ftResponses' \intersect FtSubtree(i) = {}
        BY <2>1, FtSubtrees
    <2>4. runningSubProtocols' \subseteq FtTrees
        BY DEF runningSubProtocols
    <2>5. FtResponsesFit'
        BY <2>1, <2>2, <2>3, <2>4 DEF FtResponsesFit
    <2> QED  BY <2>1, <2>5, FtRootStep
<1>8. CASE UNCHANGED ftVars \/ \E n \in FtNodes : FtCrash(n)
    <2>1. UNCHANGED <<ftTree, ftAccepts, ftSub, ftCommits, ftShared, ftPhase, ftMask, ftResponses>>
        BY <1>8 DEF ftVars, FtCrash
    <2>2. FtResponsesFit'
        BY <2>1 DEF FtInv, FtResponsesFit, runningSubProtocols
    <2> QED  BY <2>1, <2>2, FtRootStep
<1> QED  BY <1>1, <1>2, <1>3, <1>4, <1>5, <1>6, <1>7, <1>8 DEF FtNext

\* Of the invariant follows what is said of signatures.
LEMMA FtSigned ==
    ASSUME FtInv
    PROVE  FtSignatureComplete /\ FtRefusedByMany
<1>1. SUFFICES ASSUME ftPhase = "signed"
               PROVE  /\ ftResponses = ftMask /\ ftMask \subseteq ftAccepts
                      /\ Cardinality(ftMask) >= FtThreshold
    BY DEF FtSignatureComplete, FtInv
<1>2. /\ ftMask = {FtRoot} \union ftShared /\ FtRoot \in ftResponses /\ ftResponses \subseteq ftMask
      /\ \A i \in runningSubProtocols : ftMask \intersect FtSubtree(i) \subseteq ftResponses
      /\ ftShared = UNION {ftCommits[i].mask : i \in FtTrees}
      /\ Cardinality(ftShared) >= FtThreshold - 1 /\ FtRoot \in ftAccepts
    BY <1>1 DEF FtInv, FtResponsesFit, FtCommitsFit
<1>3. ASSUME NEW i \in FtTrees PROVE ftCommits[i].mask \subseteq FtSubtree(i) \intersect ftAccepts
    <2>1. CASE ftSub[i].got = 0
        <3>1. ftCommits[i] = FtNone
            BY <2>1 DEF FtInv, FtSubsFit
        <3> QED  BY <3>1 DEF FtNone
    <2>2. CASE ftSub[i].got # 0
        <3>1. ftCommits[i] = ftSub[i].out[ftSub[i].got]
            BY <2>2 DEF FtInv, FtSubsFit
        <3>2. /\ ftSub[i].out \in Seq(FtCommitment) /\ ftSub[i].got \in Nat
              /\ FtSubFits(i, ftSub[i])
            BY FtOfTree
        <3>3. ftSub[i].got \in 1 .. Len(ftSub[i].out)
            BY <2>2, <3>2 DEF FtSubFits
        <3>4. FtSent(i, ftSub[i].out[ftSub[i].got])
            BY <3>2, <3>3 DEF FtSubFits
        <3> QED  BY <3>1, <3>4 DEF FtSent
    <2> QED  BY <2>1, <2>2
<1>4. ASSUME NEW x \in ftShared PROVE x \in ftResponses /\ x \in ftAccepts /\ x \in FtNodes \ {FtRoot}
    <2>1. PICK i \in FtTrees : x \in ftCommits[i].mask
        BY <1>2
    <2>2. i \in runningSubProtocols
        BY <2>1 DEF runningSubProtocols
    <2>3. x \in FtSubtree(i) /\ x \in ftAccepts /\ x \in ftMask
        BY <1>2, <1>3, <2>1
    <2> QED  BY <1>2, <2>2, <2>3, FtSubtrees
<1>5. ftShared \subseteq FtNodes /\ FtRoot \notin ftShared
    BY <1>4
<1>6. IsFiniteSet(ftShared) /\ Cardinality(ftShared) \in Nat
    BY <1>5, FtSubtrees, FS_Subset, FS_CardinalityType
<1>7. Cardinality(ftMask) = Cardinality(ftShared) + 1
    <2>1. ftMask = ftShared \union {FtRoot}
        BY <1>2
    <2> QED  BY <1>5, <1>6, <2>1, FS_AddElement
<1>8. Cardinality(ftMask) >= FtThreshold
    <2>1. FtThreshold \in Nat
        BY FtSubtrees
    <2> QED  BY <1>2, <1>6, <1>7, <2>1
<1> QED  BY <1>2, <1>4, <1>8

-----------------------------------------------------------------------------
(* CoSi on a binary tree. What a node sends up has every node below it once. *)

Inherits(A) == \A x \in CosiNodes : CosiParent(x) \in A => x \in A
\* The node n, its children, their children and so on.
Below(n) == {k \in CosiNodes : \A A \in SUBSET CosiNodes : n \in A /\ Inherits(A) => k \in A}
\* A sum that has every node below n once.
Once(n) == [k \in CosiNodes |-> IF k \in Below(n) THEN 1 ELSE 0]

\* Parents come before their children.
LEMMA Parents ==
    /\ CosiN \in Nat /\ CosiN >= 1 /\ 1 \in CosiNodes /\ IsFiniteSet(CosiNodes)
    /\ \A x \in CosiNodes : CosiParent(x) \in Nat /\ CosiParent(x) < x
    /\ \A x \in CosiNodes : x # 1 => CosiParent(x) \in CosiNodes
<1>1. CosiN \in Nat /\ CosiN >= 1
    BY CosiAssumption
<1>2. IsFiniteSet(CosiNodes)
    BY <1>1, FS_Interval DEF CosiNodes
<1> QED  BY <1>1, <1>2 DEF CosiNodes, CosiParent

\* The nodes below n, from above: n itself, and children of nodes below n.
LEMMA BelowOf ==
    ASSUME NEW n \in CosiNodes
    PROVE  /\ n \in Below(n) /\ Inherits(Below(n)) /\ Below(n) \subseteq CosiNodes
           /\ \A A \in SUBSET CosiNodes : n \in A /\ Inherits(A) => Below(n) \subseteq A
           /\ \A x \in Below(n) : x = n \/ CosiParent(x) \in Below(n)
           /\ \A x \in Below(n) : x >= n
<1>1. n \in Below(n) /\ Below(n) \subseteq CosiNodes
    BY DEF Below
<1>2. Inherits(Below(n))
    BY DEF Below, Inherits
<1>3. ASSUME NEW A \in SUBSET CosiNodes, n \in A, Inherits(A) PROVE Below(n) \subseteq A
    BY <1>3 DEF Below
<1>4. \A x \in Below(n) : x = n \/ CosiParent(x) \in Below(n)
    <2> DEFINE A == {x \in Below(n) : x = n \/ CosiParent(x) \in Below(n)}
    <2>1. A \in SUBSET CosiNodes /\ n \in A
        BY <1>1
    <2>2. Inherits(A)
        BY <1>2 DEF Inherits
    <2>3. Below(n) \subseteq A
        <3> HIDE DEF A
        <3> QED  BY <1>3, <2>1, <2>2
    <2> QED  BY <2>3
<1>5. \A x \in Below(n) : x >= n
    <2> DEFINE A == {x \in CosiNodes : x >= n}
    <2>1. A \in SUBSET CosiNodes /\ n \in A
        BY DEF CosiNodes
    <2>2. Inherits(A)
        <3> SUFFICES ASSUME NEW x \in CosiNodes, CosiParent(x) \in A PROVE x >= n
            BY DEF Inherits
        <3>1. CosiParent(x) \in Nat /\ CosiParent(x) < x /\ CosiParent(x) >= n
            BY Parents
        <3>2. x \in Nat /\ n \in Nat
            BY Parents DEF CosiNodes
        <3> QED  BY <3>1, <3>2
    <2>3. Below(n) \subseteq A
        <3> HIDE DEF A
        <3> QED  BY <1>3, <2>1, <2>2
    <2> QED  BY <2>3
<1> QED  BY <1>1, <1>2, <1>3, <1>4, <1>5

\* Everybody is below the root.
LEMMA BelowRoot == Below(1) = CosiNodes
<1> DEFINE B == Below(1)
           S == {k \in Nat : \A x \in CosiNodes : x <= k => x \in B}
<1>1. 1 \in B /\ Inherits(B) /\ B \subseteq CosiNodes
    BY Parents, BelowOf
<1> HIDE DEF B
<1>2. 0 \in S
    BY DEF CosiNodes
<1>3. ASSUME NEW k \in Nat, k \in S PROVE k + 1 \in S
    <2> SUFFICES ASSUME NEW x \in CosiNodes, x <= k + 1 PROVE x \in B
        OBVIOUS
    <2>1. CASE x = 1
        BY <1>1, <2>1
    <2>2. CASE x # 1
        <3>1. CosiParent(x) \in CosiNodes /\ CosiParent(x) \in Nat /\ CosiParent(x) < x
            BY <2>2, Parents
        <3>2. x \in Nat
            BY DEF CosiNodes
        <3>3. CosiParent(x) <= k
            BY <3>1, <3>2
        <3>4. CosiParent(x) \in B
            BY <1>3, <3>1, <3>3
        <3> QED  BY <1>1, <3>4 DEF Inherits
    <2> QED  BY <2>1, <2>2
<1>4. CosiN \in Nat /\ CosiN \in S
    <2>1. CosiN \in Nat
        BY Parents
    <2> HIDE DEF S
    <2> QED  BY <1>2, <1>3, <2>1, NatSteps
<1>5. \A x \in CosiNodes : x \in B
    BY <1>4 DEF CosiNodes
<1> QED  BY <1>1, <1>5 DEF B

\* The nodes below n: n, and the ones below its children, which are all different.
LEMMA BelowParts ==
    ASSUME NEW n \in CosiNodes
    PROVE  /\ \A k \in CosiNodes :
                  k \in Below(n) <=> k = n \/ \E c \in CosiChildren(n) : k \in Below(c)
           /\ \A c \in CosiChildren(n) : n \notin Below(c)
           /\ \A c, d \in CosiChildren(n) : c # d => Below(c) \intersect Below(d) = {}
<1>0. \A c \in CosiChildren(n) : c \in CosiNodes /\ CosiParent(c) = n
    BY DEF CosiChildren
<1>1. ASSUME NEW c \in CosiChildren(n) PROVE n \notin Below(c) /\ Below(c) \subseteq Below(n)
    <2>1. c \in CosiNodes /\ CosiParent(c) = n
        BY <1>0
    <2>2. n < c /\ c \in Nat /\ n \in Nat
        BY <2>1, Parents DEF CosiNodes
    <2>3. n \notin Below(c)
        BY <2>1, <2>2, BelowOf
    <2>4. c \in Below(n) /\ Inherits(Below(n)) /\ Below(n) \in SUBSET CosiNodes
        BY <2>1, BelowOf DEF Inherits
    <2> QED  BY <2>1, <2>3, <2>4, BelowOf
<1>2. ASSUME NEW k \in Below(n) PROVE k = n \/ \E c \in CosiChildren(n) : k \in Below(c)
    <2> DEFINE A == {x \in CosiNodes : x = n \/ \E c \in CosiChildren(n) : x \in Below(c)}
    <2>1. A \in SUBSET CosiNodes /\ n \in A
        OBVIOUS
    <2>2. ASSUME NEW x \in CosiNodes, CosiParent(x) \in A PROVE x \in A
        <3>1. CASE CosiParent(x) = n
            <4>1. x \in CosiChildren(n) /\ x \in Below(x)
                BY <3>1, BelowOf DEF CosiChildren
            <4> QED  BY <4>1
        <3>2. CASE \E c \in CosiChildren(n) : CosiParent(x) \in Below(c)
            <4>1. PICK c \in CosiChildren(n) : CosiParent(x) \in Below(c)
                BY <3>2
            <4>2. x \in Below(c)
                BY <1>0, <4>1, BelowOf DEF Inherits
            <4> QED  BY <4>2
        <3> QED  BY <2>2, <3>1, <3>2
    <2>3. Inherits(A)
        <3> HIDE DEF A
        <3> QED  BY <2>2 DEF Inherits
    <2>4. k \in A
        <3> HIDE DEF A
        <3> QED  BY <2>1, <2>3, BelowOf
    <2> QED  BY <2>4
<1>3. ASSUME NEW c \in CosiChildren(n), NEW d \in CosiChildren(n), c # d
      PROVE  Below(c) \intersect Below(d) = {}
    <2> DEFINE A == {x \in Below(c) : x \notin Below(d)}
    <2>1. c \in CosiNodes /\ d \in CosiNodes /\ CosiParent(c) = n /\ CosiParent(d) = n
        BY <1>0
    <2>2. n \notin Below(c) /\ n \notin Below(d)
        BY <1>1
    <2>3. c \in A /\ A \in SUBSET CosiNodes
        <3>1. c \notin Below(d)
            BY <1>3, <2>1, <2>2, BelowOf
        <3> QED  BY <2>1, <3>1, BelowOf
    <2>4. ASSUME NEW x \in CosiNodes, CosiParent(x) \in A PROVE x \in A
        <3>1. CosiParent(x) \in Below(c) /\ CosiParent(x) \notin Below(d)
            BY <2>4
        <3>2. x \in Below(c)
            BY <2>1, <3>1, BelowOf DEF Inherits
        <3>3. x \notin Below(d)
            BY <2>1, <2>2, <3>1, BelowOf
        <3> QED  BY <3>2, <3>3
    <2>5. Inherits(A)
        <3> HIDE DEF A
        <3> QED  BY <2>4 DEF Inherits
    <2>6. Below(c) \subseteq A
        <3> HIDE DEF A
        <3> QED  BY <2>1, <2>3, <2>5, BelowOf
    <2> QED  BY <2>6
<1>4. n \in Below(n) /\ Below(n) \subseteq CosiNodes
    BY BelowOf
<1> QED  BY <1>1, <1>2, <1>3, <1>4

\* A node that adds itself to the sums of its children has every node below it once.
LEMMA AggregateOnce ==
    ASSUME NEW n \in CosiNodes, NEW from, \A c \in CosiChildren(n) : from[c] = Once(c)
    PROVE  Aggregate(CosiNodes, n, Terms(n, from)) = Once(n)
<1> DEFINE D == Terms(n, from)
<1>1. IsFiniteSet(D) /\ \A t \in D : \E c \in CosiChildren(n) : t = [child |-> c, sum |-> Once(c)]
    <2>1. IsFiniteSet(CosiChildren(n))
        BY Parents, FS_Subset DEF CosiChildren
    <2>2. IsFiniteSet(D)
        <3> DEFINE f == [c \in CosiChildren(n) |-> [child |-> c, sum |-> from[c]]]
        <3>1. f \in Surjection(CosiChildren(n), D)
            BY DEF Terms, Surjection
        <3> HIDE DEF f, D
        <3> QED  BY <2>1, <3>1, FS_Surjection
    <2> QED  BY <2>2 DEF Terms
<1>2. ASSUME NEW c \in CosiChildren(n) PROVE [child |-> c, sum |-> Once(c)] \in D
    BY DEF Terms
<1> HIDE DEF D
<1>3. ASSUME NEW k \in CosiNodes
      PROVE  Own(CosiNodes, n)[k] + MapThenSumSet(LAMBDA t : t.sum[k], D) = Once(n)[k]
    <2> DEFINE w == [t \in D |-> t.sum[k]]
               A == [t \in D |-> {x \in {k} : x \in Below(t.child)}]
               h == CHOOSE g : g = [s \in SUBSET D |->
                        IF s = {} THEN 0 ELSE Pick(s).sum[k] + g[s \ {Pick(s)}]]
    <2>1. MapThenSumSet(LAMBDA t : t.sum[k], D) = h[D]
        BY Zenon DEF MapThenSumSet, MapThenFoldSet, Pick
    <2>2. ASSUME NEW t \in D
          PROVE  /\ t.child \in CosiChildren(n)
                 /\ t = [child |-> t.child, sum |-> Once(t.child)]
                 /\ w[t] = IF k \in Below(t.child) THEN 1 ELSE 0
        <3>1. PICK c \in CosiChildren(n) : t = [child |-> c, sum |-> Once(c)]
            BY <1>1
        <3>2. t.child = c /\ t.sum = Once(c)
            BY <3>1
        <3> QED  BY <3>1, <3>2 DEF Once
    <2>3. w \in [D -> Int]
        <3>1. \A t \in D : t.sum[k] \in Int
            BY <2>2
        <3> QED  BY <3>1
    <2>4. ASSUME NEW s \in SUBSET D, s # {} PROVE Pick(s) \in D
        BY <2>4 DEF Pick
    <2>5. IsSum(h, D, w)
        <3> DEFINE P(g) == g = [s \in SUBSET D |->
                        IF s = {} THEN 0 ELSE Pick(s).sum[k] + g[s \ {Pick(s)}]]
        <3>1. ASSUME NEW g PROVE IsSum(g, D, w) <=> P(g)
            <4>1. \A s \in SUBSET D : s # {} => w[Pick(s)] = Pick(s).sum[k]
                BY <2>4
            <4> HIDE DEF w
            <4> QED  BY <4>1 DEF IsSum
        <3>2. \E g : IsSum(g, D, w)
            <4> HIDE DEF w
            <4> QED  BY <1>1, <2>3, SumExists
        <3>3. \E g : P(g)
            BY <3>1, <3>2
        <3>4. P(h)
            <4>1. h = CHOOSE g : P(g)
                OBVIOUS
            <4> HIDE DEF P, h
            <4> QED  BY <3>3, <4>1
        <3> HIDE DEF h, w, P
        <3> QED  BY <3>1, <3>4
    <2> HIDE DEF h, w
    <2>6. ASSUME NEW t \in D PROVE IsFiniteSet(A[t]) /\ w[t] = Cardinality(A[t])
        <3>1. CASE k \in Below(t.child)
            <4>1. A[t] = {k}
                BY <3>1
            <4> HIDE DEF A
            <4> QED  BY <2>2, <3>1, <4>1, FS_Singleton
        <3>2. CASE k \notin Below(t.child)
            <4>1. A[t] = {}
                BY <3>2
            <4> HIDE DEF A
            <4> QED  BY <2>2, <3>2, <4>1, FS_EmptySet
        <3> QED  BY <3>1, <3>2
    <2>7. ASSUME NEW t \in D, NEW u \in D, t # u PROVE A[t] \intersect A[u] = {}
        <3>1. t.child # u.child
            BY <2>2, <2>7
        <3>2. Below(t.child) \intersect Below(u.child) = {}
            BY <2>2, <3>1, BelowParts
        <3> QED  BY <3>2
    <2>8. Joined(A, D) = IF \E c \in CosiChildren(n) : k \in Below(c) THEN {k} ELSE {}
        <3>1. \A x \in Joined(A, D) : x = k /\ \E c \in CosiChildren(n) : k \in Below(c)
            BY <2>2 DEF Joined
        <3>2. ASSUME NEW c \in CosiChildren(n), k \in Below(c) PROVE k \in Joined(A, D)
            <4> DEFINE t == [child |-> c, sum |-> Once(c)]
            <4>1. t \in D /\ t.child = c
                BY <1>2
            <4> HIDE DEF t
            <4>2. k \in A[t]
                BY <3>2, <4>1
            <4> HIDE DEF A
            <4> QED  BY <4>1, <4>2 DEF Joined
        <3> HIDE DEF A
        <3> QED  BY <3>1, <3>2
    <2> HIDE DEF A
    <2>9. h[D] = Cardinality(Joined(A, D))
        BY <1>1, <2>5, <2>6, <2>7, SumOfSizes
    <2>10. h[D] = IF \E c \in CosiChildren(n) : k \in Below(c) THEN 1 ELSE 0
        BY <2>8, <2>9, FS_Singleton, FS_EmptySet
    <2>11. Own(CosiNodes, n)[k] = IF k = n THEN 1 ELSE 0
        BY DEF Own
    <2>12. Once(n)[k] = IF k = n \/ \E c \in CosiChildren(n) : k \in Below(c) THEN 1 ELSE 0
        BY BelowParts DEF Once
    <2>13. k = n => ~ \E c \in CosiChildren(n) : k \in Below(c)
        BY BelowParts
    <2> QED  BY <2>1, <2>10, <2>11, <2>12, <2>13
<1>4. Aggregate(CosiNodes, n, D) =
          [k \in CosiNodes |-> Own(CosiNodes, n)[k] + MapThenSumSet(LAMBDA t : t.sum[k], D)]
    BY Zenon DEF Aggregate
<1>5. Aggregate(CosiNodes, n, D) = [k \in CosiNodes |-> Once(n)[k]]
    BY <1>3, <1>4, Zenon
<1>6. Once(n) = [k \in CosiNodes |-> Once(n)[k]]
    BY DEF Once
<1> QED  BY <1>5, <1>6 DEF D

\* A node that has sent its commitment or response has sent a complete one.
CosiSent == {"committed", "challenged", "done"}
CosiInv ==
    /\ DOMAIN cosiState = CosiNodes /\ DOMAIN cosiCommit = CosiNodes /\ DOMAIN cosiResponse = CosiNodes
    /\ \A n \in CosiNodes : cosiState[n] \in CosiSent => cosiCommit[n] = Once(n)
    /\ \A n \in CosiNodes : cosiState[n] = "done" => cosiResponse[n] = Once(n)
    /\ cosiSig # CosiNone => cosiSig = [commit |-> Once(1), response |-> Once(1), mask |-> {}]

\* At first nothing has been sent.
LEMMA CosiStart ==
    ASSUME CosiInit
    PROVE  CosiInv
BY DEF CosiInit, CosiInv, CosiSent

\* Every step keeps the sums complete.
LEMMA CosiStep ==
    ASSUME CosiInv, CosiNext \/ UNCHANGED cosiVars
    PROVE  CosiInv'
<1>1. ASSUME NEW n \in CosiNodes, handleAnnouncement(n) PROVE CosiInv'
    BY <1>1 DEF handleAnnouncement, CosiInv, CosiSent
<1>2. ASSUME NEW n \in CosiNodes, handleCommitment(n) PROVE CosiInv'
    <2>1. \A c \in CosiChildren(n) : cosiCommit[c] = Once(c)
        BY <1>2 DEF handleCommitment, CosiInv, CosiSent, CosiChildren
    <2>2. Aggregate(CosiNodes, n, Terms(n, cosiCommit)) = Once(n)
        BY <2>1, AggregateOnce
    <2>3. /\ cosiCommit' = [cosiCommit EXCEPT ![n] = Once(n)] /\ cosiState[n] = "announced"
          /\ cosiState' = [cosiState EXCEPT ![n] = IF n = 1 THEN "challenged" ELSE "committed"]
          /\ cosiResponse' = cosiResponse /\ cosiSig' = cosiSig
        BY <1>2, <2>2 DEF handleCommitment
    <2> QED  BY <2>3 DEF CosiInv, CosiSent
<1>3. ASSUME NEW n \in CosiNodes, handleChallenge(n) PROVE CosiInv'
    BY <1>3 DEF handleChallenge, CosiInv, CosiSent
<1>4. ASSUME NEW n \in CosiNodes, handleResponse(n) PROVE CosiInv'
    <2>1. \A c \in CosiChildren(n) : cosiResponse[c] = Once(c)
        BY <1>4 DEF handleResponse, CosiInv, CosiChildren
    <2>2. genResponse(n) = Once(n)
        BY <2>1, AggregateOnce DEF genResponse
    <2>3. cosiCommit[n] = Once(n)
        BY <1>4 DEF handleResponse, CosiInv, CosiSent
    <2>4. /\ cosiResponse' = [cosiResponse EXCEPT ![n] = Once(n)]
          /\ cosiState' = [cosiState EXCEPT ![n] = "done"]
          /\ cosiCommit' = cosiCommit /\ cosiState[n] = "challenged"
        BY <1>4, <2>2 DEF handleResponse
    <2>5. cosiSig' = cosiSig \/ cosiSig' = [commit |-> Once(1), response |-> Once(1), mask |-> {}]
        BY <1>4, <2>2, <2>3 DEF handleResponse, CosiSignature
    <2> QED  BY <2>4, <2>5 DEF CosiInv, CosiSent
<1>5. CASE UNCHANGED cosiVars
    BY <1>5 DEF cosiVars, CosiInv
<1> QED  BY <1>1, <1>2, <1>3, <1>4, <1>5 DEF CosiNext

\* The sum at the root is the one of all public keys.
LEMMA CosiSigned ==
    ASSUME CosiInv
    PROVE  CosiSignatureVerifies
<1>1. Once(1) = AggPublic(CosiNodes, {})
    BY BelowRoot DEF Once, AggPublic
<1> QED  BY <1>1 DEF CosiInv, CosiSignatureVerifies, VerifySignature

-----------------------------------------------------------------------------
(* Byzantine fault tolerant CoSi. The root signs only when the prepare round   *)
(* had few exceptions, of the nodes it had then heard of.                      *)

BftInv ==
    /\ prepareResponse \subseteq BftLeaves
    /\ bftPhase # "done" => bftSig = NoSig
    /\ bftPhase \in {"commitResponse", "done"} =>
           exceptions = waitResponseVerification(prepareResponse \union {0})
    /\ bftPhase = "commitResponse" /\ 0 \notin signRefusal => fewExceptions(exceptions)
    /\ bftSig # NoSig => fewExceptions(exceptions)

\* At first nothing is signed.
LEMMA BftStart ==
    ASSUME BftInit
    PROVE  BftInv
BY DEF BftInit, BftInv

\* Every step keeps what is known of the prepare round.
LEMMA BftStep ==
    ASSUME BftInv, BftNext \/ UNCHANGED bftVars
    PROVE  BftInv'
<1> USE DEF waitResponseVerification, fewExceptions
<1>0. 0 \in BftNodes
    BY BftAssumption DEF BftNodes
<1>1. ASSUME NEW n \in BftLeaves, BftCrash(n) PROVE BftInv'
    BY <1>1 DEF BftCrash, BftInv
<1>2. ASSUME NEW n \in BftLeaves, readPrepareCommit(n) \/ readCommitCommit(n) \/ readCommitResponse(n)
      PROVE  BftInv'
    BY <1>2 DEF readPrepareCommit, readCommitCommit, readCommitResponse, BftInv
<1>3. ASSUME NEW n \in BftLeaves, readPrepareResponse(n) PROVE BftInv'
    BY <1>3 DEF readPrepareResponse, BftInv
<1>4. CASE handleCommitmentPrepare \/ handleCommitmentCommit
    BY <1>4 DEF handleCommitmentPrepare, handleCommitmentCommit, BftInv
<1>5. CASE handleResponsePrepare
    BY <1>0, <1>5 DEF handleResponsePrepare, BftInv
<1>6. CASE handleResponseCommit
    BY <1>6 DEF handleResponseCommit, BftInv
<1>7. CASE UNCHANGED bftVars
    BY <1>7 DEF bftVars, BftInv
<1> QED  BY <1>1, <1>2, <1>3, <1>4, <1>5, <1>6, <1>7 DEF BftNext

\* Whoever is no exception has answered and accepts.
LEMMA BftPrepared ==
    ASSUME BftInv
    PROVE  BftSignedWasPrepared
<1> DEFINE H == prepareResponse \union {0}
           R == H \ bftAccepts
           M == BftNodes \ H
           G == bftAccepts \intersect H
<1>1. SUFFICES ASSUME bftSig # NoSig PROVE Cardinality(G) >= BftN - allowedExceptions
    BY DEF BftSignedWasPrepared
<1>2. /\ exceptions = waitResponseVerification(H) /\ fewExceptions(exceptions)
      /\ prepareResponse \subseteq BftLeaves
    BY <1>1 DEF BftInv
<1>3. exceptions.refused = R /\ exceptions.missing = M
    BY <1>2 DEF waitResponseVerification
<1>4. Cardinality(R) + Cardinality(M) <= allowedExceptions
    BY <1>2, <1>3 DEF fewExceptions
<1>5. BftN \in Nat /\ BftN >= 1
    BY BftAssumption
<1>6. IsFiniteSet(BftNodes) /\ Cardinality(BftNodes) = BftN
    <2>1. 0 \in Int /\ BftN - 1 \in Int /\ ~(0 > BftN - 1)
        BY <1>5
    <2>2. IsFiniteSet(BftNodes) /\ Cardinality(BftNodes) = (BftN - 1) - 0 + 1
        BY <2>1, FS_Interval DEF BftNodes
    <2> QED  BY <1>5, <2>2
<1>7. H \subseteq BftNodes
    BY <1>2, <1>5 DEF BftLeaves, BftNodes
<1>8. BftNodes = (G \union R) \union M /\ G \intersect R = {} /\ (G \union R) \intersect M = {}
    BY <1>7
<1>9. G \subseteq BftNodes /\ R \subseteq BftNodes /\ M \subseteq BftNodes /\ G \union R \subseteq BftNodes
    BY <1>7
<1> HIDE DEF G, R, M, H
<1>10. IsFiniteSet(G) /\ IsFiniteSet(R) /\ IsFiniteSet(M) /\ IsFiniteSet(G \union R)
    BY <1>6, <1>9, FS_Subset
<1>11. Cardinality(G) \in Nat /\ Cardinality(R) \in Nat /\ Cardinality(M) \in Nat
    BY <1>10, FS_CardinalityType
<1>12. Cardinality(G \union R) = Cardinality(G) + Cardinality(R)
    <2>1. Cardinality(G \intersect R) = 0
        BY <1>8, FS_EmptySet
    <2>2. Cardinality(G \union R) = Cardinality(G) + Cardinality(R) - Cardinality(G \intersect R)
        BY <1>10, FS_Union
    <2> QED  BY <1>11, <2>1, <2>2
<1>13. BftN = Cardinality(G) + Cardinality(R) + Cardinality(M)
    <2>1. Cardinality((G \union R) \intersect M) = 0
        BY <1>8, FS_EmptySet
    <2>2. Cardinality((G \union R) \union M) =
              Cardinality(G \union R) + Cardinality(M) - Cardinality((G \union R) \intersect M)
        BY <1>10, FS_Union
    <2>3. BftN = Cardinality((G \union R) \union M)
        BY <1>6, <1>8
    <2> QED  BY <1>11, <1>12, <2>1, <2>2, <2>3
<1>14. allowedExceptions \in Int
    BY <1>5 DEF allowedExceptions
<1> QED  BY <1>4, <1>5, <1>11, <1>13, <1>14

-----------------------------------------------------------------------------
\* Only one protocol of the older ones runs.
LEMMA OlderSteps ==
    ASSUME [SigningNext]_SigningVars
    PROVE  /\ active' = active
           /\ active = "ftcosi" => FtNext \/ UNCHANGED ftVars
           /\ active = "cosi" => CosiNext \/ UNCHANGED cosiVars
           /\ active = "bftcosi" => BftNext \/ UNCHANGED bftVars
<1>1. CASE SigningNext
    BY <1>1 DEF SigningNext
<1>2. CASE UNCHANGED SigningVars
    BY <1>2 DEF SigningVars
<1> QED  BY <1>1, <1>2

OlderInv ==
    /\ active = "ftcosi" => FtInv
    /\ active = "cosi" => CosiInv
    /\ active = "bftcosi" => BftInv

\* A signature of ftcosi has the responses of enough nodes, exactly those of its
\* mask, that all accept the message, and a refusal is reported when too many
\* refuse; one of cosi verifies; one of bftcosi is of a message that all but the
\* allowed number of nodes have verified: for every number of nodes, subtrees and
\* crashes, and every order of messages and timeouts (ftcosi/protocol,
\* cosi/protocol, bftcosi).
THEOREM OlderCosiAlwaysRight == SigningSpec => []OlderCosiRight
<1>1. SigningInit => OlderInv
    <2> SUFFICES ASSUME SigningInit PROVE OlderInv
        OBVIOUS
    <2>1. /\ active = "ftcosi" => FtInit
          /\ active = "cosi" => CosiInit
          /\ active = "bftcosi" => BftInit
        BY DEF SigningInit
    <2> QED  BY <2>1, FtStart, CosiStart, BftStart DEF OlderInv
<1>2. OlderInv /\ [SigningNext]_SigningVars => OlderInv'
    <2> SUFFICES ASSUME OlderInv, [SigningNext]_SigningVars PROVE OlderInv'
        OBVIOUS
    <2>1. CASE active = "ftcosi"
        BY <2>1, OlderSteps, FtStep DEF OlderInv
    <2>2. CASE active = "cosi"
        BY <2>2, OlderSteps, CosiStep DEF OlderInv
    <2>3. CASE active = "bftcosi"
        BY <2>3, OlderSteps, BftStep DEF OlderInv
    <2>4. CASE active \notin {"ftcosi", "cosi", "bftcosi"}
        BY <2>4, OlderSteps DEF OlderInv
    <2> QED  BY <2>1, <2>2, <2>3, <2>4
<1>3. OlderInv => OlderCosiRight
    BY FtSigned, CosiSigned, BftPrepared DEF OlderInv, OlderCosiRight
<1> QED  BY <1>1, <1>2, <1>3, PTL DEF SigningSpec

-----------------------------------------------------------------------------
(* E-voting. Unless an election block follows a ballot, the election's chain  *)
(* has the ballots before the mixes and these before the partials, and what   *)
(* the mixes and the partials are made of is the box of ballots, which cannot  *)
(* change any more.                                                          *)

Counting == {"mix", "partial"}
CountBegan(chain) == \E i \in DOMAIN chain : chain[i].kind \in Counting
Voted(chain) == \E i \in DOMAIN chain : chain[i].kind = "ballot"
Orderly(chain) == Before("election", "ballot", chain)
CountFits(chain) ==
    /\ \A i, j \in DOMAIN chain : i < j /\ chain[i].kind \in Counting => chain[j].kind \in Counting
    /\ \A i, j \in DOMAIN chain : chain[i].kind = "mix" /\ chain[j].kind = "partial" => i < j
    /\ CountBegan(chain) => Voted(chain)
    /\ (\E i \in DOMAIN chain : chain[i].kind = "partial") => Cardinality(Mixes(chain)) > target
    /\ \A i \in DOMAIN chain : chain[i].kind \in Counting => chain[i].of = Box(chain)
JobFits(j, chain) == j.tx.kind = "partial" => CountBegan(chain) /\ j.tx.of = Box(chain)
EvInv ==
    /\ EvTypeOK
    /\ evOpen.at = "checked" => Exists(evChain)
    /\ evStore # NoTx => evStore.tx.kind \in {"election", "ballot"}
    /\ \A j \in evJobs : j.tx.kind \in Counting /\ j.prompt.kind = j.tx.kind
    /\ Orderly(evChain) => CountFits(evChain) /\ \A j \in evJobs : JobFits(j, evChain)

\* A chain of transactions that gets one more.
LEMMA ChainGrows ==
    ASSUME NEW c \in Seq(EvTransactions), NEW t \in EvTransactions
    PROVE  /\ Append(c, t) \in Seq(EvTransactions) /\ Len(c) \in Nat
           /\ DOMAIN c = 1 .. Len(c) /\ Len(Append(c, t)) = Len(c) + 1
           /\ DOMAIN Append(c, t) = 1 .. Len(c) + 1
           /\ DOMAIN Append(c, t) = DOMAIN c \union {Len(c) + 1}
           /\ \A i \in DOMAIN c : Append(c, t)[i] = c[i] /\ i < Len(c) + 1 /\ i \in Nat
           /\ Append(c, t)[Len(c) + 1] = t
<1>1. Len(c) \in Nat /\ DOMAIN c = 1 .. Len(c)
    OBVIOUS
<1>2. Append(c, t) \in Seq(EvTransactions) /\ Len(Append(c, t)) = Len(c) + 1
    BY AppendProperties
<1>3. \A i \in 1 .. Len(c) : Append(c, t)[i] = c[i]
    BY AppendProperties
<1>4. Append(c, t)[Len(c) + 1] = t
    BY AppendProperties
<1>5. DOMAIN Append(c, t) = 1 .. Len(c) + 1
    BY <1>2
<1>6. 1 .. Len(c) + 1 = 1 .. Len(c) \union {Len(c) + 1}
    BY <1>1
<1> QED  BY <1>1, <1>2, <1>3, <1>4, <1>5, <1>6

\* The largest of some blocks of a chain.
LEMMA NewestOf ==
    ASSUME NEW c \in Seq(EvTransactions), NEW S \in SUBSET DOMAIN c, S # {}
    PROVE  Newest(S) \in S
<1>1. S \in SUBSET Nat /\ Len(c) \in Nat /\ \A x \in S : x <= Len(c)
    OBVIOUS
<1>2. \E x \in S : \A y \in S : y <= x
    BY <1>1, LargestNat
<1> QED  BY <1>2 DEF Newest

\* The mixes and the partials of a chain are finitely many.
LEMMA ParticipantsFinite ==
    ASSUME NEW c \in Seq(EvTransactions), NEW S \in SUBSET DOMAIN c
    PROVE  IsFiniteSet(S) /\ Cardinality(S) \in Nat /\ (S = {} => Cardinality(S) = 0)
<1>1. 1 \in Int /\ Len(c) \in Int /\ DOMAIN c = 1 .. Len(c)
    OBVIOUS
<1>2. IsFiniteSet(DOMAIN c)
    BY <1>1, FS_Interval
<1> QED  BY <1>2, FS_Subset, FS_CardinalityType, FS_EmptySet

\* The number of mixes or partials that a quorum goes beyond.
LEMMA TargetNat == target \in Nat
BY EvotingAssumption DEF target

\* A ballot that is not of the box's blocks does not change it, and neither does
\* what is not a ballot.
LEMMA BoxStays ==
    ASSUME NEW c \in Seq(EvTransactions), NEW t \in EvTransactions, t.kind # "ballot"
    PROVE  Box(Append(c, t)) = Box(c)
<1> DEFINE d == Append(c, t)
           Votes(e) == {i \in DOMAIN e : e[i].kind = "ballot"}
           LastVotes(e) == {i \in Votes(e) : \A j \in Votes(e) : e[j].ballot.user = e[i].ballot.user => j <= i}
<1>1. Box(c) = {c[i].ballot : i \in LastVotes(c)} /\ Box(d) = {d[i].ballot : i \in LastVotes(d)}
    BY DEF Box
<1>2. Votes(d) = Votes(c) /\ \A i \in Votes(c) : d[i] = c[i]
    BY ChainGrows
<1>3. LastVotes(d) = LastVotes(c) /\ \A i \in LastVotes(c) : d[i] = c[i]
    <2> HIDE DEF d, Votes
    <2> QED  BY <1>2
<1> HIDE DEF d, LastVotes
<1> QED  BY <1>1, <1>3 DEF d

\* Every user has one ballot in the box.
LEMMA BoxOnce ==
    ASSUME NEW c \in Seq(EvTransactions), NEW a \in Box(c), NEW b \in Box(c), a.user = b.user
    PROVE  a = b
<1>1. DOMAIN c \subseteq Nat
    OBVIOUS
<1> DEFINE Votes == {i \in DOMAIN c : c[i].kind = "ballot"}
           LastVotes == {i \in Votes : \A j \in Votes : c[j].ballot.user = c[i].ballot.user => j <= i}
<1>2. Box(c) = {c[i].ballot : i \in LastVotes}
    BY DEF Box
<1>3. PICK i \in LastVotes : a = c[i].ballot
    BY <1>2
<1>4. PICK j \in LastVotes : b = c[j].ballot
    BY <1>2
<1>5. i \in Votes /\ j \in Votes /\ i <= j /\ j <= i
    BY <1>3, <1>4
<1>6. i = j
    BY <1>5, <1>1
<1> QED  BY <1>3, <1>4, <1>6

\* A box that is not empty has a ballot.
LEMMA BoxVoted ==
    ASSUME NEW c, Box(c) # {}
    PROVE  Voted(c)
BY DEF Box, Voted

\* A chain that goes on in order was in order.
LEMMA OrderlyBefore ==
    ASSUME NEW c \in Seq(EvTransactions), NEW t \in EvTransactions, Orderly(Append(c, t))
    PROVE  Orderly(c) /\ (t.kind = "election" => ~Voted(c))
<1>1. Orderly(c)
    BY ChainGrows DEF Orderly, Before
<1>2. ASSUME t.kind = "election", NEW i \in DOMAIN c, c[i].kind = "ballot" PROVE FALSE
    <2> DEFINE d == Append(c, t)
               n == Len(c) + 1
    <2>1. n \in DOMAIN d /\ i \in DOMAIN d /\ d[n].kind = "election" /\ d[i].kind = "ballot"
        BY <1>2, ChainGrows
    <2>2. n < i
        <3> HIDE DEF d, n
        <3> QED  BY <2>1 DEF Orderly, Before, d
    <2>3. i < n /\ i \in Nat /\ n \in Nat
        BY <1>2, ChainGrows
    <2> QED  BY <2>2, <2>3
<1> QED  BY <1>1, <1>2 DEF Voted

\* What is mixed and decrypted next is the box.
LEMMA SourceIsBox ==
    ASSUME NEW c \in Seq(EvTransactions), CountFits(c)
    PROVE  Source(c) = Box(c)
<1>1. CASE Mixes(c) = {}
    BY <1>1 DEF Source
<1>2. CASE Mixes(c) # {}
    <2>1. Mixes(c) \in SUBSET DOMAIN c
        BY DEF Mixes
    <2>2. Newest(Mixes(c)) \in Mixes(c)
        BY <1>2, <2>1, NewestOf
    <2>3. c[Newest(Mixes(c))].kind \in Counting /\ Newest(Mixes(c)) \in DOMAIN c
        BY <2>2 DEF Mixes, Counting
    <2>4. c[Newest(Mixes(c))].of = Box(c)
        BY <2>3 DEF CountFits
    <2> QED  BY <1>2, <2>4 DEF Source
<1> QED  BY <1>1, <1>2

\* The mixes stay when a partial follows.
LEMMA MixesStay ==
    ASSUME NEW c \in Seq(EvTransactions), NEW t \in EvTransactions, t.kind = "partial"
    PROVE  Mixes(Append(c, t)) = Mixes(c)
<1> DEFINE d == Append(c, t)
           n == Len(c) + 1
<1>1. /\ DOMAIN d = DOMAIN c \union {n} /\ Len(d) = n /\ n \in Nat /\ d[n] = t
      /\ DOMAIN c = 1 .. Len(c) /\ Len(c) \in Nat
      /\ \A i \in DOMAIN c : d[i] = c[i] /\ i < n /\ i \in Nat
    BY ChainGrows
<1> HIDE DEF d
<1>2. ASSUME NEW i \in DOMAIN c
      PROVE  Trailing(d, i, Counting) <=> Trailing(c, i, Counting)
    <2>1. i .. Len(d) = (i .. Len(c)) \union {n}
        BY <1>1
    <2>2. \A j \in i .. Len(c) : d[j] = c[j]
        BY <1>1
    <2>3. d[n].kind \in Counting
        BY <1>1 DEF Counting
    <2> QED  BY <2>1, <2>2, <2>3 DEF Trailing
<1>3. d[n].kind # "mix"
    BY <1>1
<1>4. Mixes(d) = {i \in DOMAIN d : d[i].kind = "mix" /\ Trailing(d, i, Counting)}
      /\ Mixes(c) = {i \in DOMAIN c : c[i].kind = "mix" /\ Trailing(c, i, Counting)}
    BY DEF Mixes, Counting
<1>5. Mixes(d) = Mixes(c)
    <2>0. DOMAIN d = DOMAIN c \union {n} /\ \A i \in DOMAIN c : d[i] = c[i]
        BY <1>1
    <2> HIDE DEF n
    <2> QED  BY <2>0, <1>2, <1>3, <1>4
<1> QED  BY <1>5 DEF d

\* The next transaction is one that the nodes accept.
TxAccepted(t, c) ==
    /\ t.kind = "ballot" => c # << >> /\ c[Len(c)].kind \notin Counting
    /\ t.kind = "mix" => Cardinality(Mixes(c)) <= target /\ t.of = Source(c) /\ Cardinality(Source(c)) >= 2
    /\ t.kind = "partial" => Cardinality(Mixes(c)) > target /\ (Orderly(c) => CountBegan(c) /\ t.of = Box(c))

\* A transaction that is accepted keeps what is counted, and once counting
\* has begun the box stays as it is.
LEMMA CountStays ==
    ASSUME NEW c \in Seq(EvTransactions), NEW t \in EvTransactions, TxAccepted(t, c),
           Orderly(c) => CountFits(c), Orderly(Append(c, t))
    PROVE  /\ CountFits(Append(c, t))
           /\ CountBegan(c) => CountBegan(Append(c, t)) /\ Box(Append(c, t)) = Box(c)
<1> DEFINE d == Append(c, t)
           n == Len(c) + 1
<1>1. /\ DOMAIN d = DOMAIN c \union {n} /\ n \in Nat /\ d[n] = t
      /\ DOMAIN c = 1 .. Len(c) /\ Len(c) \in Nat
      /\ \A i \in DOMAIN c : d[i] = c[i] /\ i < n /\ i \in Nat
    BY ChainGrows
<1>2. Orderly(c) /\ CountFits(c) /\ (t.kind = "election" => ~Voted(c))
    BY OrderlyBefore
<1>3. t.kind \in {"election", "ballot", "mix", "partial"}
    BY DEF EvTransactions
<1>4. CountBegan(c) => t.kind \in Counting
    <2> SUFFICES ASSUME CountBegan(c), t.kind \notin Counting PROVE FALSE
        OBVIOUS
    <2>1. t.kind = "ballot"
        BY <1>2, <1>3 DEF CountFits, Counting
    <2>2. c # << >> /\ c[Len(c)].kind \notin Counting
        BY <2>1 DEF TxAccepted
    <2>3. Len(c) \in DOMAIN c
        BY <2>2, <1>1
    <2>4. PICK i \in DOMAIN c : c[i].kind \in Counting
        BY DEF CountBegan
    <2>5. i # Len(c)
        BY <2>2, <2>4
    <2>6. i < Len(c)
        BY <1>1, <2>4, <2>5
    <2> QED  BY <1>2, <2>2, <2>3, <2>4, <2>6 DEF CountFits
<1>5. t.kind \in Counting => t.of = Box(c) /\ Box(d) = Box(c) /\ Voted(c)
    <2> SUFFICES ASSUME t.kind \in Counting PROVE t.of = Box(c) /\ Box(d) = Box(c) /\ Voted(c)
        OBVIOUS
    <2>1. Source(c) = Box(c)
        BY <1>2, SourceIsBox
    <2>2. Box(d) = Box(c)
        BY BoxStays DEF Counting
    <2>3. CASE t.kind = "mix"
        <3>1. t.of = Box(c) /\ Cardinality(Box(c)) >= 2
            BY <2>1, <2>3 DEF TxAccepted
        <3>2. Cardinality({}) = 0
            BY FS_EmptySet
        <3>3. Box(c) # {}
            <4> SUFFICES ASSUME Box(c) = {} PROVE FALSE
                OBVIOUS
            <4>1. Cardinality(Box(c)) = 0
                BY <3>2, Zenon
            <4> QED  BY <3>1, <4>1
        <3> QED  BY <2>2, <3>1, <3>3, BoxVoted
    <2>4. CASE t.kind = "partial"
        BY <1>2, <2>2, <2>4 DEF TxAccepted, CountFits
    <2> QED  BY <2>3, <2>4 DEF Counting
<1>6. CountBegan(c) => CountBegan(d) /\ Box(d) = Box(c)
    BY <1>1, <1>4, <1>5 DEF CountBegan
<1>7. ASSUME NEW i \in DOMAIN d, NEW j \in DOMAIN d, i < j, d[i].kind \in Counting
      PROVE  d[j].kind \in Counting
    <2>1. i \in DOMAIN c
        BY <1>1, <1>7
    <2>2. c[i].kind \in Counting
        BY <1>1, <1>7, <2>1
    <2>3. CASE j \in DOMAIN c
        BY <1>1, <1>2, <1>7, <2>1, <2>2, <2>3 DEF CountFits
    <2>4. CASE j = n
        BY <1>1, <1>4, <2>1, <2>2, <2>4 DEF CountBegan
    <2> QED  BY <1>1, <2>3, <2>4
<1>8. ASSUME t.kind = "mix", NEW j \in DOMAIN c, c[j].kind = "partial" PROVE FALSE
    <2>1. Cardinality(Mixes(c)) > target /\ Cardinality(Mixes(c)) <= target
        BY <1>2, <1>8 DEF CountFits, TxAccepted
    <2>2. Cardinality(Mixes(c)) \in Nat /\ target \in Nat
        BY ParticipantsFinite, TargetNat DEF Mixes
    <2> QED  BY <2>1, <2>2
<1>9. ASSUME NEW i \in DOMAIN d, NEW j \in DOMAIN d, d[i].kind = "mix", d[j].kind = "partial"
      PROVE  i < j
    <2>1. CASE i \in DOMAIN c /\ j \in DOMAIN c
        BY <1>1, <1>2, <1>9, <2>1 DEF CountFits
    <2>2. CASE i \in DOMAIN c /\ j = n
        BY <1>1, <2>2
    <2>3. CASE i = n /\ j \in DOMAIN c
        BY <1>1, <1>8, <1>9, <2>3
    <2>4. CASE i = n /\ j = n
        BY <1>9, <2>4
    <2> QED  BY <1>1, <2>1, <2>2, <2>3, <2>4
<1>10. Voted(c) => Voted(d)
    BY <1>1 DEF Voted
<1>11. CountBegan(d) => Voted(d)
    <2>1. CountBegan(d) => CountBegan(c) \/ t.kind \in Counting
        BY <1>1 DEF CountBegan
    <2> QED  BY <1>2, <1>5, <1>10, <2>1 DEF CountFits
<1>12. ASSUME NEW i \in DOMAIN d, d[i].kind = "partial" PROVE Cardinality(Mixes(d)) > target
    <2>1. CASE t.kind = "partial"
        BY <2>1, MixesStay DEF TxAccepted
    <2>2. CASE t.kind # "partial"
        <3>1. i \in DOMAIN c /\ c[i].kind = "partial"
            BY <1>1, <1>12, <2>2
        <3>2. t.kind \in Counting
            BY <1>4, <3>1 DEF CountBegan, Counting
        <3> QED  BY <1>8, <2>2, <3>1, <3>2 DEF Counting
    <2> QED  BY <2>1, <2>2
<1>13. ASSUME NEW i \in DOMAIN d, d[i].kind \in Counting PROVE d[i].of = Box(d)
    <2>1. CASE i = n
        BY <1>1, <1>5, <1>13, <2>1
    <2>2. CASE i \in DOMAIN c
        <3>1. c[i].kind \in Counting /\ d[i] = c[i]
            BY <1>1, <1>13, <2>2
        <3>2. c[i].of = Box(c) /\ CountBegan(c)
            BY <1>2, <2>2, <3>1 DEF CountFits, CountBegan
        <3> QED  BY <1>6, <3>1, <3>2
    <2> QED  BY <1>1, <2>1, <2>2
<1>14. CountFits(d)
    <2> HIDE DEF d, n
    <2> QED  BY <1>7, <1>9, <1>11, <1>12, <1>13 DEF CountFits
<1> QED  BY <1>6, <1>14

\* What the nodes verify is enough.
LEMMA VerifiedAccepted ==
    ASSUME NEW t \in EvTransactions, NEW c \in Seq(EvTransactions), VerifyTx(t, c),
           t.kind = "partial" => (Orderly(c) => CountBegan(c) /\ t.of = Box(c))
    PROVE  TxAccepted(t, c)
<1>1. ASSUME t.kind = "ballot" PROVE c # << >> /\ c[Len(c)].kind \notin Counting
    BY <1>1 DEF VerifyTx, VerifyBallot, Exists, Counting
<1>2. ASSUME t.kind = "mix"
      PROVE  Cardinality(Mixes(c)) <= target /\ t.of = Source(c) /\ Cardinality(Source(c)) >= 2
    BY <1>2 DEF VerifyTx, VerifyMix
<1>3. ASSUME t.kind = "partial" PROVE Cardinality(Mixes(c)) > target
    BY <1>3 DEF VerifyTx, VerifyPartial
<1> QED  BY <1>1, <1>2, <1>3 DEF TxAccepted

\* The invariant gives what is counted.
LEMMA TallyFits ==
    ASSUME EvInv
    PROVE  TallyRight
<1> SUFFICES ASSUME Orderly(evChain)
             PROVE  /\ Before("ballot", "mix", evChain) /\ Before("mix", "partial", evChain)
                    /\ \A i \in Mixes(evChain) : evChain[i].of = Box(evChain)
                    /\ setStage(evChain) = "decrypted" => Reconstruct(evChain) = Box(evChain)
                    /\ \A b, c \in Box(evChain) : b.user = c.user => b = c
    BY DEF TallyRight, Orderly
<1>1. CountFits(evChain) /\ evChain \in Seq(EvTransactions) /\ DOMAIN evChain \subseteq Nat
    BY DEF EvInv, EvTypeOK
<1>2. Before("mix", "partial", evChain)
    BY <1>1 DEF CountFits, Before
<1>3. Before("ballot", "mix", evChain)
    <2> SUFFICES ASSUME NEW i \in DOMAIN evChain, NEW j \in DOMAIN evChain,
                        evChain[i].kind = "ballot", evChain[j].kind = "mix", ~(i < j)
                 PROVE  FALSE
        BY DEF Before
    <2>1. j < i /\ evChain[j].kind \in Counting /\ evChain[i].kind \notin Counting
        BY <1>1 DEF Counting
    <2> QED  BY <1>1, <2>1 DEF CountFits
<1>4. \A i \in Mixes(evChain) : evChain[i].of = Box(evChain)
    BY <1>1 DEF CountFits, Mixes, Counting
<1>5. \A b, c \in Box(evChain) : b.user = c.user => b = c
    BY <1>1, BoxOnce
<1>6. ASSUME setStage(evChain) = "decrypted" PROVE Reconstruct(evChain) = Box(evChain)
    <2> DEFINE P == Partials(evChain)
               decrypted == {evChain[i].of : i \in P}
    <2>1. P \in SUBSET DOMAIN evChain /\ \A i \in P : evChain[i].kind = "partial"
        <3>1. ASSUME NEW i \in P PROVE evChain[i].kind = "partial"
            <4>1. i \in DOMAIN evChain /\ Trailing(evChain, i, {"partial"})
                BY DEF Partials
            <4>2. i \in i .. Len(evChain)
                BY <1>1, <4>1
            <4> QED  BY <4>1, <4>2 DEF Trailing
        <3> QED  BY <3>1 DEF Partials
    <2>2. \A i \in P : evChain[i].of = Box(evChain)
        BY <1>1, <2>1 DEF CountFits, Counting
    <2>3. Cardinality(P) >= target + 1
        BY <1>6 DEF setStage
    <2>4. Cardinality(P) \in Nat /\ (P = {} => Cardinality(P) = 0) /\ target \in Nat
        BY <1>1, <2>1, ParticipantsFinite, TargetNat
    <2> HIDE DEF P
    <2>5. P # {} /\ ~(Cardinality(P) <= target)
        BY <2>3, <2>4
    <2>6. decrypted = {Box(evChain)}
        BY <2>2, <2>5
    <2>7. Reconstruct(evChain) = UNION decrypted
        <3>1. \A m, n \in decrypted : m = n
            BY <2>6
        <3> QED  BY <2>5, <3>1 DEF Reconstruct, P
    <2>8. UNION {Box(evChain)} = Box(evChain)
        OBVIOUS
    <2> HIDE DEF decrypted
    <2> QED  BY <2>6, <2>7, <2>8
<1> QED  BY <1>2, <1>3, <1>4, <1>5, <1>6

\* A step in which no transaction is stored and none is made.
LEMMA ChainKept ==
    ASSUME EvInv, UNCHANGED evChain, EvTypeOK', evJobs' \subseteq evJobs,
           evOpen'.at = "checked" => Exists(evChain),
           evStore' # NoTx => evStore'.tx.kind \in {"election", "ballot"}
    PROVE  EvInv'
BY DEF EvInv

\* A step in which a transaction is stored.
LEMMA ChainExtended ==
    ASSUME EvInv, NEW t \in EvTransactions, TxAccepted(t, evChain), evChain' = Append(evChain, t),
           EvTypeOK', evJobs' \subseteq evJobs, evOpen'.at = "checked" => evOpen.at = "checked",
           evStore' \in {evStore, NoTx}
    PROVE  EvInv'
<1>1. evChain \in Seq(EvTransactions)
    BY DEF EvInv, EvTypeOK
<1>2. Exists(evChain) => Exists(evChain')
    <2> SUFFICES ASSUME Exists(evChain) PROVE Exists(evChain')
        OBVIOUS
    <2>1. 1 \in DOMAIN evChain
        BY <1>1 DEF Exists
    <2>2. evChain'[1] = evChain[1] /\ evChain' \in Seq(EvTransactions) /\ Len(evChain') # 0
        BY <1>1, <2>1, ChainGrows
    <2>3. evChain' # << >>
        BY <2>2
    <2> QED  BY <2>2, <2>3 DEF Exists
<1>3. ASSUME Orderly(evChain')
      PROVE  CountFits(evChain') /\ \A j \in evJobs' : JobFits(j, evChain')
    <2>1. Orderly(evChain) /\ CountFits(evChain) /\ \A j \in evJobs : JobFits(j, evChain)
        BY <1>1, <1>3, OrderlyBefore DEF EvInv
    <2>2. /\ CountFits(evChain')
          /\ CountBegan(evChain) => CountBegan(evChain') /\ Box(evChain') = Box(evChain)
        BY <1>1, <1>3, <2>1, CountStays
    <2>3. ASSUME NEW j \in evJobs' PROVE JobFits(j, evChain')
        <3>1. JobFits(j, evChain)
            BY <2>1
        <3> QED  BY <3>1, <2>2 DEF JobFits
    <2> QED  BY <2>2, <2>3
<1>4. (evOpen'.at = "checked" => Exists(evChain'))
    BY <1>2 DEF EvInv
<1>5. (evStore' # NoTx => evStore'.tx.kind \in {"election", "ballot"})
    BY DEF EvInv
<1>6. \A j \in evJobs' : j.tx.kind \in Counting /\ j.prompt.kind = j.tx.kind
    BY DEF EvInv
<1> QED  BY <1>3, <1>4, <1>5, <1>6 DEF EvInv

-----------------------------------------------------------------------------
\* The election of a chain that has one is a block of it.
LEMMA ElectionOf ==
    ASSUME NEW c \in Seq(EvTransactions), Exists(c)
    PROVE  GetElection(c) \in EvTransactions /\ GetElection(c).creator \in EvUsers
<1> DEFINE S == {i \in DOMAIN c : \A j \in 1 .. i : c[j].kind = "election"}
<1>1. S \in SUBSET DOMAIN c
    OBVIOUS
<1>2. 1 \in S
    BY DEF Exists
<1>3. \A i \in S : i \in 1 .. i
    OBVIOUS
<1>4. \A i \in S : c[i].kind = "election" /\ c[i] \in EvTransactions
    BY <1>3
<1>5. GetElection(c) = c[Newest(S)]
    BY DEF GetElection
<1> HIDE DEF S
<1>6. Newest(S) \in S
    BY <1>1, <1>2, NewestOf
<1>7. GetElection(c).kind = "election" /\ GetElection(c) \in EvTransactions
    BY <1>4, <1>5, <1>6
<1> QED  BY <1>7 DEF EvTransactions

\* What is mixed is a set of ballots.
LEMMA SourceBallots ==
    ASSUME NEW c \in Seq(EvTransactions)
    PROVE  Source(c) \in SUBSET EvBallots
<1>1. CASE Mixes(c) = {}
    <2>1. \A i \in DOMAIN c : c[i] \in EvTransactions
        OBVIOUS
    <2>2. \A i \in DOMAIN c : c[i].kind = "ballot" => c[i].ballot \in EvBallots
        BY <2>1 DEF EvTransactions
    <2>3. \A b \in Box(c) : b \in EvBallots
        BY <2>2 DEF Box
    <2> QED  BY <1>1, <2>3 DEF Source
<1>2. CASE Mixes(c) # {}
    <2>1. Mixes(c) \in SUBSET DOMAIN c
        BY DEF Mixes
    <2>2. Newest(Mixes(c)) \in Mixes(c)
        BY <1>2, <2>1, NewestOf
    <2>3. c[Newest(Mixes(c))] \in EvTransactions /\ c[Newest(Mixes(c))].kind = "mix"
        BY <2>2 DEF Mixes
    <2>4. c[Newest(Mixes(c))].of \in SUBSET EvBallots
        BY <2>3 DEF EvTransactions
    <2> QED  BY <1>2, <2>4 DEF Source
<1> QED  BY <1>1, <1>2

EvPrompts == Prompts("mix", Seq(EvNodeSet)) \union Prompts("partial", SUBSET EvNodeSet)
MasterBlocks == [kind : {"master"}, admins : EvAdminSets] \union [kind : {"link"}]
Stores(chain) == {NoTx} \union [index : 1 .. Len(chain) + 1, tx : EvTransactions]
Opens == {Idle} \union [at : {"new", "link", "checked", "update"}, user : EvUsers]
Locks == [run : 0 .. EvMaxRuns, ok : Nat]
Jobs == [prompt : EvPrompts, seen : Nat, tx : EvTransactions]
\* Prompts and jobs of their types.
LEMMA PromptsTyped ==
    ASSUME NEW P, NEW J
    PROVE  /\ (\A p \in P : IsPrompt(p)) <=> P \subseteq EvPrompts
           /\ (\A j \in J : IsPrompt(j.prompt) /\ j \in [prompt : {j.prompt}, seen : Nat, tx : EvTransactions])
                  <=> J \subseteq Jobs
<1>1. \A p : IsPrompt(p) <=> p \in EvPrompts
    BY DEF IsPrompt, EvPrompts, Prompts
<1>2. (\A p \in P : IsPrompt(p)) <=> P \subseteq EvPrompts
    BY <1>1
<1>3. ASSUME NEW j
      PROVE  (IsPrompt(j.prompt) /\ j \in [prompt : {j.prompt}, seen : Nat, tx : EvTransactions]) <=> j \in Jobs
    BY <1>1 DEF Jobs
<1> QED  BY <1>2, <1>3

\* The type invariant in terms of the sets above.
LEMMA EvTyped ==
    EvTypeOK <=>
        /\ evMaster \in Seq(MasterBlocks)
        /\ evChain \in Seq(EvTransactions) /\ evClock \in {"before", "open", "closed"}
        /\ evStore \in Stores(evChain)
        /\ evOpen \in Opens
        /\ evDkg \in BOOLEAN /\ evSecret \subseteq EvNodeSet
        /\ evRuns \in 0 .. EvMaxRuns /\ evLock \in Locks
        /\ evPrompts \subseteq EvPrompts
        /\ evJobs \subseteq Jobs
BY PromptsTyped DEF EvTypeOK, MasterBlocks, Stores, Opens, Locks

\* The step of a handler of the leader that stores nothing.
LEMMA HandlerKeeps ==
    ASSUME EvInv, UNCHANGED <<evChain, evRuns, evLock, evPrompts, evJobs>>,
           evMaster' \in Seq(MasterBlocks), evClock' \in {"before", "open", "closed"},
           evStore' \in Stores(evChain), evOpen' \in Opens, evDkg' \in BOOLEAN,
           evSecret' \subseteq EvNodeSet,
           evOpen'.at = "checked" => Exists(evChain),
           evStore' # NoTx => evStore'.tx.kind \in {"election", "ballot"}
    PROVE  EvInv'
<1>1. evChain' = evChain /\ evJobs' = evJobs /\ evPrompts' = evPrompts /\ evLock' = evLock /\ evRuns' = evRuns
    OBVIOUS
<1>2. EvTypeOK
    BY DEF EvInv
<1>3. EvTypeOK'
    BY <1>1, <1>2 DEF EvTypeOK, MasterBlocks, Stores, Opens
<1> QED  BY <1>1, <1>3, ChainKept

\* A transaction that the leader starts to store.
LEMMA Begins ==
    ASSUME EvTypeOK, NEW t \in EvTransactions, BeginStore(t)
    PROVE  evStore' \in Stores(evChain) /\ evStore'.tx = t
<1>1. Len(evChain) \in Nat
    BY DEF EvTypeOK
<1>2. Len(evChain) + 1 \in 1 .. Len(evChain) + 1
    BY <1>1
<1>3. evStore' = [index |-> Len(evChain) + 1, tx |-> t]
    BY DEF BeginStore
<1> QED  BY <1>2, <1>3 DEF Stores

\* The master chain is created or gets other admins.
LEMMA LinkKeeps ==
    ASSUME EvInv, NEW u \in EvUsers, NEW a \in EvAdminSets, Link(u, a)
    PROVE  EvInv'
<1>0. EvTypeOK
    BY DEF EvInv
<1>1. evMaster' = Append(evMaster, [kind |-> "master", admins |-> a])
      /\ UNCHANGED <<evChain, evClock, evStore, evOpen, evDkg, evSecret, evRuns, evLock, evPrompts, evJobs>>
    BY DEF Link, evHandlers, evKeys, evProtocol
<1>2. [kind |-> "master", admins |-> a] \in MasterBlocks /\ evMaster \in Seq(MasterBlocks)
    BY <1>0, EvTyped DEF MasterBlocks
<1>3. evMaster' \in Seq(MasterBlocks)
    BY <1>1, <1>2, AppendProperties
<1> QED  BY <1>0, <1>1, <1>3, EvTyped, HandlerKeeps DEF EvInv

\* An election is opened.
LEMMA OpenElectionKeeps ==
    ASSUME EvInv, NEW u \in UNION EvAdminSets, OpenElection(u)
    PROVE  EvInv'
<1>0. EvTypeOK /\ u \in EvUsers
    BY DEF EvInv, EvUsers
<1>1. /\ evDkg' = TRUE /\ evOpen' = [at |-> "new", user |-> u]
      /\ BeginStore([kind |-> "election", user |-> u, creator |-> u])
      /\ UNCHANGED <<evMaster, evChain, evClock, evSecret, evRuns, evLock, evPrompts, evJobs>>
    BY DEF OpenElection, evProtocol
<1>2. [kind |-> "election", user |-> u, creator |-> u] \in EvTransactions
    BY <1>0 DEF EvTransactions
<1>3. evStore' \in Stores(evChain) /\ evStore'.tx = [kind |-> "election", user |-> u, creator |-> u]
    BY <1>0, <1>1, <1>2, Begins
<1>4. evStore'.tx.kind = "election"
    BY <1>3
<1>5. evOpen' \in Opens /\ evOpen'.at # "checked"
    BY <1>0, <1>1 DEF Opens
<1>6. evMaster' \in Seq(MasterBlocks) /\ evClock' \in {"before", "open", "closed"}
      /\ evDkg' \in BOOLEAN /\ evSecret' \subseteq EvNodeSet
    BY <1>0, <1>1, EvTyped
<1> QED  BY <1>1, <1>3, <1>4, <1>5, <1>6, HandlerKeeps

\* An update of the election finds an empty box.
LEMMA UpdateCheckKeeps ==
    ASSUME EvInv, NEW u \in UNION EvAdminSets, UpdateCheck(u)
    PROVE  EvInv'
<1>0. EvTypeOK /\ u \in EvUsers
    BY DEF EvInv, EvUsers
<1>1. /\ Exists(evChain) /\ evOpen' = [at |-> "checked", user |-> u]
      /\ UNCHANGED <<evMaster, evChain, evClock, evStore, evDkg, evSecret, evRuns, evLock, evPrompts, evJobs>>
    BY DEF UpdateCheck, evProtocol, evKeys
<1>5. evOpen' \in Opens
    BY <1>0, <1>1 DEF Opens
<1>6. evMaster' \in Seq(MasterBlocks) /\ evClock' \in {"before", "open", "closed"}
      /\ evDkg' \in BOOLEAN /\ evSecret' \subseteq EvNodeSet /\ evStore' \in Stores(evChain)
    BY <1>0, <1>1, EvTyped
<1>7. evStore' # NoTx => evStore'.tx.kind \in {"election", "ballot"}
    BY <1>1 DEF EvInv
<1> QED  BY <1>1, <1>5, <1>6, <1>7, HandlerKeeps

\* The update is about to be stored, also when ballots have come meanwhile.
LEMMA UpdateStoreKeeps ==
    ASSUME EvInv, UpdateStore
    PROVE  EvInv'
<1> DEFINE t == [kind |-> "election", user |-> evOpen.user, creator |-> GetElection(evChain).creator]
<1>0. EvTypeOK
    BY DEF EvInv
<1>1. /\ evOpen.at = "checked" /\ evOpen' = [evOpen EXCEPT !.at = "update"]
      /\ BeginStore(t)
      /\ UNCHANGED <<evMaster, evChain, evClock, evDkg, evSecret, evRuns, evLock, evPrompts, evJobs>>
    BY DEF UpdateStore, evProtocol, evKeys
<1>2. evOpen \in [at : {"new", "link", "checked", "update"}, user : EvUsers]
    BY <1>0, <1>1, EvTyped DEF Opens, Idle
<1>3. evOpen' \in Opens /\ evOpen'.at = "update"
    BY <1>1, <1>2 DEF Opens
<1>4. evChain \in Seq(EvTransactions) /\ Exists(evChain)
    BY <1>0, <1>1, EvTyped DEF EvInv
<1>5. t \in EvTransactions
    BY <1>2, <1>4, ElectionOf DEF EvTransactions
<1>6. evStore' \in Stores(evChain) /\ evStore'.tx = t
    <2> HIDE DEF t
    <2> QED  BY <1>0, <1>1, <1>5, Begins
<1>7. evStore'.tx.kind = "election"
    BY <1>6
<1>8. evMaster' \in Seq(MasterBlocks) /\ evClock' \in {"before", "open", "closed"}
      /\ evDkg' \in BOOLEAN /\ evSecret' \subseteq EvNodeSet
    BY <1>0, <1>1, EvTyped
<1> QED  BY <1>1, <1>3, <1>6, <1>7, <1>8, HandlerKeeps

\* A ballot is about to be stored.
LEMMA CastKeeps ==
    ASSUME EvInv, NEW u \in EvUsers, NEW b \in [user : EvVoters, vote : EvVotes], Cast(u, b)
    PROVE  EvInv'
<1>0. EvTypeOK /\ b \in EvBallots
    BY DEF EvInv, EvBallots
<1>1. /\ BeginStore([kind |-> "ballot", user |-> u, ballot |-> b])
      /\ UNCHANGED <<evMaster, evChain, evClock, evOpen, evDkg, evSecret, evRuns, evLock, evPrompts, evJobs>>
    BY DEF Cast, evProtocol, evKeys
<1>2. [kind |-> "ballot", user |-> u, ballot |-> b] \in EvTransactions
    BY <1>0 DEF EvTransactions
<1>3. evStore' \in Stores(evChain) /\ evStore'.tx = [kind |-> "ballot", user |-> u, ballot |-> b]
    BY <1>0, <1>1, <1>2, Begins
<1>4. evStore'.tx.kind = "ballot"
    BY <1>3
<1>5. evMaster' \in Seq(MasterBlocks) /\ evClock' \in {"before", "open", "closed"} /\ evOpen' \in Opens
      /\ evDkg' \in BOOLEAN /\ evSecret' \subseteq EvNodeSet
    BY <1>0, <1>1, EvTyped
<1>6. evOpen'.at = "checked" => Exists(evChain)
    BY <1>1 DEF EvInv
<1> QED  BY <1>1, <1>3, <1>4, <1>5, <1>6, HandlerKeeps

\* Shares are stored and time passes.
LEMMA SecretKeeps ==
    ASSUME EvInv, OpenLink \/ (\E n \in 1 .. EvNodes : StoreSecret(n)) \/ Tick
    PROVE  EvInv'
<1>0. EvTypeOK
    BY DEF EvInv
<1>1. evStore \in Stores(evChain) /\ evOpen \in Opens /\ (evOpen.at = "checked" => Exists(evChain))
      /\ (evStore # NoTx => evStore.tx.kind \in {"election", "ballot"})
      /\ evMaster \in Seq(MasterBlocks) /\ evClock \in {"before", "open", "closed"}
      /\ evDkg \in BOOLEAN /\ evSecret \subseteq EvNodeSet
    BY <1>0, EvTyped DEF EvInv
<1>2. CASE OpenLink
    <2>1. evOpen' = Idle /\ UNCHANGED <<evChain, evClock, evStore, evDkg, evRuns, evLock, evPrompts, evJobs>>
        BY <1>2 DEF OpenLink, evProtocol
    <2>2. evMaster' \in {evMaster, Append(evMaster, [kind |-> "link"])}
          /\ evSecret' \subseteq evSecret \union {EvLeader}
        BY <1>2 DEF OpenLink
    <2>3. [kind |-> "link"] \in MasterBlocks
        BY DEF MasterBlocks
    <2>4. evMaster' \in Seq(MasterBlocks)
        BY <1>1, <2>2, <2>3, AppendProperties
    <2>5. EvLeader \in EvNodeSet
        BY EvotingAssumption DEF EvLeader, EvNodeSet
    <2>6. evSecret' \subseteq EvNodeSet
        BY <1>1, <2>2, <2>5
    <2>7. evOpen' \in Opens /\ evOpen'.at # "checked"
        BY <2>1 DEF Opens, Idle
    <2> QED  BY <1>1, <2>1, <2>4, <2>6, <2>7, HandlerKeeps
<1>3. CASE \E n \in 1 .. EvNodes : StoreSecret(n)
    <2>1. PICK n \in 1 .. EvNodes : StoreSecret(n)
        BY <1>3
    <2>2. evSecret' = evSecret \union {n}
          /\ UNCHANGED <<evMaster, evChain, evClock, evDkg, evStore, evOpen, evRuns, evLock, evPrompts, evJobs>>
        BY <2>1 DEF StoreSecret, evHandlers, evProtocol
    <2>3. evSecret' \subseteq EvNodeSet
        BY <1>1, <2>2 DEF EvNodeSet
    <2> QED  BY <1>1, <2>2, <2>3, HandlerKeeps
<1>4. CASE Tick
    <2>1. evClock' \in {"before", "open", "closed"}
          /\ UNCHANGED <<evMaster, evChain, evStore, evOpen, evDkg, evSecret, evRuns, evLock, evPrompts, evJobs>>
        BY <1>4 DEF Tick, evHandlers, evKeys, evProtocol
    <2> QED  BY <1>1, <2>1, HandlerKeeps
<1> QED  BY <1>2, <1>3, <1>4

\* The leader stores its transaction, or is refused.
LEMMA StoreKeeps ==
    ASSUME EvInv, Store
    PROVE  EvInv'
<1> DEFINE t == evStore.tx
           taken == evStore.index = Len(evChain) + 1 /\ VerifyTx(t, evChain)
<1>0. EvTypeOK
    BY DEF EvInv
<1>1. /\ evStore.index # 0 /\ evStore' = NoTx
      /\ evChain' = IF taken THEN Append(evChain, t) ELSE evChain
      /\ UNCHANGED <<evMaster, evClock, evDkg, evSecret, evRuns, evLock, evPrompts, evJobs>>
      /\ evOpen' = CASE t.kind # "election" -> evOpen
                     [] evOpen.at = "new" /\ taken -> [evOpen EXCEPT !.at = "link"]
                     [] OTHER -> Idle
    BY DEF Store, evKeys, evProtocol
<1>2. evStore # NoTx /\ t \in EvTransactions /\ t.kind \in {"election", "ballot"}
    BY <1>0, <1>1, EvTyped DEF EvInv, Stores, NoTx
<1>3. evOpen' \in {evOpen, [evOpen EXCEPT !.at = "link"], Idle}
      /\ (evOpen' = [evOpen EXCEPT !.at = "link"] => evOpen' = evOpen \/ evOpen.at = "new" \/ evOpen' = Idle)
    BY <1>1
<1>4. evOpen' \in Opens /\ (evOpen'.at = "checked" => evOpen.at = "checked")
    <2>1. evOpen \in Opens
        BY <1>0, EvTyped
    <2>2. CASE evOpen' = evOpen
        BY <2>1, <2>2
    <2>3. CASE evOpen' = Idle
        BY <2>3 DEF Opens, Idle
    <2>4. CASE evOpen' = [evOpen EXCEPT !.at = "link"] /\ evOpen.at = "new"
        <3>1. evOpen \in [at : {"new", "link", "checked", "update"}, user : EvUsers]
            BY <2>1, <2>4 DEF Opens, Idle
        <3> QED  BY <2>4, <3>1 DEF Opens
    <2> QED  BY <1>3, <2>2, <2>3, <2>4
<1>5. evStore' \in Stores(evChain')
    BY <1>1 DEF Stores
<1>6. CASE taken
    <2>1. evChain' = Append(evChain, t) /\ TxAccepted(t, evChain) /\ evChain \in Seq(EvTransactions)
        <3>1. evChain \in Seq(EvTransactions) /\ VerifyTx(t, evChain)
            BY <1>0, <1>6, EvTyped
        <3> QED  BY <1>1, <1>2, <1>6, <3>1, VerifiedAccepted
    <2>2. evChain' \in Seq(EvTransactions)
        BY <1>2, <2>1, ChainGrows
    <2>3. EvTypeOK'
        BY <1>0, <1>1, <1>4, <1>5, <2>2 DEF EvTypeOK, Stores, Opens
    <2> HIDE DEF t
    <2> QED  BY <1>1, <1>2, <1>4, <2>1, <2>3, ChainExtended
<1>7. CASE ~taken
    <2>1. evChain' = evChain
        BY <1>1, <1>7
    <2>2. EvTypeOK'
        BY <1>0, <1>1, <1>4, <1>5, <2>1 DEF EvTypeOK, Stores, Opens
    <2>3. evOpen'.at = "checked" => Exists(evChain)
        BY <1>4 DEF EvInv
    <2> QED  BY <1>1, <2>1, <2>2, <2>3, ChainKept
<1> QED  BY <1>6, <1>7

-----------------------------------------------------------------------------
(* The shuffle and the decryption.                                         *)

\* A step of these protocols that stores nothing.
LEMMA ProtocolKeeps ==
    ASSUME EvInv, UNCHANGED <<evMaster, evChain, evClock, evStore, evOpen, evDkg, evSecret>>,
           evRuns' \in 0 .. EvMaxRuns, evLock' \in Locks, evPrompts' \subseteq EvPrompts,
           \A j \in evJobs' : \/ j \in evJobs
                              \/ /\ j \in Jobs /\ j.tx.kind \in Counting /\ j.prompt.kind = j.tx.kind
                                 /\ CountFits(evChain) => JobFits(j, evChain)
    PROVE  EvInv'
<1>1. /\ evMaster' = evMaster /\ evChain' = evChain /\ evClock' = evClock /\ evStore' = evStore
      /\ evOpen' = evOpen /\ evDkg' = evDkg /\ evSecret' = evSecret
    OBVIOUS
<1>2. EvTypeOK /\ evJobs \subseteq Jobs
    BY EvTyped DEF EvInv
<1>3. evJobs' \subseteq Jobs
    BY <1>2
<1>4. EvTypeOK'
    BY <1>1, <1>2, <1>3, PromptsTyped DEF EvTypeOK, Locks
<1>5. \A j \in evJobs' : j.tx.kind \in Counting /\ j.prompt.kind = j.tx.kind
    BY DEF EvInv
<1>6. Orderly(evChain) => CountFits(evChain) /\ \A j \in evJobs' : JobFits(j, evChain)
    BY DEF EvInv
<1> QED  BY <1>1, <1>4, <1>5, <1>6 DEF EvInv

\* A run that starts.
LEMMA BeginKeeps ==
    ASSUME EvInv, NEW p \in EvPrompts, Begin(p)
    PROVE  EvInv'
<1>1. EvTypeOK
    BY DEF EvInv
<1>2. /\ evRuns < EvMaxRuns /\ evRuns' = evRuns + 1 /\ evLock' = [run |-> evRuns + 1, ok |-> 0]
      /\ evPrompts' = evPrompts \union {p} /\ evJobs' = evJobs
      /\ UNCHANGED <<evMaster, evChain, evClock, evStore, evOpen, evDkg, evSecret>>
    BY DEF Begin, evHandlers, evKeys
<1>3. evRuns + 1 \in 0 .. EvMaxRuns
    BY <1>1, <1>2, EvTyped, EvotingAssumption
<1>4. evLock' \in Locks
    BY <1>2, <1>3 DEF Locks
<1>5. evPrompts' \subseteq EvPrompts
    BY <1>1, <1>2, EvTyped
<1> QED  BY <1>2, <1>3, <1>4, <1>5, ProtocolKeeps

\* An order of nodes is a sequence of them.
LEMMA OrdersAre ==
    ASSUME NEW S \in SUBSET EvNodeSet, NEW o \in Orders(S)
    PROVE  o \in Seq(EvNodeSet)
<1>1. 1 \in Int /\ EvNodes \in Int
    BY EvotingAssumption
<1>2. IsFiniteSet(EvNodeSet)
    BY <1>1, FS_Interval DEF EvNodeSet
<1>3. Cardinality(S) \in Nat
    BY <1>2, FS_Subset, FS_CardinalityType
<1>4. o \in [1 .. Cardinality(S) -> EvNodeSet]
    BY DEF Orders
<1> QED  BY <1>3, <1>4, SeqDef

\* A shuffle or a decryption is started.
LEMMA StartKeeps ==
    ASSUME EvInv, NEW u \in EvUsers, Shuffle(u) \/ Decrypt(u)
    PROVE  EvInv'
<1>1. EvLeader \in EvNodeSet /\ 2 .. EvNodes \subseteq EvNodeSet
    BY EvotingAssumption DEF EvLeader, EvNodeSet
<1>2. evRuns \in Nat
    BY EvotingAssumption DEF EvInv, EvTypeOK
<1>3. CASE Shuffle(u)
    <2> DEFINE done == Participated(Mixes(evChain))
    <2>1. PICK rest \in Orders((2 .. EvNodes) \ done) :
              Begin([kind |-> "mix", run |-> evRuns + 1, node |-> EvLeader, user |-> u, rest |-> rest,
                     takesPart |-> EvLeader \notin done])
        BY <1>3 DEF Shuffle
    <2> DEFINE p == [kind |-> "mix", run |-> evRuns + 1, node |-> EvLeader, user |-> u, rest |-> rest,
                     takesPart |-> EvLeader \notin done]
    <2>2. rest \in Seq(EvNodeSet)
        <3> HIDE DEF done
        <3> QED  BY <1>1, OrdersAre
    <2>3. evRuns + 1 \in 1 .. EvMaxRuns
        BY <1>2, <2>1, EvotingAssumption DEF Begin
    <2>4. (EvLeader \notin done) \in BOOLEAN
        OBVIOUS
    <2> HIDE DEF done
    <2>5. p \in Prompts("mix", Seq(EvNodeSet))
        BY <1>1, <2>2, <2>3, <2>4, Zenon DEF Prompts
    <2>6. p \in EvPrompts /\ Begin(p)
        BY <2>1, <2>5 DEF EvPrompts
    <2> HIDE DEF p
    <2> QED  BY <2>6, BeginKeeps
<1>4. CASE Decrypt(u)
    <2> DEFINE done == Participated(Partials(evChain))
               p == [kind |-> "partial", run |-> evRuns + 1, node |-> EvLeader, user |-> u,
                     rest |-> (2 .. EvNodes) \ done, takesPart |-> EvLeader \notin done]
    <2>1. Begin(p)
        BY <1>4 DEF Decrypt
    <2>2. (2 .. EvNodes) \ done \in SUBSET EvNodeSet
        BY <1>1
    <2>3. evRuns + 1 \in 1 .. EvMaxRuns
        BY <1>2, <2>1, EvotingAssumption DEF Begin
    <2>4. (EvLeader \notin done) \in BOOLEAN
        OBVIOUS
    <2> HIDE DEF done
    <2>5. p \in Prompts("partial", SUBSET EvNodeSet)
        BY <1>1, <2>2, <2>3, <2>4, Zenon DEF Prompts
    <2>6. p \in EvPrompts
        BY <2>5 DEF EvPrompts
    <2> HIDE DEF p
    <2> QED  BY <2>1, <2>6, BeginKeeps
<1> QED  BY <1>3, <1>4

\* The end of a run frees the lock.
LEMMA EndFrees ==
    ASSUME EvTypeOK, NEW r, End(r) \/ UNCHANGED evLock
    PROVE  evLock' \in Locks
<1>1. Free \in Locks
    BY EvotingAssumption DEF Free, Locks
<1>2. evLock \in Locks
    BY EvTyped
<1> QED  BY <1>1, <1>2 DEF End

\* The leader gives up on a run.
LEMMA TimeoutKeeps ==
    ASSUME EvInv, FinalizeTimeout
    PROVE  EvInv'
<1>1. Free \in Locks
    BY EvotingAssumption DEF Free, Locks
<1>2. EvTypeOK
    BY DEF EvInv
<1>3. /\ evLock' = Free
      /\ UNCHANGED <<evMaster, evChain, evClock, evRuns, evPrompts, evJobs, evStore, evOpen, evDkg, evSecret>>
    BY DEF FinalizeTimeout, evHandlers, evKeys
<1> QED  BY <1>1, <1>2, <1>3, EvTyped, ProtocolKeeps

\* The next node of a shuffle is one of the prompt's rest.
LEMMA ContinueKeeps ==
    ASSUME EvTypeOK, NEW p \in EvPrompts, p.kind = "mix", NEW others \in SUBSET EvPrompts, NEW m,
           Continue(p, others, m)
    PROVE  evPrompts' \subseteq EvPrompts /\ evLock' \in Locks
<1>1. evLock' \in Locks
    BY EndFrees DEF Continue
<1>2. p \in Prompts("mix", Seq(EvNodeSet))
    BY DEF EvPrompts, Prompts
<1>3. ASSUME NEW i \in DOMAIN p.rest
      PROVE  [p EXCEPT !.node = p.rest[i], !.takesPart = TRUE,
                       !.rest = SubSeq(p.rest, i + 1, Len(p.rest))] \in EvPrompts
    <2>1. p.rest \in Seq(EvNodeSet)
        BY <1>2 DEF Prompts
    <2>2. p.rest[i] \in EvNodeSet /\ i \in Nat /\ Len(p.rest) \in Nat
        BY <2>1
    <2>3. SubSeq(p.rest, i + 1, Len(p.rest)) \in Seq(EvNodeSet)
        BY <2>1, <2>2
    <2>4. [p EXCEPT !.node = p.rest[i], !.takesPart = TRUE,
                    !.rest = SubSeq(p.rest, i + 1, Len(p.rest))] \in Prompts("mix", Seq(EvNodeSet))
        BY <1>2, <2>2, <2>3 DEF Prompts
    <2> QED  BY <2>4 DEF EvPrompts
<1>4. \/ evPrompts' = others
      \/ \E i \in DOMAIN p.rest :
            evPrompts' = others \union {[p EXCEPT !.node = p.rest[i], !.takesPart = TRUE,
                                                  !.rest = SubSeq(p.rest, i + 1, Len(p.rest))]}
    BY DEF Continue
<1>5. CASE evPrompts' = others
    BY <1>1, <1>5
<1>6. ASSUME NEW i \in DOMAIN p.rest,
             evPrompts' = others \union {[p EXCEPT !.node = p.rest[i], !.takesPart = TRUE,
                                                   !.rest = SubSeq(p.rest, i + 1, Len(p.rest))]}
      PROVE  evPrompts' \subseteq EvPrompts
    BY <1>3, <1>6
<1> QED  BY <1>1, <1>4, <1>5, <1>6

\* What a node makes of a prompt is a transaction of its kind.
LEMMA JobMade ==
    ASSUME EvTypeOK, NEW p \in EvPrompts, NEW k \in Counting, p.kind = k, NEW n \in Nat
    PROVE  LET j == [prompt |-> p, seen |-> n,
                     tx |-> [kind |-> k, user |-> p.user, node |-> p.node, of |-> Source(evChain)]]
           IN  /\ j \in Jobs /\ j.tx.kind \in Counting /\ j.prompt.kind = j.tx.kind
               /\ j.tx.kind = k /\ j.tx.of = Source(evChain)
<1> DEFINE t == [kind |-> k, user |-> p.user, node |-> p.node, of |-> Source(evChain)]
           j == [prompt |-> p, seen |-> n, tx |-> t]
<1>1. Source(evChain) \in SUBSET EvBallots
    BY EvTyped, SourceBallots
<1>2. p.user \in EvUsers /\ p.node \in EvNodeSet
    BY DEF EvPrompts, Prompts
<1>3. t \in EvTransactions
    BY <1>1, <1>2 DEF EvTransactions, Counting
<1>4. t.kind = k /\ t.of = Source(evChain)
    OBVIOUS
<1> HIDE DEF t
<1>5. j \in Jobs /\ j.tx = t /\ j.prompt = p
    BY <1>3 DEF Jobs
<1>6. j.tx.kind = k /\ j.tx.kind \in Counting /\ j.prompt.kind = j.tx.kind
    BY <1>4, <1>5, Zenon
<1>7. j.tx.of = Source(evChain)
    BY <1>4, <1>5, Zenon
<1> QED  BY <1>5, <1>6, <1>7 DEF t

\* The number of mixes or partials that a node sees.
LEMMA SeenNat ==
    ASSUME EvTypeOK
    PROVE  /\ Cardinality(Mixes(evChain)) \in Nat /\ Cardinality(Partials(evChain)) \in Nat
           /\ Cardinality(Mixes(evChain)) > target => CountBegan(evChain)
<1>1. evChain \in Seq(EvTransactions) /\ Mixes(evChain) \in SUBSET DOMAIN evChain
      /\ Partials(evChain) \in SUBSET DOMAIN evChain
    BY EvTyped DEF Mixes, Partials
<1>2. Cardinality(Mixes(evChain)) \in Nat /\ Cardinality(Partials(evChain)) \in Nat
      /\ (Mixes(evChain) = {} => Cardinality(Mixes(evChain)) = 0)
    BY <1>1, ParticipantsFinite
<1>3. Cardinality(Mixes(evChain)) > target => Mixes(evChain) # {}
    BY <1>2, TargetNat
<1>4. Mixes(evChain) # {} => CountBegan(evChain)
    BY DEF Mixes, CountBegan, Counting
<1> QED  BY <1>2, <1>3, <1>4

\* A node is asked to mix.
LEMMA PromptShuffleKeeps ==
    ASSUME EvInv, NEW p \in evPrompts, HandlePromptShuffle(p)
    PROVE  EvInv'
<1> DEFINE m == Cardinality(Mixes(evChain))
           others == evPrompts \ {p}
           job == [prompt |-> p, seen |-> m,
                   tx |-> [kind |-> "mix", user |-> p.user, node |-> p.node, of |-> Source(evChain)]]
<1>1. EvTypeOK /\ p \in EvPrompts /\ others \in SUBSET EvPrompts /\ p.kind = "mix"
    BY EvTyped DEF EvInv, HandlePromptShuffle
<1>2. UNCHANGED <<evMaster, evChain, evClock, evRuns, evStore, evOpen, evDkg, evSecret>>
    BY DEF HandlePromptShuffle, evHandlers, evKeys
<1>3. \/ evPrompts' = others /\ End(p.run) /\ evJobs' = evJobs
      \/ evPrompts' = others /\ UNCHANGED evLock /\ evJobs' = evJobs \union {job}
      \/ Continue(p, others, m) /\ evJobs' = evJobs
    BY DEF HandlePromptShuffle
<1>4. evPrompts' \subseteq EvPrompts /\ evLock' \in Locks
    <2> HIDE DEF others, m, job
    <2>1. CASE Continue(p, others, m)
        BY <1>1, <2>1, ContinueKeeps
    <2>2. CASE evPrompts' = others /\ (End(p.run) \/ UNCHANGED evLock)
        BY <1>1, <2>2, EndFrees
    <2> QED  BY <1>3, <2>1, <2>2
<1>5. evJobs' = evJobs \/ evJobs' = evJobs \union {job}
    BY <1>3
<1>6. m \in Nat /\ "mix" \in Counting
    BY <1>1, SeenNat DEF Counting
<1>7. job \in Jobs /\ job.tx.kind \in Counting /\ job.prompt.kind = job.tx.kind /\ job.tx.kind = "mix"
    <2> HIDE DEF m
    <2> QED  BY <1>1, <1>6, JobMade
<1>8. JobFits(job, evChain)
    <2> HIDE DEF job
    <2> QED  BY <1>7 DEF JobFits
<1>9. evRuns' \in 0 .. EvMaxRuns
    BY <1>1, <1>2, EvTyped
<1> HIDE DEF job, others, m
<1> QED  BY <1>2, <1>4, <1>5, <1>7, <1>8, <1>9, ProtocolKeeps

\* The root asks every node of the rest to decrypt.
LEMMA BroadcastKeeps ==
    ASSUME EvTypeOK, NEW p \in EvPrompts, p.kind = "partial", NEW k \in Nat, Broadcast(p, k)
    PROVE  evPrompts' \subseteq EvPrompts /\ evLock' \in Locks
<1>1. p \in Prompts("partial", SUBSET EvNodeSet)
    BY DEF EvPrompts, Prompts
<1>2. \A n \in p.rest : n \in EvNodeSet
    BY <1>1 DEF Prompts
<1>3. ASSUME NEW n \in EvNodeSet
      PROVE  [p EXCEPT !.node = n, !.rest = {}, !.takesPart = TRUE] \in EvPrompts
    <2>1. [p EXCEPT !.node = n, !.rest = {}, !.takesPart = TRUE] \in Prompts("partial", SUBSET EvNodeSet)
        BY <1>1 DEF Prompts
    <2> QED  BY <2>1 DEF EvPrompts
<1>4. evPrompts' = (evPrompts \ {p}) \union {[p EXCEPT !.node = n, !.rest = {}, !.takesPart = TRUE] : n \in p.rest}
    BY DEF Broadcast
<1>5. evPrompts \subseteq EvPrompts /\ evLock \in Locks
    BY EvTyped
<1>6. evPrompts' \subseteq EvPrompts
    BY <1>2, <1>3, <1>4, <1>5
<1>7. evLock' \in Locks
    BY <1>5 DEF Broadcast, Locks
<1> QED  BY <1>6, <1>7

\* The root counts a reply.
LEMMA FinishKeeps ==
    ASSUME EvTypeOK, NEW r, NEW k \in Nat, Finish(r, k)
    PROVE  evLock' \in Locks
<1>1. Free \in Locks
    BY EvotingAssumption DEF Free, Locks
<1>2. evLock \in Locks
    BY EvTyped
<1>3. evLock.ok + k \in Nat
    BY <1>2 DEF Locks
<1>4. [evLock EXCEPT !.ok = @ + k] \in Locks
    BY <1>2, <1>3 DEF Locks
<1> QED  BY <1>1, <1>2, <1>4 DEF Finish

\* A node is asked to decrypt: what it makes is of the box.
LEMMA PromptDecryptKeeps ==
    ASSUME EvInv, NEW p \in evPrompts, HandlePromptDecrypt(p)
    PROVE  EvInv'
<1> DEFINE m == Cardinality(Partials(evChain))
           job == [prompt |-> p, seen |-> m,
                   tx |-> [kind |-> "partial", user |-> p.user, node |-> p.node, of |-> Source(evChain)]]
<1>1. EvTypeOK /\ p \in EvPrompts /\ evPrompts \subseteq EvPrompts /\ p.kind = "partial" /\ evLock \in Locks
    BY EvTyped DEF EvInv, HandlePromptDecrypt
<1>2. UNCHANGED <<evMaster, evChain, evClock, evRuns, evStore, evOpen, evDkg, evSecret>>
    BY DEF HandlePromptDecrypt, evHandlers, evKeys
<1>3. \/ evPrompts' = evPrompts \ {p} /\ evLock' = evLock /\ evJobs' = evJobs
      \/ evPrompts' = evPrompts \ {p} /\ evLock' = evLock /\ evJobs' = evJobs \union {job}
         /\ Cardinality(Mixes(evChain)) > target
      \/ Broadcast(p, m) /\ evJobs' = evJobs
    BY DEF HandlePromptDecrypt
<1>6. m \in Nat /\ "partial" \in Counting
    BY <1>1, SeenNat DEF Counting
<1>4. evPrompts' \subseteq EvPrompts /\ evLock' \in Locks
    <2> HIDE DEF m, job
    <2>1. CASE Broadcast(p, m)
        BY <1>1, <1>6, <2>1, BroadcastKeeps
    <2>2. CASE evPrompts' = evPrompts \ {p} /\ evLock' = evLock
        BY <1>1, <2>2
    <2> QED  BY <1>3, <2>1, <2>2
<1>5. evJobs' = evJobs \/ (evJobs' = evJobs \union {job} /\ Cardinality(Mixes(evChain)) > target)
    BY <1>3
<1>7. job \in Jobs /\ job.tx.kind \in Counting /\ job.prompt.kind = job.tx.kind
      /\ job.tx.of = Source(evChain)
    <2> HIDE DEF m
    <2> QED  BY <1>1, <1>6, JobMade
<1>8. Cardinality(Mixes(evChain)) > target /\ CountFits(evChain) => JobFits(job, evChain)
    <2>1. evChain \in Seq(EvTransactions)
        BY <1>1, EvTyped
    <2> HIDE DEF job
    <2> QED  BY <1>1, <1>7, <2>1, SourceIsBox, SeenNat DEF JobFits
<1>9. evRuns' \in 0 .. EvMaxRuns
    BY <1>1, <1>2, EvTyped
<1> HIDE DEF job, m
<1> QED  BY <1>2, <1>4, <1>5, <1>7, <1>8, <1>9, ProtocolKeeps

\* A node stores its mix or partial, however late.
LEMMA StoreJobKeeps ==
    ASSUME EvInv, NEW j \in evJobs, StoreMix(j) \/ StorePartial(j)
    PROVE  EvInv'
<1>1. /\ EvTypeOK /\ j \in Jobs /\ evPrompts \subseteq EvPrompts /\ evLock \in Locks
      /\ evChain \in Seq(EvTransactions) /\ evJobs \subseteq Jobs
      /\ j.tx.kind \in Counting /\ j.prompt.kind = j.tx.kind
    BY EvTyped DEF EvInv
<1>2. j.prompt \in EvPrompts /\ j.seen \in Nat /\ j.seen + 1 \in Nat /\ j.tx \in EvTransactions
    BY <1>1 DEF Jobs
<1>3. /\ evJobs' = evJobs \ {j}
      /\ UNCHANGED <<evMaster, evClock, evRuns, evStore, evOpen, evDkg, evSecret>>
    BY DEF StoreMix, StorePartial, evHandlers, evKeys
<1>4. \/ VerifyTx(j.tx, evChain) /\ evChain' = Append(evChain, j.tx)
      \/ UNCHANGED evChain
    BY DEF StoreMix, StorePartial
<1>5. evPrompts' \subseteq EvPrompts /\ evLock' \in Locks
    <2>1. CASE StoreMix(j)
        <3>1. j.prompt.kind = "mix"
            BY <1>1, <2>1 DEF StoreMix
        <3>2. CASE Continue(j.prompt, evPrompts, j.seen + 1)
            BY <1>1, <1>2, <3>1, <3>2, ContinueKeeps
        <3>3. CASE End(j.prompt.run) /\ UNCHANGED evPrompts
            BY <1>1, <3>3, EndFrees
        <3> QED  BY <2>1, <3>2, <3>3 DEF StoreMix
    <2>2. CASE StorePartial(j)
        <3>1. j.prompt.kind = "partial"
            BY <1>1, <2>2 DEF StorePartial
        <3>2. CASE Broadcast(j.prompt, j.seen + 1)
            BY <1>1, <1>2, <3>1, <3>2, BroadcastKeeps
        <3>3. CASE (Finish(j.prompt.run, 0) \/ Finish(j.prompt.run, 1)) /\ UNCHANGED evPrompts
            BY <1>1, <3>3, FinishKeeps
        <3> QED  BY <2>2, <3>2, <3>3 DEF StorePartial
    <2> QED  BY <2>1, <2>2
<1>6. CASE UNCHANGED evChain
    <2>1. evRuns' \in 0 .. EvMaxRuns
        BY <1>1, <1>3, EvTyped
    <2> QED  BY <1>3, <1>5, <1>6, <2>1, ProtocolKeeps
<1>7. CASE VerifyTx(j.tx, evChain) /\ evChain' = Append(evChain, j.tx)
    <2>1. j.tx.kind = "partial" => (Orderly(evChain) => CountBegan(evChain) /\ j.tx.of = Box(evChain))
        BY DEF EvInv, JobFits
    <2>2. TxAccepted(j.tx, evChain)
        BY <1>1, <1>2, <1>7, <2>1, VerifiedAccepted
    <2>3. evChain' \in Seq(EvTransactions) /\ Len(evChain') = Len(evChain) + 1 /\ Len(evChain) \in Nat
        BY <1>1, <1>2, <1>7, ChainGrows
    <2>4. evStore' \in Stores(evChain')
        <3>1. evStore \in Stores(evChain)
            BY <1>1, EvTyped
        <3>2. 1 .. Len(evChain) + 1 \subseteq 1 .. Len(evChain') + 1
            BY <2>3
        <3> QED  BY <1>3, <3>1, <3>2 DEF Stores
    <2>5. EvTypeOK'
        <3>1. evJobs' \subseteq Jobs
            BY <1>1, <1>3
        <3>2. EvTypeOK
            BY <1>1
        <3> QED  BY <3>2, <1>3, <1>5, <2>3, <2>4, <3>1, PromptsTyped DEF EvTypeOK, Stores, Locks
    <2> QED  BY <1>2, <1>3, <1>7, <2>2, <2>5, ChainExtended
<1> QED  BY <1>4, <1>6, <1>7

\* Every step of the e-voting keeps the invariant.
LEMMA EvStep ==
    ASSUME EvInv, EvNext \/ UNCHANGED evVars
    PROVE  EvInv'
<1>1. CASE UNCHANGED evVars
    <2>1. EvTypeOK'
        BY <1>1 DEF EvInv, EvTypeOK, evVars
    <2> QED  BY <1>1, <2>1, ChainKept DEF EvInv, evVars
<1>2. CASE EvNext
    BY <1>2, LinkKeeps, OpenElectionKeeps, UpdateCheckKeeps, UpdateStoreKeeps, StoreKeeps, SecretKeeps,
       TimeoutKeeps, CastKeeps, StartKeeps, PromptShuffleKeeps, PromptDecryptKeeps, StoreJobKeeps
       DEF EvNext
<1> QED  BY <1>1, <1>2

\* The invariant holds before anything is stored.
LEMMA EvStart ==
    ASSUME EvInit
    PROVE  EvInv
<1>1. EvTypeOK
    <2>1. Free \in Locks /\ 0 \in 0 .. EvMaxRuns
        BY EvotingAssumption DEF Free, Locks
    <2>2. << >> \in Seq(MasterBlocks) /\ << >> \in Seq(EvTransactions)
        OBVIOUS
    <2>3. NoTx \in Stores(evChain) /\ Idle \in Opens
        BY DEF Stores, Opens
    <2> QED  BY <2>1, <2>2, <2>3, EvTyped DEF EvInit
<1>2. evOpen.at # "checked" /\ evStore = NoTx /\ evJobs = {} /\ evChain = << >>
    BY DEF EvInit, Idle
<1>3. CountFits(evChain)
    BY <1>2 DEF CountFits, CountBegan
<1> QED  BY <1>1, <1>2, <1>3 DEF EvInv

\* The invariant of a behaviour that runs an election.
ElectionInv == active = "evoting" => EvInv

\* A step of a behaviour that runs an election is one of the election.
LEMMA EvSteps ==
    ASSUME active = "evoting", [SigningNext]_SigningVars
    PROVE  (EvNext \/ UNCHANGED evVars) /\ UNCHANGED active
BY DEF SigningNext, SigningVars

\* Unless an election block follows a ballot, nobody votes once a mix is stored,
\* every mix shuffles exactly the last ballot of every voter, and the partials,
\* once there are enough of them, decrypt that: for every number of nodes, voters
\* and runs, and also with mixes and partials of runs that the leader has given up
\* (evoting/lib Transaction.Verify, Box, Mixes, Partials; Service.Reconstruct).
THEOREM ElectionsAlwaysRight == SigningSpec => []ElectionsRight
<1>1. SigningInit => ElectionInv
    <2> SUFFICES ASSUME SigningInit, active = "evoting" PROVE EvInv
        BY DEF ElectionInv
    <2>1. EvInit
        BY DEF SigningInit
    <2> QED  BY <2>1, EvStart
<1>2. ElectionInv /\ [SigningNext]_SigningVars => ElectionInv'
    <2> SUFFICES ASSUME ElectionInv, [SigningNext]_SigningVars, active' = "evoting" PROVE EvInv'
        BY DEF ElectionInv
    <2>1. active = "evoting"
        BY ActiveStays
    <2>2. EvInv
        BY <2>1 DEF ElectionInv
    <2> QED  BY <2>1, <2>2, EvSteps, EvStep
<1>3. ElectionInv => ElectionsRight
    BY TallyFits DEF ElectionInv, ElectionsRight
<1> QED  BY <1>1, <1>2, <1>3, PTL DEF SigningSpec

-----------------------------------------------------------------------------
(* Forward links. A block is as high as the powers of the base that divide   *)
(* its index, so that a link of a level leads to a block of at least that    *)
(* height and is found again by its distance. The lists of all nodes hold    *)
(* such links only, whatever order they arrive in, and the leader has every  *)
(* block with the link to the next one: its walks cannot end early.          *)

\* The powers of the base.
LEMMA PowerIs ==
    /\ Power \in [Nat -> Nat] /\ Power[0] = 1
    /\ \A h \in Nat : Power[h + 1] = BaseHeight * Power[h]
<1> DEFINE Is(f) == f = [h \in Nat |-> IF h = 0 THEN 1 ELSE BaseHeight * f[h - 1]]
           F == [h \in Nat |-> [p \in Nat |-> BaseHeight * p]]
<1>1. BaseHeight \in Nat
    BY LinksAssumption
<1>2. F \in [Nat -> [Nat -> Nat]] /\ 1 \in Nat
    BY <1>1
<1>3. PICK f : IsNatRecursion(f, Nat, 1, F)
    <2> HIDE DEF F
    <2> QED  BY <1>2, NatRecursion
<1>4. Is(f)
    <2>1. f \in [Nat -> Nat] /\ f[0] = 1 /\ \A i \in Nat : i # 0 => f[i] = F[i][f[i-1]]
        BY <1>3 DEF IsNatRecursion
    <2>2. ASSUME NEW i \in Nat, i # 0 PROVE F[i][f[i - 1]] = BaseHeight * f[i - 1]
        <3>1. i - 1 \in Nat
            BY <2>2
        <3>2. f[i - 1] \in Nat
            BY <2>1, <3>1
        <3> QED  BY <3>2
    <2> HIDE DEF F
    <2> QED  BY <2>1, <2>2
<1>5. Power = CHOOSE g : Is(g)
    BY DEF Power
<1>6. Is(Power)
    <2> HIDE DEF Is
    <2> QED  BY <1>4, <1>5, Zenon
<1>7. \A h \in Nat : Power[h] = IF h = 0 THEN 1 ELSE BaseHeight * Power[h - 1]
    BY <1>6
<1>8. Power[0] = 1
    BY <1>7
<1>9. ASSUME NEW h \in Nat PROVE Power[h + 1] = BaseHeight * Power[h]
    <2>1. h + 1 \in Nat /\ h + 1 # 0 /\ (h + 1) - 1 = h
        OBVIOUS
    <2> QED  BY <1>7, <2>1
<1>10. \A h \in Nat : Power[h] \in Nat
    <2> DEFINE S == {h \in Nat : Power[h] \in Nat}
    <2>1. 0 \in S
        BY <1>8
    <2>2. ASSUME NEW h \in Nat, h \in S PROVE h + 1 \in S
        BY <1>1, <1>9, <2>2
    <2>3. \A h \in Nat : h \in S
        <3> HIDE DEF S
        <3> QED  BY <2>1, <2>2, NatSteps
    <2> QED  BY <2>3
<1>11. Power \in [Nat -> Nat]
    BY <1>6, <1>10
<1> QED  BY <1>8, <1>9, <1>11

\* They grow, and faster than their exponents.
LEMMA PowerGrows ==
    /\ \A h \in Nat : Power[h] \in Nat \ {0} /\ h < Power[h]
    /\ \A h, g \in Nat : h < g => Power[h] < Power[g]
<1>1. BaseHeight \in Nat /\ BaseHeight >= 2
    BY LinksAssumption
<1> DEFINE S == {h \in Nat : h < Power[h]}
<1>2. 0 \in S
    BY PowerIs
<1>3. ASSUME NEW h \in Nat, Power[h] >= 1 PROVE Power[h + 1] >= 2 * Power[h] /\ Power[h + 1] > Power[h]
    <2>1. Power[h] \in Nat /\ Power[h + 1] = BaseHeight * Power[h]
        BY PowerIs
    <2>2. 2 * Power[h] <= BaseHeight * Power[h]
        BY <1>1, <2>1, Products
    <2>3. Power[h + 1] >= 2 * Power[h]
        BY <2>1, <2>2
    <2>4. Power[h + 1] \in Nat
        BY PowerIs
    <2> QED  BY <1>3, <2>1, <2>3, <2>4
<1>4. ASSUME NEW h \in Nat, h \in S PROVE h + 1 \in S
    <2>1. Power[h] \in Nat /\ Power[h + 1] \in Nat /\ h < Power[h]
        BY <1>4, PowerIs
    <2>2. Power[h + 1] > Power[h]
        BY <1>3, <2>1
    <2> QED  BY <2>1, <2>2
<1>5. \A h \in Nat : h \in S
    <2> HIDE DEF S
    <2> QED  BY <1>2, <1>4, NatSteps
<1>6. \A h \in Nat : Power[h] \in Nat \ {0} /\ h < Power[h]
    BY <1>5, PowerIs
<1> DEFINE T == {g \in Nat : \A h \in Nat : h < g => Power[h] < Power[g]}
<1>7. 0 \in T
    OBVIOUS
<1>8. ASSUME NEW g \in Nat, g \in T PROVE g + 1 \in T
    <2>1. ASSUME NEW h \in Nat, h < g + 1 PROVE Power[h] < Power[g + 1]
        <3>1. Power[g] < Power[g + 1] /\ Power[g] \in Nat /\ Power[g + 1] \in Nat /\ Power[h] \in Nat
            BY <1>3, <1>6, PowerIs
        <3>2. h = g \/ Power[h] < Power[g]
            BY <1>8, <2>1
        <3> QED  BY <3>1, <3>2
    <2> QED  BY <2>1
<1>9. \A g \in Nat : g \in T
    <2> HIDE DEF T
    <2> QED  BY <1>7, <1>8, NatSteps
<1> QED  BY <1>6, <1>9

-----------------------------------------------------------------------------
(* Heights. A block is as high as the powers of the base that divide its index. *)

\* A number is a multiple of another if it leaves no remainder.
LEMMA Multiples ==
    ASSUME NEW i \in Nat, NEW p \in Nat, p # 0
    PROVE  i % p = 0 <=> \E q \in Nat : i = q * p
<1> DEFINE d == i \div p
           m == i % p
<1>1. d \in Nat /\ m \in 0 .. p - 1 /\ i = p * d + m
    OBVIOUS
<1>2. ASSUME m = 0 PROVE \E q \in Nat : i = q * p
    <2>1. i = d * p
        BY <1>1, <1>2
    <2> QED  BY <1>1, <2>1
<1>3. ASSUME NEW q \in Nat, i = q * p PROVE m = 0
    <2> HIDE DEF d, m
    <2>1. q * p = d * p + m
        BY <1>1, <1>3
    <2>2. CASE q <= d
        <3>1. q * p <= d * p /\ q * p \in Nat /\ d * p \in Nat
            BY <1>1, <2>2, Products
        <3> QED  BY <1>1, <2>1, <3>1
    <2>3. CASE d + 1 <= q
        <3>1. (d + 1) * p <= q * p /\ q * p \in Nat
            BY <1>1, <2>3, Products
        <3>2. (d + 1) * p = d * p + p /\ d * p \in Nat
            BY <1>1, Products
        <3> QED  BY <1>1, <2>1, <3>1, <3>2
    <2> QED  BY <1>1, <2>2, <2>3
<1> QED  BY <1>2, <1>3

Multiple(h, i) == \E q \in Nat : i = q * Power[h]

\* A multiple of a power is one of the lower powers.
LEMMA LowerPowers ==
    ASSUME NEW i \in Nat, NEW a \in Nat, Multiple(a, i)
    PROVE  \A h \in Nat : h <= a => Multiple(h, i)
<1> DEFINE S == {g \in Nat : Multiple(g, i) => \A h \in Nat : h <= g => Multiple(h, i)}
<1>1. 0 \in S
    <2>1. \A h \in Nat : h <= 0 => h = 0
        OBVIOUS
    <2> QED  BY <2>1
<1>2. ASSUME NEW g \in Nat, g \in S PROVE g + 1 \in S
    <2> SUFFICES ASSUME Multiple(g + 1, i) PROVE \A h \in Nat : h <= g + 1 => Multiple(h, i)
        OBVIOUS
    <2>1. PICK q \in Nat : i = q * Power[g + 1]
        BY DEF Multiple
    <2>2. Power[g + 1] = BaseHeight * Power[g] /\ Power[g] \in Nat /\ BaseHeight \in Nat
        BY PowerIs, LinksAssumption
    <2>3. q * (BaseHeight * Power[g]) = (q * BaseHeight) * Power[g] /\ q * BaseHeight \in Nat
        BY <2>2
    <2>4. i = (q * BaseHeight) * Power[g]
        BY <2>1, <2>2, <2>3
    <2>5. Multiple(g, i)
        BY <2>3, <2>4 DEF Multiple
    <2>6. \A h \in Nat : h <= g => Multiple(h, i)
        BY <1>2, <2>5
    <2>7. \A h \in Nat : h <= g + 1 => h <= g \/ h = g + 1
        OBVIOUS
    <2> QED  BY <2>6, <2>7
<1>3. a \in S
    <2> HIDE DEF S
    <2> QED  BY <1>1, <1>2, NatSteps
<1> QED  BY <1>3

\* What the height of a block says.
LEMMA HeightIs ==
    ASSUME NEW i \in Nat
    PROVE  /\ HeightOf(i) \in 1 .. MaximumHeight /\ MaximumHeight \in Nat
           /\ \A h \in Nat : h < HeightOf(i) <=> h < MaximumHeight /\ Multiple(h, i)
<1>1. MaximumHeight \in Nat /\ MaximumHeight >= 1
    BY LinksAssumption
<1>2. CASE i = 0
    <2>1. HeightOf(i) = MaximumHeight
        BY <1>2 DEF HeightOf
    <2>2. ASSUME NEW h \in Nat PROVE Multiple(h, i)
        <3>1. Power[h] \in Nat
            BY PowerIs
        <3>2. i = 0 * Power[h]
            BY <1>2, <3>1
        <3> QED  BY <3>2 DEF Multiple
    <2> QED  BY <1>1, <2>1, <2>2
<1>3. CASE i # 0
    <2> DEFINE S == {h \in 1 .. MaximumHeight : i % Power[h - 1] = 0}
    <2>1. \A h \in 1 .. MaximumHeight : h \in S <=> Multiple(h - 1, i)
        <3>1. ASSUME NEW h \in 1 .. MaximumHeight PROVE h \in S <=> Multiple(h - 1, i)
            <4>1. h - 1 \in Nat
                BY <1>1
            <4>2. Power[h - 1] \in Nat /\ Power[h - 1] # 0
                BY <4>1, PowerGrows
            <4>3. i % Power[h - 1] = 0 <=> Multiple(h - 1, i)
                BY <4>2, Multiples DEF Multiple
            <4> QED  BY <4>3
        <3> QED  BY <3>1
    <2>2. 1 \in S
        <3>1. i = i * Power[0]
            BY PowerIs
        <3>2. Multiple(1 - 1, i)
            BY <3>1 DEF Multiple
        <3>3. 1 \in 1 .. MaximumHeight
            BY <1>1
        <3> HIDE DEF S
        <3> QED  BY <2>1, <3>2, <3>3
    <2>3. S \in SUBSET Nat /\ S # {} /\ \A x \in S : x <= MaximumHeight
        BY <1>1, <2>2
    <2>4. HeightOf(i) = Max(S)
        BY <1>3 DEF HeightOf
    <2>5. S \subseteq 1 .. MaximumHeight
        OBVIOUS
    <2> HIDE DEF S
    <2>6. Max(S) \in S /\ \A x \in S : x <= Max(S)
        BY <1>1, <2>3, MaxNat
    <2>7. Max(S) \in 1 .. MaximumHeight /\ Multiple(Max(S) - 1, i)
        BY <2>1, <2>5, <2>6
    <2> DEFINE m == Max(S)
    <2> HIDE DEF m
    <2>8. m \in 1 .. MaximumHeight /\ m - 1 \in Nat /\ m \in Nat
        BY <1>1, <2>7 DEF m
    <2>9. ASSUME NEW h \in Nat, h < m PROVE h < MaximumHeight /\ Multiple(h, i)
        <3>1. h <= m - 1 /\ h < MaximumHeight
            BY <1>1, <2>8, <2>9
        <3> QED  BY <2>7, <2>8, <3>1, LowerPowers DEF m
    <2>10. ASSUME NEW h \in Nat, h < MaximumHeight, Multiple(h, i) PROVE h < m
        <3>1. h + 1 \in 1 .. MaximumHeight /\ (h + 1) - 1 = h
            BY <1>1, <2>10
        <3>2. h + 1 \in S
            BY <2>1, <2>10, <3>1
        <3>3. h + 1 <= m
            BY <2>6, <3>2 DEF m
        <3> QED  BY <2>8, <3>3
    <2> QED  BY <1>1, <2>4, <2>8, <2>9, <2>10 DEF m
<1> QED  BY <1>2, <1>3

\* The block that a link of level h leads to is high enough, and its back-link of
\* that level leads back.
LEMMA LinkedBack ==
    ASSUME NEW i \in Nat, NEW h \in Nat, h < HeightOf(i), NEW j, j = i + Power[h]
    PROVE  h < HeightOf(j) /\ BackLink(j, h) = i /\ i \in BackLinks(j)
<1> DEFINE p == Power[h]
<1>1. p \in Nat /\ p # 0 /\ j \in Nat /\ i < j /\ j # 0
    BY PowerGrows
<1>2. h < MaximumHeight /\ Multiple(h, i) /\ MaximumHeight \in Nat
    BY HeightIs
<1>3. PICK q \in Nat : i = q * p
    BY <1>2 DEF Multiple
<1> HIDE DEF p
<1>4. j = (q + 1) * p /\ q + 1 \in Nat
    BY <1>1, <1>3, Products DEF p
<1>5. h < HeightOf(j)
    <2>1. Multiple(h, j)
        BY <1>4 DEF Multiple, p
    <2> QED  BY <1>1, <1>2, <2>1, HeightIs
<1> DEFINE S == {m \in 0 .. j - 1 : HeightOf(m) > h}
<1>6. i \in S
    <2>1. i \in 0 .. j - 1 /\ HeightOf(i) \in Nat
        BY <1>1, HeightIs
    <2> QED  BY <2>1
<1>7. ASSUME NEW m \in S PROVE m <= i
    <2>1. m \in Nat /\ m < j /\ HeightOf(m) > h /\ HeightOf(m) \in Nat
        BY <1>1, HeightIs
    <2>2. Multiple(h, m)
        BY <2>1, HeightIs
    <2>3. PICK r \in Nat : m = r * p
        BY <2>2 DEF Multiple, p
    <2>4. CASE r <= q
        BY <1>1, <1>3, <2>3, <2>4, Products
    <2>5. CASE q + 1 <= r
        <3>1. (q + 1) * p <= r * p
            BY <1>1, <1>4, <2>5, Products
        <3> QED  BY <1>1, <1>4, <2>1, <2>3, <3>1
    <2> QED  BY <2>4, <2>5
<1>8. S \in SUBSET Nat /\ S # {}
    BY <1>6
<1>9. BackLink(j, h) = Max(S)
    BY DEF BackLink
<1> HIDE DEF S
<1>10. Max(S) \in S /\ \A x \in S : x <= Max(S)
    BY <1>7, <1>8, MaxNat
<1>11. Max(S) = i
    <2>1. Max(S) \in Nat /\ Max(S) <= i /\ i <= Max(S)
        BY <1>6, <1>7, <1>8, <1>10
    <2> QED  BY <2>1
<1>12. h \in 0 .. HeightOf(j) - 1
    BY <1>1, <1>5, HeightIs
<1> QED  BY <1>5, <1>9, <1>11, <1>12 DEF BackLinks

\* The level of a distance that is a power.
LEMMA LevelIs ==
    ASSUME NEW h \in Nat, h <= MaxIndex
    PROVE  Level(Power[h]) = h
<1> DEFINE S == {g \in 0 .. MaxIndex : Power[g] <= Power[h]}
<1>1. MaxIndex \in Nat /\ Power[h] \in Nat
    BY LinksAssumption, PowerIs
<1>2. h \in S
    BY <1>1
<1>3. ASSUME NEW g \in S PROVE g <= h
    <2>1. g \in Nat /\ Power[g] <= Power[h] /\ Power[g] \in Nat
        BY <1>1, PowerIs
    <2>2. ~(h < g)
        BY <1>1, <2>1, PowerGrows
    <2> QED  BY <2>1, <2>2
<1>4. S \in SUBSET Nat /\ S # {}
    BY <1>1, <1>2
<1>5. Level(Power[h]) = Max(S)
    BY DEF Level
<1> HIDE DEF S
<1>6. Max(S) \in S /\ \A x \in S : x <= Max(S)
    BY <1>3, <1>4, MaxNat
<1>7. Max(S) \in Nat /\ Max(S) <= h /\ h <= Max(S)
    BY <1>2, <1>3, <1>4, <1>6
<1> QED  BY <1>5, <1>7

\* A back-link leads to a block before.
LEMMA BackLinkType ==
    ASSUME NEW j \in Nat, j # 0, NEW h \in Nat, h < MaximumHeight
    PROVE  BackLink(j, h) \in 0 .. j - 1
<1> DEFINE S == {m \in 0 .. j - 1 : HeightOf(m) > h}
<1>1. 0 \in S
    <2>1. HeightOf(0) = MaximumHeight /\ MaximumHeight \in Nat
        BY LinksAssumption DEF HeightOf
    <2> QED  BY <2>1
<1>2. S \in SUBSET Nat /\ S # {} /\ (\A x \in S : x <= j) /\ S \subseteq 0 .. j - 1
    BY <1>1
<1>3. BackLink(j, h) = Max(S)
    BY DEF BackLink
<1> HIDE DEF S
<1>4. Max(S) \in S
    BY <1>2, MaxNat
<1> QED  BY <1>2, <1>3, <1>4

-----------------------------------------------------------------------------
(* Walks. A step goes forward or stays, so that a walk ends.               *)

Forward(next, S) == \A i \in S : next[i] \in S /\ (next[i] = i \/ i < next[i])

\* w is the walk from start.
IsWalk(w, next, S, start) ==
    /\ w \in Seq(S) /\ Len(w) >= 1 /\ w[1] = start
    /\ \A k \in 1 .. Len(w) - 1 : w[k + 1] = next[w[k]] /\ w[k + 1] # w[k]
    /\ w[Len(w)] \in S /\ next[w[Len(w)]] = w[Len(w)]

\* A walk visits known blocks, each after the one before, until it stands still.
LEMMA WalkIs ==
    ASSUME NEW S \in SUBSET Indexes, NEW next, Forward(next, S), NEW start \in S
    PROVE  IsWalk(Walk(next, start), next, S, start)
<1> DEFINE n == MaxIndex
           Is(a) == a = [k \in Indexes |-> IF k = 0 THEN start ELSE next[a[k - 1]]]
           at == CHOOSE a : Is(a)
           F == [k \in 1 .. n |-> [i \in S |-> next[i]]]
           E == {m \in Indexes : next[at[m]] = at[m]}
<1>1. n \in Nat /\ Indexes = 0 .. n /\ S \subseteq 0 .. n
    BY LinksAssumption DEF Indexes
<1>2. F \in [1 .. n -> [S -> S]]
    BY DEF Forward
<1>3. \E a : Is(a)
    <2>1. PICK a : IsRecursion(a, n, S, start, F)
        <3> HIDE DEF F, n
        <3> QED  BY <1>1, <1>2, RecursionExists, Zenon
    <2>2. a \in [0 .. n -> S] /\ a[0] = start /\ \A k \in 1 .. n : a[k] = F[k][a[k - 1]]
        BY <2>1 DEF IsRecursion
    <2>3. ASSUME NEW k \in 1 .. n PROVE a[k] = next[a[k - 1]]
        <3>1. k - 1 \in 0 .. n
            BY <1>1
        <3>2. a[k - 1] \in S
            BY <2>2, <3>1
        <3> QED  BY <2>2, <3>2
    <2>4. \A k \in 0 .. n : k # 0 => k \in 1 .. n
        BY <1>1
    <2>5. \A k \in 0 .. n : a[k] = IF k = 0 THEN start ELSE next[a[k - 1]]
        BY <2>2, <2>3, <2>4
    <2>6. Is(a)
        <3> HIDE DEF F, n
        <3> QED  BY <1>1, <2>2, <2>5
    <2> QED  BY <2>6
<1>4. Is(at)
    <2> HIDE DEF Is
    <2> QED  BY <1>3, Zenon
<1>5. Walk(next, start) = [k \in 1 .. Min(E) + 1 |-> at[k - 1]]
    BY DEF Walk
<1>6. \A k \in 0 .. n : at[k] = IF k = 0 THEN start ELSE next[at[k - 1]]
    <2> HIDE DEF at, n
    <2> QED  BY <1>1, <1>4
<1> HIDE DEF at, F, Is
<1>7. at[0] = start /\ \A k \in Nat : k + 1 <= n => at[k + 1] = next[at[k]]
    <2>1. 0 \in 0 .. n
        BY <1>1
    <2>2. ASSUME NEW k \in Nat, k + 1 <= n PROVE at[k + 1] = next[at[k]]
        <3>1. k + 1 \in 0 .. n /\ k + 1 # 0 /\ (k + 1) - 1 = k
            BY <1>1, <2>2
        <3> QED  BY <1>6, <3>1
    <2> QED  BY <1>6, <2>1, <2>2
<1> DEFINE T == {k \in Nat : k <= n => at[k] \in S /\ (k <= at[k] \/ \E m \in E : m < k)}
<1>8. 0 \in T
    <2>1. at[0] \in S /\ 0 <= at[0]
        BY <1>1, <1>7
    <2> QED  BY <2>1
<1>9. ASSUME NEW k \in Nat, k \in T PROVE k + 1 \in T
    <2> SUFFICES ASSUME k + 1 <= n
                 PROVE  at[k + 1] \in S /\ (k + 1 <= at[k + 1] \/ \E m \in E : m < k + 1)
        OBVIOUS
    <2>1. k <= n /\ k \in Indexes /\ at[k] \in S /\ (k <= at[k] \/ \E m \in E : m < k)
        BY <1>1, <1>9
    <2>2. at[k + 1] = next[at[k]]
        BY <1>7
    <2>3. at[k + 1] \in S /\ (at[k + 1] = at[k] \/ at[k] < at[k + 1])
        BY <2>1, <2>2 DEF Forward
    <2>0. \A x \in S : x \in Nat
        BY <1>1
    <2>4. at[k] \in Nat /\ at[k + 1] \in Nat
        BY <2>0, <2>1, <2>3
    <2>5. CASE at[k + 1] = at[k]
        <3>1. next[at[k]] = at[k]
            BY <2>2, <2>5
        <3>2. k \in E
            BY <2>1, <3>1
        <3>3. k < k + 1
            OBVIOUS
        <3> QED  BY <2>3, <3>2, <3>3
    <2>6. CASE at[k] < at[k + 1] /\ k <= at[k]
        BY <2>3, <2>4, <2>6
    <2>7. ASSUME NEW m \in E, m < k PROVE m < k + 1
        BY <1>1, <2>7
    <2> QED  BY <2>1, <2>3, <2>5, <2>6, <2>7
<1>10. \A k \in Nat : k \in T
    <2> HIDE DEF T
    <2> QED  BY <1>8, <1>9, NatSteps
<1>11. \A k \in 0 .. n : at[k] \in S
    BY <1>1, <1>10
<1>12. E # {}
    <2> SUFFICES ASSUME E = {} PROVE FALSE
        OBVIOUS
    <2>1. n <= at[n] /\ at[n] \in S
        BY <1>1, <1>10
    <2>2. next[at[n]] # at[n]
        BY <1>1
    <2>3. next[at[n]] \in S /\ at[n] < next[at[n]]
        BY <2>1, <2>2 DEF Forward
    <2>4. at[n] \in 0 .. n /\ next[at[n]] \in 0 .. n
        BY <1>1, <2>1, <2>3
    <2> QED  BY <1>1, <2>1, <2>3, <2>4
<1> DEFINE e == Min(E)
<1>13. e \in E /\ \A m \in E : e <= m
    <2>1. E \in SUBSET Nat
        BY <1>1
    <2> HIDE DEF E
    <2>2. \E x \in E : \A y \in E : x <= y
        BY <1>12, <2>1, LeastNat
    <2> QED  BY <2>2 DEF Min
<1> HIDE DEF e
<1>14. e \in 0 .. n /\ e \in Nat /\ next[at[e]] = at[e]
    BY <1>1, <1>13
<1> DEFINE w == [k \in 1 .. e + 1 |-> at[k - 1]]
<1>15. \A k \in 1 .. e + 1 : k - 1 \in 0 .. n
    BY <1>1, <1>14
<1>16. w \in Seq(S) /\ Len(w) = e + 1
    <2>1. w \in [1 .. e + 1 -> S]
        BY <1>11, <1>15
    <2>2. e + 1 \in Nat
        BY <1>14
    <2> HIDE DEF w
    <2>3. w \in Seq(S)
        BY <2>1, <2>2, SeqDef
    <2> QED  BY <2>1, <2>2, <2>3
<1>17. w[1] = start /\ w[e + 1] = at[e]
    BY <1>7, <1>14
<1>18. ASSUME NEW k \in 1 .. e PROVE w[k + 1] = next[w[k]] /\ w[k + 1] # w[k]
    <2>1. k \in Nat /\ k - 1 \in Nat /\ k <= n /\ k - 1 < e /\ k - 1 \in 0 .. n
        BY <1>1, <1>14, <1>18
    <2>2. w[k + 1] = at[k] /\ w[k] = at[k - 1]
        BY <1>14, <1>18
    <2>3. at[k] = next[at[k - 1]]
        BY <1>6, <2>1
    <2>4. k - 1 \notin E
        BY <1>1, <1>13, <1>14, <2>1
    <2>5. next[at[k - 1]] # at[k - 1]
        BY <1>1, <2>1, <2>4
    <2> QED  BY <2>2, <2>3, <2>5
<1>19. Walk(next, start) = w
    BY <1>5 DEF e
<1>20. Len(w) >= 1 /\ 1 .. Len(w) - 1 = 1 .. e /\ w[Len(w)] = at[e] /\ at[e] \in S
    BY <1>11, <1>14, <1>16, <1>17
<1> HIDE DEF w, E, T
<1>21. IsWalk(w, next, S, start)
    BY <1>14, <1>16, <1>17, <1>18, <1>20 DEF IsWalk
<1> QED  BY <1>19, <1>21

-----------------------------------------------------------------------------
(* The databases. The list of a block has links of their levels, to blocks up *)
(* to the newest one, and holes, but not at its end.                          *)

Lists == Seq(Indexes \union {EmptyLink})
Dbs == UNION {[B -> Lists] : B \in SUBSET Indexes}
LinkFits(i, k, to, top) == to = EmptyLink \/ (to = i + Power[k - 1] /\ to <= top)
ListFits(i, links, top) ==
    /\ links \in Lists /\ Len(links) <= HeightOf(i)
    /\ \A k \in DOMAIN links : LinkFits(i, k, links[k], top)
    /\ links # << >> => links[Len(links)] # EmptyLink
DbFits(d, top) ==
    /\ d \in Dbs /\ Blocks(d) \subseteq 0 .. top /\ 0 \in Blocks(d)
    /\ \A i \in Blocks(d) : ListFits(i, d[i], top)
BlockFits(b, top) == b.i \in 0 .. top /\ ListFits(b.i, b.links, top)
\* The list m has the links of l, and maybe more.
Longer(l, m) == Len(l) <= Len(m) /\ \A k \in 1 .. Len(l) : m[k] = l[k]
\* e has the blocks and the links of d, and maybe more.
ExtendsDb(d, e) ==
    /\ Blocks(d) \subseteq Blocks(e)
    /\ \A i \in Blocks(d) : Longer(d[i], e[i])

\* An empty list, of any block.
LEMMA EmptyFits ==
    ASSUME NEW i \in Nat, NEW top
    PROVE  ListFits(i, << >>, top)
<1>1. << >> \in Lists /\ Len(<< >>) = 0 /\ DOMAIN << >> = {}
    BY DEF Lists
<1>2. 0 <= HeightOf(i)
    BY HeightIs
<1> QED  BY <1>1, <1>2 DEF ListFits

\* A list of links is a list, whoever made it.
LEMMA MadeList ==
    ASSUME NEW n \in Nat, NEW i \in Nat, NEW l, NEW top, n <= HeightOf(i), l = [k \in 1 .. n |-> l[k]],
           \A k \in 1 .. n : l[k] \in Indexes \union {EmptyLink} /\ LinkFits(i, k, l[k], top),
           n # 0 => l[n] # EmptyLink
    PROVE  ListFits(i, l, top) /\ Len(l) = n
<1>1. l \in [1 .. n -> Indexes \union {EmptyLink}]
    OBVIOUS
<1>2. l \in Lists
    BY <1>1, SeqDef DEF Lists
<1>3. DOMAIN l = 1 .. n /\ Len(l) = n
    BY <1>1, <1>2 DEF Lists
<1>4. l # << >> => n # 0
    BY <1>2, <1>3 DEF Lists
<1> QED  BY <1>2, <1>3, <1>4 DEF ListFits

\* The facts of a list that fits.
LEMMA ListFacts ==
    ASSUME NEW i, NEW l, NEW top, ListFits(i, l, top)
    PROVE  /\ Len(l) \in Nat /\ DOMAIN l = 1 .. Len(l) /\ l = [k \in 1 .. Len(l) |-> l[k]]
           /\ \A k \in 1 .. Len(l) : l[k] \in Indexes \union {EmptyLink} /\ LinkFits(i, k, l[k], top)
           /\ Len(l) # 0 => l[Len(l)] # EmptyLink
           /\ l # << >> <=> Len(l) # 0
<1>1. l \in Seq(Indexes \union {EmptyLink})
    BY DEF ListFits, Lists
<1>2. /\ Len(l) \in Nat /\ DOMAIN l = 1 .. Len(l) /\ l = [k \in 1 .. Len(l) |-> l[k]]
      /\ \A k \in 1 .. Len(l) : l[k] \in Indexes \union {EmptyLink}
    BY <1>1
<1>3. l # << >> <=> Len(l) # 0
    BY <1>1
<1> QED  BY <1>2, <1>3 DEF ListFits

\* The links that a known block gets.
LEMMA MergedFits ==
    ASSUME NEW d, NEW b, NEW top, NEW i \in Nat, i = b.i, ListFits(i, d[i], top), ListFits(i, b.links, top)
    PROVE  ListFits(i, Merged(d, b), top) /\ Longer(d[i], Merged(d, b))
<1> DEFINE new == NewLinks(d, b)
           m == Max(new)
           l == [k \in 1 .. m |-> IF k <= Len(d[i]) THEN d[i][k] ELSE IF k \in new THEN b.links[k] ELSE EmptyLink]
<1>1. Len(d[i]) \in Nat /\ Len(b.links) \in Nat
    BY ListFacts
<1>2. new \subseteq Len(d[i]) + 1 .. Len(b.links) /\ \A k \in new : b.links[k] # EmptyLink /\ k <= HeightOf(i)
    BY DEF NewLinks
<1>3. Merged(d, b) = IF new = {} THEN d[i] ELSE l
    BY DEF Merged
<1>4. CASE new = {}
    BY <1>1, <1>3, <1>4 DEF Longer
<1>5. CASE new # {}
    <2>0. Merged(d, b) = l
        BY <1>3, <1>5
    <2>1. new \in SUBSET Nat /\ \A x \in new : x <= Len(b.links)
        BY <1>1, <1>2
    <2> HIDE DEF new
    <2>2. m \in new
        BY <1>1, <1>5, <2>1, MaxNat
    <2> HIDE DEF m
    <2>3. m \in Nat /\ Len(d[i]) < m /\ m <= HeightOf(i) /\ m <= Len(b.links) /\ b.links[m] # EmptyLink
        BY <1>1, <1>2, <2>1, <2>2
    <2>4. l = [k \in 1 .. m |-> l[k]]
        OBVIOUS
    <2>5. ASSUME NEW k \in 1 .. m
          PROVE  l[k] \in Indexes \union {EmptyLink} /\ LinkFits(i, k, l[k], top)
        <3>1. CASE k <= Len(d[i])
            <4>1. k \in 1 .. Len(d[i]) /\ l[k] = d[i][k]
                BY <1>1, <2>3, <3>1
            <4> HIDE DEF l
            <4> QED  BY <4>1, ListFacts
        <3>2. CASE ~(k <= Len(d[i])) /\ k \in new
            <4>1. k \in 1 .. Len(b.links) /\ l[k] = b.links[k]
                BY <1>1, <2>3, <3>2
            <4> HIDE DEF l
            <4> QED  BY <4>1, ListFacts
        <3>3. CASE ~(k <= Len(d[i])) /\ k \notin new
            <4>1. l[k] = EmptyLink
                BY <3>3
            <4> HIDE DEF l
            <4> QED  BY <4>1 DEF LinkFits
        <3> QED  BY <3>1, <3>2, <3>3
    <2>6. l[m] # EmptyLink
        <3>1. m \in 1 .. m /\ ~(m <= Len(d[i]))
            BY <1>1, <2>3
        <3>2. l[m] = b.links[m]
            BY <2>2, <3>1
        <3> QED  BY <2>3, <3>2
    <2>7. \A k \in 1 .. Len(d[i]) : l[k] = d[i][k]
        BY <1>1, <2>3
    <2> HIDE DEF l
    <2>8. ListFits(i, l, top) /\ Len(l) = m
        BY <2>3, <2>4, <2>5, <2>6, MadeList
    <2> QED  BY <1>1, <2>0, <2>3, <2>7, <2>8 DEF Longer
<1> QED  BY <1>4, <1>5

\* One block is added to a database.
AddBlock(e, b) == [i \in Blocks(e) \union {b.i} |->
                      IF i # b.i THEN e[i] ELSE IF i \in Blocks(e) THEN Merged(e, b) ELSE b.links]

\* The block that is added is there, and what was there stays.
LEMMA AddFits ==
    ASSUME NEW top \in Indexes, NEW e, DbFits(e, top), NEW b, BlockFits(b, top)
    PROVE  DbFits(AddBlock(e, b), top) /\ ExtendsDb(e, AddBlock(e, b)) /\ b.i \in Blocks(AddBlock(e, b))
<1> DEFINE f == AddBlock(e, b)
           B == Blocks(e) \union {b.i}
<1>1. B \subseteq 0 .. top /\ 0 \in B /\ 0 .. top \subseteq Indexes /\ 0 .. top \subseteq Nat
    BY LinksAssumption DEF DbFits, BlockFits, Indexes
<1>2. Blocks(f) = B
    BY DEF AddBlock, Blocks
<1>3. ASSUME NEW i \in B
      PROVE  /\ ListFits(i, f[i], top)
             /\ i \in Blocks(e) => Longer(e[i], f[i])
    <2>0. i \in Nat
        BY <1>1
    <2>1. CASE i # b.i
        <3>1. f[i] = e[i] /\ i \in Blocks(e)
            BY <2>1 DEF AddBlock
        <3>2. ListFits(i, e[i], top)
            BY <3>1 DEF DbFits
        <3>3. Len(e[i]) \in Nat
            BY <3>2, ListFacts
        <3> HIDE DEF f
        <3> QED  BY <3>1, <3>2, <3>3 DEF Longer
    <2>2. CASE i = b.i /\ i \in Blocks(e)
        <3>1. f[i] = Merged(e, b)
            BY <2>2 DEF AddBlock
        <3>2. ListFits(i, e[i], top) /\ ListFits(i, b.links, top)
            BY <2>2 DEF DbFits, BlockFits
        <3> HIDE DEF f
        <3>3. i = b.i
            BY <2>2
        <3>4. ListFits(i, Merged(e, b), top) /\ Longer(e[i], Merged(e, b))
            BY <2>0, <3>2, <3>3, MergedFits
        <3> QED  BY <3>1, <3>4
    <2>3. CASE i = b.i /\ i \notin Blocks(e)
        <3>1. f[i] = b.links
            BY <2>3 DEF AddBlock
        <3> HIDE DEF f
        <3> QED  BY <2>3, <3>1 DEF BlockFits
    <2> QED  BY <2>1, <2>2, <2>3
<1>4. f \in Dbs
    <2>1. \A i \in B : f[i] \in Lists
        BY <1>3 DEF ListFits
    <2>2. f = [i \in B |-> f[i]]
        BY DEF AddBlock
    <2> HIDE DEF f, B
    <2>3. f \in [B -> Lists] /\ B \in SUBSET Indexes
        BY <1>1, <2>1, <2>2
    <2> QED  BY <2>3 DEF Dbs
<1> HIDE DEF f
<1> QED  BY <1>1, <1>2, <1>3, <1>4 DEF DbFits, ExtendsDb, f

\* What was there stays, step after step.
LEMMA ExtendsTransitive ==
    ASSUME NEW top, NEW c, NEW d, NEW e, DbFits(c, top), DbFits(d, top), DbFits(e, top),
           ExtendsDb(c, d), ExtendsDb(d, e)
    PROVE  ExtendsDb(c, e)
<1>1. Blocks(c) \subseteq Blocks(e)
    BY DEF ExtendsDb
<1>2. ASSUME NEW i \in Blocks(c)
      PROVE  Longer(c[i], e[i])
    <2>1. i \in Blocks(d) /\ i \in Blocks(e)
        BY DEF ExtendsDb
    <2>2. Len(c[i]) \in Nat /\ Len(d[i]) \in Nat /\ Len(e[i]) \in Nat
        BY <2>1, ListFacts DEF DbFits
    <2>3. Len(c[i]) <= Len(d[i]) /\ Len(d[i]) <= Len(e[i])
        BY <2>1 DEF ExtendsDb, Longer
    <2>4. ASSUME NEW k \in 1 .. Len(c[i]) PROVE e[i][k] = c[i][k]
        <3>1. k \in 1 .. Len(d[i])
            BY <2>2, <2>3
        <3>2. d[i][k] = c[i][k]
            BY DEF ExtendsDb, Longer
        <3>3. e[i][k] = d[i][k]
            BY <2>1, <3>1 DEF ExtendsDb, Longer
        <3> QED  BY <3>2, <3>3
    <2> QED  BY <2>2, <2>3, <2>4 DEF Longer
<1> QED  BY <1>1, <1>2 DEF ExtendsDb

\* A database has what it has.
LEMMA ExtendsSelf ==
    ASSUME NEW top, NEW d, DbFits(d, top)
    PROVE  ExtendsDb(d, d)
<1>1. \A i \in Blocks(d) : Len(d[i]) \in Nat
    BY ListFacts DEF DbFits
<1> QED  BY <1>1 DEF ExtendsDb, Longer

\* The condition under which blocks are stored.
Linkable(d, blocks) ==
    \A k \in DOMAIN blocks :
        /\ \/ blocks[k].i \in Blocks(d)
           \/ HasForwardLink(d, blocks[k].i)
           \/ \E j \in 1 .. k - 1 : blocks[k].i \in ToSet(blocks[j].links)
        /\ Len(blocks[k].links) <= HeightOf(blocks[k].i)

\* What is stored fits.
LEMMA StoreFits ==
    ASSUME NEW top \in Indexes, NEW d, DbFits(d, top), NEW blocks, Len(blocks) \in Nat,
           \A k \in 1 .. Len(blocks) : BlockFits(blocks[k], top)
    PROVE  /\ DbFits(StoreBlocks(d, blocks), top) /\ ExtendsDb(d, StoreBlocks(d, blocks))
           /\ Linkable(d, blocks) => \E a : /\ StoreBlocks(d, blocks) = a[Len(blocks)] /\ a[0] = d
                                            /\ \A k \in 1 .. Len(blocks) : a[k] = AddBlock(a[k - 1], blocks[k])
                                            /\ \A k \in 0 .. Len(blocks) : DbFits(a[k], top)
<1> DEFINE n == Len(blocks)
           V == {e \in Dbs : DbFits(e, top) /\ ExtendsDb(d, e)}
           Is(a) == a = [k \in 0 .. n |-> IF k = 0 THEN d ELSE AddBlock(a[k - 1], blocks[k])]
           after == CHOOSE a : Is(a)
           F == [k \in 1 .. n |-> [e \in V |-> AddBlock(e, blocks[k])]]
<1>1. d \in V
    BY ExtendsSelf DEF DbFits
<1>2. F \in [1 .. n -> [V -> V]]
    <2>1. ASSUME NEW k \in 1 .. n, NEW e \in V PROVE AddBlock(e, blocks[k]) \in V
        <3>1. DbFits(e, top) /\ ExtendsDb(d, e) /\ BlockFits(blocks[k], top)
            OBVIOUS
        <3>2. DbFits(AddBlock(e, blocks[k]), top) /\ ExtendsDb(e, AddBlock(e, blocks[k]))
            BY <3>1, AddFits
        <3>3. ExtendsDb(d, AddBlock(e, blocks[k]))
            BY <3>1, <3>2, ExtendsTransitive
        <3> QED  BY <3>2, <3>3 DEF DbFits
    <2> QED  BY <2>1
<1>3. PICK a : IsRecursion(a, n, V, d, F)
    <2>1. n \in Nat
        OBVIOUS
    <2> HIDE DEF F, n, V
    <2> QED  BY <1>1, <1>2, <2>1, RecursionExists, Zenon
<1>4. a \in [0 .. n -> V] /\ a[0] = d /\ \A k \in 1 .. n : a[k] = F[k][a[k - 1]]
    BY <1>3 DEF IsRecursion
<1>5. ASSUME NEW k \in 1 .. n PROVE a[k] = AddBlock(a[k - 1], blocks[k])
    <2>1. k - 1 \in 0 .. n
        OBVIOUS
    <2>2. a[k - 1] \in V
        BY <1>4, <2>1
    <2> HIDE DEF V
    <2> QED  BY <1>4, <2>2
<1>6. \A k \in 0 .. n : a[k] = IF k = 0 THEN d ELSE AddBlock(a[k - 1], blocks[k])
    <2>1. \A k \in 0 .. n : k # 0 => k \in 1 .. n
        OBVIOUS
    <2> QED  BY <1>4, <1>5, <2>1
<1>7. Is(a)
    <2> HIDE DEF V, F, n
    <2> QED  BY <1>4, <1>6
<1>8. Is(after)
    <2> HIDE DEF Is
    <2> QED  BY <1>7, Zenon
<1>9. StoreBlocks(d, blocks) = IF Linkable(d, blocks) THEN after[n] ELSE d
    BY DEF StoreBlocks, Linkable, AddBlock
<1>10. \A k \in 0 .. n : after[k] = IF k = 0 THEN d ELSE AddBlock(after[k - 1], blocks[k])
    <2> HIDE DEF after, n
    <2> QED  BY <1>8
<1> HIDE DEF after
<1> DEFINE S == {k \in Nat : k <= n => after[k] \in V}
<1>11. 0 \in S
    BY <1>1, <1>10
<1>12. ASSUME NEW k \in Nat, k \in S PROVE k + 1 \in S
    <2> SUFFICES ASSUME k + 1 <= n PROVE after[k + 1] \in V
        OBVIOUS
    <2>1. k + 1 \in 1 .. n /\ k + 1 \in 0 .. n /\ (k + 1) - 1 = k /\ after[k] \in V /\ k + 1 # 0
        BY <1>12
    <2>2. after[k + 1] = AddBlock(after[k], blocks[k + 1])
        BY <1>10, <2>1
    <2>3. F[k + 1][after[k]] = AddBlock(after[k], blocks[k + 1]) /\ F[k + 1][after[k]] \in V
        BY <1>2, <2>1
    <2> QED  BY <2>2, <2>3
<1>13. \A k \in Nat : k \in S
    <2> HIDE DEF S
    <2> QED  BY <1>11, <1>12, NatSteps
<1>14. after[n] \in V /\ \A k \in 0 .. n : after[k] \in V
    BY <1>13
<1>15. after[0] = d /\ \A k \in 1 .. n : after[k] = AddBlock(after[k - 1], blocks[k])
    BY <1>10
<1>16. d \in V /\ \A e \in V : DbFits(e, top) /\ ExtendsDb(d, e)
    BY <1>1
<1> HIDE DEF V
<1> QED  BY <1>9, <1>14, <1>15, <1>16

-----------------------------------------------------------------------------
(* Walks over a database, and what they hand on.                           *)

\* A database fits a longer chain too.
LEMMA DbGrows ==
    ASSUME NEW top \in Indexes, NEW t \in Indexes, top <= t, NEW d, DbFits(d, top)
    PROVE  DbFits(d, t)
<1>1. top \in Nat /\ t \in Nat
    BY LinksAssumption DEF Indexes
<1>2. Blocks(d) \subseteq 0 .. t
    BY <1>1 DEF DbFits
<1>3. ASSUME NEW i \in Blocks(d) PROVE ListFits(i, d[i], t)
    <2>1. ListFits(i, d[i], top)
        BY DEF DbFits
    <2>2. ASSUME NEW k \in DOMAIN d[i] PROVE LinkFits(i, k, d[i][k], t)
        <3>1. LinkFits(i, k, d[i][k], top) /\ d[i][k] \in Indexes \union {EmptyLink}
            BY <2>1, ListFacts
        <3>2. d[i][k] \in Int
            BY <3>1, LinksAssumption DEF Indexes, EmptyLink
        <3> QED  BY <1>1, <3>1, <3>2 DEF LinkFits
    <2> QED  BY <2>1, <2>2 DEF ListFits
<1> QED  BY <1>2, <1>3 DEF DbFits

\* A link to a known block leads forward, as far as its level says.
LEMMA KnownLink ==
    ASSUME NEW top \in Indexes, NEW d, DbFits(d, top), NEW i \in Blocks(d)
    PROVE  /\ i \in Nat /\ i \in Indexes /\ i <= top /\ Len(d[i]) \in Nat /\ Len(d[i]) <= HeightOf(i)
           /\ HeightOf(i) \in 1 .. MaximumHeight /\ MaximumHeight \in Nat
           /\ \A k \in 1 .. Len(d[i]) :
                d[i][k] \in Blocks(d) => d[i][k] = i + Power[k - 1] /\ d[i][k] \in Nat /\ i < d[i][k]
<1>1. i \in 0 .. top /\ ListFits(i, d[i], top) /\ top \in Nat /\ MaxIndex \in Nat /\ top <= MaxIndex
    BY LinksAssumption DEF DbFits, Indexes
<1>2. i \in Nat /\ i <= top /\ i \in Indexes
    BY <1>1 DEF Indexes
<1>3. HeightOf(i) \in 1 .. MaximumHeight /\ MaximumHeight \in Nat
    BY <1>2, HeightIs
<1>4. Len(d[i]) \in Nat /\ Len(d[i]) <= HeightOf(i)
    BY <1>1, ListFacts DEF ListFits
<1>5. ASSUME NEW k \in 1 .. Len(d[i]), d[i][k] \in Blocks(d)
      PROVE  d[i][k] = i + Power[k - 1] /\ d[i][k] \in Nat /\ i < d[i][k]
    <2>1. LinkFits(i, k, d[i][k], top)
        BY <1>1, ListFacts
    <2>2. d[i][k] \in Nat
        BY <1>1, <1>5 DEF DbFits
    <2>3. d[i][k] = i + Power[k - 1]
        BY <2>1, <2>2 DEF LinkFits, EmptyLink
    <2>4. k - 1 \in Nat
        BY <1>4
    <2>5. Power[k - 1] \in Nat \ {0}
        BY <2>4, PowerGrows
    <2> QED  BY <1>2, <2>2, <2>3, <2>5
<1> QED  BY <1>2, <1>3, <1>4, <1>5

\* The highest link of a block, if it leads to a known block.
HighLink(d, i) == IF Len(d[i]) # 0 /\ d[i][Len(d[i])] \in Blocks(d) THEN d[i][Len(d[i])] ELSE i

\* Each step along the highest links is one of them, and they lead forward.
LEMMA HighestIs ==
    ASSUME NEW top \in Indexes, NEW d, DbFits(d, top)
    PROVE  /\ \A i \in Blocks(d) : HighestLink(d, MaximumHeight)[i] = HighLink(d, i)
           /\ Forward(HighestLink(d, MaximumHeight), Blocks(d))
<1>1. ASSUME NEW i \in Blocks(d) PROVE HighestLink(d, MaximumHeight)[i] = HighLink(d, i)
    <2>1. Len(d[i]) \in Nat /\ MaximumHeight \in Nat /\ HeightOf(i) \in 1 .. MaximumHeight /\ Len(d[i]) <= HeightOf(i)
        BY KnownLink
    <2>2. Len(d[i]) \in Int /\ MaximumHeight \in Int /\ Len(d[i]) <= MaximumHeight
        BY <2>1
    <2>3. Min({Len(d[i]), MaximumHeight}) = Len(d[i])
        BY <2>2, MaxMinOfTwo
    <2>4. d[i] # << >> <=> Len(d[i]) # 0
        BY ListFacts DEF DbFits
    <2> QED  BY <2>3, <2>4 DEF HighestLink, HighLink
<1>2. ASSUME NEW i \in Blocks(d) PROVE HighLink(d, i) \in Blocks(d) /\ (HighLink(d, i) = i \/ i < HighLink(d, i))
    <2>1. CASE Len(d[i]) # 0 /\ d[i][Len(d[i])] \in Blocks(d)
        <3>1. HighLink(d, i) = d[i][Len(d[i])]
            BY <2>1 DEF HighLink
        <3>2. Len(d[i]) \in 1 .. Len(d[i])
            <4>1. Len(d[i]) \in Nat
                BY KnownLink
            <4> QED  BY <2>1, <4>1
        <3>3. i < d[i][Len(d[i])]
            BY <2>1, <3>2, KnownLink
        <3> QED  BY <2>1, <3>1, <3>3
    <2>2. CASE ~(Len(d[i]) # 0 /\ d[i][Len(d[i])] \in Blocks(d))
        BY <2>2 DEF HighLink
    <2> QED  BY <2>1, <2>2
<1> QED  BY <1>1, <1>2 DEF Forward

\* The walk along the highest links.
LEMMA HighestWalk ==
    ASSUME NEW top \in Indexes, NEW d, DbFits(d, top), NEW start \in Blocks(d)
    PROVE  IsWalk(Walk(HighestLink(d, MaximumHeight), start), HighestLink(d, MaximumHeight), Blocks(d), start)
<1>1. Blocks(d) \in SUBSET Indexes
    BY KnownLink
<1> QED  BY <1>1, HighestIs, WalkIs

\* The levels that lead closer to dest, and the largest of them.
LEMMA JumpIs ==
    ASSUME NEW top \in Indexes, NEW d, DbFits(d, top), NEW i \in Blocks(d), NEW dest
    PROVE  /\ Jumps(d, i, dest) \subseteq 1 .. Len(d[i])
           /\ \A k \in Jumps(d, i, dest) : d[i][k] \in Blocks(d) /\ i < d[i][k] /\ d[i][k] = i + Power[k - 1]
           /\ Jumps(d, i, dest) # {} => /\ Max(Jumps(d, i, dest)) \in Jumps(d, i, dest)
                                        /\ \A k \in Jumps(d, i, dest) : k <= Max(Jumps(d, i, dest))
<1> DEFINE J == Jumps(d, i, dest)
<1>1. Len(d[i]) \in Nat /\ DOMAIN d[i] = 1 .. Len(d[i])
    BY ListFacts DEF DbFits
<1>2. J \subseteq 1 .. Len(d[i]) /\ \A k \in J : d[i][k] \in Blocks(d)
    BY <1>1 DEF Jumps
<1>3. \A k \in J : i < d[i][k] /\ d[i][k] = i + Power[k - 1]
    BY <1>2, KnownLink
<1>4. J \in SUBSET Nat /\ \A k \in J : k <= Len(d[i])
    BY <1>1, <1>2
<1> HIDE DEF J
<1>5. J # {} => Max(J) \in J /\ \A k \in J : k <= Max(J)
    BY <1>1, <1>4, MaxNat
<1> QED  BY <1>2, <1>3, <1>5 DEF J

\* The steps of a proof.
PathNext(d, dest) == [i \in Blocks(d) |-> IF i = dest \/ Jumps(d, i, dest) = {} THEN i
                                         ELSE getHighestJump(d, i, dest)]

\* The steps of a proof lead forward.
LEMMA PathForward ==
    ASSUME NEW top \in Indexes, NEW d, DbFits(d, top), NEW dest
    PROVE  Forward(PathNext(d, dest), Blocks(d))
<1>1. ASSUME NEW i \in Blocks(d)
      PROVE  PathNext(d, dest)[i] \in Blocks(d) /\ (PathNext(d, dest)[i] = i \/ i < PathNext(d, dest)[i])
    <2>1. CASE i = dest \/ Jumps(d, i, dest) = {}
        BY <2>1 DEF PathNext
    <2>2. CASE ~(i = dest \/ Jumps(d, i, dest) = {})
        <3>1. Max(Jumps(d, i, dest)) \in Jumps(d, i, dest)
            BY <2>2, JumpIs
        <3>2. getHighestJump(d, i, dest) \in Blocks(d) /\ i < getHighestJump(d, i, dest)
            BY <3>1, JumpIs DEF getHighestJump
        <3>3. PathNext(d, dest)[i] = getHighestJump(d, i, dest)
            BY <2>2 DEF PathNext
        <3> QED  BY <3>2, <3>3
    <2> QED  BY <2>1, <2>2
<1> QED  BY <1>1 DEF Forward

\* A proof is the walk of these steps, or none.
LEMMA PathIs ==
    ASSUME NEW top \in Indexes, NEW d, DbFits(d, top), NEW dest
    PROVE  /\ getPath(d, dest) \in Seq(Blocks(d))
           /\ IsWalk(Walk(PathNext(d, dest), 0), PathNext(d, dest), Blocks(d), 0)
           /\ getPath(d, dest) # NoProof => getPath(d, dest) = Walk(PathNext(d, dest), 0)
           /\ Last(Walk(PathNext(d, dest), 0)) = dest => getPath(d, dest) = Walk(PathNext(d, dest), 0)
           /\ dest < 0 /\ d[Last(Walk(PathNext(d, dest), 0))] = << >>
                => getPath(d, dest) = Walk(PathNext(d, dest), 0)
<1>1. 0 \in Blocks(d) /\ Blocks(d) \in SUBSET Indexes
    BY KnownLink DEF DbFits
<1>2. IsWalk(Walk(PathNext(d, dest), 0), PathNext(d, dest), Blocks(d), 0)
    BY <1>1, PathForward, WalkIs
<1> DEFINE w == Walk(PathNext(d, dest), 0)
<1>3. getPath(d, dest) = IF Last(w) = dest \/ (dest < 0 /\ d[Last(w)] = << >>) THEN w ELSE NoProof
    BY DEF getPath, PathNext
<1>4. w \in Seq(Blocks(d)) /\ << >> \in Seq(Blocks(d))
    BY <1>2 DEF IsWalk
<1> HIDE DEF w
<1>5. getPath(d, dest) \in Seq(Blocks(d))
    BY <1>3, <1>4 DEF NoProof
<1> QED  BY <1>2, <1>3, <1>5 DEF w

\* The blocks of a database fit, in any order.
LEMMA WithLinksFits ==
    ASSUME NEW top \in Indexes, NEW d, DbFits(d, top), NEW w \in Seq(Blocks(d))
    PROVE  /\ Len(WithLinks(d, w)) = Len(w) /\ Len(w) \in Nat
           /\ \A k \in 1 .. Len(w) : /\ WithLinks(d, w)[k] = [i |-> w[k], links |-> d[w[k]]]
                                     /\ w[k] \in Blocks(d) /\ BlockFits(WithLinks(d, w)[k], top)
<1>1. Len(w) \in Nat /\ DOMAIN w = 1 .. Len(w) /\ \A k \in 1 .. Len(w) : w[k] \in Blocks(d)
    OBVIOUS
<1>2. WithLinks(d, w) = [k \in 1 .. Len(w) |-> [i |-> w[k], links |-> d[w[k]]]]
    BY <1>1 DEF WithLinks
<1>3. Len(WithLinks(d, w)) = Len(w)
    BY <1>1, <1>2
<1>4. ASSUME NEW k \in 1 .. Len(w)
      PROVE  WithLinks(d, w)[k] = [i |-> w[k], links |-> d[w[k]]] /\ BlockFits(WithLinks(d, w)[k], top)
    <2>1. WithLinks(d, w)[k] = [i |-> w[k], links |-> d[w[k]]]
        BY <1>2
    <2>2. w[k] \in 0 .. top /\ ListFits(w[k], d[w[k]], top)
        BY <1>1 DEF DbFits
    <2> QED  BY <2>1, <2>2 DEF BlockFits
<1> QED  BY <1>1, <1>3, <1>4

\* What a database becomes.
Grown(d, e, top) == DbFits(e, top) /\ ExtendsDb(d, e)

\* The blocks of another database are stored.
LEMMA StoreOthers ==
    ASSUME NEW top \in Indexes, NEW d, DbFits(d, top), NEW e, DbFits(e, top), NEW w \in Seq(Blocks(e))
    PROVE  Grown(d, StoreBlocks(d, WithLinks(e, w)), top)
<1> DEFINE b == WithLinks(e, w)
<1>1. Len(b) \in Nat /\ \A k \in 1 .. Len(b) : BlockFits(b[k], top)
    BY WithLinksFits
<1> HIDE DEF b
<1>2. DbFits(StoreBlocks(d, b), top) /\ ExtendsDb(d, StoreBlocks(d, b))
    BY <1>1, StoreFits
<1> QED  BY <1>2 DEF b, Grown

\* A node that catches up stores blocks of the other.
LEMMA SyncFits ==
    ASSUME NEW top \in Indexes, NEW d, DbFits(d, top), NEW e, DbFits(e, top), NEW latest
    PROVE  Grown(d, SyncChain(d, e, latest), top)
<1>1. Grown(d, d, top)
    BY ExtendsSelf DEF Grown
<1>2. ASSUME NEW s \in Blocks(e)
      PROVE  Grown(d, StoreBlocks(d, HandleGetBlocks(e, s)), top)
    <2>1. Walk(HighestLink(e, MaximumHeight), s) \in Seq(Blocks(e))
        BY HighestWalk DEF IsWalk
    <2> QED  BY <2>1, StoreOthers DEF HandleGetBlocks
<1>3. 0 \in Blocks(e)
    BY DEF DbFits
<1>4. HandleGetBlocks(e, latest) = << >> \/ latest \in Blocks(e)
    BY DEF HandleGetBlocks
<1> QED  BY <1>1, <1>2, <1>3, <1>4 DEF SyncChain

\* A node that gets a proof stores blocks of the leader.
LEMMA ProofHandlerFits ==
    ASSUME NEW top \in Indexes, NEW d, DbFits(d, top), NEW e, DbFits(e, top), NEW dest
    PROVE  Grown(d, propagateProofHandler(d, WithLinks(e, getPath(e, dest))), top)
<1>1. Grown(d, d, top)
    BY ExtendsSelf DEF Grown
<1>2. Grown(d, StoreBlocks(d, WithLinks(e, getPath(e, dest))), top)
    BY PathIs, StoreOthers
<1> QED  BY <1>1, <1>2 DEF propagateProofHandler

-----------------------------------------------------------------------------
(* New links.                                                              *)

\* A link that can be made: its target is on the chain, as far away as its level says.
GoodLink(l, top) == l.h \in Nat /\ l.to = l.from + Power[l.h] /\ l.to <= top

\* A link at its level, after holes if it comes early, keeps the list right.
LEMMA AddLinkFits ==
    ASSUME NEW top \in Indexes, NEW i \in Nat, NEW links, ListFits(i, links, top), NEW h \in Nat, h < HeightOf(i),
           NEW to, to = i + Power[h], to <= top
    PROVE  ListFits(i, AddForwardLink(links, to, h), top)
<1> DEFINE m == Max({Len(links), h + 1})
           l == AddForwardLink(links, to, h)
<1>1. Len(links) \in Nat /\ Len(links) <= HeightOf(i) /\ HeightOf(i) \in Nat
    BY ListFacts, HeightIs DEF ListFits
<1>2. m = IF Len(links) >= h + 1 THEN Len(links) ELSE h + 1
    <2>1. Len(links) \in Int /\ h + 1 \in Int
        BY <1>1
    <2> QED  BY <2>1, MaxMinOfTwo
<1>3. m \in Nat /\ m <= HeightOf(i) /\ m # 0 /\ (m = h + 1 \/ (m = Len(links) /\ m # h + 1))
    BY <1>1, <1>2
<1>4. l = [k \in 1 .. m |-> IF k = h + 1 THEN to ELSE IF k <= Len(links) THEN links[k] ELSE EmptyLink]
    BY DEF AddForwardLink
<1>5. to \in Indexes
    <2>1. Power[h] \in Nat /\ top \in 0 .. MaxIndex /\ MaxIndex \in Nat
        BY PowerIs, LinksAssumption DEF Indexes
    <2> QED  BY <2>1 DEF Indexes
<1>6. to # EmptyLink
    BY <1>5, LinksAssumption DEF Indexes, EmptyLink
<1> HIDE DEF l, m
<1>7. l = [k \in 1 .. m |-> l[k]]
    BY <1>4
<1>8. ASSUME NEW k \in 1 .. m PROVE l[k] \in Indexes \union {EmptyLink} /\ LinkFits(i, k, l[k], top)
    <2>1. CASE k = h + 1
        <3>1. l[k] = to /\ k - 1 = h
            BY <1>4, <2>1
        <3> QED  BY <1>5, <3>1 DEF LinkFits
    <2>2. CASE k # h + 1 /\ k <= Len(links)
        <3>1. k \in 1 .. Len(links) /\ l[k] = links[k]
            BY <1>1, <1>3, <1>4, <2>2
        <3> QED  BY <3>1, ListFacts
    <2>3. CASE k # h + 1 /\ ~(k <= Len(links))
        <3>1. l[k] = EmptyLink
            BY <1>4, <2>3
        <3> QED  BY <3>1 DEF LinkFits
    <2> QED  BY <2>1, <2>2, <2>3
<1>9. l[m] # EmptyLink
    <2>1. m \in 1 .. m
        BY <1>3
    <2>2. CASE m = h + 1
        BY <1>4, <1>6, <2>1, <2>2
    <2>3. CASE m = Len(links) /\ m # h + 1
        <3>1. l[m] = links[m]
            BY <1>1, <1>4, <2>1, <2>3
        <3> QED  BY <1>3, <2>3, <3>1, ListFacts
    <2> QED  BY <1>3, <2>2, <2>3
<1>10. ListFits(i, l, top)
    BY <1>3, <1>7, <1>8, <1>9, MadeList
<1> QED  BY <1>10 DEF l

\* A propagated link is stored where it belongs.
LEMMA LinkHandlerFits ==
    ASSUME NEW top \in Indexes, NEW d, DbFits(d, top), NEW l, GoodLink(l, top)
    PROVE  Grown(d, propagateForwardLinkHandler(d, l), top)
<1>1. Grown(d, d, top)
    BY ExtendsSelf DEF Grown
<1>2. ASSUME l.from \in Blocks(d), ~(l.h >= HeightOf(l.from))
      PROVE  Grown(d, propagateForwardLinkHandler(d, l), top)
    <2> DEFINE b == [i |-> l.from, links |-> AddForwardLink(d[l.from], l.to, l.h)]
               blocks == <<b>>
    <2>1. l.from \in 0 .. top /\ l.from \in Nat /\ ListFits(l.from, d[l.from], top) /\ HeightOf(l.from) \in Nat
        BY <1>2, KnownLink, HeightIs DEF DbFits
    <2>2. l.h \in Nat /\ l.h < HeightOf(l.from) /\ l.to = l.from + Power[l.h] /\ l.to <= top
        BY <1>2, <2>1 DEF GoodLink
    <2>3. ListFits(l.from, AddForwardLink(d[l.from], l.to, l.h), top)
        BY <2>1, <2>2, AddLinkFits
    <2>4. b.i = l.from /\ b.links = AddForwardLink(d[l.from], l.to, l.h)
        OBVIOUS
    <2>5. Len(blocks) = 1 /\ blocks[1] = b
        OBVIOUS
    <2>6. propagateForwardLinkHandler(d, l) = StoreBlocks(d, blocks)
        BY <1>2 DEF propagateForwardLinkHandler
    <2> HIDE DEF b, blocks
    <2>7. BlockFits(b, top)
        BY <2>1, <2>3, <2>4 DEF BlockFits
    <2>8. Len(blocks) \in Nat /\ \A k \in 1 .. Len(blocks) : BlockFits(blocks[k], top)
        BY <2>5, <2>7
    <2>9. DbFits(StoreBlocks(d, blocks), top) /\ ExtendsDb(d, StoreBlocks(d, blocks))
        BY <2>8, StoreFits
    <2> QED  BY <2>6, <2>9 DEF Grown
<1> QED  BY <1>1, <1>2 DEF propagateForwardLinkHandler

\* The databases of all nodes.
AllFit(dbs, top) == dbs \in [LinkNodes -> Dbs] /\ \A n \in LinkNodes : DbFits(dbs[n], top)
AllGrown(dbs, new, top) == AllFit(new, top) /\ \A n \in LinkNodes : ExtendsDb(dbs[n], new[n])

\* What the roster signs can be made.
LEMMA SignedFits ==
    ASSUME NEW top \in Indexes, NEW dbs, AllFit(dbs, top), NEW l, l.h \in Nat, Signed(dbs, l)
    PROVE  GoodLink(l, top)
<1>1. LinkLeader \in LinkNodes /\ DbFits(dbs[LinkLeader], top)
    BY LinksAssumption DEF AllFit
<1> DEFINE d == dbs[LinkLeader]
           w == Walk(HighestLink(d, MaximumHeight), l.from)
           agreed == {n \in LinkNodes : bftForwardLink(dbs[n], l)}
<1>2. l.from \in Blocks(d) /\ l.to \in ToSet(w) /\ Cardinality(agreed) >= LinkThreshold
    BY DEF Signed, Reaches
<1>3. agreed # {}
    <2>1. Cardinality({}) = 0 /\ LinkThreshold >= 1
        <3>1. Cardinality({}) = 0
            BY FS_EmptySet
        <3>2. LinkThreshold >= 1
            BY LinksAssumption
        <3> QED  BY <3>1, <3>2
    <2>2. CASE agreed = {}
        <3>1. Cardinality(agreed) = 0 /\ LinkThreshold \in Int
            BY <2>1, <2>2, LinksAssumption
        <3> HIDE DEF agreed
        <3> QED  BY <1>2, <2>1, <3>1
    <2> QED  BY <2>2
<1>4. PICK n \in LinkNodes : bftForwardLink(dbs[n], l)
    BY <1>3
<1>5. l.to = l.from + Power[l.h]
    BY <1>4 DEF bftForwardLink, PathIndex
<1>6. w \in Seq(Blocks(d))
    BY <1>1, <1>2, HighestWalk DEF IsWalk
<1> HIDE DEF w
<1>7. l.to \in Blocks(d)
    BY <1>2, <1>6 DEF ToSet
<1>8. l.to <= top
    BY <1>1, <1>7, KnownLink
<1> QED  BY <1>5, <1>8 DEF GoodLink

\* Nothing changes.
LEMMA AllGrownSelf ==
    ASSUME NEW top, NEW dbs, AllFit(dbs, top)
    PROVE  AllGrown(dbs, dbs, top)
<1>1. \A n \in LinkNodes : ExtendsDb(dbs[n], dbs[n])
    BY ExtendsSelf DEF AllFit
<1> QED  BY <1>1 DEF AllGrown

\* Two steps, one after the other.
LEMMA AllGrownTransitive ==
    ASSUME NEW top, NEW a, NEW b, NEW c, AllFit(a, top), AllGrown(a, b, top), AllGrown(b, c, top)
    PROVE  AllGrown(a, c, top)
<1>1. ASSUME NEW n \in LinkNodes PROVE ExtendsDb(a[n], c[n])
    <2>1. DbFits(a[n], top) /\ DbFits(b[n], top) /\ DbFits(c[n], top) /\ ExtendsDb(a[n], b[n]) /\ ExtendsDb(b[n], c[n])
        BY DEF AllGrown, AllFit
    <2> QED  BY <2>1, ExtendsTransitive
<1> QED  BY <1>1 DEF AllGrown

\* One node's database grows.
LEMMA OneGrown ==
    ASSUME NEW top, NEW dbs, AllFit(dbs, top), NEW n \in LinkNodes, NEW e, Grown(dbs[n], e, top)
    PROVE  AllGrown(dbs, [dbs EXCEPT ![n] = e], top)
<1> DEFINE new == [dbs EXCEPT ![n] = e]
<1>1. dbs \in [LinkNodes -> Dbs] /\ e \in Dbs
    BY DEF AllFit, Grown, DbFits
<1>2. new \in [LinkNodes -> Dbs]
    BY <1>1
<1>3. ASSUME NEW m \in LinkNodes PROVE DbFits(new[m], top) /\ ExtendsDb(dbs[m], new[m])
    <2>1. CASE m = n
        <3>1. new[m] = e
            BY <1>1, <2>1
        <3> HIDE DEF new
        <3> QED  BY <2>1, <3>1 DEF Grown
    <2>2. CASE m # n
        <3>1. new[m] = dbs[m] /\ DbFits(dbs[m], top)
            BY <1>1, <2>2 DEF AllFit
        <3> HIDE DEF new
        <3> QED  BY <3>1, ExtendsSelf
    <2> QED  BY <2>1, <2>2
<1> HIDE DEF new
<1>4. AllGrown(dbs, new, top)
    BY <1>2, <1>3 DEF AllGrown, AllFit
<1> QED  BY <1>4 DEF new

\* The leader makes a link, if the roster signs it.
LEMMA AddForwardFits ==
    ASSUME NEW top \in Indexes, NEW dbs, AllFit(dbs, top), NEW l, l.h \in Nat
    PROVE  AllGrown(dbs, addForwardLink(dbs, l), top)
<1>1. CASE Signed(dbs, l)
    <2>1. GoodLink(l, top)
        BY <1>1, SignedFits
    <2>2. LinkLeader \in LinkNodes /\ DbFits(dbs[LinkLeader], top)
        BY LinksAssumption DEF AllFit
    <2>3. Grown(dbs[LinkLeader], propagateForwardLinkHandler(dbs[LinkLeader], l), top)
        BY <2>1, <2>2, LinkHandlerFits
    <2>4. AllGrown(dbs, [dbs EXCEPT ![LinkLeader] = propagateForwardLinkHandler(dbs[LinkLeader], l)], top)
        BY <2>2, <2>3, OneGrown
    <2> QED  BY <1>1, <2>4 DEF addForwardLink
<1>2. CASE ~Signed(dbs, l)
    BY <1>2, AllGrownSelf DEF addForwardLink
<1> QED  BY <1>1, <1>2

\* a starts with dbs and takes n steps by F.
IsSteps(a, n, dbs, F) ==
    /\ a = [k \in 0 .. n |-> a[k]] /\ a[0] = dbs
    /\ \A k \in 1 .. n : a[k] = F[k][a[k - 1]] /\ a[k - 1] \in [LinkNodes -> Dbs]
\* The steps of F keep databases fitting.
StepsFit(n, F, top) == \A k \in 1 .. n : \A s \in [LinkNodes -> Dbs] : AllFit(s, top) => AllFit(F[k][s], top)

\* A sequence of such steps exists.
LEMMA StepsExist ==
    ASSUME NEW top \in Indexes, NEW dbs, AllFit(dbs, top), NEW n \in Nat, NEW F, StepsFit(n, F, top)
    PROVE  \E a : IsSteps(a, n, dbs, F)
<1> DEFINE V == {s \in [LinkNodes -> Dbs] : AllFit(s, top)}
           G == [k \in 1 .. n |-> [s \in V |-> F[k][s]]]
<1>1. dbs \in V
    BY DEF AllFit
<1>2. ASSUME NEW k \in 1 .. n, NEW s \in V PROVE F[k][s] \in V
    <2>1. AllFit(F[k][s], top)
        BY DEF StepsFit
    <2> QED  BY <2>1 DEF AllFit
<1>3. G \in [1 .. n -> [V -> V]]
    BY <1>2
<1>4. PICK a : IsRecursion(a, n, V, dbs, G)
    <2> HIDE DEF G, V
    <2> QED  BY <1>1, <1>3, RecursionExists, Zenon
<1>5. a \in [0 .. n -> V] /\ a[0] = dbs /\ \A k \in 1 .. n : a[k] = G[k][a[k - 1]]
    BY <1>4 DEF IsRecursion
<1>6. ASSUME NEW k \in 1 .. n PROVE a[k] = F[k][a[k - 1]] /\ a[k - 1] \in [LinkNodes -> Dbs]
    <2>1. k - 1 \in 0 .. n
        OBVIOUS
    <2>2. a[k - 1] \in V
        BY <1>5, <2>1
    <2>3. a[k - 1] \in [LinkNodes -> Dbs]
        BY <2>2
    <2> HIDE DEF V
    <2> QED  BY <1>5, <2>2, <2>3
<1>7. a = [k \in 0 .. n |-> a[k]]
    BY <1>5
<1>8. IsSteps(a, n, dbs, F)
    BY <1>5, <1>6, <1>7 DEF IsSteps
<1> QED  BY <1>8

\* Steps that each let the databases grow.
LEMMA StepsGrow ==
    ASSUME NEW top \in Indexes, NEW dbs, AllFit(dbs, top), NEW n \in Nat, NEW after, after[0] = dbs,
           \A k \in 1 .. n : AllFit(after[k - 1], top) => AllGrown(after[k - 1], after[k], top)
    PROVE  AllGrown(dbs, after[n], top)
<1> DEFINE S == {k \in Nat : k <= n => AllGrown(dbs, after[k], top)}
<1>1. 0 \in S
    BY AllGrownSelf
<1>2. ASSUME NEW k \in Nat, k \in S PROVE k + 1 \in S
    <2> SUFFICES ASSUME k + 1 <= n PROVE AllGrown(dbs, after[k + 1], top)
        OBVIOUS
    <2>1. k + 1 \in 1 .. n /\ (k + 1) - 1 = k /\ AllGrown(dbs, after[k], top)
        BY <1>2
    <2>2. AllFit(after[k], top)
        BY <2>1 DEF AllGrown
    <2>3. AllGrown(after[k], after[k + 1], top)
        BY <2>1, <2>2
    <2> QED  BY <2>1, <2>3, AllGrownTransitive
<1>3. \A k \in Nat : k \in S
    <2> HIDE DEF S
    <2> QED  BY <1>1, <1>2, NatSteps
<1> QED  BY <1>3

\* The height that a path to a later block starts with.
LEMMA PathHeightIs ==
    ASSUME NEW i \in Indexes, NEW last \in Indexes, i < last
    PROVE  PathHeight(i, last) \in Nat
<1>1. MaxIndex \in Nat /\ i \in Nat /\ last \in Nat
    BY LinksAssumption DEF Indexes
<1> DEFINE D == last - i
           S == {h \in 0 .. MaxIndex : Power[h] <= D}
<1>2. 0 \in S
    <2>1. Power[0] = 1 /\ D \in Nat /\ D >= 1
        BY <1>1, PowerIs
    <2> QED  BY <1>1, <2>1
<1>3. S \in SUBSET Nat /\ S # {} /\ \A x \in S : x <= MaxIndex
    BY <1>1, <1>2
<1>4. Level(D) = Max(S)
    BY DEF Level
<1> HIDE DEF S, D
<1>5. Level(D) \in Nat
    BY <1>1, <1>3, <1>4, MaxNat
<1>6. HeightOf(i) \in Nat /\ HeightOf(i) - 1 \in Nat
    BY <1>1, HeightIs
<1>7. Level(D) \in Int /\ HeightOf(i) - 1 \in Int
    BY <1>5, <1>6
<1>8. Min({Level(D), HeightOf(i) - 1}) \in Nat
    BY <1>5, <1>6, <1>7, MaxMinOfTwo
<1> QED  BY <1>8 DEF PathHeight, D

\* OptimizeProof of one block.
LEMMA OptimizeBlockFits ==
    ASSUME NEW top \in Indexes, AllFit(db, top), top = Tip(db[LinkLeader]),
           NEW i \in Blocks(db[LinkLeader]), i < top
    PROVE  AllGrown(db, optimizeBlock(i), top)
<1> DEFINE length == Len(db[LinkLeader][i])
           missing == Max({0, PathHeight(i, top) + 1 - length})
           link(k) == [from |-> i, to |-> i + Power[length + k - 1], h |-> length + k - 1]
           Is(a) == a = [k \in 0 .. missing |-> IF k = 0 THEN db ELSE addForwardLink(a[k - 1], link(k))]
           after == CHOOSE a : Is(a)
           F == [k \in 1 .. missing |-> [s \in [LinkNodes -> Dbs] |-> addForwardLink(s, link(k))]]
<1>1. optimizeBlock(i) = after[missing]
    BY DEF optimizeBlock
<1>2. LinkLeader \in LinkNodes /\ DbFits(db[LinkLeader], top)
    BY LinksAssumption DEF AllFit
<1>3. length \in Nat /\ i \in Indexes
    BY <1>2, KnownLink
<1>4. missing \in Nat
    <2>1. PathHeight(i, top) \in Nat
        BY <1>3, PathHeightIs
    <2> HIDE DEF length
    <2>2. 0 \in Int /\ PathHeight(i, top) + 1 - length \in Int
        BY <1>3, <2>1
    <2>3. missing = IF 0 >= PathHeight(i, top) + 1 - length THEN 0 ELSE PathHeight(i, top) + 1 - length
        BY <2>2, MaxMinOfTwo
    <2> QED  BY <2>2, <2>3
<1>5. ASSUME NEW k \in 1 .. missing PROVE link(k).h \in Nat
    <2>1. link(k).h = length + k - 1
        OBVIOUS
    <2> HIDE DEF length
    <2> QED  BY <1>3, <1>4, <2>1
<1> HIDE DEF missing, link
<1>6. ASSUME NEW k \in 1 .. missing, NEW s, AllFit(s, top) PROVE AllGrown(s, addForwardLink(s, link(k)), top)
    BY <1>5, <1>6, AddForwardFits
<1>7. \A k \in 1 .. missing : \A s \in [LinkNodes -> Dbs] : AllFit(s, top) => AllFit(F[k][s], top)
    BY <1>6 DEF AllGrown
<1>8. \A k \in 1 .. missing : \A s \in [LinkNodes -> Dbs] : F[k][s] = addForwardLink(s, link(k))
    OBVIOUS
<1> HIDE DEF F
<1>9. PICK a : IsSteps(a, missing, db, F)
    <2>1. StepsFit(missing, F, top)
        BY <1>7 DEF StepsFit
    <2> QED  BY <1>4, <2>1, StepsExist, Zenon
<1>10. \A k \in 1 .. missing : a[k] = addForwardLink(a[k - 1], link(k))
    BY <1>8, <1>9 DEF IsSteps
<1>11. \A k \in 0 .. missing : a[k] = IF k = 0 THEN db ELSE addForwardLink(a[k - 1], link(k))
    <2>1. \A k \in 0 .. missing : k # 0 => k \in 1 .. missing
        BY <1>4
    <2> QED  BY <1>9, <1>10, <2>1 DEF IsSteps
<1>12. Is(a)
    BY <1>9, <1>11 DEF IsSteps
<1>13. Is(after)
    <2> HIDE DEF Is
    <2> QED  BY <1>12, Zenon
<1>14. \A k \in 0 .. missing : after[k] = IF k = 0 THEN db ELSE addForwardLink(after[k - 1], link(k))
    <2> HIDE DEF after
    <2> QED  BY <1>13
<1> HIDE DEF after
<1>15. after[0] = db /\ \A k \in 1 .. missing : after[k] = addForwardLink(after[k - 1], link(k))
    BY <1>4, <1>14
<1>16. \A k \in 1 .. missing : AllFit(after[k - 1], top) => AllGrown(after[k - 1], after[k], top)
    BY <1>6, <1>15
<1> QED  BY <1>1, <1>4, <1>15, <1>16, StepsGrow

\* OptimizeProof of a chain.
LEMMA OptimizeChainFits ==
    ASSUME NEW top \in Indexes, AllFit(db, top), top = Tip(db[LinkLeader]),
           getPath(db[LinkLeader], -1) # NoProof
    PROVE  AllGrown(db, optimizeChain, top)
<1> DEFINE path == getPath(db[LinkLeader], -1)
           n == Len(path) - 1
           Is(a) == a = [k \in 0 .. n |-> IF k = 0 THEN db ELSE optimizeCheck(a[k - 1], path[k])]
           after == CHOOSE a : Is(a)
           F == [k \in 1 .. n |-> [s \in [LinkNodes -> Dbs] |-> optimizeCheck(s, path[k])]]
<1>1. optimizeChain = after[n]
    BY DEF optimizeChain
<1>2. LinkLeader \in LinkNodes /\ DbFits(db[LinkLeader], top)
    BY LinksAssumption DEF AllFit
<1> DEFINE next == PathNext(db[LinkLeader], -1)
           B == Blocks(db[LinkLeader])
<1>3. IsWalk(path, next, B, 0) /\ Forward(next, B) /\ \A i \in B : i \in Indexes /\ i <= top
    BY <1>2, PathIs, PathForward, KnownLink
<1> HIDE DEF path, next, B
<1>4. n \in Nat /\ path \in Seq(B) /\ Len(path) \in Nat
    <2>1. path \in Seq(B) /\ Len(path) >= 1
        BY <1>3 DEF IsWalk
    <2> QED  BY <2>1
<1>5. ASSUME NEW k \in 1 .. n PROVE path[k] \in Indexes /\ path[k] < top
    <2>1. k \in 1 .. Len(path) /\ k + 1 \in 1 .. Len(path) /\ k \in 1 .. Len(path) - 1
        BY <1>4
    <2>2. path[k] \in B /\ path[k + 1] \in B
        BY <1>4, <2>1
    <2>3. path[k + 1] = next[path[k]] /\ path[k + 1] # path[k]
        BY <1>3, <2>1 DEF IsWalk
    <2>4. path[k] < path[k + 1]
        BY <1>3, <2>2, <2>3 DEF Forward
    <2>5. path[k] \in Indexes /\ path[k + 1] \in Indexes /\ path[k + 1] <= top
        BY <1>3, <2>2
    <2>6. path[k] \in Int /\ path[k + 1] \in Int /\ top \in Int
        BY <2>5, LinksAssumption DEF Indexes
    <2> QED  BY <2>4, <2>5, <2>6
<1>6. ASSUME NEW k \in 1 .. n, NEW s, AllFit(s, top) PROVE AllGrown(s, optimizeCheck(s, path[k]), top)
    <2>1. PathHeight(path[k], top) \in Nat
        BY <1>5, PathHeightIs
    <2> DEFINE l == [from |-> path[k], to |-> PathIndex(path[k], top), h |-> PathHeight(path[k], top)]
    <2>2. l.h \in Nat
        BY <2>1
    <2>3. optimizeCheck(s, path[k]) \in {s, addForwardLink(s, l)}
        BY DEF optimizeCheck
    <2> HIDE DEF l
    <2>4. AllGrown(s, addForwardLink(s, l), top) /\ AllGrown(s, s, top)
        BY <1>6, <2>2, AddForwardFits, AllGrownSelf
    <2> QED  BY <2>3, <2>4
<1>7. \A k \in 1 .. n : \A s \in [LinkNodes -> Dbs] : AllFit(s, top) => AllFit(F[k][s], top)
    BY <1>6 DEF AllGrown
<1>8. \A k \in 1 .. n : \A s \in [LinkNodes -> Dbs] : F[k][s] = optimizeCheck(s, path[k])
    OBVIOUS
<1> HIDE DEF F, n
<1>9. PICK a : IsSteps(a, n, db, F)
    <2>1. StepsFit(n, F, top)
        BY <1>7 DEF StepsFit
    <2> QED  BY <1>4, <2>1, StepsExist, Zenon
<1>10. \A k \in 1 .. n : a[k] = optimizeCheck(a[k - 1], path[k])
    BY <1>8, <1>9 DEF IsSteps
<1>11. \A k \in 0 .. n : a[k] = IF k = 0 THEN db ELSE optimizeCheck(a[k - 1], path[k])
    <2>1. \A k \in 0 .. n : k # 0 => k \in 1 .. n
        BY <1>4
    <2> QED  BY <1>9, <1>10, <2>1 DEF IsSteps
<1>12. Is(a)
    BY <1>9, <1>11 DEF IsSteps
<1>13. Is(after)
    <2> HIDE DEF Is
    <2> QED  BY <1>12, Zenon
<1>14. \A k \in 0 .. n : after[k] = IF k = 0 THEN db ELSE optimizeCheck(after[k - 1], path[k])
    <2> HIDE DEF after
    <2> QED  BY <1>13
<1> HIDE DEF after
<1>15. after[0] = db /\ \A k \in 1 .. n : after[k] = optimizeCheck(after[k - 1], path[k])
    BY <1>4, <1>14
<1>16. \A k \in 1 .. n : AllFit(after[k - 1], top) => AllGrown(after[k - 1], after[k], top)
    BY <1>6, <1>15
<1> QED  BY <1>1, <1>4, <1>15, <1>16, StepsGrow

-----------------------------------------------------------------------------
(* The leader has every block, each with its link to the next.             *)

LeaderFits(d, top) ==
    /\ DbFits(d, top) /\ Blocks(d) = 0 .. top
    /\ \A i \in 0 .. top - 1 : Len(d[i]) # 0 /\ d[i][1] = i + 1

\* The newest block of the leader.
LEMMA TipIs ==
    ASSUME NEW top \in Indexes, NEW d, LeaderFits(d, top)
    PROVE  Tip(d) = top
<1>1. top \in Nat /\ Blocks(d) = 0 .. top
    BY LinksAssumption DEF LeaderFits, Indexes
<1> DEFINE S == 0 .. top
<1>2. S \in SUBSET Nat /\ S # {} /\ (\A x \in S : x <= top) /\ top \in S
    BY <1>1
<1>3. \A x \in S : x \in Nat /\ x <= top
    BY <1>1
<1> HIDE DEF S
<1>4. Max(S) \in S /\ \A x \in S : x <= Max(S)
    BY <1>1, <1>2, MaxNat
<1>5. Max(S) = top
    <2>1. Max(S) \in Nat /\ Max(S) <= top /\ top <= Max(S)
        BY <1>2, <1>3, <1>4
    <2> QED  BY <1>1, <2>1
<1> QED  BY <1>1, <1>5 DEF Tip, S

\* The first link leads to a block that is there.
LEMMA LeaderLinks ==
    ASSUME NEW top \in Indexes, NEW d, LeaderFits(d, top), NEW i \in 0 .. top - 1
    PROVE  /\ i \in Blocks(d) /\ i \in Nat /\ i + 1 \in Blocks(d) /\ 1 \in DOMAIN d[i] /\ 1 \in 1 .. Len(d[i])
           /\ d[i][1] = i + 1
<1>1. top \in Nat /\ i \in Nat /\ i \in 0 .. top /\ i + 1 \in 0 .. top
    BY LinksAssumption DEF Indexes
<1>2. i \in Blocks(d) /\ i + 1 \in Blocks(d) /\ d[i][1] = i + 1 /\ Len(d[i]) # 0 /\ DbFits(d, top)
    BY <1>1 DEF LeaderFits
<1>3. Len(d[i]) \in Nat /\ DOMAIN d[i] = 1 .. Len(d[i])
    BY <1>2, ListFacts DEF DbFits
<1> QED  BY <1>1, <1>2, <1>3

\* The newest block has no links.
LEMMA TopEmpty ==
    ASSUME NEW top \in Indexes, NEW d, LeaderFits(d, top)
    PROVE  top \in Blocks(d) /\ d[top] = << >>
<1>1. top \in Nat /\ top \in Blocks(d)
    BY LinksAssumption DEF LeaderFits, Indexes
<1>2. ListFits(top, d[top], top)
    BY <1>1 DEF LeaderFits, DbFits
<1>3. Len(d[top]) \in Nat
    BY <1>2, ListFacts
<1>4. CASE Len(d[top]) # 0
    <2> DEFINE k == Len(d[top])
    <2>1. k \in 1 .. Len(d[top]) /\ k - 1 \in Nat
        BY <1>3, <1>4
    <2>2. d[top][k] # EmptyLink /\ LinkFits(top, k, d[top][k], top)
        BY <1>2, <1>4, <2>1, ListFacts
    <2>3. d[top][k] = top + Power[k - 1] /\ d[top][k] <= top
        BY <2>2 DEF LinkFits
    <2>4. Power[k - 1] \in Nat \ {0}
        BY <2>1, PowerGrows
    <2> QED  BY <1>1, <2>3, <2>4
<1> QED  BY <1>1, <1>2, <1>4, ListFacts

\* It stays so when links or known blocks are added.
LEMMA LeaderGrows ==
    ASSUME NEW top \in Indexes, NEW d, LeaderFits(d, top), NEW e, Grown(d, e, top)
    PROVE  LeaderFits(e, top)
<1>1. Blocks(e) = 0 .. top
    BY DEF LeaderFits, Grown, ExtendsDb, DbFits
<1>2. ASSUME NEW i \in 0 .. top - 1 PROVE Len(e[i]) # 0 /\ e[i][1] = i + 1
    <2>1. i \in Blocks(d) /\ 1 \in 1 .. Len(d[i]) /\ d[i][1] = i + 1
        BY LeaderLinks
    <2>2. Longer(d[i], e[i])
        BY <2>1 DEF Grown, ExtendsDb
    <2>3. i \in Blocks(e) /\ Len(e[i]) \in Nat /\ Len(d[i]) \in Nat
        BY <2>1, <2>2, ListFacts DEF LeaderFits, DbFits, Grown, ExtendsDb
    <2> QED  BY <2>1, <2>2, <2>3 DEF Longer
<1> QED  BY <1>1, <1>2 DEF LeaderFits, Grown

\* GetLatest cuts links off, but none of a known block.
CutAt(d, i) == IF Jumps(d, i, -1) = {} THEN 0 ELSE Max(Jumps(d, i, -1))
Cut(d, W) == [i \in Blocks(d) |-> IF i \in W THEN SubSeq(d[i], 1, CutAt(d, i)) ELSE d[i]]

\* The list that is left ends with the link to a known block.
LEMMA CutList ==
    ASSUME NEW top \in Indexes, NEW d, DbFits(d, top), NEW i \in Blocks(d)
    PROVE  LET l == SubSeq(d[i], 1, CutAt(d, i))
           IN  /\ ListFits(i, l, top) /\ Len(l) = CutAt(d, i)
               /\ CutAt(d, i) \in 0 .. Len(d[i])
               /\ \A k \in 1 .. CutAt(d, i) : l[k] = d[i][k]
<1> DEFINE m == CutAt(d, i)
           l == SubSeq(d[i], 1, m)
<1>1. d[i] \in Seq(Indexes \union {EmptyLink}) /\ ListFits(i, d[i], top)
    BY DEF DbFits, ListFits, Lists
<1>2. i \in Nat /\ Len(d[i]) \in Nat /\ Len(d[i]) <= HeightOf(i) /\ HeightOf(i) \in Nat
    BY KnownLink, HeightIs
<1>3. m \in 0 .. Len(d[i]) /\ (m # 0 => d[i][m] \in Blocks(d))
    <2>1. CASE Jumps(d, i, -1) = {}
        <3>1. m = 0
            BY <2>1 DEF CutAt
        <3> QED  BY <1>2, <3>1
    <2>2. CASE Jumps(d, i, -1) # {}
        <3>1. m \in Jumps(d, i, -1)
            BY <2>2, JumpIs DEF CutAt
        <3>2. m \in 1 .. Len(d[i]) /\ d[i][m] \in Blocks(d)
            BY <3>1, JumpIs
        <3> HIDE DEF m
        <3> QED  BY <1>2, <3>2
    <2> QED  BY <2>1, <2>2
<1> HIDE DEF m
<1>4. m \in Nat /\ m <= Len(d[i]) /\ m <= HeightOf(i)
    BY <1>2, <1>3
<1>5. l = [k \in 1 .. m |-> d[i][k]]
    <2>1. l = [k \in 1 .. m - 1 + 1 |-> d[i][k + 1 - 1]]
        BY <1>1, <1>4
    <2>2. \A k \in 1 .. m : k + 1 - 1 = k
        BY <1>4
    <2>3. 1 .. m - 1 + 1 = 1 .. m
        BY <1>4
    <2> HIDE DEF l
    <2> QED  BY <2>1, <2>2, <2>3
<1> HIDE DEF l
<1>6. l = [k \in 1 .. m |-> l[k]] /\ \A k \in 1 .. m : l[k] = d[i][k] /\ k \in 1 .. Len(d[i])
    BY <1>2, <1>4, <1>5
<1>7. \A k \in 1 .. m : l[k] \in Indexes \union {EmptyLink} /\ LinkFits(i, k, l[k], top)
    BY <1>1, <1>6, ListFacts
<1>8. m # 0 => l[m] # EmptyLink
    <2> SUFFICES ASSUME m # 0 PROVE l[m] # EmptyLink
        OBVIOUS
    <2>1. m \in 1 .. m
        BY <1>4
    <2>2. l[m] \in Blocks(d)
        BY <1>3, <1>6, <2>1
    <2>3. l[m] \in Nat
        BY <2>2, KnownLink
    <2> QED  BY <2>3 DEF EmptyLink
<1>9. ListFits(i, l, top) /\ Len(l) = m
    BY <1>2, <1>4, <1>6, <1>7, <1>8, MadeList
<1> QED  BY <1>3, <1>6, <1>9 DEF m, l

\* What is left fits, and the leader keeps the link to every next block.
LEMMA CutFits ==
    ASSUME NEW top \in Indexes, NEW d, DbFits(d, top), NEW W
    PROVE  DbFits(Cut(d, W), top) /\ (LeaderFits(d, top) => LeaderFits(Cut(d, W), top))
<1> DEFINE e == Cut(d, W)
<1>1. Blocks(e) = Blocks(d) /\ e = [i \in Blocks(d) |-> e[i]]
    BY DEF Cut, Blocks
<1>2. \A i \in Blocks(d) : e[i] = IF i \in W THEN SubSeq(d[i], 1, CutAt(d, i)) ELSE d[i]
    BY DEF Cut
<1> HIDE DEF e
<1>3. ASSUME NEW i \in Blocks(d) PROVE ListFits(i, e[i], top)
    <2>1. ListFits(i, SubSeq(d[i], 1, CutAt(d, i)), top)
        BY CutList
    <2>2. ListFits(i, d[i], top)
        BY DEF DbFits
    <2> QED  BY <1>2, <2>1, <2>2
<1>4. e \in Dbs
    <2>1. \A i \in Blocks(d) : e[i] \in Lists
        BY <1>3 DEF ListFits
    <2>2. Blocks(d) \in SUBSET Indexes
        BY KnownLink
    <2>3. e \in [Blocks(d) -> Lists]
        BY <1>1, <2>1
    <2> QED  BY <2>2, <2>3 DEF Dbs
<1>5. DbFits(e, top)
    BY <1>1, <1>3, <1>4 DEF DbFits
<1>6. ASSUME LeaderFits(d, top) PROVE LeaderFits(e, top)
    <2>1. ASSUME NEW i \in 0 .. top - 1 PROVE Len(e[i]) # 0 /\ e[i][1] = i + 1
        <3>1. i \in Blocks(d) /\ i + 1 \in Blocks(d) /\ 1 \in DOMAIN d[i] /\ d[i][1] = i + 1 /\ 1 \in 1 .. Len(d[i])
            BY <1>6, LeaderLinks
        <3>2. 1 \in Jumps(d, i, -1)
            BY <3>1 DEF Jumps
        <3>3. CutAt(d, i) = Max(Jumps(d, i, -1)) /\ 1 <= Max(Jumps(d, i, -1))
            BY <3>1, <3>2, JumpIs DEF CutAt
        <3> DEFINE m == CutAt(d, i)
                   l == SubSeq(d[i], 1, m)
        <3>4. Len(l) = m /\ m \in 0 .. Len(d[i]) /\ \A k \in 1 .. m : l[k] = d[i][k]
            BY <3>1, CutList
        <3>5. e[i] = l \/ e[i] = d[i]
            BY <1>2, <3>1
        <3>6. Len(d[i]) \in Nat
            BY <3>1, KnownLink
        <3> HIDE DEF l, m
        <3>7. m \in Nat /\ 1 \in 1 .. m
            BY <3>3, <3>4, <3>6 DEF m
        <3>8. Len(l) # 0 /\ l[1] = i + 1
            BY <3>1, <3>4, <3>7
        <3> QED  BY <3>1, <3>5, <3>8
    <2> QED  BY <1>1, <1>5, <1>6, <2>1 DEF LeaderFits
<1> QED  BY <1>5, <1>6 DEF e

-----------------------------------------------------------------------------
(* The leader proves its blocks.                                           *)

\* One step of a proof: a link of its level, and the way back.
LEMMA PathStep ==
    ASSUME NEW top \in Indexes, NEW d, DbFits(d, top), NEW dest \in Int, NEW i \in Blocks(d), PathNext(d, dest)[i] # i
    PROVE  LET j == PathNext(d, dest)[i]
           IN  /\ i \in BackLinks(j) /\ j \in ToSet(d[i])
               /\ Len(d[i]) > Level(j - i) /\ d[i][Level(j - i) + 1] # EmptyLink
               /\ dest >= 0 => j <= dest
<1> DEFINE J == Jumps(d, i, dest)
           m == Max(J)
           j == PathNext(d, dest)[i]
<1>1. ~(i = dest \/ J = {}) /\ j = d[i][m]
    BY DEF PathNext, getHighestJump
<1>2. m \in J
    BY <1>1, JumpIs
<1>3. m \in 1 .. Len(d[i]) /\ j \in Blocks(d) /\ j = i + Power[m - 1] /\ m \in DOMAIN d[i]
    <2>1. J \subseteq DOMAIN d[i]
        BY DEF Jumps
    <2> HIDE DEF j, m, J
    <2> QED  BY <1>1, <1>2, <2>1, JumpIs DEF J
<1>4. dest >= 0 => j <= dest
    <2>1. dest < 0 \/ d[i][m] <= dest
        BY <1>2 DEF Jumps
    <2> QED  BY <1>1, <2>1
<1> HIDE DEF m, j, J
<1>5. /\ i \in Nat /\ Len(d[i]) \in Nat /\ Len(d[i]) <= HeightOf(i) /\ HeightOf(i) \in Nat /\ j \in Nat /\ j <= top
      /\ top \in Nat /\ MaxIndex \in Nat /\ top <= MaxIndex
    <2>1. i \in Nat /\ Len(d[i]) \in Nat /\ Len(d[i]) <= HeightOf(i)
        BY KnownLink
    <2>2. HeightOf(i) \in Nat
        BY <2>1, HeightIs
    <2>3. j \in Nat /\ j <= top
        BY <1>3, KnownLink
    <2>4. top \in Nat /\ MaxIndex \in Nat /\ top <= MaxIndex
        BY LinksAssumption DEF Indexes
    <2> QED  BY <2>1, <2>2, <2>3, <2>4
<1> DEFINE h == m - 1
<1>6. h \in Nat /\ h < HeightOf(i) /\ m = h + 1 /\ h < Len(d[i])
    BY <1>3, <1>5
<1> HIDE DEF h
<1>7. j = i + Power[h]
    BY <1>3 DEF h
<1>8. i \in BackLinks(j)
    BY <1>5, <1>6, <1>7, LinkedBack
<1>9. j \in ToSet(d[i])
    BY <1>1, <1>3 DEF ToSet
<1>10. Power[h] \in Nat /\ h < Power[h]
    BY <1>6, PowerGrows
<1>11. j - i = Power[h] /\ h <= MaxIndex
    BY <1>5, <1>6, <1>7, <1>10
<1>12. Level(j - i) = h
    BY <1>6, <1>11, LevelIs
<1>13. d[i][m] # EmptyLink
    BY <1>1, <1>5 DEF EmptyLink
<1> QED  BY <1>4, <1>6, <1>8, <1>9, <1>12, <1>13 DEF j

\* A proof verifies.
LEMMA PathVerifies ==
    ASSUME NEW top \in Indexes, NEW d, DbFits(d, top), NEW dest \in Int
    PROVE  LET w == Walk(PathNext(d, dest), 0)
           IN  verifyChain(WithLinks(d, w)) /\ GetForwardLinks(WithLinks(d, w))
<1> DEFINE next == PathNext(d, dest)
           w == Walk(next, 0)
           b == WithLinks(d, w)
<1>1. IsWalk(w, next, Blocks(d), 0)
    BY PathIs
<1>2. w \in Seq(Blocks(d))
    BY <1>1 DEF IsWalk
<1>3. Len(b) = Len(w) /\ Len(w) \in Nat /\ \A k \in 1 .. Len(w) : b[k] = [i |-> w[k], links |-> d[w[k]]] /\ w[k] \in Blocks(d)
    BY <1>2, WithLinksFits
<1> HIDE DEF w, b
<1>4. ASSUME NEW k \in 1 .. Len(b) - 1
      PROVE  /\ b[k].i \in BackLinks(b[k + 1].i) /\ b[k + 1].i \in ToSet(b[k].links)
             /\ Len(b[k].links) > Level(b[k + 1].i - b[k].i)
             /\ b[k].links[Level(b[k + 1].i - b[k].i) + 1] # EmptyLink
    <2>1. k \in 1 .. Len(w) /\ k + 1 \in 1 .. Len(w) /\ k \in 1 .. Len(w) - 1
        BY <1>3
    <2>2. b[k].i = w[k] /\ b[k].links = d[w[k]] /\ b[k + 1].i = w[k + 1]
        <3>1. b[k] = [i |-> w[k], links |-> d[w[k]]]
            BY <1>3, <2>1
        <3>2. b[k + 1] = [i |-> w[k + 1], links |-> d[w[k + 1]]]
            BY <1>3, <2>1
        <3> QED  BY <3>1, <3>2
    <2>3. w[k + 1] = next[w[k]] /\ w[k + 1] # w[k] /\ w[k] \in Blocks(d)
        BY <1>1, <1>3, <2>1 DEF IsWalk
    <2> DEFINE i == w[k]
    <2>4. i \in Blocks(d) /\ PathNext(d, dest)[i] # i /\ w[k + 1] = PathNext(d, dest)[i]
        BY <2>3
    <2> HIDE DEF i
    <2>5. LET j == PathNext(d, dest)[i]
          IN  /\ i \in BackLinks(j) /\ j \in ToSet(d[i])
              /\ Len(d[i]) > Level(j - i) /\ d[i][Level(j - i) + 1] # EmptyLink
        BY <2>4, PathStep
    <2> QED  BY <2>2, <2>4, <2>5 DEF i
<1> QED  BY <1>4 DEF verifyChain, GetForwardLinks, w, b

\* A proof of a block ends at it.
LEMMA PathEnds ==
    ASSUME NEW top \in Indexes, NEW d, LeaderFits(d, top), NEW dest \in Blocks(d)
    PROVE  getPath(d, dest) # NoProof /\ getPath(d, dest) = Walk(PathNext(d, dest), 0)
<1> DEFINE next == PathNext(d, dest)
           w == Walk(next, 0)
           S == 0 .. dest
<1>1. DbFits(d, top) /\ Blocks(d) = 0 .. top /\ top \in Nat /\ dest \in Nat /\ dest <= top
    BY LinksAssumption DEF LeaderFits, Indexes
<1>2. S \in SUBSET Indexes /\ S \subseteq Blocks(d) /\ 0 \in S
    BY <1>1, LinksAssumption DEF Indexes
<1>3. Forward(next, S)
    <2>1. ASSUME NEW i \in S PROVE next[i] \in S /\ (next[i] = i \/ i < next[i])
        <3>1. i \in Blocks(d)
            BY <1>2
        <3>2. next[i] \in Blocks(d) /\ (next[i] = i \/ i < next[i])
            BY <1>1, <3>1, PathForward DEF Forward
        <3>3. next[i] # i => next[i] <= dest
            BY <1>1, <3>1, PathStep
        <3>4. next[i] \in Nat
            BY <1>1, <3>2
        <3> HIDE DEF next
        <3> QED  BY <1>1, <3>2, <3>3, <3>4
    <2> QED  BY <2>1 DEF Forward
<1>4. IsWalk(w, next, S, 0)
    BY <1>2, <1>3, WalkIs
<1> DEFINE z == w[Len(w)]
<1>5. z \in S /\ next[z] = z /\ Len(w) >= 1 /\ w \in Seq(S)
    BY <1>4 DEF IsWalk
<1>6. z = dest
    <2> SUFFICES ASSUME z # dest PROVE FALSE
        OBVIOUS
    <2> HIDE DEF z
    <2>1. z \in 0 .. top - 1 /\ z \in Nat /\ z + 1 <= dest
        BY <1>1, <1>5
    <2>2. z \in Blocks(d) /\ z + 1 \in Blocks(d) /\ 1 \in DOMAIN d[z] /\ d[z][1] = z + 1
        BY <2>1, LeaderLinks
    <2>3. 1 \in Jumps(d, z, dest)
        BY <2>1, <2>2 DEF Jumps
    <2>4. next[z] = d[z][Max(Jumps(d, z, dest))]
        BY <2>2, <2>3 DEF PathNext, getHighestJump
    <2>5. Max(Jumps(d, z, dest)) \in Jumps(d, z, dest)
        BY <1>1, <2>2, <2>3, JumpIs
    <2>6. z < d[z][Max(Jumps(d, z, dest))]
        BY <1>1, <2>2, <2>5, JumpIs
    <2> QED  BY <1>5, <2>1, <2>4, <2>6
<1>7. Last(w) = dest
    BY <1>6 DEF Last
<1>8. getPath(d, dest) = w
    BY <1>1, <1>7, PathIs
<1>9. w # << >>
    <2> HIDE DEF w
    <2>1. Len(<< >>) = 0
        OBVIOUS
    <2> QED  BY <1>5, <2>1
<1> QED  BY <1>8, <1>9 DEF NoProof

\* The proof without a destination, and the walk of a client, end at the newest block.
LEMMA LatestEnds ==
    ASSUME NEW top \in Indexes, NEW d, LeaderFits(d, top), NEW start \in Blocks(d)
    PROVE  /\ getPath(d, -1) # NoProof /\ Last(getPath(d, -1)) = top
           /\ Last(GetUpdateChain(d, start, MaximumHeight, 0)) = top
<1>1. DbFits(d, top) /\ Blocks(d) = 0 .. top /\ top \in Nat
    BY LinksAssumption DEF LeaderFits, Indexes
<1>2. getPath(d, -1) # NoProof /\ Last(getPath(d, -1)) = top
    <2> DEFINE next == PathNext(d, -1)
               w == Walk(next, 0)
               z == w[Len(w)]
    <2>1. IsWalk(w, next, Blocks(d), 0)
        BY <1>1, PathIs
    <2>2. z \in Blocks(d) /\ next[z] = z /\ Len(w) >= 1 /\ w \in Seq(Blocks(d))
        BY <2>1 DEF IsWalk
    <2>3. z = top
        <3> SUFFICES ASSUME z # top PROVE FALSE
            OBVIOUS
        <3> HIDE DEF z
        <3>1. z \in 0 .. top - 1 /\ z \in Nat /\ z # -1
            BY <1>1, <2>2
        <3>2. z \in Blocks(d) /\ z + 1 \in Blocks(d) /\ 1 \in DOMAIN d[z] /\ d[z][1] = z + 1
            BY <3>1, LeaderLinks
        <3>3. 1 \in Jumps(d, z, -1)
            BY <3>2 DEF Jumps
        <3>4. next[z] = d[z][Max(Jumps(d, z, -1))]
            BY <3>1, <3>2, <3>3 DEF PathNext, getHighestJump
        <3>5. Max(Jumps(d, z, -1)) \in Jumps(d, z, -1)
            BY <1>1, <3>2, <3>3, JumpIs
        <3>6. z < d[z][Max(Jumps(d, z, -1))]
            BY <1>1, <3>2, <3>5, JumpIs
        <3> QED  BY <2>2, <3>1, <3>4, <3>6
    <2>4. Last(w) = top
        BY <2>3 DEF Last
    <2>5. d[Last(w)] = << >>
        BY <2>4, TopEmpty
    <2> HIDE DEF w
    <2>6. getPath(d, -1) = w
        <3>1. -1 < 0
            OBVIOUS
        <3> QED  BY <1>1, <2>5, <3>1, PathIs DEF w
    <2>7. w # << >>
        <3>1. Len(<< >>) = 0
            OBVIOUS
        <3> QED  BY <2>2, <3>1
    <2> QED  BY <2>4, <2>6, <2>7 DEF NoProof
<1>3. Last(GetUpdateChain(d, start, MaximumHeight, 0)) = top
    <2> DEFINE next == HighestLink(d, MaximumHeight)
               w == Walk(next, start)
               z == w[Len(w)]
    <2>1. IsWalk(w, next, Blocks(d), start)
        BY <1>1, HighestWalk
    <2>2. z \in Blocks(d) /\ next[z] = z
        BY <2>1 DEF IsWalk
    <2>3. HighLink(d, z) = z
        <3> HIDE DEF z
        <3> QED  BY <1>1, <2>2, HighestIs
    <2>4. z = top
        <3> SUFFICES ASSUME z # top PROVE FALSE
            OBVIOUS
        <3> HIDE DEF z
        <3>1. z \in 0 .. top - 1 /\ z \in Nat
            BY <1>1, <2>2
        <3>2. 1 \in 1 .. Len(d[z]) /\ ListFits(z, d[z], top)
            BY <1>1, <2>2, <3>1, LeaderLinks DEF DbFits
        <3> DEFINE k == Len(d[z])
        <3>3. k \in Nat /\ k # 0 /\ k \in 1 .. Len(d[z]) /\ k - 1 \in Nat
            <4>1. Len(d[z]) \in Nat
                BY <3>2, ListFacts
            <4> QED  BY <3>2, <4>1
        <3>4. d[z][k] # EmptyLink /\ LinkFits(z, k, d[z][k], top)
            BY <3>2, <3>3, ListFacts
        <3> HIDE DEF k
        <3>5. d[z][k] = z + Power[k - 1] /\ d[z][k] <= top /\ Power[k - 1] \in Nat \ {0}
            BY <3>3, <3>4, PowerGrows DEF LinkFits
        <3>6. d[z][k] \in Blocks(d) /\ z < d[z][k]
            BY <1>1, <3>1, <3>5
        <3>7. HighLink(d, z) = d[z][k]
            BY <3>3, <3>6 DEF HighLink, k
        <3> QED  BY <2>3, <3>1, <3>5, <3>7
    <2>5. GetUpdateChain(d, start, MaximumHeight, 0) = w
        BY DEF GetUpdateChain
    <2> QED  BY <2>4, <2>5 DEF Last
<1> QED  BY <1>2, <1>3

-----------------------------------------------------------------------------
(* The inductive invariant: the chain has the blocks up to top.            *)

LinkRecords == [from : Indexes, to : Indexes, h : 0 .. MaximumHeight]
LinksFit(top) ==
    /\ AllFit(db, top) /\ LeaderFits(db[LinkLeader], top)
    /\ reqs \subseteq LinkRecords /\ sending \subseteq (LinkNodes \X LinkRecords)
    /\ \A p \in sending : GoodLink(p[2], top)
LinksInv == \E top \in Indexes : LinksFit(top)

\* The invariant holds with the genesis block alone.
LEMMA LinksStart == LinksInit => LinksInv
<1> SUFFICES ASSUME LinksInit PROVE LinksFit(0) /\ 0 \in Indexes
    BY DEF LinksInv
<1> DEFINE d == [i \in {0} |-> << >>]
<1>1. 0 \in Indexes
    BY LinksAssumption DEF Indexes
<1>2. db = [n \in LinkNodes |-> d] /\ reqs = {} /\ sending = {}
    BY DEF LinksInit
<1>3. Blocks(d) = {0} /\ d[0] = << >> /\ d = [i \in {0} |-> d[i]]
    BY DEF Blocks
<1> HIDE DEF d
<1>4. ListFits(0, << >>, 0)
    BY EmptyFits
<1>5. d \in Dbs
    <2>1. << >> \in Lists
        BY DEF Lists
    <2>2. d \in [{0} -> Lists]
        BY <1>3, <2>1
    <2> QED  BY <1>1, <2>2 DEF Dbs
<1>6. 0 .. 0 = {0} /\ 0 .. 0 - 1 = {}
    OBVIOUS
<1>7. DbFits(d, 0)
    BY <1>3, <1>4, <1>5, <1>6 DEF DbFits
<1>8. LeaderFits(d, 0)
    BY <1>3, <1>6, <1>7 DEF LeaderFits
<1>9. AllFit(db, 0)
    BY <1>2, <1>5, <1>7 DEF AllFit
<1>10. db[LinkLeader] = d
    BY <1>2, LinksAssumption
<1> QED  BY <1>1, <1>2, <1>8, <1>9, <1>10 DEF LinksFit

\* The links of level 0 to a new block, and the block.
Pair(tip) == <<[i |-> tip, links |-> <<tip + 1>>], [i |-> tip + 1, links |-> << >>]>>

\* They fit the longer chain.
LEMMA PairFits ==
    ASSUME NEW top \in Indexes, top < MaxIndex
    PROVE  /\ top + 1 \in Indexes /\ Len(Pair(top)) = 2
           /\ \A k \in 1 .. 2 : BlockFits(Pair(top)[k], top + 1)
<1>1. top \in Nat /\ MaxIndex \in Nat /\ top + 1 \in Indexes /\ top \in 0 .. top + 1 /\ top + 1 \in 0 .. top + 1
    BY LinksAssumption DEF Indexes
<1>2. Len(Pair(top)) = 2
    BY DEF Pair
<1> DEFINE l == <<top + 1>>
<1>3. l = [k \in 1 .. 1 |-> l[k]] /\ l[1] = top + 1 /\ Len(l) = 1
    OBVIOUS
<1> HIDE DEF l
<1>4. ListFits(top, l, top + 1)
    <2>1. 1 <= HeightOf(top)
        BY <1>1, HeightIs
    <2>2. LinkFits(top, 1, l[1], top + 1)
        BY <1>1, <1>3, PowerIs DEF LinkFits
    <2>3. l[1] \in Indexes \union {EmptyLink} /\ l[1] # EmptyLink
        BY <1>1, <1>3 DEF EmptyLink
    <2>4. \A k \in 1 .. 1 : k = 1
        OBVIOUS
    <2>5. \A k \in 1 .. 1 : l[k] \in Indexes \union {EmptyLink} /\ LinkFits(top, k, l[k], top + 1)
        BY <2>2, <2>3, <2>4
    <2>6. 1 \in Nat /\ (1 # 0 => l[1] # EmptyLink)
        BY <2>3
    <2> QED  BY <1>1, <1>3, <2>1, <2>5, <2>6, MadeList
<1>5. Pair(top)[1] = [i |-> top, links |-> l] /\ Pair(top)[2] = [i |-> top + 1, links |-> << >>]
    BY DEF Pair, l
<1>6. BlockFits(Pair(top)[1], top + 1)
    BY <1>1, <1>4, <1>5 DEF BlockFits
<1>7. BlockFits(Pair(top)[2], top + 1)
    <2>1. ListFits(top + 1, << >>, top + 1)
        BY <1>1, EmptyFits
    <2> QED  BY <1>1, <1>5, <2>1 DEF BlockFits
<1>8. \A k \in 1 .. 2 : k = 1 \/ k = 2
    OBVIOUS
<1> QED  BY <1>1, <1>2, <1>6, <1>7, <1>8

\* A node that stores them.
LEMMA StorePair ==
    ASSUME NEW top \in Indexes, top < MaxIndex, NEW d, DbFits(d, top)
    PROVE  DbFits(StoreBlocks(d, Pair(top)), top + 1)
<1>1. top <= top + 1 /\ top + 1 \in Indexes
    BY PairFits, LinksAssumption DEF Indexes
<1>2. DbFits(d, top + 1)
    BY <1>1, DbGrows
<1>3. Len(Pair(top)) \in Nat /\ \A k \in 1 .. Len(Pair(top)) : BlockFits(Pair(top)[k], top + 1)
    BY PairFits
<1> QED  BY <1>1, <1>2, <1>3, StoreFits

\* The leader links the new block.
LEMMA LeaderPair ==
    ASSUME NEW top \in Indexes, top < MaxIndex, NEW d, LeaderFits(d, top)
    PROVE  LeaderFits(StoreBlocks(d, Pair(top)), top + 1)
<1> DEFINE new == top + 1
           b1 == [i |-> top, links |-> <<new>>]
           b2 == [i |-> new, links |-> << >>]
           f == StoreBlocks(d, Pair(top))
<1>1. /\ DbFits(d, top) /\ Blocks(d) = 0 .. top /\ top \in Nat /\ new \in Nat /\ new \in Indexes /\ top <= new
      /\ new \notin Blocks(d) /\ top \in Blocks(d)
    BY PairFits, LinksAssumption DEF LeaderFits, Indexes
<1>2. d[top] = << >>
    BY TopEmpty
<1>3. DbFits(f, new)
    BY <1>1, StorePair
<1>4. Pair(top)[1] = b1 /\ Pair(top)[2] = b2 /\ Len(Pair(top)) = 2 /\ DOMAIN Pair(top) = 1 .. 2
    BY DEF Pair
<1>5. b1.i = top /\ b1.links = <<new>> /\ b2.i = new /\ b2.links = << >>
    OBVIOUS
<1>6. Len(<<new>>) = 1 /\ <<new>>[1] = new /\ ToSet(<<new>>) = {new} /\ Len(<< >>) = 0
    BY DEF ToSet
<1>7. 1 <= HeightOf(top) /\ 0 <= HeightOf(new)
    BY <1>1, HeightIs
<1> DEFINE p == Pair(top)
<1> HIDE DEF b1, b2, p, new, f
<1>8. Linkable(d, p)
    <2>1. p[1].i = top /\ p[1].links = <<new>> /\ p[2].i = new /\ p[2].links = << >>
        BY <1>4, <1>5 DEF p
    <2>2. p[1].i \in Blocks(d) /\ Len(p[1].links) <= HeightOf(p[1].i)
        BY <1>1, <1>6, <1>7, <2>1
    <2>3. 1 \in 1 .. 2 - 1 /\ p[2].i \in ToSet(p[1].links) /\ Len(p[2].links) <= HeightOf(p[2].i)
        BY <1>6, <1>7, <2>1
    <2>4. \A k \in DOMAIN p : k = 1 \/ k = 2
        BY <1>4 DEF p
    <2> QED  BY <2>2, <2>3, <2>4 DEF Linkable
<1>9. PICK a : /\ f = a[Len(p)] /\ a[0] = d
               /\ \A k \in 1 .. Len(p) : a[k] = AddBlock(a[k - 1], p[k])
               /\ \A k \in 0 .. Len(p) : DbFits(a[k], new)
    <2>1. DbFits(d, new)
        BY <1>1, DbGrows
    <2>2. Len(p) \in Nat /\ \A k \in 1 .. Len(p) : BlockFits(p[k], new)
        BY PairFits DEF p, new
    <2>3. Linkable(d, p) => \E a : /\ StoreBlocks(d, p) = a[Len(p)] /\ a[0] = d
                                   /\ \A k \in 1 .. Len(p) : a[k] = AddBlock(a[k - 1], p[k])
                                   /\ \A k \in 0 .. Len(p) : DbFits(a[k], new)
        BY <1>1, <2>1, <2>2, StoreFits
    <2> QED  BY <1>8, <2>3 DEF f, p
<1>10. a[1] = AddBlock(d, b1) /\ a[2] = AddBlock(a[1], b2) /\ f = a[2]
    <2>1. 1 \in 1 .. 2 /\ 2 \in 1 .. 2 /\ 1 - 1 = 0 /\ 2 - 1 = 1
        OBVIOUS
    <2> QED  BY <1>4, <1>9, <2>1 DEF p
<1>11. Merged(d, b1)[1] = new /\ Len(Merged(d, b1)) = 1
    <2>1. NewLinks(d, b1) = {1}
        <3>1. Len(d[b1.i]) + 1 .. Len(b1.links) = {1}
            BY <1>2, <1>5, <1>6
        <3>2. b1.links[1] # EmptyLink /\ b1.links[1] \notin Blocks(d)
            BY <1>1, <1>5, <1>6 DEF EmptyLink
        <3>3. 1 <= HeightOf(b1.i)
            BY <1>5, <1>7
        <3> QED  BY <3>1, <3>2, <3>3 DEF NewLinks
    <2>2. Max({1}) = 1
        <3>1. Max({1, 1}) = 1
            BY MaxMinOfTwo
        <3>2. {1, 1} = {1}
            OBVIOUS
        <3> QED  BY <3>1, <3>2
    <2>3. Merged(d, b1) = [k \in 1 .. 1 |-> IF k <= Len(d[b1.i]) THEN d[b1.i][k]
                                            ELSE IF k \in {1} THEN b1.links[k] ELSE EmptyLink]
        BY <2>1, <2>2 DEF Merged
    <2>4. Len(d[b1.i]) = 0
        BY <1>2, <1>5, <1>6
    <2>5. Merged(d, b1) = [k \in 1 .. 1 |-> new]
        BY <1>5, <1>6, <2>3, <2>4
    <2> QED  BY <2>5
<1>12. /\ Blocks(a[1]) = 0 .. top /\ a[1][top] = Merged(d, b1)
       /\ \A i \in 0 .. top : i # top => a[1][i] = d[i]
    BY <1>1, <1>5, <1>10 DEF AddBlock, Blocks
<1>13. /\ Blocks(f) = (0 .. top) \union {new}
       /\ \A i \in 0 .. top : f[i] = a[1][i]
    <2>1. new \notin 0 .. top
        BY <1>1
    <2> QED  BY <1>5, <1>10, <1>12, <2>1 DEF AddBlock, Blocks
<1>14. Blocks(f) = 0 .. new
    BY <1>1, <1>13 DEF new
<1>15. ASSUME NEW i \in 0 .. new - 1 PROVE Len(f[i]) # 0 /\ f[i][1] = i + 1
    <2>1. i \in 0 .. top /\ i \in Nat
        BY <1>1 DEF new
    <2>2. CASE i = top
        BY <1>11, <1>12, <1>13, <2>1, <2>2 DEF new
    <2>3. CASE i # top
        <3>1. i \in 0 .. top - 1
            BY <1>1, <2>1, <2>3
        <3>2. f[i] = d[i]
            BY <1>12, <1>13, <2>1, <2>3
        <3> QED  BY <3>1, <3>2 DEF LeaderFits
    <2> QED  BY <2>2, <2>3
<1> QED  BY <1>3, <1>14, <1>15 DEF LeaderFits, f, new

\* A longer chain keeps the links under way.
LEMMA GoodLinkGrows ==
    ASSUME NEW top \in Indexes, NEW l \in LinkRecords, GoodLink(l, top)
    PROVE  GoodLink(l, top + 1)
<1>1. l.to \in Int /\ top \in Int
    BY LinksAssumption DEF LinkRecords, Indexes
<1> QED  BY <1>1 DEF GoodLink

\* A new block.
LEMMA NewBlockFits ==
    ASSUME NEW top \in Indexes, LinksFit(top), NEW signers, NEW reached, NewBlock(signers, reached)
    PROVE  LinksInv'
<1> DEFINE synced == [n \in LinkNodes |->
                        IF n \in signers /\ top \notin Blocks(db[n])
                        THEN SyncChain(db[n], db[LinkLeader], top) ELSE db[n]]
           new == top + 1
<1>0. /\ LinkLeader \in LinkNodes /\ DbFits(db[LinkLeader], top) /\ LeaderFits(db[LinkLeader], top)
      /\ db \in [LinkNodes -> Dbs] /\ \A n \in LinkNodes : DbFits(db[n], top)
    BY LinksAssumption DEF LinksFit, AllFit
<1>1. Tip(db[LinkLeader]) = top
    BY <1>0, TipIs
<1>2. /\ top < MaxIndex /\ LinkLeader \in reached
      /\ db' = [n \in LinkNodes |-> IF n \in reached THEN StoreBlocks(synced[n], Pair(top)) ELSE synced[n]]
      /\ reqs' = reqs \union {[from |-> BackLink(new, h), to |-> new, h |-> h] : h \in 1 .. HeightOf(new) - 1}
      /\ sending' = sending
    BY <1>1 DEF NewBlock, Pair
<1>3. new \in Indexes /\ top \in Nat /\ top <= new /\ new \in Nat /\ new # 0
    BY <1>2, PairFits, LinksAssumption DEF Indexes
<1>4. ASSUME NEW n \in LinkNodes PROVE DbFits(synced[n], top)
    <2>1. DbFits(SyncChain(db[n], db[LinkLeader], top), top)
        BY <1>0, SyncFits DEF Grown
    <2> QED  BY <1>0, <2>1
<1>5. synced[LinkLeader] = db[LinkLeader]
    <2>1. top \in Blocks(db[LinkLeader])
        BY <1>0, TopEmpty
    <2> QED  BY <1>0, <2>1
<1> HIDE DEF synced
<1>6. ASSUME NEW n \in LinkNodes PROVE DbFits(db'[n], new)
    <2>1. CASE n \in reached
        <3>1. db'[n] = StoreBlocks(synced[n], Pair(top))
            BY <1>2, <2>1
        <3> QED  BY <1>2, <1>4, <3>1, StorePair
    <2>2. CASE n \notin reached
        <3>1. db'[n] = synced[n]
            BY <1>2, <2>2
        <3>2. DbFits(synced[n], top)
            BY <1>4
        <3> HIDE DEF new
        <3> QED  BY <1>3, <3>1, <3>2, DbGrows
    <2> QED  BY <2>1, <2>2
<1>7. AllFit(db', new)
    <2>1. \A n \in LinkNodes : db'[n] \in Dbs
        BY <1>6 DEF DbFits
    <2>2. db' = [n \in LinkNodes |-> db'[n]]
        BY <1>2
    <2>3. db' \in [LinkNodes -> Dbs]
        BY <2>1, <2>2
    <2> QED  BY <1>6, <2>3 DEF AllFit
<1>8. LeaderFits(db'[LinkLeader], new)
    <2>1. db'[LinkLeader] = StoreBlocks(db[LinkLeader], Pair(top))
        BY <1>0, <1>2, <1>5
    <2> QED  BY <1>0, <1>2, <2>1, LeaderPair
<1>9. reqs' \subseteq LinkRecords
    <2>1. ASSUME NEW h \in 1 .. HeightOf(new) - 1
          PROVE  [from |-> BackLink(new, h), to |-> new, h |-> h] \in LinkRecords
        <3>1. HeightOf(new) \in 1 .. MaximumHeight /\ MaximumHeight \in Nat
            BY <1>3, HeightIs
        <3>2. h \in Nat /\ h < MaximumHeight /\ h \in 0 .. MaximumHeight
            BY <3>1
        <3>3. BackLink(new, h) \in 0 .. new - 1
            BY <1>3, <3>2, BackLinkType
        <3>4. BackLink(new, h) \in Indexes
            BY <1>3, <3>3, LinksAssumption DEF Indexes
        <3> QED  BY <1>3, <3>2, <3>4 DEF LinkRecords
    <2>2. reqs \subseteq LinkRecords
        BY DEF LinksFit
    <2> QED  BY <1>2, <2>1, <2>2
<1>10. sending' \subseteq (LinkNodes \X LinkRecords) /\ \A p \in sending' : GoodLink(p[2], new)
    <2>1. sending \subseteq (LinkNodes \X LinkRecords)
        BY DEF LinksFit
    <2>2. ASSUME NEW p \in sending PROVE GoodLink(p[2], new)
        <3>1. p[2] \in LinkRecords
            BY <2>1
        <3>2. GoodLink(p[2], top)
            BY DEF LinksFit
        <3> QED  BY <3>1, <3>2, GoodLinkGrows
    <2> QED  BY <1>2, <2>1, <2>2
<1>11. LinksFit(new)'
    BY <1>7, <1>8, <1>9, <1>10 DEF LinksFit, AllFit
<1> QED  BY <1>3, <1>11 DEF LinksInv

\* A step in which the databases grow, or one is cut, keeps the rest.
LEMMA SameTop ==
    ASSUME NEW top \in Indexes, LinksFit(top), AllFit(db', top), LeaderFits(db'[LinkLeader], top),
           reqs' \subseteq reqs, sending' \subseteq (LinkNodes \X LinkRecords),
           \A p \in sending' : GoodLink(p[2], top)
    PROVE  LinksInv'
<1>1. reqs' \subseteq LinkRecords
    BY DEF LinksFit
<1>2. LinksFit(top)'
    BY <1>1 DEF LinksFit, AllFit
<1> QED  BY <1>2 DEF LinksInv

\* The same for a step in which the databases of all nodes grow.
LEMMA GrownTop ==
    ASSUME NEW top \in Indexes, LinksFit(top), AllGrown(db, db', top),
           reqs' \subseteq reqs, sending' \subseteq (LinkNodes \X LinkRecords),
           \A p \in sending' : GoodLink(p[2], top)
    PROVE  LinksInv'
<1>1. AllFit(db', top) /\ LinkLeader \in LinkNodes
    BY LinksAssumption DEF AllGrown
<1>2. Grown(db[LinkLeader], db'[LinkLeader], top)
    BY <1>1 DEF AllGrown, AllFit, Grown
<1>3. LeaderFits(db[LinkLeader], top)
    BY DEF LinksFit
<1>4. LeaderFits(db'[LinkLeader], top)
    BY <1>2, <1>3, LeaderGrows
<1> QED  BY <1>1, <1>4, SameTop

\* The facts of a state.
LEMMA LinksFacts ==
    ASSUME NEW top \in Indexes, LinksFit(top)
    PROVE  /\ LinkLeader \in LinkNodes /\ DbFits(db[LinkLeader], top) /\ LeaderFits(db[LinkLeader], top)
           /\ AllFit(db, top) /\ db \in [LinkNodes -> Dbs] /\ \A n \in LinkNodes : DbFits(db[n], top)
           /\ Tip(db[LinkLeader]) = top /\ sending \subseteq (LinkNodes \X LinkRecords)
           /\ \A p \in sending : p[1] \in LinkNodes /\ p[2] \in LinkRecords /\ GoodLink(p[2], top)
<1>1. /\ LinkLeader \in LinkNodes /\ DbFits(db[LinkLeader], top) /\ LeaderFits(db[LinkLeader], top)
      /\ AllFit(db, top) /\ db \in [LinkNodes -> Dbs] /\ \A n \in LinkNodes : DbFits(db[n], top)
    BY LinksAssumption DEF LinksFit, AllFit
<1>2. Tip(db[LinkLeader]) = top
    BY <1>1, TipIs
<1>3. sending \subseteq (LinkNodes \X LinkRecords) /\ \A p \in sending : GoodLink(p[2], top)
    BY DEF LinksFit
<1>4. \A p \in sending : p[1] \in LinkNodes /\ p[2] \in LinkRecords
    BY <1>3
<1> QED  BY <1>1, <1>2, <1>3, <1>4

\* The leader makes a link that was asked for, or does not.
LEMMA ForwardLinkStep ==
    ASSUME NEW top \in Indexes, LinksFit(top), NEW l \in reqs, ForwardLinkHandler(l)
    PROVE  LinksInv'
<1>1. l \in LinkRecords /\ l.h \in Nat
    <2>1. l \in LinkRecords
        BY DEF LinksFit
    <2>2. l.h \in 0 .. MaximumHeight
        BY <2>1 DEF LinkRecords
    <2> QED  BY <2>1, <2>2, LinksAssumption
<1>2. reqs' \subseteq reqs
    BY DEF ForwardLinkHandler
<1>3. CASE Signed(db, l)
    <2>1. GoodLink(l, top)
        BY <1>1, <1>3, LinksFacts, SignedFits
    <2>2. Grown(db[LinkLeader], propagateForwardLinkHandler(db[LinkLeader], l), top)
        BY <2>1, LinksFacts, LinkHandlerFits
    <2>3. AllGrown(db, [db EXCEPT ![LinkLeader] = propagateForwardLinkHandler(db[LinkLeader], l)], top)
        BY <2>2, LinksFacts, OneGrown
    <2>4. /\ db' = [db EXCEPT ![LinkLeader] = propagateForwardLinkHandler(db[LinkLeader], l)]
          /\ sending' = sending \union {<<n, l>> : n \in LinkNodes \ {LinkLeader}}
        BY <1>3 DEF ForwardLinkHandler
    <2>5. sending' \subseteq (LinkNodes \X LinkRecords)
        BY <1>1, <2>4, LinksFacts
    <2>6. ASSUME NEW p \in sending' PROVE GoodLink(p[2], top)
        <3>1. CASE p \in sending
            BY <3>1, LinksFacts
        <3>2. CASE p \in {<<n, l>> : n \in LinkNodes \ {LinkLeader}}
            <4>1. p[2] = l
                BY <3>2
            <4> QED  BY <2>1, <4>1
        <3> QED  BY <2>4, <3>1, <3>2
    <2>7. AllGrown(db, db', top)
        BY <2>3, <2>4
    <2> QED  BY <1>2, <2>5, <2>6, <2>7, GrownTop
<1>4. CASE ~Signed(db, l)
    <2>1. db' = db /\ sending' = sending
        BY <1>4 DEF ForwardLinkHandler
    <2>2. AllGrown(db, db', top)
        BY <2>1, LinksFacts, AllGrownSelf
    <2> QED  BY <1>2, <2>1, <2>2, LinksFacts, GrownTop
<1> QED  BY <1>3, <1>4

\* A propagated link arrives or is lost.
LEMMA ReceiveLinkStep ==
    ASSUME NEW top \in Indexes, LinksFit(top), NEW p \in sending, ReceiveLink(p) \/ LoseLink(p)
    PROVE  LinksInv'
<1>1. sending' \subseteq sending /\ reqs' = reqs
    BY DEF ReceiveLink, LoseLink
<1>2. sending' \subseteq (LinkNodes \X LinkRecords) /\ \A q \in sending' : GoodLink(q[2], top)
    BY <1>1, LinksFacts
<1>3. CASE ReceiveLink(p)
    <2> DEFINE n == p[1]
               l == p[2]
    <2>1. n \in LinkNodes /\ GoodLink(l, top) /\ DbFits(db[n], top)
        BY LinksFacts
    <2>2. db' = [db EXCEPT ![n] = propagateForwardLinkHandler(db[n], l)]
        BY <1>3 DEF ReceiveLink
    <2> HIDE DEF n, l
    <2>3. Grown(db[n], propagateForwardLinkHandler(db[n], l), top)
        BY <2>1, LinkHandlerFits
    <2>4. AllGrown(db, [db EXCEPT ![n] = propagateForwardLinkHandler(db[n], l)], top)
        BY <2>1, <2>3, LinksFacts, OneGrown
    <2>5. AllGrown(db, db', top)
        BY <2>2, <2>4
    <2> QED  BY <1>1, <1>2, <2>5, GrownTop
<1>4. CASE LoseLink(p)
    <2>1. db' = db
        BY <1>4 DEF LoseLink
    <2>2. AllGrown(db, db', top)
        BY <2>1, LinksFacts, AllGrownSelf
    <2> QED  BY <1>1, <1>2, <2>2, GrownTop
<1> QED  BY <1>3, <1>4

\* The links of a block or of a chain are completed and the new proof is sent.
LEMMA OptimizeStep ==
    ASSUME NEW top \in Indexes, LinksFit(top), NEW i \in Indexes, NEW reached, OptimizeProof(i, reached)
    PROVE  LinksInv'
<1> DEFINE dbs == IF i = 0 THEN optimizeChain ELSE optimizeBlock(i)
           dest == IF i = 0 THEN -1 ELSE i
           proof == WithLinks(dbs[LinkLeader], getPath(dbs[LinkLeader], dest))
<1>1. /\ i \in Blocks(db[LinkLeader]) /\ i < top /\ reqs' = reqs /\ sending' = sending
      /\ db' = [n \in LinkNodes |->
                    IF n \in reached \ {LinkLeader} THEN propagateProofHandler(dbs[n], proof) ELSE dbs[n]]
    <2>1. Tip(db[LinkLeader]) = top
        BY LinksFacts
    <2> QED  BY <2>1 DEF OptimizeProof
<1>2. AllGrown(db, dbs, top)
    <2>1. AllFit(db, top) /\ top = Tip(db[LinkLeader]) /\ LeaderFits(db[LinkLeader], top)
        BY LinksFacts
    <2>2. getPath(db[LinkLeader], -1) # NoProof
        BY <1>1, <2>1, LatestEnds
    <2>3. AllGrown(db, optimizeChain, top)
        BY <2>1, <2>2, OptimizeChainFits
    <2>4. AllGrown(db, optimizeBlock(i), top)
        BY <1>1, <2>1, OptimizeBlockFits
    <2> QED  BY <2>3, <2>4
<1> HIDE DEF dbs, dest
<1>3. ASSUME NEW n \in LinkNodes PROVE DbFits(db'[n], top) /\ ExtendsDb(dbs[n], db'[n])
    <2>1. DbFits(dbs[n], top) /\ DbFits(dbs[LinkLeader], top)
        BY <1>2, LinksAssumption DEF AllGrown, AllFit
    <2>2. Grown(dbs[n], propagateProofHandler(dbs[n], proof), top)
        BY <2>1, ProofHandlerFits
    <2>3. Grown(dbs[n], dbs[n], top)
        BY <2>1, ExtendsSelf DEF Grown
    <2> HIDE DEF proof
    <2> QED  BY <1>1, <2>2, <2>3 DEF Grown
<1>4. AllGrown(dbs, db', top)
    <2>1. \A n \in LinkNodes : db'[n] \in Dbs
        BY <1>3 DEF DbFits
    <2>2. db' = [n \in LinkNodes |-> db'[n]]
        BY <1>1
    <2>3. db' \in [LinkNodes -> Dbs]
        BY <2>1, <2>2
    <2> QED  BY <1>3, <2>3 DEF AllGrown, AllFit
<1>5. AllGrown(db, db', top)
    BY <1>2, <1>4, LinksFacts, AllGrownTransitive
<1> QED  BY <1>1, <1>5, LinksFacts, GrownTop

\* A node looks for the newest block.
LEMMA GetLatestStep ==
    ASSUME NEW top \in Indexes, LinksFit(top), NEW n \in LinkNodes, NEW start, GetLatest(n, start)
    PROVE  LinksInv'
<1> DEFINE d == db[n]
           W == ToSet(Walk([i \in Blocks(d) |-> IF CutAt(d, i) = 0 THEN i ELSE d[i][CutAt(d, i)]], start))
<1>1. db' = [db EXCEPT ![n] = Cut(d, W)] /\ reqs' = reqs /\ sending' = sending
    BY DEF GetLatest, Cut, CutAt
<1> HIDE DEF W
<1>2. DbFits(Cut(d, W), top) /\ (LeaderFits(d, top) => LeaderFits(Cut(d, W), top))
    BY LinksFacts, CutFits
<1>3. db \in [LinkNodes -> Dbs] /\ Cut(d, W) \in Dbs
    BY <1>2, LinksFacts DEF DbFits
<1> DEFINE e == Cut(d, W)
<1> HIDE DEF e
<1>4. \A m \in LinkNodes : db'[m] = IF m = n THEN e ELSE db[m]
    BY <1>1, <1>3 DEF e
<1>5. AllFit(db', top)
    <2>1. db' \in [LinkNodes -> Dbs]
        BY <1>1, <1>3
    <2> QED  BY <1>2, <1>4, <2>1, LinksFacts DEF AllFit, e
<1>6. LeaderFits(db'[LinkLeader], top)
    <2>1. LinkLeader \in LinkNodes /\ LeaderFits(db[LinkLeader], top)
        BY LinksFacts
    <2> QED  BY <1>2, <1>4, <2>1 DEF e
<1> QED  BY <1>1, <1>5, <1>6, LinksFacts, SameTop

\* A node catches up.
LEMMA SyncStep ==
    ASSUME NEW top \in Indexes, LinksFit(top), NEW n \in LinkNodes, NEW m \in LinkNodes, Sync(n, m)
    PROVE  LinksInv'
<1>1. db' = [db EXCEPT ![n] = SyncChain(db[n], db[m], Tip(db[n]))] /\ reqs' = reqs /\ sending' = sending
    BY DEF Sync
<1>2. DbFits(db[n], top) /\ DbFits(db[m], top) /\ AllFit(db, top)
    BY LinksFacts
<1>3. Grown(db[n], SyncChain(db[n], db[m], Tip(db[n])), top)
    BY <1>2, SyncFits
<1>4. AllGrown(db, [db EXCEPT ![n] = SyncChain(db[n], db[m], Tip(db[n]))], top)
    BY <1>2, <1>3, OneGrown
<1>5. AllGrown(db, db', top)
    BY <1>1, <1>4
<1> QED  BY <1>1, <1>5, LinksFacts, GrownTop

\* A node gets the proof of the newest block.
LEMMA PropagateProofStep ==
    ASSUME NEW top \in Indexes, LinksFit(top), NEW n \in LinkNodes, PropagateProof(n)
    PROVE  LinksInv'
<1> DEFINE e == propagateProofHandler(db[n], WithLinks(db[LinkLeader], getPath(db[LinkLeader], -1)))
<1>1. db' = [db EXCEPT ![n] = e] /\ reqs' = reqs /\ sending' = sending
    BY DEF PropagateProof
<1>2. DbFits(db[n], top) /\ DbFits(db[LinkLeader], top) /\ AllFit(db, top)
    BY LinksFacts
<1>3. Grown(db[n], e, top)
    BY <1>2, ProofHandlerFits
<1> HIDE DEF e
<1>4. AllGrown(db, [db EXCEPT ![n] = e], top)
    BY <1>2, <1>3, OneGrown
<1>5. AllGrown(db, db', top)
    BY <1>1, <1>4
<1> QED  BY <1>1, <1>5, LinksFacts, GrownTop

\* Every step keeps the invariant.
LEMMA LinksStep ==
    ASSUME LinksInv, [LinksNext]_linkVars
    PROVE  LinksInv'
<1>1. PICK top \in Indexes : LinksFit(top)
    BY DEF LinksInv
<1>2. CASE \E signers, reached \in SUBSET LinkNodes : NewBlock(signers, reached)
    BY <1>1, <1>2, NewBlockFits
<1>3. CASE \E l \in reqs : ForwardLinkHandler(l)
    BY <1>1, <1>3, ForwardLinkStep
<1>4. CASE \E p \in sending : ReceiveLink(p) \/ LoseLink(p)
    BY <1>1, <1>4, ReceiveLinkStep
<1>5. CASE \E i \in Indexes : \E reached \in SUBSET LinkNodes : OptimizeProof(i, reached)
    BY <1>1, <1>5, OptimizeStep
<1>6. CASE \E n, m \in LinkNodes : Sync(n, m)
    BY <1>1, <1>6, SyncStep
<1>7. CASE \E n \in LinkNodes : \E i \in Indexes : GetLatest(n, i)
    BY <1>1, <1>7, GetLatestStep
<1>8. CASE \E n \in LinkNodes : PropagateProof(n)
    BY <1>1, <1>8, PropagateProofStep
<1>9. CASE UNCHANGED linkVars
    <2>1. db' = db /\ reqs' = reqs /\ sending' = sending
        BY <1>9 DEF linkVars
    <2>2. AllGrown(db, db', top)
        BY <1>1, <2>1, LinksFacts, AllGrownSelf
    <2> QED  BY <1>1, <2>1, <2>2, LinksFacts, GrownTop
<1> QED  BY <1>2, <1>3, <1>4, <1>5, <1>6, <1>7, <1>8, <1>9 DEF LinksNext

\* What the invariant shows.
LEMMA LinksShown == LinksInv => LinksTypeOK /\ LeaderProvesEveryBlock /\ LinksMatchLevel
<1> SUFFICES ASSUME NEW top \in Indexes, LinksFit(top)
             PROVE  LinksTypeOK /\ LeaderProvesEveryBlock /\ LinksMatchLevel
    BY DEF LinksInv
<1>1. LinksTypeOK
    <2>1. ASSUME NEW n \in LinkNodes, NEW i \in Blocks(db[n])
          PROVE  i \in Indexes /\ db[n][i] \in Seq(Indexes \union {EmptyLink})
        <3>1. DbFits(db[n], top)
            BY LinksFacts
        <3>2. i \in Indexes
            BY <3>1, KnownLink
        <3> QED  BY <3>1, <3>2 DEF DbFits, ListFits, Lists
    <2> QED  BY <2>1 DEF LinksTypeOK, LinksFit, LinkRecords
<1>2. LeaderProvesEveryBlock
    <2> DEFINE d == db[LinkLeader]
    <2>1. LeaderFits(d, top) /\ DbFits(d, top) /\ Tip(d) = top
        BY LinksFacts
    <2> HIDE DEF d
    <2>2. ASSUME NEW i \in Blocks(d)
          PROVE  /\ getPath(d, i) # NoProof
                 /\ verifyChain(WithLinks(d, getPath(d, i))) /\ GetForwardLinks(WithLinks(d, getPath(d, i)))
                 /\ Last(getPath(d, -1)) = Tip(d)
                 /\ Last(GetUpdateChain(d, i, MaximumHeight, 0)) = Tip(d)
        <3>1. getPath(d, i) # NoProof /\ getPath(d, i) = Walk(PathNext(d, i), 0)
            BY <2>1, PathEnds
        <3>2. i \in Int
            BY <2>1, KnownLink
        <3>3. verifyChain(WithLinks(d, Walk(PathNext(d, i), 0))) /\ GetForwardLinks(WithLinks(d, Walk(PathNext(d, i), 0)))
            BY <2>1, <3>2, PathVerifies
        <3>4. Last(getPath(d, -1)) = top /\ Last(GetUpdateChain(d, i, MaximumHeight, 0)) = top
            BY <2>1, LatestEnds
        <3> QED  BY <2>1, <3>1, <3>3, <3>4
    <2> QED  BY <2>2 DEF LeaderProvesEveryBlock, d
<1>3. LinksMatchLevel
    <2>1. ASSUME NEW n \in LinkNodes, NEW i \in Blocks(db[n]), NEW k \in DOMAIN db[n][i]
          PROVE  db[n][i][k] \in {EmptyLink, i + Power[k - 1]}
        <3>1. LinkFits(i, k, db[n][i][k], top)
            BY LinksFacts DEF DbFits, ListFits
        <3> QED  BY <3>1 DEF LinkFits
    <2> QED  BY <2>1 DEF LinksMatchLevel
<1> QED  BY <1>1, <1>2, <1>3

\* The invariant of a behaviour that makes links.
LinkInv == active = "links" => LinksInv

\* A step of a behaviour that makes links is one of theirs.
LEMMA LinkSteps ==
    ASSUME active = "links", [SigningNext]_SigningVars
    PROVE  [LinksNext]_linkVars /\ UNCHANGED active
BY DEF SigningNext, SigningVars

\* For every roster, base, height and length of the chain, and with links that
\* are lost, overtake each other or are made again by an optimisation: the leader
\* proves every block with links that verify, a client that follows it gets to the
\* newest block, and every link of every node jumps exactly as far as its level
\* says (skipchain getPath, GetUpdateChain, GetLatest, AddForwardLink, StoreBlocks,
\* OptimizeProof, SyncChain).
THEOREM LinksAlwaysRight == SigningSpec => []LinksRight
<1>1. SigningInit => LinkInv
    <2> SUFFICES ASSUME SigningInit, active = "links" PROVE LinksInv
        BY DEF LinkInv
    <2>1. LinksInit
        BY DEF SigningInit
    <2> QED  BY <2>1, LinksStart
<1>2. LinkInv /\ [SigningNext]_SigningVars => LinkInv'
    <2> SUFFICES ASSUME LinkInv, [SigningNext]_SigningVars, active' = "links" PROVE LinksInv'
        BY DEF LinkInv
    <2>1. active = "links"
        BY ActiveStays
    <2>2. LinksInv
        BY <2>1 DEF LinkInv
    <2> QED  BY <2>1, <2>2, LinkSteps, LinksStep
<1>3. LinkInv => LinksRight
    BY LinksShown DEF LinkInv, LinksRight
<1> QED  BY <1>1, <1>2, <1>3, PTL DEF SigningSpec

-----------------------------------------------------------------------------
(* Types of the protocols. They need what the invariants above say of the    *)
(* state, and a bit more: who is asked for a signature, which announcements  *)
(* are late, how far a node is when it has counted enough.                   *)

BlsTyped ==
    /\ BlsTypeOK
    /\ \A i \in Trees : inst[i].asked \subseteq ToSet(subTrees[i])
    /\ \A a \in late : a[1] \in Members /\ a[3] \subseteq Members

\* A subtree has its sub-leader and its leaves, in whatever order.
LEMMA OfSubTree ==
    ASSUME BlsInv, NEW i \in Trees
    PROVE  /\ SubLeader(subTrees[i]) \in ToSet(subTrees[i])
           /\ Leaves(subTrees[i]) \subseteq ToSet(subTrees[i])
           /\ ToSet(Rotated(subTrees[i])) = ToSet(subTrees[i])
           /\ ToSet(subTrees[i]) \subseteq Members
<1> DEFINE q == subTrees[i]
<1>1. q \in Seq(Members) /\ q # <<>>
    BY SubTreeMembers
<1> HIDE DEF q
<1>2. Len(q) \in Nat /\ Len(q) >= 1 /\ DOMAIN q = 1 .. Len(q) /\ Head(q) = q[1]
    BY <1>1
<1>3. Tail(q) \in Seq(Members) /\ Len(Tail(q)) = Len(q) - 1
      /\ \A k \in 1 .. Len(q) - 1 : Tail(q)[k] = q[k + 1]
    BY <1>1, HeadTailProperties
<1>4. Head(q) \in ToSet(q)
    BY <1>2 DEF ToSet
<1>5. Leaves(q) \subseteq ToSet(q)
    <2> SUFFICES ASSUME NEW k \in 1 .. Len(q) - 1 PROVE Tail(q)[k] \in ToSet(q)
        BY <1>2, <1>3 DEF Leaves, ToSet
    <2>1. k + 1 \in 1 .. Len(q)
        BY <1>2
    <2> QED  BY <1>2, <1>3, <2>1 DEF ToSet
<1>6. ToSet(Rotated(q)) = ToSet(q)
    BY <1>1, <1>2, RotationKeeps DEF Rotated
<1>7. ToSet(q) \subseteq Members
    BY <1>1 DEF ToSet
<1> QED  BY <1>4, <1>5, <1>6, <1>7 DEF q, SubLeader

\* A verification of a member keeps the entries to members.
LEMMA EntriesTyped ==
    ASSUME BlsTyped, NEW n \in Members, NEW ph
    PROVE  Entries(n, ph) \subseteq Members
BY DEF Entries, BlsTyped, BlsTypeOK

\* What outlives a sub-protocol is addressed to members.
LEMMA LateTyped ==
    ASSUME BlsInv, BlsTyped, NEW S \in SUBSET Trees, Outlive(UNION {Pending(i) : i \in S})
    PROVE  \A a \in late' : a[1] \in Members /\ a[3] \subseteq Members
<1>1. \A a \in late : a[1] \in Members /\ a[3] \subseteq Members
    BY DEF BlsTyped
<1>2. ASSUME NEW i \in S, NEW a \in Pending(i) PROVE a[1] \in Members /\ a[3] \subseteq Members
    <2>1. inst[i].asked \subseteq Members
        BY OfSubTree DEF BlsTyped
    <2>2. CASE \E n \in inst[i].asked : a = <<n, phase, {}>>
        BY <2>1, <2>2
    <2>3. CASE a = <<SubLeader(subTrees[i]), phase, Leaves(subTrees[i])>>
        BY <2>3, SubTreeMembers
    <2> QED  BY <1>2, <2>2, <2>3 DEF Pending
<1>3. PICK some \in SUBSET UNION {Pending(i) : i \in S} : late' = late \union some
    BY DEF Outlive
<1> QED  BY <1>1, <1>2, <1>3

\* Every step of a collective signature keeps the types.
LEMMA BlsTypedStep ==
    ASSUME BlsInv, BlsTyped, [BlsNext]_blsVars
    PROVE  BlsTyped'
<1>0. /\ inst \in [Trees -> Instances] /\ subTrees \in [Trees -> Seq(Members)]
      /\ CosiRoot \in Members
    BY TreeNumbers, BlsAssumption DEF BlsInv, Members
<1> DEFINE WithinTrees(t, x) == \A k \in Trees : x[k].signed \subseteq ToSet(t[k]) /\ x[k].asked \subseteq ToSet(t[k])
           Same(t) == \A k \in Trees : ToSet(t[k]) = ToSet(genTrees[k])
           Lates(l) == \A a \in l : a[1] \in Members /\ a[3] \subseteq Members
           Cols == [Trees -> {"wait", "ready", "error", "counted"}]
           Rest == /\ phase' \in {"prep", "commit", "signed", "failed"}
                   /\ buffer' \subseteq Members /\ final' \subseteq Members /\ down' \subseteq Others
<1>a. /\ WithinTrees(subTrees, inst) /\ Same(subTrees) /\ Lates(late) /\ col \in Cols
      /\ phase \in {"prep", "commit", "signed", "failed"}
      /\ buffer \subseteq Members /\ final \subseteq Members /\ down \subseteq Others
    BY DEF BlsTyped, BlsTypeOK
<1>b. ASSUME WithinTrees(subTrees', inst'), Same(subTrees'), Lates(late'), col' \in Cols, Rest
      PROVE  BlsTyped'
    BY <1>b DEF BlsTyped, BlsTypeOK
<1> HIDE DEF WithinTrees, Same, Lates, Cols
<1>1. ASSUME NEW i \in Trees, dispatchSubLeader(i) PROVE BlsTyped'
    <2> DEFINE n == SubLeader(subTrees[i])
               new == [sl |-> "waiting", asked |-> Leaves(subTrees[i]) \ down,
                       signed |-> IF Accepts(n, phase) THEN {n} ELSE {}]
    <2>1. /\ buffer' = Entries(n, phase) /\ inst' = [inst EXCEPT ![i] = new]
          /\ UNCHANGED <<phase, subTrees, col, late, down, final>>
        BY <1>1 DEF dispatchSubLeader, VerifyStep
    <2>2. n \in Members
        BY SubTreeMembers
    <2>3. new.signed \subseteq ToSet(subTrees[i]) /\ new.asked \subseteq ToSet(subTrees[i])
        BY OfSubTree
    <2> HIDE DEF n, new
    <2>4. WithinTrees(subTrees', inst')
        BY <1>0, <1>a, <2>1, <2>3 DEF WithinTrees
    <2> QED  BY <1>a, <1>b, <2>1, <2>2, <2>4, EntriesTyped DEF Same, Lates
<1>2. ASSUME NEW i \in Trees, NEW n \in Members, dispatchLeaf(i, n) PROVE BlsTyped'
    <2>1. /\ buffer' = Entries(n, phase) /\ n \in inst[i].asked
          /\ UNCHANGED <<phase, subTrees, col, late, down, final>>
        BY <1>2 DEF dispatchLeaf, VerifyStep
    <2>2. PICK s \in SUBSET (inst[i].signed \union {n}) :
              inst' = [inst EXCEPT ![i] = [inst[i] EXCEPT !.asked = inst[i].asked \ {n}, !.signed = s]]
        <3> DEFINE s == IF (inst[i].sl = "waiting" /\ SubLeader(subTrees[i]) \notin down) /\ Accepts(n, phase)
                        THEN inst[i].signed \union {n} ELSE inst[i].signed
        <3>1. inst' = [inst EXCEPT ![i] = [inst[i] EXCEPT !.asked = inst[i].asked \ {n}, !.signed = s]]
            BY <1>0, <1>2 DEF dispatchLeaf, Instances
        <3>2. s \in SUBSET (inst[i].signed \union {n})
            OBVIOUS
        <3> HIDE DEF s
        <3> QED  BY <3>1, <3>2
    <2> DEFINE new == [inst[i] EXCEPT !.asked = inst[i].asked \ {n}, !.signed = s]
    <2>3. inst[i] \in Instances
        BY <1>0
    <2>4. new.signed = s /\ new.asked = inst[i].asked \ {n}
        BY <2>3 DEF Instances
    <2>5. new.signed \subseteq ToSet(subTrees[i]) /\ new.asked \subseteq ToSet(subTrees[i])
        BY <1>a, <2>1, <2>4 DEF WithinTrees
    <2> HIDE DEF new
    <2>6. inst' = [inst EXCEPT ![i] = new]
        BY <2>2 DEF new
    <2>7. WithinTrees(subTrees', inst')
        BY <1>0, <1>a, <2>1, <2>5, <2>6 DEF WithinTrees
    <2> QED  BY <1>a, <1>b, <2>1, <2>7, EntriesTyped DEF Same, Lates
<1>3. ASSUME NEW i \in Trees, makeSubLeaderResponse(i) PROVE BlsTyped'
    <2>1. /\ inst' = [inst EXCEPT ![i].sl = "replied"] /\ col' = [col EXCEPT ![i] = "ready"]
          /\ UNCHANGED <<phase, subTrees, buffer, down, late, final>>
        BY <1>3 DEF makeSubLeaderResponse, dispatchRoot
    <2>2. \A k \in Trees : inst'[k].signed = inst[k].signed /\ inst'[k].asked = inst[k].asked
        BY <1>0, <2>1 DEF Instances
    <2>3. WithinTrees(subTrees', inst')
        BY <1>a, <2>1, <2>2 DEF WithinTrees
    <2>4. col' \in Cols
        BY <1>a, <2>1 DEF Cols
    <2> QED  BY <1>a, <1>b, <2>1, <2>3, <2>4 DEF Same, Lates
<1>4. ASSUME NEW i \in Trees, restartSubProtocol(i) PROVE BlsTyped'
    <2>1. /\ inst' = [inst EXCEPT ![i] = NewInstance] /\ Outlive(Pending(i))
          /\ subTrees' = subTrees \/ subTrees' = [subTrees EXCEPT ![i] = Rotated(subTrees[i])]
          /\ col' = col \/ col' = [col EXCEPT ![i] = "error"]
          /\ UNCHANGED <<phase, buffer, down, final>>
        BY <1>4 DEF restartSubProtocol
    <2>2. NewInstance.asked = {} /\ NewInstance.signed = {}
        BY DEF NewInstance
    <2>3. \A k \in Trees : ToSet(subTrees'[k]) = ToSet(subTrees[k])
        BY <1>0, <2>1, OfSubTree
    <2>4. \A k \in Trees : inst'[k].signed \subseteq inst[k].signed /\ inst'[k].asked \subseteq inst[k].asked
        BY <1>0, <2>1, <2>2
    <2>5. WithinTrees(subTrees', inst') /\ Same(subTrees')
        BY <1>a, <2>3, <2>4 DEF WithinTrees, Same
    <2>6. Pending(i) = UNION {Pending(k) : k \in {i}}
        OBVIOUS
    <2>7. Lates(late')
        <3>1. Outlive(UNION {Pending(k) : k \in {i}})
            BY <2>1, <2>6
        <3> QED  BY <3>1, LateTyped DEF Lates
    <2>8. col' \in Cols
        BY <1>a, <2>1 DEF Cols
    <2> QED  BY <1>a, <1>b, <2>1, <2>5, <2>7, <2>8
<1>5. ASSUME NEW i \in Trees, CollectResponse(i) PROVE BlsTyped'
    <2>1. /\ col' = [col EXCEPT ![i] = "counted"]
          /\ UNCHANGED <<phase, subTrees, inst, buffer, down, late, final>>
        BY <1>5 DEF CollectResponse
    <2>2. col' \in Cols
        BY <1>a, <2>1 DEF Cols
    <2> QED  BY <1>a, <1>b, <2>1, <2>2 DEF WithinTrees, Same, Lates
<1>6. ASSUME NEW a \in late, LateAnnouncement(a) PROVE BlsTyped'
    <2>1. /\ buffer' = Entries(a[1], a[2])
          /\ UNCHANGED <<phase, subTrees, inst, col, down, final>>
        BY <1>6 DEF LateAnnouncement, VerifyStep
    <2>2. PICK some \in SUBSET a[3] : late' = (late \ {a}) \union {<<n, a[2], {}>> : n \in some}
        BY <1>6 DEF LateAnnouncement
    <2>3. a[1] \in Members /\ a[3] \subseteq Members
        BY <1>a, <1>6 DEF Lates
    <2>4. Lates(late')
        BY <1>a, <2>2, <2>3 DEF Lates
    <2> QED  BY <1>a, <1>b, <2>1, <2>3, <2>4, EntriesTyped DEF WithinTrees, Same
<1>7. ASSUME NEW n \in Members, Crash(n) PROVE BlsTyped'
    <2>1. /\ n \in Others /\ down' = down \union {n}
          /\ UNCHANGED <<phase, subTrees, inst, col, buffer, late, final>>
        BY <1>7 DEF Crash
    <2> QED  BY <1>a, <1>b, <2>1 DEF WithinTrees, Same, Lates
<1>8. ASSUME CollectError \/ CollectTimeout \/ generateSignature PROVE BlsTyped'
    <2>1. PICK mask : EndRound(mask) /\ (mask = NoMask \/ mask = makeAggregateResponse(Counted))
        BY <1>8 DEF CollectError, CollectTimeout, generateSignature
    <2>2. mask \subseteq Members
        <3>1. Counted \subseteq Trees
            BY DEF Counted
        <3>2. \A i \in Trees : inst[i].signed \subseteq Members
            BY <1>0 DEF Instances
        <3> QED  BY <1>0, <2>1, <3>1, <3>2 DEF NoMask, makeAggregateResponse
    <2>3. /\ final' = mask /\ subTrees' = genTrees /\ inst' = SubProtocols
          /\ col' = [i \in Trees |-> "wait"] /\ down' = down
          /\ phase' \in {"prep", "commit", "signed", "failed"}
        BY <2>1 DEF EndRound, StartRound
    <2>4. buffer' \subseteq Members
        BY <1>0, <1>a, <2>1, EntriesTyped DEF EndRound, StartRound
    <2>5. Lates(late')
        <3>1. CASE late' = {}
            BY <3>1 DEF Lates
        <3>2. CASE Outlive(UNION {Pending(i) : i \in Trees})
            BY <3>2, LateTyped DEF Lates
        <3> QED  BY <2>1, <3>1, <3>2 DEF EndRound, StartRound
    <2>6. WithinTrees(subTrees', inst') /\ Same(subTrees') /\ col' \in Cols
        BY <2>3 DEF WithinTrees, Same, Cols, SubProtocols, NewInstance
    <2> QED  BY <1>a, <1>b, <2>2, <2>3, <2>4, <2>5, <2>6
<1>9. ASSUME UNCHANGED blsVars PROVE BlsTyped'
    BY <1>a, <1>b, <1>9 DEF blsVars, WithinTrees, Same, Lates
<1> QED  BY <1>1, <1>2, <1>3, <1>4, <1>5, <1>6, <1>7, <1>8, <1>9 DEF BlsNext, SubProtocolStep

-----------------------------------------------------------------------------
\* The first of some positions of a list.
LEMMA FirstOf ==
    ASSUME NEW n \in Nat, NEW I \in SUBSET (1 .. n), I # {}
    PROVE  Min(I) \in I
<1>1. I \subseteq Nat
    OBVIOUS
<1>2. \E x \in I : \A y \in I : x <= y
    BY <1>1, LeastNat
<1> QED  BY <1>2 DEF Min

\* A list without one of its elements.
LEMMA RemovedTyped ==
    ASSUME NEW S, NEW q \in Seq(S), NEW i \in Nat, i <= Len(q)
    PROVE  RemoveAt(q, i) \in Seq(S)
<1>1. Len(q) \in Nat /\ \A k \in 1 .. Len(q) : q[k] \in S
    OBVIOUS
<1>2. SubSeq(q, 1, i - 1) \in Seq(S)
    <2>1. 1 \in Int /\ i - 1 \in Int /\ \A k \in 1 .. i - 1 : q[k] \in S
        BY <1>1
    <2> QED  BY <2>1, SubSeqProperties
<1>3. SubSeq(q, i + 1, Len(q)) \in Seq(S)
    <2>1. i + 1 \in Int /\ Len(q) \in Int /\ \A k \in i + 1 .. Len(q) : q[k] \in S
        BY <1>1
    <2> QED  BY <2>1, SubSeqProperties
<1> QED  BY <1>2, <1>3, ConcatProperties DEF RemoveAt

\* The same when the element is looked for first.
LEMMA WithoutTyped ==
    ASSUME NEW S, NEW q \in Seq(S), NEW these
    PROVE  Without(q, these) \in Seq(S)
<1> DEFINE I == {i \in 1 .. Len(q) : q[i] \in these}
           k == IF I # {} THEN Min(I) ELSE 0
<1>1. Len(q) \in Nat
    OBVIOUS
<1>2. k \in Nat /\ k <= Len(q)
    <2>1. CASE I = {}
        BY <1>1, <2>1
    <2>2. CASE I # {}
        <3>1. Min(I) \in I
            BY <1>1, <2>2, FirstOf
        <3> QED  BY <1>1, <2>2, <3>1
    <2> QED  BY <2>1, <2>2
<1>3. Without(q, these) = IF k = 0 THEN q ELSE RemoveAt(q, k)
    BY DEF Without, SelectInSeq
<1> HIDE DEF k
<1> QED  BY <1>2, <1>3, RemovedTyped

\* Every step of a conode that is asked to follow chains keeps its types.
LEMMA FollowTypedStep ==
    ASSUME ExtendInv, FollowTypeOK, [FollowNext]_followVars
    PROVE  FollowTypeOK'
<1> DEFINE Entry == [chain : FChains, policy : Policies, roster : SUBSET FNodes]
<1>0. /\ clients \in Seq(FKeys) /\ unlinking \subseteq Nat /\ followIDs \in Seq(FChains)
      /\ follow \in Seq(Entry) /\ stored \subseteq FChains /\ current \in [FChains -> SUBSET FNodes]
    BY DEF FollowTypeOK
<1>a. ASSUME clients' \in Seq(FKeys), unlinking' \subseteq Nat, followIDs' \in Seq(FChains),
             follow' \in Seq(Entry), stored' \subseteq FChains, current' \in [FChains -> SUBSET FNodes]
      PROVE  FollowTypeOK'
    BY <1>a DEF FollowTypeOK
<1> HIDE DEF Entry
<1>1. ASSUME NEW k \in FKeys, CreateLinkPrivate(k) PROVE FollowTypeOK'
    <2>1. clients' \in Seq(FKeys) /\ UNCHANGED <<unlinking, followIDs, follow, stored, current>>
        BY <1>0, <1>1 DEF CreateLinkPrivate
    <2> QED  BY <1>0, <1>a, <2>1
<1>2. ASSUME NEW k \in FKeys, UnlinkFind(k) PROVE FollowTypeOK'
    <2> DEFINE I == {i \in 1 .. Len(clients) : clients[i] = k}
    <2>1. I # {} /\ Len(clients) \in Nat
        BY <1>0, <1>2 DEF UnlinkFind, ToSet
    <2>2. Min(I) \in Nat
        <3>1. I \in SUBSET (1 .. Len(clients))
            OBVIOUS
        <3>2. Min(I) \in I
            BY <2>1, <3>1, FirstOf
        <3> QED  BY <2>1, <3>2
    <2>3. SelectInSeq(clients, LAMBDA x : x = k) = Min(I)
        BY <2>1 DEF SelectInSeq
    <2>4. unlinking' = unlinking \union {Min(I)} /\ UNCHANGED <<clients, followIDs, follow, stored, current>>
        BY <1>2, <2>3 DEF UnlinkFind
    <2> HIDE DEF I
    <2> QED  BY <1>0, <1>a, <2>2, <2>4
<1>3. ASSUME NEW i \in unlinking, UnlinkRemove(i) PROVE FollowTypeOK'
    <2>1. /\ unlinking' \subseteq unlinking /\ UNCHANGED <<followIDs, follow, stored, current>>
          /\ clients' = IF i <= Len(clients) THEN RemoveAt(clients, i) ELSE clients
        BY <1>3 DEF UnlinkRemove
    <2>2. i \in Nat
        BY <1>0, <1>3
    <2>3. clients' \in Seq(FKeys)
        BY <1>0, <2>1, <2>2, RemovedTyped
    <2> QED  BY <1>0, <1>a, <2>1, <2>3
<1>4. ASSUME NEW c \in FChains, NEW s, StoreSkipBlock(c, s) \/ propagateGenesisHandler(c) PROVE FollowTypeOK'
    <2>1. stored' = stored \union {c} /\ UNCHANGED <<clients, unlinking, followIDs, follow, current>>
        BY <1>4 DEF StoreSkipBlock, propagateGenesisHandler, adminVars
    <2> QED  BY <1>0, <1>a, <2>1
<1>5. ASSUME NEW c \in FChains, NEW s, AddFollowID(c, s) PROVE FollowTypeOK'
    <2>1. followIDs' \in Seq(FChains) /\ UNCHANGED <<clients, unlinking, follow, stored, current>>
        BY <1>0, <1>5 DEF AddFollowID
    <2> QED  BY <1>0, <1>a, <2>1
<1>6. ASSUME NEW c \in FChains, NEW s, DelFollow(c, s) PROVE FollowTypeOK'
    <2>1. /\ followIDs' = Without(followIDs, {c})
          /\ follow' = Without(follow, {x \in Range(follow) : x.chain = c})
          /\ UNCHANGED <<clients, unlinking, stored, current>>
        BY <1>6 DEF DelFollow
    <2>2. followIDs' \in Seq(FChains) /\ follow' \in Seq(Entry)
        BY <1>0, <2>1, WithoutTyped
    <2> QED  BY <1>0, <1>a, <2>1, <2>2
<1>7. ASSUME NEW c \in FChains, NEW s, NEW p \in Policies, NEW n, AddFollowChain(c, p, n, s) PROVE FollowTypeOK'
    <2> DEFINE x == [chain |-> c, policy |-> p, roster |-> current[c]]
    <2>1. x \in Entry
        BY <1>0 DEF Entry
    <2>2. follow' = Append(follow, x) /\ UNCHANGED <<clients, unlinking, followIDs, stored, current>>
        BY <1>7 DEF AddFollowChain
    <2> HIDE DEF x
    <2>3. follow' \in Seq(Entry)
        BY <1>0, <2>1, <2>2
    <2> QED  BY <1>0, <1>a, <2>2, <2>3
<1>8. ASSUME NEW c \in FChains, NEW s, NEW p \in Policies,
             AddFollowSearch(c, p, s) \/ \E n \in FNodes : AddFollowLookup(c, p, n, s)
      PROVE  FollowTypeOK'
    BY <1>7, <1>8 DEF AddFollowSearch, AddFollowLookup
<1>9. ASSUME UNCHANGED <<clients, unlinking, followIDs, follow, stored, current>> PROVE FollowTypeOK'
    BY <1>0, <1>a, <1>9
<1>10. ASSUME NEW c, NEW r, StartExtend(c, r) PROVE FollowTypeOK'
    BY <1>9, <1>10 DEF StartExtend, adminVars
<1>11. ASSUME NEW n, NEW b, HandleExtendRoster(n, b) \/ HandleExtendRosterReply(n) \/ ExtendTimeout
       PROVE  FollowTypeOK'
    BY <1>9, <1>11 DEF HandleExtendRoster, HandleExtendRosterReply, ExtendTimeout, adminVars
<1>12. ASSUME willNodesAcceptBlock PROVE FollowTypeOK'
    <2>1. /\ extend.on /\ UNCHANGED <<clients, unlinking, followIDs, follow, stored>>
          /\ current' = current \/ current' = [current EXCEPT ![extend.chain] = extend.roster]
        BY <1>12 DEF willNodesAcceptBlock, adminVars
    <2>2. extend.chain \in FChains /\ extend.roster \subseteq FNodes
        BY <2>1, ExtendOn DEF ExtendInv, ExtendFits, ExtendRecord, FRosters
    <2>3. current' \in [FChains -> SUBSET FNodes]
        BY <1>0, <2>1, <2>2
    <2> QED  BY <1>0, <1>a, <2>1, <2>3
<1>13. ASSUME UNCHANGED followVars PROVE FollowTypeOK'
    BY <1>9, <1>13 DEF followVars
<1> QED  BY <1>1, <1>2, <1>3, <1>4, <1>5, <1>6, <1>8, <1>10, <1>11, <1>12, <1>13 DEF FollowNext

-----------------------------------------------------------------------------
\* The types of ftcosi: masks and responses are of nodes of the subtrees.
FtTyped ==
    /\ ftAccepts \subseteq FtNodes /\ ftUp \subseteq FtNodes
    /\ ftMask \subseteq FtNodes /\ ftResponses \subseteq FtNodes
    /\ ftPhase \in {"commit", "reached", "refused", "challenge", "signed", "failed"}

\* The root has commitments of nodes only.
LEMMA FtCommitMasks ==
    ASSUME FtInv, NEW i \in FtTrees
    PROVE  ftCommits[i].mask \subseteq FtNodes
<1>1. ftSub[i] \in FtSubs /\ FtSubFits(i, ftSub[i])
      /\ ftCommits[i] = IF ftSub[i].got = 0 THEN FtNone ELSE ftSub[i].out[ftSub[i].got]
    BY DEF FtInv, FtSubsFit
<1>2. CASE ftSub[i].got = 0
    BY <1>1, <1>2 DEF FtNone
<1>3. CASE ftSub[i].got # 0
    <2>1. ftSub[i].out \in Seq(FtCommitment) /\ ftSub[i].got \in 1 .. Len(ftSub[i].out)
        BY <1>1, <1>3 DEF FtSubs, FtSubFits
    <2>2. ftSub[i].out[ftSub[i].got] \in FtCommitment
        BY <2>1
    <2> QED  BY <1>1, <1>3, <2>2 DEF FtCommitment
<1> QED  BY <1>2, <1>3

\* Of both follow the types.
LEMMA FtTypes ==
    ASSUME FtInv, FtTyped
    PROVE  FtTypeOK
<1>1. ftShared \subseteq FtNodes
    BY FtCommitMasks DEF FtInv, FtCommitsFit
<1>2. /\ ftTree \in [FtTrees -> Seq(FtNodes)]
      /\ \A i \in FtTrees : ftSub[i].handled \subseteq FtMembers(i) /\ ftSub[i].got \in 0 .. Len(ftSub[i].out)
    BY DEF FtInv, FtTreesFit, FtSubsFit, FtSubFits
<1> QED  BY <1>1, <1>2 DEF FtTypeOK, FtTyped

\* Every step of ftcosi keeps them.
LEMMA FtTypedStep ==
    ASSUME FtInv, FtTyped, FtNext \/ UNCHANGED ftVars
    PROVE  FtTyped'
<1>1. ASSUME NEW i \in FtTrees, NEW n, FtCommit(i, n) PROVE FtTyped'
    BY <1>1 DEF FtCommit, FtTyped
<1>2. ASSUME NEW i \in FtTrees, FtSubTimeout(i) PROVE FtTyped'
    BY <1>2 DEF FtSubTimeout, FtTyped
<1>3. ASSUME NEW i \in FtTrees, collectCommitment(i) PROVE FtTyped'
    BY <1>3 DEF collectCommitment, FtTyped
<1>4. ASSUME NEW i \in FtTrees, subleaderNotResponding(i) PROVE FtTyped'
    BY <1>4 DEF subleaderNotResponding, FtTyped
<1>5. ASSUME NEW i \in FtTrees, FtRespond(i) PROVE FtTyped'
    BY <1>5 DEF FtRespond, FtTyped
<1>6. CASE FtRootTimeout \/ FtResponseTimeout
    BY <1>6 DEF FtRootTimeout, FtResponseTimeout, FtTyped
<1>7. CASE FtChallenge
    <2>1. UNION {ftCommits[i].mask : i \in FtTrees} \subseteq FtNodes /\ FtRoot \in FtNodes
        BY FtCommitMasks, FtAssumption DEF FtNodes
    <2> QED  BY <1>7, <2>1 DEF FtChallenge, FtTyped
<1>8. ASSUME NEW n, FtCrash(n) PROVE FtTyped'
    BY <1>8 DEF FtCrash, FtTyped
<1>9. CASE UNCHANGED ftVars
    BY <1>9 DEF ftVars, FtTyped
<1> QED  BY <1>1, <1>2, <1>3, <1>4, <1>5, <1>6, <1>7, <1>8, <1>9 DEF FtNext

-----------------------------------------------------------------------------
\* The sums of cosi are numbers for every node.
LEMMA CosiTypedStep ==
    ASSUME CosiInv, CosiTypeOK, CosiNext \/ UNCHANGED cosiVars
    PROVE  CosiTypeOK'
<1>0. \A n \in CosiNodes : Once(n) \in [CosiNodes -> Nat]
    BY DEF Once
<1>1. ASSUME NEW n \in CosiNodes, handleAnnouncement(n) PROVE CosiTypeOK'
    BY <1>1 DEF handleAnnouncement, CosiTypeOK
<1>2. ASSUME NEW n \in CosiNodes, handleCommitment(n) PROVE CosiTypeOK'
    <2>1. \A c \in CosiChildren(n) : cosiCommit[c] = Once(c)
        BY <1>2 DEF handleCommitment, CosiInv, CosiSent, CosiChildren
    <2>2. Aggregate(CosiNodes, n, Terms(n, cosiCommit)) = Once(n)
        BY <2>1, AggregateOnce
    <2>3. /\ cosiCommit' = [cosiCommit EXCEPT ![n] = Once(n)]
          /\ cosiState' = [cosiState EXCEPT ![n] = IF n = 1 THEN "challenged" ELSE "committed"]
          /\ cosiResponse' = cosiResponse
        BY <1>2, <2>2 DEF handleCommitment
    <2> QED  BY <1>0, <2>3 DEF CosiTypeOK
<1>3. ASSUME NEW n \in CosiNodes, handleChallenge(n) PROVE CosiTypeOK'
    BY <1>3 DEF handleChallenge, CosiTypeOK
<1>4. ASSUME NEW n \in CosiNodes, handleResponse(n) PROVE CosiTypeOK'
    <2>1. \A c \in CosiChildren(n) : cosiResponse[c] = Once(c)
        BY <1>4 DEF handleResponse, CosiInv, CosiChildren
    <2>2. genResponse(n) = Once(n)
        BY <2>1, AggregateOnce DEF genResponse
    <2>3. /\ cosiResponse' = [cosiResponse EXCEPT ![n] = Once(n)]
          /\ cosiState' = [cosiState EXCEPT ![n] = "done"] /\ cosiCommit' = cosiCommit
        BY <1>4, <2>2 DEF handleResponse
    <2> QED  BY <1>0, <2>3 DEF CosiTypeOK
<1>5. CASE UNCHANGED cosiVars
    BY <1>5 DEF cosiVars, CosiTypeOK
<1> QED  BY <1>1, <1>2, <1>3, <1>4, <1>5 DEF CosiNext

\* The root of bftcosi hears of nodes only.
LEMMA BftTypedStep ==
    ASSUME BftInv, BftTypeOK, BftNext \/ UNCHANGED bftVars
    PROVE  BftTypeOK'
<1>0. BftLeaves \subseteq BftNodes /\ 0 \in BftNodes /\ \A got : Refusal(got) \subseteq BftNodes
    BY BftAssumption DEF BftLeaves, BftNodes, Refusal
<1>1. ASSUME NEW n \in BftLeaves, BftCrash(n) PROVE BftTypeOK'
    BY <1>0, <1>1 DEF BftCrash, BftTypeOK
<1>2. ASSUME NEW n \in BftLeaves, readPrepareCommit(n) PROVE BftTypeOK'
    BY <1>0, <1>2 DEF readPrepareCommit, BftTypeOK
<1>3. ASSUME NEW n \in BftLeaves, readCommitCommit(n) PROVE BftTypeOK'
    BY <1>0, <1>3 DEF readCommitCommit, BftTypeOK
<1>4. ASSUME NEW n \in BftLeaves, readPrepareResponse(n) PROVE BftTypeOK'
    BY <1>0, <1>4 DEF readPrepareResponse, BftTypeOK
<1>5. ASSUME NEW n \in BftLeaves, readCommitResponse(n) PROVE BftTypeOK'
    BY <1>0, <1>5 DEF readCommitResponse, BftTypeOK
<1>6. CASE handleCommitmentPrepare
    BY <1>0, <1>6 DEF handleCommitmentPrepare, BftTypeOK
<1>7. CASE handleCommitmentCommit
    BY <1>0, <1>7 DEF handleCommitmentCommit, BftTypeOK
<1>8. CASE handleResponsePrepare
    <2> DEFINE heard == prepareResponse \union {0}
               ex == waitResponseVerification(heard)
    <2>1. ex.refused \subseteq BftNodes /\ ex.missing \subseteq BftNodes
        BY <1>0 DEF waitResponseVerification, BftTypeOK
    <2>2. /\ exceptions' = ex /\ signRefusal' \subseteq signRefusal \union BftNodes
          /\ bftPhase' \in {"commitResponse", "failed"}
          /\ UNCHANGED <<bftAccepts, bftDown, prepareCommit, prepareSum, commitCommit, commitSum,
                         prepareResponse, commitResponse>>
        BY <1>0, <1>8 DEF handleResponsePrepare
    <2> HIDE DEF ex
    <2> QED  BY <2>1, <2>2 DEF BftTypeOK
<1>9. CASE handleResponseCommit
    BY <1>0, <1>9 DEF handleResponseCommit, BftTypeOK
<1>10. CASE UNCHANGED bftVars
    BY <1>10 DEF bftVars, BftTypeOK
<1> QED  BY <1>1, <1>2, <1>3, <1>4, <1>5, <1>6, <1>7, <1>8, <1>9, <1>10 DEF BftNext

-----------------------------------------------------------------------------
\* The counters of a broadcast, and whom its messages are addressed to.
CastTyped ==
    /\ contactRcv \in [MsgNodes -> Int] /\ doneRcv \in [MsgNodes -> Int] /\ finished \subseteq MsgNodes
    /\ contacts \subseteq MsgNodes \X MsgNodes
    /\ \A c \in confirms : c.to \in MsgNodes

\* Every step of a propagation or broadcast keeps them.
LEMMA CastStep ==
    ASSUME CastTyped, [MsgNext]_msgVars
    PROVE  CastTyped'
<1>0. 0 \in MsgNodes
    BY MsgAssumption DEF MsgNodes
<1>1. ASSUME NEW m \in contacts, handleContactNodes(m) PROVE CastTyped'
    <2> DEFINE n == m[2]
    <2>1. n \in MsgNodes /\ m[1] \in MsgNodes
        BY DEF CastTyped
    <2>2. contactRcv' = [contactRcv EXCEPT ![n] = contactRcv[n] - 1] /\ doneRcv' = doneRcv
          /\ finished' \subseteq finished \union {n}
        BY <1>1 DEF handleContactNodes
    <2>3. contacts' \subseteq contacts \union {<<n, k>> : k \in MsgNodes}
        BY <1>1 DEF handleContactNodes
    <2>4. confirms' \subseteq confirms \union {[from |-> n, to |-> m[1], of |-> "contact"],
                                              [from |-> n, to |-> 0, of |-> "all"]}
        BY <1>1 DEF handleContactNodes
    <2> HIDE DEF n
    <2>5. \A c \in confirms' : c.to \in MsgNodes
        BY <1>0, <2>1, <2>4 DEF CastTyped
    <2>6. contactRcv' \in [MsgNodes -> Int]
        BY <2>1, <2>2 DEF CastTyped
    <2>7. contacts' \subseteq MsgNodes \X MsgNodes
        BY <2>1, <2>3 DEF CastTyped
    <2> QED  BY <2>1, <2>2, <2>5, <2>6, <2>7 DEF CastTyped
<1>2. ASSUME NEW c \in confirms, handleDone(c) PROVE CastTyped'
    <2> DEFINE n == c.to
    <2>1. n \in MsgNodes
        BY DEF CastTyped
    <2>2. doneRcv' = [doneRcv EXCEPT ![n] = doneRcv[n] - 1] /\ UNCHANGED <<contacts, contactRcv>>
          /\ finished' \subseteq finished \union {n}
        BY <1>2 DEF handleDone
    <2>3. confirms' \subseteq confirms \union {[from |-> n, to |-> 0, of |-> "all"]}
        BY <1>2 DEF handleDone
    <2> HIDE DEF n
    <2>4. \A d \in confirms' : d.to \in MsgNodes
        BY <1>0, <2>3 DEF CastTyped
    <2>5. doneRcv' \in [MsgNodes -> Int]
        BY <2>1, <2>2 DEF CastTyped
    <2> QED  BY <2>1, <2>2, <2>4, <2>5 DEF CastTyped
<1>3. ASSUME UNCHANGED castVars PROVE CastTyped'
    BY <1>3 DEF castVars, CastTyped
<1>4. ASSUME NEW errs, PropagateRoot(errs) PROVE UNCHANGED castVars
    BY <1>4 DEF PropagateRoot
<1>5. ASSUME NEW n, PropagateChild(n) \/ PropagateLost(n) \/ PropagateReply(n) PROVE UNCHANGED castVars
    BY <1>5 DEF PropagateChild, PropagateLost, PropagateReply
<1>6. ASSUME PropagateTimeout PROVE UNCHANGED castVars
    BY <1>6 DEF PropagateTimeout
<1>7. ASSUME UNCHANGED msgVars PROVE UNCHANGED castVars
    BY <1>7 DEF msgVars
<1> QED  BY <1>1, <1>2, <1>3, <1>4, <1>5, <1>6, <1>7 DEF MsgNext

\* A root counts at most one reply of every child.
LEMMA MsgTypes ==
    ASSUME PropInv, CastTyped
    PROVE  MsgTypeOK
<1>1. propData \subseteq MsgNodes /\ propReplies \subseteq MsgChildren /\ propSend \subseteq MsgChildren
    BY DEF PropInv, MsgChildren
<1>2. IsFiniteSet(MsgChildren) /\ Cardinality(MsgChildren) = MsgN - 1 /\ MsgN \in Nat
    BY MsgNodesFinite
<1>3. Replied \subseteq MsgChildren
    BY <1>1 DEF Replied, MsgChildren
<1>4. Cardinality(Replied) \in Nat /\ Cardinality(Replied) <= Cardinality(MsgChildren)
    BY <1>2, <1>3, FS_Subset, FS_CardinalityType
<1>5. propReceived \in 0 .. MsgN - 1
    BY <1>2, <1>4 DEF PropInv
<1> QED  BY <1>1, <1>5 DEF PropInv, CastTyped, MsgTypeOK

-----------------------------------------------------------------------------
\* A node that waits for more in a stage of the key generation has not got all.
DkgTyped ==
    /\ dkgDeals \in [DkgNodes -> Nat]
    /\ \A n \in DkgNodes : dkgDeals[n] <= ExpectedDeals
    /\ \A n \in DkgNodes : dkgStage[n] \in {"init", "deals"} => dkgDeals[n] < ExpectedDeals
    /\ \A n \in DkgNodes : dkgStage[n] \in {"init", "deals", "responses"} =>
           dkgResponses[n] < ExpectedResponses(n)
    /\ \A n \in DkgNodes : dkgSecrets[n] <= DkgN
    /\ \A n \in DkgNodes : dkgStage[n] \in {"init", "deals", "responses", "commits"} =>
           dkgSecrets[n] < DkgN
    /\ dkgReplied \subseteq dkgAsked /\ dkgAsked \subseteq DkgChildren

\* Every node expects a deal and a response at least.
LEMMA ExpectedAre ==
    /\ DkgN \in Nat /\ DkgN >= 2 /\ ExpectedDeals \in Nat /\ ExpectedDeals >= 1
    /\ \A n \in DkgNodes : ExpectedResponses(n) \in Nat /\ ExpectedResponses(n) >= 1
<1>1. DkgN \in Nat /\ DkgN >= 2 /\ ExpectedDeals \in Nat /\ ExpectedDeals >= 1
    BY DkgAssumption DEF ExpectedDeals
<1>2. ASSUME NEW n \in DkgNodes
      PROVE  ExpectedResponses(n) \in Nat /\ ExpectedResponses(n) >= 1
    <2> DEFINE R == Responders(n)
               c == Cardinality(R)
    <2>1. \E k \in R : TRUE
        <3>1. 0 \in DkgNodes /\ 1 \in DkgNodes
            BY <1>1 DEF DkgNodes
        <3> QED  BY <3>1 DEF Responders
    <2>2. R \subseteq DkgNodes
        BY DEF Responders
    <2>3. IsFiniteSet(DkgNodes)
        <3>1. 0 \in Int /\ DkgN - 1 \in Int
            BY <1>1
        <3> QED  BY <3>1, FS_Interval DEF DkgNodes
    <2>4. IsFiniteSet(R) /\ c \in Nat /\ c # 0
        BY <2>1, <2>2, <2>3, FS_Subset, FS_CardinalityType, FS_EmptySet
    <2>5. c >= 1
        BY <2>4
    <2>6. ExpectedResponses(n) = c * ExpectedDeals
        BY DEF ExpectedResponses
    <2> HIDE DEF c
    <2>7. 1 * ExpectedDeals <= c * ExpectedDeals /\ c * ExpectedDeals \in Nat
        BY <1>1, <2>4, <2>5, Products
    <2> QED  BY <1>1, <2>6, <2>7
<1> QED  BY <1>1, <1>2

\* At first nothing has been counted.
LEMMA DkgTypedStart ==
    ASSUME DkgInit
    PROVE  DkgTyped
BY ExpectedAre DEF DkgInit, DkgTyped

\* Every step of the key generation counts up to what is expected.
LEMMA DkgTypedStep ==
    ASSUME KeyInv, DkgTyped, [DkgNext]_dkgVars
    PROVE  DkgTyped'
<1> USE DkgNodesFinite
<1>0. /\ dkgStage \in [DkgNodes -> {"init", "deals", "responses", "commits", "wait", "done"}]
      /\ dkgResponses \in [DkgNodes -> Nat] /\ dkgSecrets \in [DkgNodes -> Nat]
      /\ dkgDeals \in [DkgNodes -> Nat]
    BY DEF KeyInv, DkgTyped
<1>1. ASSUME NEW n \in DkgChildren, childInit(n) PROVE DkgTyped'
    BY <1>1, ExpectedKept DEF childInit, DkgTyped
<1>2. ASSUME NEW n \in DkgChildren, WaitReply(n) PROVE DkgTyped'
    <2>1. /\ dkgStage' = [dkgStage EXCEPT ![n] = "done"] /\ n \in dkgAsked
          /\ dkgReplied' = dkgReplied \union {n}
          /\ UNCHANGED <<dkgKind, dkgDeals, dkgResponses, dkgSecrets, dkgAsked>>
        BY <1>2 DEF WaitReply
    <2>2. \A k \in DkgNodes : dkgStage'[k] = dkgStage[k] \/ dkgStage'[k] = "done"
        BY <1>0, <2>1
    <2> QED  BY <2>1, <2>2, ExpectedKept DEF DkgTyped
<1>3. ASSUME NEW n \in DkgNodes, allStartDeal(n) PROVE DkgTyped'
    <2>1. /\ dkgStage' = [dkgStage EXCEPT ![n] = "deals"] /\ dkgStage[n] = "init"
          /\ UNCHANGED <<dkgKind, dkgDeals, dkgResponses, dkgSecrets, dkgAsked, dkgReplied>>
        BY <1>3 DEF allStartDeal
    <2>2. \A k \in DkgNodes : dkgStage'[k] = dkgStage[k] \/ (dkgStage'[k] = "deals" /\ dkgStage[k] = "init")
        BY <1>0, <2>1
    <2> QED  BY <2>1, <2>2, ExpectedKept DEF DkgTyped
<1>4. ASSUME NEW n \in DkgNodes, allDeal(n) PROVE DkgTyped'
    <2> DEFINE got == dkgDeals[n] + 1
    <2>1. /\ dkgStage[n] = "deals" /\ dkgDeals' = [dkgDeals EXCEPT ![n] = got]
          /\ dkgStage' = [dkgStage EXCEPT ![n] = IF got = ExpectedDeals THEN "responses" ELSE @]
          /\ UNCHANGED <<dkgKind, dkgResponses, dkgSecrets, dkgAsked, dkgReplied>>
        BY <1>4 DEF allDeal
    <2>2. got \in Nat /\ got <= ExpectedDeals /\ (got # ExpectedDeals => got < ExpectedDeals)
        BY <1>0, <2>1, ExpectedAre DEF DkgTyped
    <2> HIDE DEF got
    <2>3. \A k \in DkgNodes : \/ k # n /\ dkgStage'[k] = dkgStage[k] /\ dkgDeals'[k] = dkgDeals[k]
                              \/ k = n /\ dkgDeals'[k] = got /\ got = ExpectedDeals /\ dkgStage'[k] = "responses"
                              \/ k = n /\ dkgDeals'[k] = got /\ got # ExpectedDeals /\ dkgStage'[k] = "deals"
        BY <1>0, <2>1
    <2>4. dkgDeals' \in [DkgNodes -> Nat]
        BY <1>0, <2>1, <2>2
    <2> QED  BY <2>1, <2>2, <2>3, <2>4, ExpectedKept DEF DkgTyped
<1>5. ASSUME NEW n \in DkgNodes, allResponse(n) PROVE DkgTyped'
    <2> DEFINE got == dkgResponses[n] + 1
    <2>1. /\ dkgStage[n] = "responses" /\ dkgResponses' = [dkgResponses EXCEPT ![n] = got]
          /\ dkgStage' = [dkgStage EXCEPT ![n] = IF got = ExpectedResponses(n) THEN NextStage ELSE @]
          /\ UNCHANGED <<dkgKind, dkgDeals, dkgSecrets, dkgAsked, dkgReplied>>
        BY <1>5 DEF allResponse
    <2>2. got # ExpectedResponses(n) => got < ExpectedResponses(n)
        BY <1>0, <2>1, ExpectedAre DEF DkgTyped
    <2>3. NextStage \in {"commits", "wait", "done"}
        BY DEF NextStage
    <2> HIDE DEF got
    <2>4. \A k \in DkgNodes : \/ k # n /\ dkgStage'[k] = dkgStage[k] /\ dkgResponses'[k] = dkgResponses[k]
                              \/ k = n /\ dkgStage'[k] \in {"commits", "wait", "done"}
                              \/ k = n /\ dkgResponses'[k] = got /\ got # ExpectedResponses(n) /\ dkgStage'[k] = "responses"
        BY <1>0, <2>1, <2>3
    <2> QED  BY <2>1, <2>2, <2>4, ExpectedKept DEF DkgTyped
<1>6. ASSUME NEW n \in DkgNodes, allSecretCommit(n) PROVE DkgTyped'
    <2> DEFINE got == dkgSecrets[n] + 1
    <2>1. /\ dkgStage[n] = "commits" /\ dkgSecrets' = [dkgSecrets EXCEPT ![n] = got]
          /\ dkgStage' = [dkgStage EXCEPT ![n] = IF got < DkgN THEN @ ELSE IF dkgWait THEN "wait" ELSE "done"]
          /\ UNCHANGED <<dkgKind, dkgDeals, dkgResponses, dkgAsked, dkgReplied>>
        BY <1>6 DEF allSecretCommit
    <2>2. got \in Nat /\ got <= DkgN
        BY <1>0, <2>1, ExpectedAre DEF DkgTyped
    <2> HIDE DEF got
    <2>3. \A k \in DkgNodes : \/ k # n /\ dkgStage'[k] = dkgStage[k] /\ dkgSecrets'[k] = dkgSecrets[k]
                              \/ k = n /\ dkgSecrets'[k] = got /\ dkgStage'[k] \in {"wait", "done"}
                              \/ k = n /\ dkgSecrets'[k] = got /\ got < DkgN /\ dkgStage'[k] = "commits"
        BY <1>0, <2>1
    <2> QED  BY <2>1, <2>2, <2>3, ExpectedKept DEF DkgTyped
<1>7. ASSUME WaitSetup PROVE DkgTyped'
    BY <1>7, ExpectedKept DEF WaitSetup, DkgTyped
<1>8. ASSUME WaitDone PROVE DkgTyped'
    <2>1. /\ dkgStage' = [dkgStage EXCEPT ![0] = "done"]
          /\ UNCHANGED <<dkgKind, dkgDeals, dkgResponses, dkgSecrets, dkgAsked, dkgReplied>>
        BY <1>8 DEF WaitDone
    <2>2. \A k \in DkgNodes : dkgStage'[k] = dkgStage[k] \/ dkgStage'[k] = "done"
        BY <1>0, <2>1
    <2> QED  BY <2>1, <2>2, ExpectedKept DEF DkgTyped
<1>9. ASSUME UNCHANGED dkgVars PROVE DkgTyped'
    BY <1>9, ExpectedKept DEF dkgVars, DkgTyped
<1> QED  BY <1>1, <1>2, <1>3, <1>4, <1>5, <1>6, <1>7, <1>8, <1>9 DEF DkgNext

\* Of both follow the types.
LEMMA DkgTypes ==
    ASSUME KeyInv, DkgTyped
    PROVE  DkgTypeOK
<1>1. ASSUME NEW n \in DkgNodes
      PROVE  /\ dkgDeals[n] \in 0 .. ExpectedDeals /\ dkgResponses[n] \in 0 .. ExpectedResponses(n)
             /\ dkgSecrets[n] \in 0 .. DkgN
    <2>1. dkgDeals[n] \in Nat /\ dkgResponses[n] \in Nat /\ dkgSecrets[n] \in Nat
        BY DEF KeyInv, DkgTyped
    <2>2. ExpectedResponses(n) \in Nat /\ dkgResponses[n] <= ExpectedResponses(n)
        BY <2>1, ExpectedAre DEF KeyInv, DkgTyped
    <2>3. ExpectedDeals \in Nat /\ dkgDeals[n] <= ExpectedDeals /\ DkgN \in Nat /\ dkgSecrets[n] <= DkgN
        BY ExpectedAre DEF DkgTyped
    <2> QED  BY <2>1, <2>2, <2>3
<1> QED  BY <1>1 DEF DkgTypeOK, KeyInv, DkgTyped

-----------------------------------------------------------------------------
\* The rosters of Calypso are ones that an LTS instance has named.
CalTyped ==
    /\ calRoster \in CalRosters \union {{}} /\ calAuth \subseteq CalNodes
    /\ calKnown \in [CalNodes -> CalRosters \union {{}}]
    /\ Len(calSharings) <= CalMaxSharings
    /\ \A s \in Made : calSharings[s].roster \in CalRosters \union {{}}
    /\ calOcs.at \in {"none", "roster", "asked"}

\* Every step of Calypso keeps the types.
LEMMA CalTypedStep ==
    ASSUME LtsInv, CalTyped, [CalNext]_calVars
    PROVE  CalTyped'
<1> DEFINE R == CalRosters \union {{}}
           At == {"none", "roster", "asked"}
<1>0. /\ calRoster \in R /\ calAuth \subseteq CalNodes /\ calKnown \in [CalNodes -> R]
      /\ Len(calSharings) <= CalMaxSharings /\ calOcs.at \in At
      /\ \A s \in Made : calSharings[s].roster \in R
      /\ calSharings \in Seq(Sharing) /\ Len(calSharings) \in Nat
    BY DEF CalTyped, LtsInv
<1>a. ASSUME calRoster' \in R, calAuth' \subseteq CalNodes, calKnown' \in [CalNodes -> R],
             UNCHANGED calSharings, calOcs'.at \in At
      PROVE  CalTyped'
    BY <1>a DEF CalTyped, Made
<1> HIDE DEF R, At
<1>b. "none" \in At /\ "roster" \in At /\ "asked" \in At /\ CalRosters \subseteq R
    BY DEF R, At
<1>1. ASSUME NEW r \in CalRosters, SpawnLTS(r) \/ Reshare(r) PROVE CalTyped'
    <2>1. calRoster' = r /\ UNCHANGED <<calAuth, calKnown, calSharings, calOcs>>
        BY <1>1 DEF SpawnLTS, Reshare, calNodeVars
    <2> QED  BY <1>0, <1>a, <1>b, <2>1
<1>2. ASSUME NEW b, SpawnRead(b) PROVE CalTyped'
    BY <1>0, <1>a, <1>2 DEF SpawnRead, calNodeVars
<1>3. ASSUME NEW n \in CalNodes, Authorize(n) PROVE CalTyped'
    BY <1>0, <1>a, <1>3 DEF Authorize, calLedger
<1>4. ASSUME NEW n, NEW key, NewSharing(n, key) PROVE CalTyped'
    <2> DEFINE x == [roster |-> calRoster, key |-> key, root |-> n]
    <2>1. /\ Len(calSharings) + 1 <= CalMaxSharings /\ calSharings' = Append(calSharings, x)
          /\ UNCHANGED <<calRoster, calAuth, calKnown, calOcs>>
        BY <1>4 DEF NewSharing, calLedger
    <2>2. x.roster \in R
        BY <1>0
    <2> HIDE DEF x
    <2>3. /\ Len(calSharings') = Len(calSharings) + 1 /\ calSharings'[Len(calSharings) + 1] = x
          /\ \A s \in 1 .. Len(calSharings) : calSharings'[s] = calSharings[s]
        BY <1>0, <2>1
    <2>4. \A s \in Made' : calSharings'[s].roster \in R
        <3> SUFFICES ASSUME NEW s \in 1 .. Len(calSharings) + 1 PROVE calSharings'[s].roster \in R
            BY <2>3 DEF Made
        <3>1. CASE s \in 1 .. Len(calSharings)
            BY <1>0, <2>3, <3>1 DEF Made
        <3>2. CASE s = Len(calSharings) + 1
            BY <2>2, <2>3, <3>2
        <3> QED  BY <1>0, <3>1, <3>2
    <2> QED  BY <1>0, <2>1, <2>3, <2>4 DEF CalTyped, R, At
<1>5. ASSUME NEW n, CreateLTS(n) \/ ReshareLTS(n) PROVE CalTyped'
    BY <1>4, <1>5 DEF CreateLTS, ReshareLTS
<1>6. ASSUME NEW n, DecryptKey(n) PROVE CalTyped'
    <2>1. calOcs'.at = "roster" /\ UNCHANGED <<calRoster, calAuth, calKnown, calSharings>>
        BY <1>6 DEF DecryptKey, calNodeVars, calLedger
    <2> QED  BY <1>0, <1>a, <1>b, <2>1
<1>7. ASSUME NEW p \in calStoring, StoreShare(p[1], p[2]) PROVE CalTyped'
    <2> DEFINE n == p[1]
               s == p[2]
    <2>1. n \in CalNodes /\ s \in Made
        BY DEF LtsInv
    <2>2. calSharings[s].roster \in R
        BY <1>0, <2>1
    <2>3. /\ calKnown' \in {[calKnown EXCEPT ![n] = calSharings[s].roster], [calKnown EXCEPT ![n] = calKnown[n]]}
          /\ UNCHANGED <<calRoster, calAuth, calSharings, calOcs>>
        BY <1>7 DEF StoreShare, calLedger
    <2> HIDE DEF n, s
    <2>4. calKnown' \in [CalNodes -> R]
        BY <1>0, <2>1, <2>2, <2>3
    <2> QED  BY <1>0, <1>a, <2>3, <2>4
<1>8. ASSUME StartOCS PROVE CalTyped'
    <2>1. calOcs' = NoOcs \/ calOcs' = NewOCS(calOcs.root, calOcs.roster)
        BY <1>8 DEF StartOCS
    <2>2. calOcs'.at \in At
        BY <1>b, <2>1 DEF NoOcs, NewOCS
    <2> QED  BY <1>0, <1>a, <1>8, <2>2 DEF StartOCS, calNodeVars, calLedger
<1>9. ASSUME NEW n, NEW b, reencrypt(n, b) PROVE CalTyped'
    <2>1. UNCHANGED <<calSharings, calAuth, calKnown, calRoster>>
        BY <1>9 DEF reencrypt, calNodeVars, calLedger
    <2>2. PICK todo, failures, replies :
              \/ calOcs' = NoOcs
              \/ calOcs' = [calOcs EXCEPT !.todo = todo, !.failures = failures]
              \/ calOcs' = [calOcs EXCEPT !.todo = todo, !.replies = replies]
        BY <1>9 DEF reencrypt
    <2>3. calOcs'.at \in At
        <3>1. CASE calOcs' = NoOcs
            BY <1>b, <3>1 DEF NoOcs
        <3>2. CASE calOcs' = [calOcs EXCEPT !.todo = todo, !.failures = failures]
            BY <1>0, <3>2
        <3>3. CASE calOcs' = [calOcs EXCEPT !.todo = todo, !.replies = replies]
            BY <1>0, <3>3
        <3> QED  BY <2>2, <3>1, <3>2, <3>3
    <2> QED  BY <1>0, <1>a, <2>1, <2>3
<1>10. ASSUME OcsTimeout PROVE CalTyped'
    <2>1. calOcs'.at = "none" /\ UNCHANGED <<calRoster, calAuth, calKnown, calSharings>>
        BY <1>10 DEF OcsTimeout, calNodeVars, calLedger, NoOcs
    <2> QED  BY <1>0, <1>a, <1>b, <2>1
<1>11. ASSUME UNCHANGED calVars PROVE CalTyped'
    BY <1>0, <1>a, <1>11 DEF calVars
<1> QED  BY <1>1, <1>2, <1>3, <1>5, <1>6, <1>7, <1>8, <1>9, <1>10, <1>11 DEF CalNext

\* Of both follow the types.
LEMMA CalTypes ==
    ASSUME LtsInv, CalTyped
    PROVE  CalTypeOK
<1>1. Made \subseteq 1 .. CalMaxSharings /\ Made \union {0} \subseteq 0 .. CalMaxSharings
    BY CalypsoAssumption DEF CalTyped, LtsInv, Made
<1>2. /\ calShare \in [CalNodes -> 0 .. CalMaxSharings] /\ calPoly \in [CalNodes -> 0 .. CalMaxSharings]
      /\ calStoring \subseteq CalNodes \X (1 .. CalMaxSharings)
    BY <1>1 DEF LtsInv
<1> QED  BY <1>2 DEF CalTypeOK, CalTyped

-----------------------------------------------------------------------------
\* What the protocol that runs keeps, next to its types.
TypedInv ==
    /\ active = "bls" => BlsInv /\ BlsTyped
    /\ active = "links" => LinksInv
    /\ active = "follow" => ExtendInv /\ FollowTypeOK
    /\ active = "ftcosi" => FtInv /\ FtTyped
    /\ active = "cosi" => CosiInv /\ CosiTypeOK
    /\ active = "bftcosi" => BftInv /\ BftTypeOK
    /\ active = "messaging" => PropInv /\ CastTyped
    /\ active = "dkg" => KeyInv /\ DkgTyped
    /\ active = "calypso" => LtsInv /\ CalTyped
    /\ active = "evoting" => EvInv

\* Every protocol starts with its types.
LEMMA TypedStart ==
    ASSUME SigningInit
    PROVE  TypedInv
<1>1. ASSUME active = "bls" PROVE BlsInv /\ BlsTyped
    <2>1. BlsInit
        BY <1>1 DEF SigningInit
    <2>2. BlsInv
        BY <2>1, BlsStart
    <2>3. CosiRoot \in Members
        BY BlsAssumption DEF Members
    <2> QED  BY <2>1, <2>2, <2>3 DEF BlsInit, BlsTyped, BlsTypeOK, SubProtocols, NewInstance, NoMask
<1>2. ASSUME active = "links" PROVE LinksInv
    BY <1>2, LinksStart DEF SigningInit
<1>3. ASSUME active = "follow" PROVE ExtendInv /\ FollowTypeOK
    <2>1. FollowInit
        BY <1>3 DEF SigningInit
    <2>2. {FLeader} \subseteq FNodes /\ {FSelf} \subseteq FNodes
        BY FollowAssumption DEF FNodes
    <2>3. current \in [FChains -> SUBSET FNodes]
        BY <2>1, <2>2 DEF FollowInit
    <2> QED  BY <2>1, <2>3 DEF FollowInit, ExtendInv, FollowTypeOK
<1>4. ASSUME active = "ftcosi" PROVE FtInv /\ FtTyped
    <2>1. FtInit
        BY <1>4 DEF SigningInit
    <2> QED  BY <2>1, FtStart DEF FtInit, FtTyped
<1>5. ASSUME active = "cosi" PROVE CosiInv /\ CosiTypeOK
    <2>1. CosiInit
        BY <1>5 DEF SigningInit
    <2>2. Null(CosiNodes) \in [CosiNodes -> Nat]
        BY DEF Null
    <2> QED  BY <2>1, <2>2, CosiStart DEF CosiInit, CosiTypeOK
<1>6. ASSUME active = "bftcosi" PROVE BftInv /\ BftTypeOK
    <2>1. BftInit
        BY <1>6 DEF SigningInit
    <2> QED  BY <2>1, BftStart DEF BftInit, BftTypeOK
<1>7. ASSUME active = "messaging" PROVE PropInv /\ CastTyped
    <2>1. MsgInit
        BY <1>7 DEF SigningInit
    <2>2. 0 \in MsgNodes /\ \A n \in MsgNodes : n \in Int /\ MsgN - n - 1 \in Int /\ 2 * (MsgN - 1) \in Int
        BY MsgAssumption DEF MsgNodes
    <2> QED  BY <2>1, <2>2, PropStart DEF MsgInit, CastTyped
<1>8. ASSUME active = "dkg" PROVE KeyInv /\ DkgTyped
    <2>1. DkgInit
        BY <1>8 DEF SigningInit
    <2> QED  BY <2>1, KeyStart, DkgTypedStart
<1>9. ASSUME active = "calypso" PROVE LtsInv /\ CalTyped
    <2>1. CalInit
        BY <1>9 DEF SigningInit
    <2>2. Made = {} /\ Len(calSharings) <= CalMaxSharings
        BY <2>1, CalypsoAssumption DEF CalInit, Made
    <2> QED  BY <2>1, <2>2, LtsStart DEF CalInit, CalTyped, NoOcs
<1>10. ASSUME active = "evoting" PROVE EvInv
    BY <1>10, EvStart DEF SigningInit
<1> QED  BY <1>1, <1>2, <1>3, <1>4, <1>5, <1>6, <1>7, <1>8, <1>9, <1>10 DEF TypedInv

\* Every step keeps them.
LEMMA TypedStep ==
    ASSUME TypedInv, [SigningNext]_SigningVars
    PROVE  TypedInv'
<1>0. active' = active
    BY ActiveStays
<1>1. ASSUME active = "bls" PROVE BlsInv' /\ BlsTyped'
    <2>1. [BlsNext]_blsVars
        BY <1>1 DEF SigningNext, SigningVars
    <2> QED  BY <1>1, <2>1, BlsStep, BlsTypedStep DEF TypedInv
<1>2. ASSUME active = "links" PROVE LinksInv'
    BY <1>2, LinkSteps, LinksStep DEF TypedInv
<1>3. ASSUME active = "follow" PROVE ExtendInv' /\ FollowTypeOK'
    BY <1>3, FollowSteps, ExtendStep, FollowTypedStep DEF TypedInv
<1>4. ASSUME active = "ftcosi" PROVE FtInv' /\ FtTyped'
    BY <1>4, OlderSteps, FtStep, FtTypedStep DEF TypedInv
<1>5. ASSUME active = "cosi" PROVE CosiInv' /\ CosiTypeOK'
    BY <1>5, OlderSteps, CosiStep, CosiTypedStep DEF TypedInv
<1>6. ASSUME active = "bftcosi" PROVE BftInv' /\ BftTypeOK'
    BY <1>6, OlderSteps, BftStep, BftTypedStep DEF TypedInv
<1>7. ASSUME active = "messaging" PROVE PropInv' /\ CastTyped'
    BY <1>7, MsgSteps, PropStep, CastStep DEF TypedInv
<1>8. ASSUME active = "dkg" PROVE KeyInv' /\ DkgTyped'
    <2>1. [DkgNext]_dkgVars
        BY <1>8 DEF SigningNext, SigningVars
    <2> QED  BY <1>8, <2>1, KeyStep, DkgTypedStep DEF TypedInv
<1>9. ASSUME active = "calypso" PROVE LtsInv' /\ CalTyped'
    <2>1. [CalNext]_calVars
        BY <1>9 DEF SigningNext, SigningVars
    <2> QED  BY <1>9, <2>1, LtsStep, CalTypedStep DEF TypedInv
<1>10. ASSUME active = "evoting" PROVE EvInv'
    BY <1>10, EvSteps, EvStep DEF TypedInv
<1> QED  BY <1>0, <1>1, <1>2, <1>3, <1>4, <1>5, <1>6, <1>7, <1>8, <1>9, <1>10 DEF TypedInv

\* Whatever protocol runs, its variables keep their types: subtrees are only
\* reordered, masks, signers and rosters are of nodes, no counter passes what its
\* stage waits for, and sharings, lists of links and chains have the shape that the
\* code reads them with (the structs of blscosi, skipchain, ftcosi, cosi, bftcosi,
\* messaging, dkg, calypso and evoting).
THEOREM SigningTyped == SigningSpec => []SigningTypeOK
<1>1. SigningInit => TypedInv
    BY TypedStart
<1>2. TypedInv /\ [SigningNext]_SigningVars => TypedInv'
    BY TypedStep
<1>3. TypedInv => SigningTypeOK
    <2> SUFFICES ASSUME TypedInv PROVE SigningTypeOK
        OBVIOUS
    <2>1. /\ active = "bls" => BlsTypeOK
          /\ active = "follow" => FollowTypeOK
          /\ active = "cosi" => CosiTypeOK
          /\ active = "bftcosi" => BftTypeOK
        BY DEF TypedInv, BlsTyped
    <2>2. active = "links" => LinksTypeOK
        BY LinksShown DEF TypedInv
    <2>3. active = "evoting" => EvTypeOK
        BY DEF TypedInv, EvInv
    <2>4. /\ active = "ftcosi" => FtTypeOK
          /\ active = "messaging" => MsgTypeOK
          /\ active = "dkg" => DkgTypeOK
          /\ active = "calypso" => CalTypeOK
        BY FtTypes, MsgTypes, DkgTypes, CalTypes DEF TypedInv
    <2> QED  BY <2>1, <2>2, <2>3, <2>4 DEF SigningTypeOK
<1> QED  BY <1>1, <1>2, <1>3, PTL DEF SigningSpec

=============================================================================
