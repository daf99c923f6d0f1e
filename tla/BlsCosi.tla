------------------------------- MODULE BlsCosi -------------------------------
(***************************************************************************)
(* Collective signing of one message: ByzCoinX runs two BlsCosi rounds,    *)
(* prepare and commit, over the same roster.  In a round the root starts   *)
(* one sub-protocol per subtree; a sub-leader collects the signatures and  *)
(* refusals of its leaves; a sub-leader that does not answer is replaced   *)
(* by its first leaf in a new sub-protocol over the rotated tree.          *)
(*                                                                         *)
(* Nodes are indices of the roster and a signature is the set of its       *)
(* signers (the mask).  The verification functions are the ones of a       *)
(* level-0 forward link: prepare stores an entry, commit consumes it.      *)
(***************************************************************************)
EXTENDS Integers, FiniteSets, Sequences, FiniteSetsExt, SequencesExt

CONSTANTS N,            \* len(p.Roster().List)
          CosiRoot,     \* roster index of the node that starts the round
          NSubTrees,    \* SetNbrSubTree
          MaxDown,      \* bound: nodes that are down, nodes that refuse
          MaxLate       \* bound: announcements that outlive their sub-protocol

ASSUME BlsAssumption ==
    /\ N \in Nat \ {0, 1}
    /\ CosiRoot \in 0 .. N - 1
    /\ NSubTrees \in 1 .. N
    /\ MaxDown \in Nat /\ MaxLate \in Nat

Members == 0 .. N - 1
DefaultThreshold(n) == n - (n - 1) \div 3
BlsThreshold == DefaultThreshold(N)
NoMask == {}

-----------------------------------------------------------------------------
(* The subtrees: the members after the root in roster order, in runs of    *)
(* equal length, one longer for the first of them.                         *)
TreeCount ==
    IF BlsThreshold = 1 THEN 0 ELSE IF N <= NSubTrees THEN N - 1 ELSE NSubTrees
Trees == 1 .. TreeCount
genTrees ==
    LET per     == (N - 1) \div TreeCount
        surplus == (N - 1) % TreeCount
        start(i) == (i - 1) * per + Min({i - 1, surplus})
        length(i) == IF i <= surplus THEN per + 1 ELSE per
    IN  [i \in Trees |-> [j \in 1 .. length(i) |-> (CosiRoot + start(i) + j) % N]]

SubLeader(tree) == Head(tree)
Leaves(tree) == ToSet(Tail(tree))
\* Mutant: the silent sub-leader is left out of its tree.
RotatedWithout(tree) == IF Len(tree) = 1 THEN tree ELSE Tail(tree)
Rotated(tree) == Append(Tail(tree), Head(tree))

\* What the root checks before it asks the next leaf: that it has not been
\* through the whole subtree.
GivesUp(tree) == Len(tree) < 2 \/ Head(tree) > tree[2]

VARIABLES
    phase,      \* "prep", "commit", "signed" or "failed"
    subTrees,   \* tree of every subtree, rotated by the restarts
    inst,       \* the running sub-protocol of every subtree
    col,        \* what the root has of a subtree: "wait", "ready", "error", "counted"
    buffer,     \* verifyNewBlockBuffer: members that hold an entry for the message
    verified,   \* members that accepted the message in the prepare phase (history)
    refusing,   \* members whose verification of the message fails
    down,       \* members that do not answer
    late,       \* announcements of sub-protocols that have been stopped
    final       \* signers of the last finished round

blsVars == <<phase, subTrees, inst, col, buffer, verified, refusing, down, late, final>>

(* A sub-protocol: the state of its sub-leader, the leaves that have an    *)
(* announcement and have not handled it, the members whose signature the   *)
(* sub-leader has.                                                         *)
NewInstance == [sl |-> "announced", asked |-> {}, signed |-> {}]
SubProtocols == [i \in Trees |-> NewInstance]
Others == Members \ {CosiRoot}

\* Mutant: the acknowledgement does not look for the entry.
AcceptsUnseen(n, ph) == ph = "commit" \/ n \notin refusing

\* Verification of a level-0 forward link and its acknowledgement: the
\* answer of member n in phase ph, and the entries after it.
Accepts(n, ph) == IF ph = "prep" THEN n \notin refusing ELSE n \in buffer
Entries(n, ph) ==
    IF ph = "commit" THEN buffer \ {n}
    ELSE IF Accepts(n, ph) THEN buffer \union {n} ELSE buffer

BlsInit ==
    /\ refusing \in {r \in SUBSET Others : Cardinality(r) <= MaxDown}
    /\ phase = "prep"
    /\ subTrees = genTrees
    /\ inst = SubProtocols
    /\ col = [i \in Trees |-> "wait"]
    /\ buffer = {CosiRoot} /\ verified = {CosiRoot}
    /\ down = {} /\ late = {} /\ final = NoMask

-----------------------------------------------------------------------------
Running == phase \in {"prep", "commit"}

VerifyStep(n, ph) ==
    /\ n \notin down
    /\ buffer' = Entries(n, ph)
    /\ verified' = IF ph = "prep" THEN verified \union (buffer' \ buffer) ELSE verified

\* The announcement reaches the sub-leader: it asks the leaves, where a send
\* to a dead node counts as an answer, and verifies itself.
dispatchSubLeader(i) ==
    LET n == SubLeader(subTrees[i])
    IN  /\ Running /\ inst[i].sl = "announced"
        /\ VerifyStep(n, phase)
        /\ inst' = [inst EXCEPT ![i] = [sl |-> "waiting", asked |-> Leaves(subTrees[i]) \ down,
                                       signed |-> IF Accepts(n, phase) THEN {n} ELSE {}]]
        /\ UNCHANGED <<phase, subTrees, col, refusing, down, late, final>>

\* A leaf verifies and answers with its signature or a signed refusal, which
\* counts if the sub-leader is still waiting.
dispatchLeaf(i, n) ==
    LET counts == inst[i].sl = "waiting" /\ SubLeader(subTrees[i]) \notin down
    IN  /\ Running /\ n \in inst[i].asked
        /\ VerifyStep(n, phase)
        /\ inst' = [inst EXCEPT ![i].asked = @ \ {n},
                       ![i].signed = IF counts /\ Accepts(n, phase) THEN @ \union {n} ELSE @]
        /\ UNCHANGED <<phase, subTrees, col, refusing, down, late, final>>

\* The root's sub-protocol forwards the answer of its sub-leader.
dispatchRoot(i) == col' = [col EXCEPT ![i] = "ready"]

\* All children have answered, or half of the sub-protocol's timeout is over:
\* the sub-leader sends the aggregate of what it has.
makeSubLeaderResponse(i) ==
    /\ Running /\ inst[i].sl = "waiting" /\ SubLeader(subTrees[i]) \notin down
    /\ inst' = [inst EXCEPT ![i].sl = "replied"]
    /\ dispatchRoot(i)
    /\ UNCHANGED <<phase, subTrees, buffer, verified, refusing, down, late, final>>

\* The announcements of a sub-protocol that is stopped.  A node that gets the
\* Stop message first drops its own; the others (Outlive) still handle theirs.
Pending(i) ==
    {<<n, phase, {}>> : n \in inst[i].asked}
        \union (IF inst[i].sl = "announced"
                THEN {<<SubLeader(subTrees[i]), phase, Leaves(subTrees[i])>>} ELSE {})

Outlive(pending) ==
    \E some \in SUBSET pending :
        late' = late \union some /\ Cardinality(late') <= MaxLate

\* The root's sub-protocol times out: the root gives the subtree up, or stops
\* the sub-protocol and starts one with the next sub-leader.
restartSubProtocol(i) ==
    /\ Running /\ col[i] = "wait"
    /\ Outlive(Pending(i))
    /\ inst' = [inst EXCEPT ![i] = NewInstance]
    /\ IF GivesUp(subTrees[i])
       THEN col' = [col EXCEPT ![i] = "error"] /\ UNCHANGED subTrees
       ELSE subTrees' = [subTrees EXCEPT ![i] = Rotated(@)] /\ UNCHANGED col
    /\ UNCHANGED <<phase, buffer, verified, refusing, down, final>>

\* A node handles an announcement of a stopped sub-protocol; its answer
\* goes nowhere, but its verification has been done.
LateAnnouncement(a) ==
    /\ Running /\ a \in late
    /\ VerifyStep(a[1], a[2])
    /\ \E some \in SUBSET a[3] : late' = (late \ {a}) \union {<<n, a[2], {}>> : n \in some}
    /\ Cardinality(late') <= MaxLate
    /\ UNCHANGED <<phase, subTrees, inst, col, refusing, down, final>>

Crash(n) ==
    /\ Running /\ n \in Others \ down /\ Cardinality(down) < MaxDown
    /\ down' = down \union {n}
    /\ UNCHANGED <<phase, subTrees, inst, col, buffer, verified, refusing, late, final>>

-----------------------------------------------------------------------------
(* The root's loop over the answers of the subtrees.                       *)
Counted == {i \in Trees : col[i] = "counted"}
numSignature == MapThenSumSet(LAMBDA i : Cardinality(inst[i].signed), Counted)
Failures(i) == Len(subTrees[i]) - Cardinality(inst[i].signed)
numFailure == MapThenSumSet(Failures, Counted)
checkFailureThreshold == numFailure > N - BlsThreshold
Collecting == Running /\ numSignature < BlsThreshold - 1 /\ ~checkFailureThreshold

CollectResponse(i) ==
    /\ Collecting /\ col[i] = "ready"
    /\ col' = [col EXCEPT ![i] = "counted"]
    /\ UNCHANGED <<phase, subTrees, inst, buffer, verified, refusing, down, late, final>>

\* BlsSignature.Verify, with the default policy.
ValidSignature(mask) == Cardinality(mask) >= DefaultThreshold(N)

makeAggregateResponse(trees) == {CosiRoot} \union UNION {inst[i].signed : i \in trees}

\* The root of a round verifies first and starts all sub-protocols.
StartRound(ph) ==
    /\ phase' = ph
    /\ buffer' = Entries(CosiRoot, ph)
    /\ Outlive(UNION {Pending(i) : i \in Trees})

\* The round ends with the signature of mask, or without one.  ByzCoinX
\* verifies the signature and starts the commit round, or it hands the final
\* signature over.
EndRound(mask) ==
    /\ final' = mask
    /\ subTrees' = genTrees
    /\ inst' = SubProtocols
    /\ col' = [i \in Trees |-> "wait"]
    /\ IF phase = "prep" /\ ValidSignature(mask)
       THEN StartRound("commit")
       ELSE /\ phase' = IF ValidSignature(mask) THEN "signed" ELSE "failed"
            /\ late' = {}
            /\ UNCHANGED buffer
    /\ UNCHANGED <<verified, refusing, down>>

\* The first error of a subtree ends the round, and so does the timeout.
CollectError == Collecting /\ (\E i \in Trees : col[i] = "error") /\ EndRound(NoMask)
CollectTimeout == Collecting /\ EndRound(NoMask)
generateSignature ==
    /\ Running /\ ~Collecting
    /\ EndRound(IF checkFailureThreshold THEN NoMask ELSE makeAggregateResponse(Counted))

SubProtocolStep(i) ==
    \/ dispatchSubLeader(i)
    \/ \E n \in Members : dispatchLeaf(i, n)
    \/ makeSubLeaderResponse(i)
    \/ restartSubProtocol(i)

BlsNext ==
    \/ \E i \in Trees : SubProtocolStep(i) \/ CollectResponse(i)
    \/ \E a \in late : LateAnnouncement(a)
    \/ \E n \in Members : Crash(n)
    \/ CollectError \/ CollectTimeout \/ generateSignature

-----------------------------------------------------------------------------
BlsTypeOK ==
    /\ phase \in {"prep", "commit", "signed", "failed"}
    /\ \A i \in Trees : ToSet(subTrees[i]) = ToSet(genTrees[i])
    /\ \A i \in Trees : inst[i].signed \subseteq ToSet(subTrees[i])
    /\ col \in [Trees -> {"wait", "ready", "error", "counted"}]
    /\ buffer \subseteq Members /\ final \subseteq Members /\ down \subseteq Others

(* The final signature of ByzCoinX carries at least the threshold, the root   *)
(* included, and every signer has verified the block itself in the prepare   *)
(* phase, whichever sub-protocols were stopped and started again in between  *)
(* (bftForwardLinkLevel0Ack, collectSignatures).                             *)
SignersVerified ==
    phase = "signed" =>
        /\ Cardinality(final) >= BlsThreshold
        /\ CosiRoot \in final
        /\ final \subseteq verified \ refusing

(* When every subtree has answered the root has decided: it never waits for  *)
(* the timeout with nobody left to answer (the counters of collectSignatures *)
(* add up to the roster without the root).                                   *)
AnswersDecide == Running /\ Counted = Trees => ~Collecting

(* A subtree is given up only when every node of it has been asked as a       *)
(* sub-leader: "failed with every subleader" (collectSignatures).             *)
EverySubleaderTried ==
    \A i \in Trees : Running /\ col[i] = "error" => SubLeader(subTrees[i]) = Last(genTrees[i])

=============================================================================
