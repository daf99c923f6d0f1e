-------------------------------- MODULE FtCosi --------------------------------
(***************************************************************************)
(* The fault tolerant collective signature of ftcosi.  The root asks the   *)
(* sub-leaders of its subtrees for commitments; a sub-leader collects the  *)
(* ones of its leaves and its own, and answers early when its share of the *)
(* threshold is reached or out of reach, again when all have answered, and *)
(* at its timeout.  With enough commitments the root sends a challenge,    *)
(* and exactly the nodes in its mask must respond.                         *)
(***************************************************************************)
EXTENDS Integers, FiniteSets, Sequences, FiniteSetsExt, SequencesExt

CONSTANTS FtN,          \* conodes 0 .. FtN - 1
          FtRoot,
          FtSubTrees,   \* number of subtrees
          FtThreshold,  \* nodes that must sign, the root included
          FtMaxDown     \* bound: conodes that go down during a signature

ASSUME FtAssumption ==
    /\ FtN \in Nat /\ FtRoot \in 0 .. FtN - 1
    /\ FtSubTrees \in 1 .. FtN - 1 /\ FtThreshold \in 2 .. FtN /\ FtMaxDown \in Nat

FtNodes == 0 .. FtN - 1
FtTrees == 1 .. FtSubTrees
FtNone == [mask |-> {}, refusals |-> -1]

\* The nodes in order, with a pointer that steps over the root, cut in pieces of
\* almost equal length.
ftGenTrees ==
    LET rest == [p \in 1 .. FtN - 1 |-> IF p <= FtRoot THEN p - 1 ELSE p]
        per  == (FtN - 1) \div FtSubTrees
        more == (FtN - 1) % FtSubTrees
        first(i) == (i - 1) * per + Min({i - 1, more}) + 1
    IN  [i \in FtTrees |-> SubSeq(rest, first(i), first(i + 1) - 1)]
subThreshold(tree) ==
    Min({(FtThreshold - 1 + FtSubTrees - 1) \div FtSubTrees, Len(tree)})

VARIABLES ftTree,     \* sub-leader and leaves of every subtree
          ftAccepts,  \* nodes whose verification succeeds
          ftUp,       \* nodes that answer
          ftSub,      \* the sub-leaders: what they collected and sent
          ftCommits,  \* last commitment of every subtree at the root
          ftShared,   \* nodes in the masks of all commitments at the root
          ftPhase,    \* of the root
          ftMask,     \* mask of the challenge
          ftResponses \* nodes whose responses the root has

ftVars == <<ftTree, ftAccepts, ftUp, ftSub, ftCommits, ftShared, ftPhase, ftMask, ftResponses>>

NewSub == [handled |-> {}, first |-> FALSE, timedOut |-> FALSE, out |-> << >>, got |-> 0]

FtInit ==
    /\ ftTree = ftGenTrees
    /\ ftAccepts \in {s \in SUBSET FtNodes : FtRoot \in s}
    /\ ftUp = FtNodes
    /\ ftSub = [i \in FtTrees |-> NewSub]
    /\ ftCommits = [i \in FtTrees |-> FtNone]
    /\ ftShared = {} /\ ftPhase = "commit" /\ ftMask = {} /\ ftResponses = {}

-----------------------------------------------------------------------------
(* The sub-leader of subtree i.                                            *)
Head1(i) == ftTree[i][1]
FtMembers(i) == ToSet(ftTree[i])
\* A sub-leader leaves the commitment phase when the challenge has come.
Committing(i) == Head1(i) \in ftUp /\ (ftPhase # "challenge" \/ ftCommits[i].mask = {})
ftAggregate(handled) ==
    [mask |-> handled \intersect ftAccepts, refusals |-> Cardinality(handled \ ftAccepts)]

\* The commitment or refusal of node n, a leaf or the sub-leader itself.
FtCommit(i, n) ==
    LET s       == ftSub[i]
        handled == s.handled \union {n}
        sum     == ftAggregate(handled)
        share   == subThreshold(ftTree[i])
        quick   == ~s.first /\ (Cardinality(sum.mask) >= share
                                  \/ sum.refusals >= Len(ftTree[i]) - share + 1)
        final   == handled = FtMembers(i)
        sends   == (quick \/ final) /\ Head1(i) \in handled
    IN  /\ Committing(i) /\ ~s.timedOut
        /\ n \in (FtMembers(i) \intersect ftUp) \ s.handled
        /\ ftSub' = [ftSub EXCEPT ![i] = [s EXCEPT !.handled = handled,
                        !.first = @ \/ sends, !.out = IF sends THEN Append(@, sum) ELSE @]]
        /\ UNCHANGED <<ftTree, ftAccepts, ftUp, ftCommits, ftShared, ftPhase, ftMask, ftResponses>>

FtSubTimeout(i) ==
    /\ Committing(i) /\ ~ftSub[i].timedOut /\ ftSub[i].handled # FtMembers(i)
    /\ ftSub' = [ftSub EXCEPT ![i].timedOut = TRUE, ![i].out = Append(@, ftAggregate(ftSub[i].handled))]
    /\ UNCHANGED <<ftTree, ftAccepts, ftUp, ftCommits, ftShared, ftPhase, ftMask, ftResponses>>

-----------------------------------------------------------------------------
(* The root.                                                               *)
sumRefusals(commits) == MapThenSumSet(LAMBDA i : commits[i].refusals, {i \in FtTrees : commits[i] # FtNone})

\* Mutant: the first commitment of a subtree stays.
keepFirst(i, com) == IF ftCommits[i] = FtNone THEN [ftCommits EXCEPT ![i] = com] ELSE ftCommits
setCommitment(i, com) == [ftCommits EXCEPT ![i] = com]

tooManyRefusals(commits) == sumRefusals(commits) > FtN - FtThreshold

collectCommitment(i) ==
    LET com     == ftSub[i].out[ftSub[i].got + 1]
        commits == setCommitment(i, com)
        shared  == ftShared \union com.mask
    IN  /\ ftPhase = "commit" /\ ftSub[i].got < Len(ftSub[i].out)
        /\ ftSub' = [ftSub EXCEPT ![i].got = @ + 1]
        /\ ftCommits' = commits /\ ftShared' = shared
        /\ ftPhase' = IF tooManyRefusals(commits) THEN "refused"
                      ELSE IF Cardinality(shared) >= FtThreshold - 1 THEN "reached" ELSE "commit"
        /\ UNCHANGED <<ftTree, ftAccepts, ftUp, ftMask, ftResponses>>

\* The sub-leader of subtree i has not answered in time: the first leaf takes
\* its place, unless all have had it.
subleaderNotResponding(i) ==
    LET leaves == Tail(ftTree[i])
        tried  == ftTree[i][1] > (IF leaves = << >> THEN FtRoot ELSE Last(leaves))
    IN  /\ ftPhase = "commit" /\ ftSub[i].got = 0
        /\ IF tried THEN ftPhase' = "failed" /\ UNCHANGED <<ftTree, ftSub>>
           ELSE /\ ftTree' = [ftTree EXCEPT ![i] = Append(leaves, ftTree[i][1])]
                /\ ftSub' = [ftSub EXCEPT ![i] = NewSub]
                /\ UNCHANGED ftPhase
        /\ UNCHANGED <<ftAccepts, ftUp, ftCommits, ftShared, ftMask, ftResponses>>
FtRootTimeout ==
    /\ ftPhase = "commit" /\ ftPhase' = "failed"
    /\ UNCHANGED <<ftTree, ftAccepts, ftUp, ftSub, ftCommits, ftShared, ftMask, ftResponses>>

\* Subtrees that have committed take part in the challenge.
runningSubProtocols == {i \in FtTrees : ftCommits[i].mask # {}}
FtChallenge ==
    /\ ftPhase = "reached" /\ ftPhase' = "challenge"
    /\ ftMask' = {FtRoot} \union UNION {ftCommits[i].mask : i \in FtTrees}
    /\ ftResponses' = {FtRoot}
    /\ UNCHANGED <<ftTree, ftAccepts, ftUp, ftSub, ftCommits, ftShared>>

\* The sub-leader waits for all its leaves in the mask; it fails if one of
\* them is down, and the root with it.
FtRespond(i) ==
    /\ ftPhase = "challenge" /\ i \in runningSubProtocols /\ Head1(i) \in ftUp
    /\ (ftMask \intersect FtMembers(i)) \ {Head1(i)} \subseteq ftUp
    /\ ftResponses' = ftResponses \union (ftMask \intersect FtMembers(i))
    /\ ftPhase' = IF \A k \in runningSubProtocols \ {i} : ftResponses \intersect FtMembers(k) # {}
                  THEN "signed" ELSE "challenge"
    /\ UNCHANGED <<ftTree, ftAccepts, ftUp, ftSub, ftCommits, ftShared, ftMask>>
FtResponseTimeout ==
    /\ ftPhase = "challenge" /\ ftPhase' = "failed"
    /\ UNCHANGED <<ftTree, ftAccepts, ftUp, ftSub, ftCommits, ftShared, ftMask, ftResponses>>

FtCrash(n) ==
    /\ Cardinality(FtNodes \ ftUp) < FtMaxDown /\ n \in ftUp \ {FtRoot}
    /\ ftUp' = ftUp \ {n}
    /\ UNCHANGED <<ftTree, ftAccepts, ftSub, ftCommits, ftShared, ftPhase, ftMask, ftResponses>>

FtNext ==
    \/ \E i \in FtTrees : \E n \in FtNodes : FtCommit(i, n)
    \/ \E i \in FtTrees : FtSubTimeout(i) \/ collectCommitment(i) \/ subleaderNotResponding(i) \/ FtRespond(i)
    \/ FtRootTimeout \/ FtChallenge \/ FtResponseTimeout
    \/ \E n \in FtNodes : FtCrash(n)

-----------------------------------------------------------------------------
FtTypeOK ==
    /\ ftTree \in [FtTrees -> Seq(FtNodes)] /\ ftAccepts \subseteq FtNodes /\ ftUp \subseteq FtNodes
    /\ \A i \in FtTrees : ftSub[i].handled \subseteq FtMembers(i) /\ ftSub[i].got \in 0 .. Len(ftSub[i].out)
    /\ ftShared \subseteq FtNodes /\ ftMask \subseteq FtNodes /\ ftResponses \subseteq FtNodes
    /\ ftPhase \in {"commit", "reached", "refused", "challenge", "signed", "failed"}

(* A signature is made with the responses of exactly the nodes in its mask,  *)
(* they all have verified the message and they are enough, although a        *)
(* sub-leader commits several times and with more nodes each time, and may   *)
(* have taken the place of another one (collectCommitments, Dispatch).       *)
FtSignatureComplete ==
    ftPhase = "signed" =>
        /\ ftResponses = ftMask
        /\ ftMask \subseteq ftAccepts
        /\ Cardinality(ftMask) >= FtThreshold

(* The root reports that the threshold is out of reach only when so many     *)
(* nodes really refuse, each counted once (sumRefusals).                     *)
FtRefusedByMany ==
    ftPhase = "refused" => Cardinality(FtNodes \ ftAccepts) > FtN - FtThreshold
=============================================================================
