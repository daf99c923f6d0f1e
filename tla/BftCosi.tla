------------------------------- MODULE BftCosi -------------------------------
(***************************************************************************)
(* The Byzantine fault tolerant signature of bftcosi on a star: a prepare  *)
(* round in which every node verifies the message, and a commit round that *)
(* signs it when the prepare round has succeeded.  A node that refuses, or *)
(* that has not answered, is an exception of the prepare round.  The root  *)
(* waits for each kind of message until it has as many as it expects, or   *)
(* for a timeout; messages can arrive after it.                            *)
(***************************************************************************)
EXTENDS CosiCrypto

CONSTANTS BftN,         \* nodes 0 .. BftN - 1, the root is 0
          BftMaxDown    \* bound: leaves that go down
ASSUME BftAssumption == BftN \in Nat \ {0} /\ BftMaxDown \in Nat

BftNodes == 0 .. BftN - 1
BftLeaves == BftNodes \ {0}
allowedExceptions == BftN - ((BftN + 1) * 2) \div 3

VARIABLES bftPhase,
          bftAccepts,    \* nodes whose verification succeeds
          bftDown,
          prepareCommit, prepareSum,   \* leaves heard of, and those in the sum
          commitCommit, commitSum,
          prepareResponse, commitResponse,
          exceptions,    \* of the prepare round: nodes that refused or are missing
          signRefusal,   \* nodes that will not sign in the commit round
          bftSig

bftVars == <<bftPhase, bftAccepts, bftDown, prepareCommit, prepareSum, commitCommit, commitSum,
             prepareResponse, commitResponse, exceptions, signRefusal, bftSig>>
NoSig == << >>

BftInit ==
    /\ bftPhase = "prepareCommit" /\ bftDown = {}
    /\ bftAccepts \in SUBSET BftNodes
    /\ prepareCommit = {} /\ prepareSum = {} /\ commitCommit = {} /\ commitSum = {}
    /\ prepareResponse = {} /\ commitResponse = {}
    /\ exceptions = [refused |-> {}, missing |-> {}] /\ signRefusal = {} /\ bftSig = NoSig

BftCrash(n) ==
    /\ Cardinality(bftDown) < BftMaxDown /\ n \in BftLeaves \ bftDown
    /\ bftDown' = bftDown \union {n}
    /\ UNCHANGED <<bftPhase, bftAccepts, prepareCommit, prepareSum, commitCommit, commitSum,
                   prepareResponse, commitResponse, exceptions, signRefusal, bftSig>>

\* Too few messages: the root itself will refuse to sign.
Refusal(got) == IF Cardinality(got) < Cardinality(BftLeaves) - allowedExceptions THEN {0} ELSE {}

-----------------------------------------------------------------------------
(* Commitments.  One of the prepare round that is late still counts as       *)
(* heard of, but is not in the sum any more.                                 *)
readPrepareCommit(n) ==
    /\ bftPhase \in {"prepareCommit", "commitCommit"}
    /\ n \in BftLeaves \ (bftDown \union prepareCommit)
    /\ prepareCommit' = prepareCommit \union {n}
    /\ UNCHANGED <<bftPhase, bftAccepts, bftDown, prepareSum, commitCommit, commitSum,
                   prepareResponse, commitResponse, exceptions, signRefusal, bftSig>>
handleCommitmentPrepare ==
    /\ bftPhase = "prepareCommit"
    /\ bftPhase' = "commitCommit" /\ prepareSum' = prepareCommit
    /\ signRefusal' = signRefusal \union Refusal(prepareCommit)
    /\ UNCHANGED <<bftAccepts, bftDown, prepareCommit, commitCommit, commitSum,
                   prepareResponse, commitResponse, exceptions, bftSig>>

\* The commit round stops when it has as many as the prepare round.
readCommitCommit(n) ==
    /\ bftPhase = "commitCommit"
    /\ n \in prepareCommit \ (bftDown \union commitCommit)
    /\ Cardinality(commitCommit) < Cardinality(prepareCommit)
    /\ commitCommit' = commitCommit \union {n}
    /\ UNCHANGED <<bftPhase, bftAccepts, bftDown, prepareCommit, prepareSum, commitSum,
                   prepareResponse, commitResponse, exceptions, signRefusal, bftSig>>
handleCommitmentCommit ==
    /\ bftPhase = "commitCommit"
    /\ bftPhase' = "prepareResponse" /\ commitSum' = commitCommit
    /\ signRefusal' = signRefusal \union Refusal(commitCommit)
    /\ UNCHANGED <<bftAccepts, bftDown, prepareCommit, prepareSum, commitCommit,
                   prepareResponse, commitResponse, exceptions, bftSig>>

-----------------------------------------------------------------------------
(* Responses of the prepare round, with the exception of a node that refuses. *)
readPrepareResponse(n) ==
    /\ bftPhase = "prepareResponse"
    /\ n \in BftLeaves \ (bftDown \union prepareResponse)
    /\ Cardinality(prepareResponse) < Cardinality(prepareCommit)
    /\ prepareResponse' = prepareResponse \union {n}
    /\ UNCHANGED <<bftPhase, bftAccepts, bftDown, prepareCommit, prepareSum, commitCommit, commitSum,
                   commitResponse, exceptions, signRefusal, bftSig>>

Ones(set) == [n \in BftNodes |-> IF n \in set THEN 1 ELSE 0]
\* A signature with exceptions: the commitments of the refusing nodes are taken
\* out of the sum, the missing ones are assumed not to be in it.
Verify(sum, responses, ex) ==
    /\ Minus(Ones(sum), Ones(ex.refused)) = Ones(responses)
    /\ Ones(responses) = AggPublic(BftNodes, ex.refused \union ex.missing)

fewExceptions(ex) == Cardinality(ex.refused) + Cardinality(ex.missing) <= allowedExceptions

\* The exceptions the root finds: who has answered and refuses, itself included,
\* and who has not answered.
waitResponseVerification(heard) == [refused |-> heard \ bftAccepts, missing |-> BftNodes \ heard]

\* The root makes the prepare signature, or gives up; with it the challenge of
\* the commit round goes to all nodes and each of them checks it.
handleResponsePrepare ==
    LET heard == prepareResponse \union {0}
        ex    == waitResponseVerification(heard)
    IN  /\ bftPhase = "prepareResponse"
        /\ exceptions' = ex
        /\ IF Verify(prepareSum \union {0}, heard \intersect bftAccepts, ex)
           THEN /\ bftPhase' = "commitResponse"
                /\ signRefusal' = signRefusal \union Refusal(prepareResponse)
                                    \union (IF fewExceptions(ex) THEN {} ELSE BftNodes)
           ELSE bftPhase' = "failed" /\ signRefusal' = signRefusal \union {0}
        /\ UNCHANGED <<bftAccepts, bftDown, prepareCommit, prepareSum, commitCommit, commitSum,
                       prepareResponse, commitResponse, bftSig>>

readCommitResponse(n) ==
    /\ bftPhase = "commitResponse"
    /\ n \in BftLeaves \ (bftDown \union commitResponse)
    /\ Cardinality(commitResponse) < Cardinality(commitCommit)
    /\ commitResponse' = commitResponse \union {n}
    /\ UNCHANGED <<bftPhase, bftAccepts, bftDown, prepareCommit, prepareSum, commitCommit, commitSum,
                   prepareResponse, exceptions, signRefusal, bftSig>>
\* The final signature names the missing nodes of the prepare round.
Signature(refusal) ==
    [sum |-> commitSum \union {0}, response |-> (commitResponse \ refusal) \union {0},
     ex |-> [refused |-> {}, missing |-> exceptions.missing]]
handleResponseCommit ==
    LET refusal == signRefusal \union Refusal(commitResponse)
    IN  /\ bftPhase = "commitResponse" /\ bftPhase' = "done"
        /\ signRefusal' = refusal
        /\ bftSig' = IF 0 \in refusal THEN NoSig ELSE Signature(refusal)
        /\ UNCHANGED <<bftAccepts, bftDown, prepareCommit, prepareSum, commitCommit, commitSum,
                       prepareResponse, commitResponse, exceptions>>

BftNext ==
    \/ \E n \in BftLeaves : \/ BftCrash(n) \/ readPrepareCommit(n) \/ readCommitCommit(n)
                            \/ readPrepareResponse(n) \/ readCommitResponse(n)
    \/ handleCommitmentPrepare \/ handleCommitmentCommit \/ handleResponsePrepare \/ handleResponseCommit

BftTypeOK ==
    /\ bftPhase \in {"prepareCommit", "commitCommit", "prepareResponse", "commitResponse", "done", "failed"}
    /\ \A s \in {bftAccepts, bftDown, prepareCommit, prepareSum, commitCommit, commitSum,
                 prepareResponse, commitResponse, signRefusal, exceptions.refused, exceptions.missing} :
        s \subseteq BftNodes

(* A final signature that verifies is only made for a message that all but    *)
(* the allowed number of nodes have verified, although refusals are not in it *)
(* any more and different nodes may be missing in every phase                 *)
(* (handleChallengeCommit, handleResponsePrepare, Signature).                 *)
BftSignedWasPrepared ==
    (bftSig # NoSig /\ Verify(bftSig.sum, bftSig.response, bftSig.ex)) =>
        Cardinality(bftAccepts \intersect (prepareResponse \union {0})) >= BftN - allowedExceptions
=============================================================================
