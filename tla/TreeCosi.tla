------------------------------- MODULE TreeCosi -------------------------------
(***************************************************************************)
(* The plain collective signature of cosi over a binary tree: announcement *)
(* down, commitments up, challenge down, responses up.  A node waits for   *)
(* all its children, there is no timeout, and the service waits for the    *)
(* signature as long as it takes.                                          *)
(***************************************************************************)
EXTENDS CosiCrypto

CONSTANT CosiN         \* nodes 1 .. CosiN, node 1 is the root
ASSUME CosiAssumption == CosiN \in Nat \ {0}

CosiNodes == 1 .. CosiN
CosiParent(n) == n \div 2
CosiChildren(n) == {k \in CosiNodes : CosiParent(k) = n}

VARIABLES cosiState,     \* phase of every node
          cosiCommit,    \* aggregated commitment a node has sent up
          cosiResponse,  \* aggregated response
          cosiSig        \* what the service gives to the client

cosiVars == <<cosiState, cosiCommit, cosiResponse, cosiSig>>
CosiNone == << >>

CosiInit ==
    /\ cosiState = [n \in CosiNodes |-> IF n = 1 THEN "announced" ELSE "waiting"]
    /\ cosiCommit = [n \in CosiNodes |-> Null(CosiNodes)]
    /\ cosiResponse = [n \in CosiNodes |-> Null(CosiNodes)]
    /\ cosiSig = CosiNone

\* A term of the sum per child, so that equal ones are not one.
Terms(n, from) == {[child |-> k, sum |-> from[k]] : k \in CosiChildren(n)}

handleAnnouncement(n) ==
    /\ cosiState[n] = "waiting" /\ cosiState[CosiParent(n)] # "waiting"
    /\ cosiState' = [cosiState EXCEPT ![n] = "announced"]
    /\ UNCHANGED <<cosiCommit, cosiResponse, cosiSig>>

\* All commitments of the children at once; the root goes on with the challenge.
handleCommitment(n) ==
    /\ cosiState[n] = "announced"
    /\ \A k \in CosiChildren(n) : cosiState[k] = "committed"
    /\ cosiCommit' = [cosiCommit EXCEPT ![n] = Aggregate(CosiNodes, n, Terms(n, cosiCommit))]
    /\ cosiState' = [cosiState EXCEPT ![n] = IF n = 1 THEN "challenged" ELSE "committed"]
    /\ UNCHANGED <<cosiResponse, cosiSig>>

handleChallenge(n) ==
    /\ cosiState[n] = "committed" /\ cosiState[CosiParent(n)] = "challenged"
    /\ cosiState' = [cosiState EXCEPT ![n] = "challenged"]
    /\ UNCHANGED <<cosiCommit, cosiResponse, cosiSig>>

\* The response of a node: its own, and the ones of its children.
genResponse(n) == Aggregate(CosiNodes, n, Terms(n, cosiResponse))
\* The root's aggregates, with a mask that has everybody in it.
CosiSignature(response) == [commit |-> cosiCommit[1], response |-> response, mask |-> {}]

handleResponse(n) ==
    /\ cosiState[n] = "challenged"
    /\ \A k \in CosiChildren(n) : cosiState[k] = "done"
    /\ cosiResponse' = [cosiResponse EXCEPT ![n] = genResponse(n)]
    /\ cosiState' = [cosiState EXCEPT ![n] = "done"]
    /\ cosiSig' = IF n = 1 THEN CosiSignature(genResponse(1)) ELSE cosiSig
    /\ UNCHANGED cosiCommit

CosiNext ==
    \E n \in CosiNodes :
        handleAnnouncement(n) \/ handleCommitment(n) \/ handleChallenge(n) \/ handleResponse(n)

CosiTypeOK ==
    /\ cosiState \in [CosiNodes -> {"waiting", "announced", "committed", "challenged", "done"}]
    /\ cosiCommit \in [CosiNodes -> [CosiNodes -> Nat]] /\ cosiResponse \in [CosiNodes -> [CosiNodes -> Nat]]

(* In whatever order the nodes of the tree proceed, the signature the        *)
(* service returns verifies with the keys of the whole roster: each node is  *)
(* in it exactly once (handleCommitment, handleResponse, Signature).         *)
CosiSignatureVerifies == cosiSig # CosiNone => VerifySignature(CosiNodes, cosiSig)
=============================================================================
