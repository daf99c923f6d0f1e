---------------------------------- MODULE Dkg ----------------------------------
(***************************************************************************)
(* The distributed key generation that Calypso (dkg/pedersen) and e-voting *)
(* (dkg/rabin) run before they hand out a shared key.  Every node deals to *)
(* every other one, answers every deal with a broadcast response, in the   *)
(* rabin variant also broadcasts its secret commitments, and with Wait the *)
(* root asks every child at the end whether it has come that far.        *)
(* Polynomials, shares and proofs are left out: deals and responses are    *)
(* counted.                                                                *)
(***************************************************************************)
EXTENDS Integers, FiniteSets, FiniteSetsExt

CONSTANT DkgN      \* nodes 0 .. DkgN - 1, 0 is the root

ASSUME DkgAssumption == DkgN \in Nat \ {0, 1}

DkgNodes == 0 .. DkgN - 1
DkgChildren == DkgNodes \ {0}

VARIABLES dkgKind,      \* "pedersen" or "rabin"
          dkgWait,      \* the Wait field of the root
          dkgInit,      \* per child: "none", "asked" or "replied"
          dkgStage,     \* where a node's Dispatch is
          dkgDeals,     \* deals a node has processed
          dkgResponses, \* responses a node has processed
          dkgCommit,    \* nodes that have broadcast their secret commitments
          dkgSecrets,   \* secret commitments a node has processed
          dkgAsked,     \* children the root has sent WaitSetup
          dkgReplied    \* children that sent WaitReply

dkgVars == <<dkgKind, dkgWait, dkgInit, dkgStage, dkgDeals, dkgResponses, dkgCommit, dkgSecrets,
             dkgAsked, dkgReplied>>

\* Start broadcasts Init with the Wait field.
DkgInit ==
    /\ dkgKind \in {"pedersen", "rabin"} /\ dkgWait \in BOOLEAN
    /\ dkgInit = [n \in DkgChildren |-> "asked"]
    /\ dkgStage = [n \in DkgNodes |-> "init"]
    /\ dkgDeals = [n \in DkgNodes |-> 0] /\ dkgResponses = [n \in DkgNodes |-> 0]
    /\ dkgCommit = {} /\ dkgSecrets = [n \in DkgNodes |-> 0]
    /\ dkgAsked = {} /\ dkgReplied = {}

childInit(n) ==
    /\ dkgInit[n] = "asked" /\ dkgInit' = [dkgInit EXCEPT ![n] = "replied"]
    /\ UNCHANGED <<dkgKind, dkgWait, dkgStage, dkgDeals, dkgResponses, dkgCommit, dkgSecrets, dkgAsked, dkgReplied>>

\* The root broadcasts StartDeal once all children have replied; a node that
\* has it sends its deals.
allStartDeal(n) ==
    /\ \A k \in DkgChildren : dkgInit[k] = "replied"
    /\ dkgStage[n] = "init" /\ dkgStage' = [dkgStage EXCEPT ![n] = "deals"]
    /\ UNCHANGED <<dkgKind, dkgWait, dkgInit, dkgDeals, dkgResponses, dkgCommit, dkgSecrets, dkgAsked, dkgReplied>>

ExpectedDeals == DkgN - 1
Dealers == {n \in DkgNodes : dkgStage[n] # "init"}
allDeal(n) ==
    /\ dkgStage[n] = "deals" /\ dkgDeals[n] < Cardinality(Dealers \ {n})
    /\ dkgDeals' = [dkgDeals EXCEPT ![n] = @ + 1]
    /\ dkgStage' = [dkgStage EXCEPT ![n] = IF dkgDeals[n] + 1 = ExpectedDeals THEN "responses" ELSE @]
    /\ UNCHANGED <<dkgKind, dkgWait, dkgInit, dkgResponses, dkgCommit, dkgSecrets, dkgAsked, dkgReplied>>

\* Every response goes to every node.  Pedersen reads until it is certified,
\* its own responses are refused as existing and not counted; rabin reads all.
Responders(n) == IF dkgKind = "rabin" THEN DkgNodes ELSE DkgNodes \ {n}
SentResponses(n) == MapThenSumSet(LAMBDA k : dkgDeals[k], Responders(n))
ExpectedResponses(n) == Cardinality(Responders(n)) * ExpectedDeals
NextStage == IF dkgKind = "rabin" THEN "commits" ELSE IF dkgWait THEN "wait" ELSE "done"
\* Rabin sends its secret commitments as soon as its own deal is certified,
\* at the latest with the last response.
allResponse(n) ==
    LET got  == dkgResponses[n] + 1
        last == got = ExpectedResponses(n)
    IN  /\ dkgStage[n] = "responses" /\ dkgResponses[n] < SentResponses(n)
        /\ dkgResponses' = [dkgResponses EXCEPT ![n] = got]
        /\ dkgStage' = [dkgStage EXCEPT ![n] = IF last THEN NextStage ELSE @]
        /\ \/ dkgKind = "rabin" /\ got >= ExpectedDeals /\ dkgCommit' = dkgCommit \union {n}
           \/ (dkgKind = "rabin" => ~last) /\ dkgCommit' = dkgCommit
        /\ UNCHANGED <<dkgKind, dkgWait, dkgInit, dkgDeals, dkgSecrets, dkgAsked, dkgReplied>>

allSecretCommit(n) ==
    /\ dkgStage[n] = "commits" /\ dkgSecrets[n] < Cardinality(dkgCommit)
    /\ dkgSecrets' = [dkgSecrets EXCEPT ![n] = @ + 1]
    /\ dkgStage' = [dkgStage EXCEPT ![n] =
                        IF dkgSecrets[n] + 1 < DkgN THEN @ ELSE IF dkgWait THEN "wait" ELSE "done"]
    /\ UNCHANGED <<dkgKind, dkgWait, dkgInit, dkgDeals, dkgResponses, dkgCommit, dkgAsked, dkgReplied>>

WaitSetup ==
    /\ dkgStage[0] = "wait" /\ dkgAsked = {} /\ dkgAsked' = DkgChildren
    /\ UNCHANGED <<dkgKind, dkgWait, dkgInit, dkgStage, dkgDeals, dkgResponses, dkgCommit, dkgSecrets, dkgReplied>>
\* Mutant: a child answers WaitSetup when it comes.
ReplyAtOnce(n) ==
    /\ n \in dkgAsked \ dkgReplied /\ dkgReplied' = dkgReplied \union {n}
    /\ UNCHANGED <<dkgKind, dkgWait, dkgInit, dkgStage, dkgDeals, dkgResponses, dkgCommit, dkgSecrets, dkgAsked>>
WaitReply(n) ==
    /\ dkgStage[n] = "wait" /\ n \in dkgAsked \ dkgReplied
    /\ dkgReplied' = dkgReplied \union {n}
    /\ dkgStage' = [dkgStage EXCEPT ![n] = "done"]
    /\ UNCHANGED <<dkgKind, dkgWait, dkgInit, dkgDeals, dkgResponses, dkgCommit, dkgSecrets, dkgAsked>>
WaitDone ==
    /\ dkgStage[0] = "wait" /\ dkgReplied = DkgChildren
    /\ dkgStage' = [dkgStage EXCEPT ![0] = "done"]
    /\ UNCHANGED <<dkgKind, dkgWait, dkgInit, dkgDeals, dkgResponses, dkgCommit, dkgSecrets, dkgAsked, dkgReplied>>

DkgNext ==
    \/ \E n \in DkgChildren : childInit(n) \/ WaitReply(n)
    \/ \E n \in DkgNodes : allStartDeal(n) \/ allDeal(n) \/ allResponse(n) \/ allSecretCommit(n)
    \/ WaitSetup \/ WaitDone

-----------------------------------------------------------------------------
DkgTypeOK ==
    /\ dkgStage \in [DkgNodes -> {"init", "deals", "responses", "commits", "wait", "done"}]
    /\ \A n \in DkgNodes : /\ dkgDeals[n] \in 0 .. ExpectedDeals
                           /\ dkgResponses[n] \in 0 .. ExpectedResponses(n)
                           /\ dkgSecrets[n] \in 0 .. DkgN
    /\ dkgCommit \subseteq DkgNodes /\ dkgReplied \subseteq dkgAsked /\ dkgAsked \subseteq DkgChildren

(* A caller that waits is told that the key exists only when every node has  *)
(* all responses, and in rabin all commitments, so that any of them can be   *)
(* asked for its share at once (Dispatch of both Setup).                     *)
KeyIsEverywhere ==
    dkgWait /\ dkgStage[0] = "done" =>
        \A n \in DkgNodes : /\ dkgResponses[n] = ExpectedResponses(n)
                            /\ dkgKind = "rabin" => dkgSecrets[n] = DkgN
=============================================================================
