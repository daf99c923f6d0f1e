------------------------------ MODULE Messaging ------------------------------
(***************************************************************************)
(* The two protocols of messaging.  Propagate sends data from the root to  *)
(* all others on a star and counts their replies; it is how skipchain and  *)
(* ByzCoin spread blocks and proofs.  Broadcast connects every pair of     *)
(* nodes and counts confirmations.                                         *)
(***************************************************************************)
EXTENDS Integers, FiniteSets

CONSTANTS MsgN          \* nodes 0 .. MsgN - 1, the root is 0
ASSUME MsgAssumption == MsgN \in Nat \ {0, 1}

MsgNodes == 0 .. MsgN - 1
MsgChildren == MsgNodes \ {0}
allowedFailures3 == (MsgN - 1) \div 3

VARIABLES propSend,     \* children the data is under way to
          propErrors,   \* children that could not be reached
          propData,     \* nodes whose handler has been called
          propReplies,  \* replies under way to the root
          propReceived, \* replies the root has counted
          propState,    \* of the root: sending, waiting, or how it ended
          contacts,     \* Broadcast: contact messages under way
          confirms,     \* Done messages under way, with their sender
          contactRcv, doneRcv, \* counters of the nodes
          linked,       \* pairs that are connected
          finished      \* nodes that have called their callback

propVars == <<propSend, propErrors, propData, propReplies, propReceived, propState>>
castVars == <<contacts, confirms, contactRcv, doneRcv, linked, finished>>
msgVars == <<propVars, castVars>>

MsgInit ==
    /\ propSend = {} /\ propErrors = {} /\ propData = {} /\ propReplies = {} /\ propReceived = 0
    /\ propState = "start"
    /\ contacts = {<<0, 0>>} /\ confirms = {} /\ linked = {} /\ finished = {}
    /\ contactRcv = [n \in MsgNodes |-> n]
    /\ doneRcv = [n \in MsgNodes |-> IF n = 0 THEN 2 * (MsgN - 1) ELSE MsgN - n - 1]

-----------------------------------------------------------------------------
(* Propagate.  The root stores the data itself and sends it in parallel.  A  *)
(* send fails at once, or later without a trace: then no reply comes.        *)
PropagateRoot(errs) ==
    /\ propState = "start"
    /\ propData' = {0} /\ propErrors' = errs
    /\ propSend' = MsgChildren \ errs
    /\ propState' = IF Cardinality(errs) > allowedFailures3 THEN "error" ELSE "waiting"
    /\ UNCHANGED <<propReplies, propReceived, castVars>>
PropagateChild(n) ==
    /\ n \in propSend /\ propSend' = propSend \ {n}
    /\ propData' = propData \union {n} /\ propReplies' = propReplies \union {n}
    /\ UNCHANGED <<propErrors, propReceived, propState, castVars>>
PropagateLost(n) ==
    /\ n \in propSend /\ propSend' = propSend \ {n}
    /\ UNCHANGED <<propErrors, propData, propReplies, propReceived, propState, castVars>>

\* Mutant: the root does not wait for the last reply.
EnoughReplies(received) == received >= MsgN - 1 - allowedFailures3
AllReplies(received) ==
    received = MsgN - 1 - Cardinality(propErrors) /\ received >= MsgN - 1 - allowedFailures3
PropagateReply(n) ==
    /\ propState = "waiting" /\ n \in propReplies
    /\ propReplies' = propReplies \ {n} /\ propReceived' = propReceived + 1
    /\ propState' = IF AllReplies(propReceived + 1) THEN "done" ELSE "waiting"
    /\ UNCHANGED <<propSend, propErrors, propData, castVars>>
PropagateTimeout ==
    /\ propState = "waiting"
    /\ propState' = IF propReceived + 1 < MsgN - 1 - allowedFailures3 THEN "error" ELSE "timeout"
    /\ UNCHANGED <<propSend, propErrors, propData, propReplies, propReceived, castVars>>
\* The number the caller gets, whether there was an error or not.
propagateStartAndWait == propReceived + 1

-----------------------------------------------------------------------------
(* Broadcast.  A node that the root contacts contacts all later ones.        *)
handleContactNodes(m) ==
    LET from == m[1] n == m[2]
        rest == contactRcv[n] - 1 + doneRcv[n]
        new  == IF from = 0 THEN {<<n, k>> : k \in {k \in MsgNodes : k > n}} ELSE {}
    IN  /\ m \in contacts
        /\ contacts' = (contacts \ {m}) \union new
        /\ contactRcv' = [contactRcv EXCEPT ![n] = @ - 1]
        /\ linked' = linked \union {{from, n}}
        /\ confirms' = confirms \union {[from |-> n, to |-> from, of |-> "contact"]} \union
                        (IF rest = 0 THEN {[from |-> n, to |-> 0, of |-> "all"]} ELSE {})
        /\ finished' = IF rest = 0 THEN finished \union {n} ELSE finished
        /\ UNCHANGED <<doneRcv, propVars>>
handleDone(c) ==
    LET n    == c.to
        rest == contactRcv[n] + doneRcv[n] - 1
    IN  /\ c \in confirms /\ n \notin finished
        /\ doneRcv' = [doneRcv EXCEPT ![n] = @ - 1]
        /\ confirms' = (confirms \ {c}) \union
                        (IF rest = 0 THEN {[from |-> n, to |-> 0, of |-> "all"]} ELSE {})
        /\ finished' = IF rest = 0 THEN finished \union {n} ELSE finished
        /\ UNCHANGED <<contacts, contactRcv, linked, propVars>>

MsgNext ==
    \/ \E errs \in SUBSET MsgChildren : PropagateRoot(errs)
    \/ \E n \in MsgChildren : PropagateChild(n) \/ PropagateLost(n) \/ PropagateReply(n)
    \/ PropagateTimeout
    \/ \E m \in contacts : handleContactNodes(m)
    \/ \E c \in confirms : handleDone(c)

MsgTypeOK ==
    /\ propSend \subseteq MsgChildren /\ propErrors \subseteq MsgChildren /\ propData \subseteq MsgNodes
    /\ propReplies \subseteq MsgChildren /\ propReceived \in 0 .. MsgN - 1
    /\ propState \in {"start", "waiting", "done", "timeout", "error"}
    /\ contactRcv \in [MsgNodes -> Int] /\ doneRcv \in [MsgNodes -> Int] /\ finished \subseteq MsgNodes

(* The number of nodes a propagation reports never exceeds the nodes whose   *)
(* handler has been called, and a propagation that ends before its timeout   *)
(* has reached every node it could send to (Dispatch).                       *)
PropagationCounted ==
    /\ propState # "start" => propagateStartAndWait <= Cardinality(propData)
    /\ propState = "done" => propData = MsgNodes \ propErrors

(* "Broadcast ensures that all nodes are connected to each other": when the  *)
(* root calls its callback every pair of nodes is connected (verifyDone).    *)
BroadcastConnects ==
    0 \in finished => \A a, b \in MsgNodes : a = b \/ {a, b} \in linked
=============================================================================
