------------------------------ MODULE MCState -------------------------------
(***************************************************************************)
(* The ledger of MCLedger together with the parts that keep a structure of *)
(* their own in the state: the expressions of darcs that delegate to each  *)
(* other, the nodes of the Merkle trie, and the Ethereum machine.  They    *)
(* share no state here, so each behaviour runs one part of the ledger or   *)
(* one of these; the variables of the others are 0.                        *)
(***************************************************************************)
EXTENDS MCLedger, Darc, Trie, Bevm

CONSTANTS k3, dg, dd, de   \* one more key, and darcs

MCGenesisRules ==
    LET one == ExprOf(IdTerm(k1))
    IN  [a \in {"_sign", "evolve", "spawn:darc", "update_config", "view_change"} |-> one]
\* Rules that delegate to each other, with a threshold and a group.
MCRules ==
    LET both == InitAndExpr(<<IdTerm(k2), IdTerm(k3)>>)
        group == GroupTerm(InitOrExpr(<<IdTerm(de), IdTerm(k3)>>))
    IN  {("_sign" :> InitOrExpr(<<IdTerm(k2), IdTerm(dg)>>)) @@ ("evolve" :> ExprOf(IdTerm(k1)))
            @@ ("evolve_unrestricted" :> both),
         ("_sign" :> ExprOf(ThresholdTerm(2, 3, {k3, dd, dg}))) @@ ("evolve" :> ExprOf(IdTerm(dd))),
         ("_sign" :> <<[op |-> "and", term |-> IdTerm(k1)], [op |-> "and", term |-> IdTerm(k2)],
                       [op |-> "or", term |-> group]>>)
            @@ ("evolve" :> InitOrExpr(<<IdTerm(de), IdTerm(k1)>>)) @@ ("spawn:darc" :> ExprOf(IdTerm(k2)))
            @@ ("evolve_unrestricted" :> both)}
MCTrieKeys == {<<TRUE, TRUE, TRUE>>, <<TRUE, TRUE, FALSE>>, <<TRUE, FALSE, TRUE>>, <<FALSE, TRUE, TRUE>>}
MCEvent(kind, addr) == [kind |-> kind, addr |-> addr]
MCCall(reverts, logs) == [reverts |-> reverts, logs |-> logs]
MCCalls == {MCCall(FALSE, <<MCEvent("invoke", "p"), MCEvent("invoke", "q"), MCEvent("invoke", "p")>>),
            MCCall(TRUE, <<MCEvent("delete", "p")>>),
            MCCall(FALSE, <<MCEvent("other", "p"), MCEvent("delete", "p")>>),
            MCCall(FALSE, <<MCEvent("spawn", "q")>>), MCCall(FALSE, <<MCEvent("delete", "q")>>)}
MCAllowed == {<<"p", "invoke">>, <<"p", "delete">>, <<"q", "invoke">>}

DarcOff == dDarcs = 0 /\ dBirth = 0 /\ dFree = 0 /\ dPending = 0
TrieOff == tBucket = 0 /\ tRoot = 0 /\ tMap = 0 /\ tOverlay = 0 /\ tDeleted = 0 /\ tInstrs = 0
    /\ tOps = 0
BevmOff == bvTrie = 0 /\ bvCounters = 0 /\ bvChanges = 0 /\ bvRefusal = 0 /\ bvNonces = 0
    /\ bvSpawned = 0 /\ bvLate = 0 /\ bvRead = 0 /\ bvEvents = 0 /\ bvTarget = 0
    /\ bvAccepted = 0

StateOff == DarcOff /\ TrieOff /\ BevmOff
LedgerOff == ContractsOff /\ TrieCacheOff /\ ExecutionOff

StateVars == <<dVars, trieVars, bvVars>>

StateInit ==
    \/ LedgerInit /\ StateOff
    \/ active = "darc" /\ DInit /\ LedgerOff /\ TrieOff /\ BevmOff
    \/ active = "trie" /\ TrieInit /\ LedgerOff /\ DarcOff /\ BevmOff
    \/ active = "bevm" /\ BvInit /\ LedgerOff /\ DarcOff /\ TrieOff
StateNext ==
    \/ LedgerNext /\ UNCHANGED StateVars
    \/ active = "darc" /\ DNext /\ UNCHANGED LedgerVars /\ UNCHANGED <<trieVars, bvVars>>
    \/ active = "trie" /\ TrieNext /\ UNCHANGED LedgerVars /\ UNCHANGED <<dVars, bvVars>>
    \/ active = "bevm" /\ BvNext /\ UNCHANGED LedgerVars /\ UNCHANGED <<dVars, trieVars>>
StateSpec == StateInit /\ [][StateNext]_<<LedgerVars, StateVars>>

-----------------------------------------------------------------------------
(* Of the access control: an expression is satisfied by exactly the sets   *)
(* of keys it describes, and an evolution under the restricted rule gives  *)
(* nobody a right that the rules did not have (darc, contract_darc.go).    *)
DarcRight == active = "darc" => DTypeOK /\ EvalExprSound /\ NoPowerGained

(* Of the trie: reads and proofs answer what was written (byzcoin/trie).   *)
(* Of the Ethereum machine that keeps its own trie in value instances: the *)
(* instructions and values that it generates are executed once, everywhere *)
(* the same, and leave its state complete (bevm).                          *)
TrieRight ==
    /\ active = "trie" => TrieTypeOK /\ TrieAnswers /\ ProofsSound
    /\ active = "bevm" => BvTypeOK /\ BevmRight
=============================================================================
