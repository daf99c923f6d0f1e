------------------------------ MODULE MCLedger ------------------------------
(***************************************************************************)
(* One instance of each part that decides what a transaction does to the   *)
(* state: the contracts, the caches of the trie, and the execution of      *)
(* blocks.  They share no state here, so each behaviour runs one of them;  *)
(* the variables of the others are 0.                                      *)
(***************************************************************************)
EXTENDS Contracts, TrieCache, Execution

CONSTANTS k1, k2,           \* signers
          ca, cb, cv, cx    \* coins, a value, a deferred

MCOwners == (ca :> {k1}) @@ (cb :> {k1, k2}) @@ (cv :> {k2}) @@ (cx :> {k1})
MCInstr(who, n, timed) == [who |-> who, n |-> n, timed |-> timed]
MCTxs == {<<MCInstr("s", 1, FALSE)>>, <<MCInstr("t", 1, TRUE), MCInstr("s", 2, FALSE)>>}

VARIABLE active   \* the component that runs

ContractsOff == cInst = 0 /\ cEntries = 0 /\ cLatest = 0 /\ cCounter = 0 /\ cIndex = 0
    /\ cLog = 0 /\ cMinted = 0 /\ cExecuted = 0
TrieCacheOff == tcStore = 0 /\ tcLockT = 0 /\ tcLockC = 0 /\ tcConfig = 0 /\ tcMap = 0
    /\ tcAt = 0 /\ tcGot = 0 /\ tcWrites = 0
ExecutionOff == exChain = 0 /\ exProposal = 0 /\ exState = 0 /\ exIndex = 0 /\ exCache = 0
    /\ exReplay = 0 /\ exFailed = 0 /\ exRetimed = 0 /\ exDownloads = 0

LedgerVars == <<active, cVars, tcVars, exVars>>

LedgerInit ==
    \/ active = "contracts" /\ CInit /\ TrieCacheOff /\ ExecutionOff
    \/ active = "cache" /\ TcInit /\ ContractsOff /\ ExecutionOff
    \/ active = "execution" /\ ExInit /\ ContractsOff /\ TrieCacheOff
LedgerNext == UNCHANGED active /\
    \/ active = "contracts" /\ CNext /\ UNCHANGED <<tcVars, exVars>>
    \/ active = "cache" /\ TcNext /\ UNCHANGED <<cVars, exVars>>
    \/ active = "execution" /\ ExNext /\ UNCHANGED <<cVars, tcVars>>
LedgerSpec == LedgerInit /\ [][LedgerNext]_LedgerVars

-----------------------------------------------------------------------------
\* Type invariant of the component that runs.
LedgerTypeOK ==
    /\ active = "contracts" => CTypeOK
    /\ active = "cache" => TcTypeOK
    /\ active = "execution" => ExTypeOK

(* Of the contracts: coins are minted and moved but never made or lost,    *)
(* every instruction takes effect once, and every name can be found        *)
(* (byzcoin/contracts, transaction.go, contract_name.go).                  *)
ContractsRight == active = "contracts" => CoinsConserved /\ AppliedOnce /\ NamesListed

(* Of the names: an entry is never given to another instance               *)
(* (contract_name.go).                                                     *)
NamesRight == [][active = "contracts" =>
                    \A k \in DOMAIN cEntries : /\ k \in DOMAIN cEntries' /\ cEntries'[k].iid = cEntries[k].iid
                                               /\ cEntries[k].removed => cEntries'[k].removed]_LedgerVars

(* Of what a node keeps beside the trie: the cached configuration is the  *)
(* one of the trie (statetrie.go), and with the cached state changes the   *)
(* results of verification, storing and replay agree (service.go,          *)
(* statechange_cache.go, statereplay.go).                                  *)
ExecutionRight ==
    /\ active = "cache" => CachedConfigFresh
    /\ active = "execution" => ExecutionAgrees
=============================================================================
