------------------------------ MODULE Contracts ------------------------------
(***************************************************************************)
(* Execution of client transactions: processOneTx with the signer counters *)
(* and the checks on state changes, and the coin, value, deferred and      *)
(* naming contracts.  Transactions are lists of instructions executed all  *)
(* or not at all; they may be delivered more than once.                    *)
(*                                                                         *)
(* The darcs are reduced to the set of identities that must all sign for   *)
(* an instance (module Darc has the expressions).  An instance ID derived  *)
(* from an instruction is a fresh name the client knows.                   *)
(***************************************************************************)
EXTENDS Integers, FiniteSets, Sequences, FiniteSetsExt, SequencesExt, Functions

CONSTANTS CSigners,
          CCoins, CValues, CDeferreds,   \* names for instances of the contracts
          CNames,                        \* names of the naming contract
          CMinter,                       \* the identity of the mint rule
          COwners,                       \* identities the darc of an instance asks for
          CMaxCoin,                      \* bound: largest value of a coin (2^64 - 1)
          CExpire,                       \* defaultExpireThreshold
          CMaxTx, CMaxIndex              \* bounds: accepted transactions, blocks

CInstances == CCoins \union CValues \union CDeferreds
ASSUME ContractsAssumption ==
    /\ CMinter \in CSigners /\ COwners \in [CInstances -> SUBSET CSigners]
    /\ CCoins \intersect (CValues \union CDeferreds) = {} /\ CValues \intersect CDeferreds = {}
    /\ IsFiniteSet(CCoins)
    /\ {CMaxCoin, CExpire, CMaxTx, CMaxIndex} \subseteq Nat

VARIABLES cInst,     \* state trie: the instances
          cEntries,  \* state trie: the naming entries
          cLatest,   \* ContractNamingBody.Latest
          cCounter,  \* signer counters
          cIndex,    \* block index
          cLog,      \* history: accepted transactions
          cMinted,   \* history: coins minted less coins discarded
          cExecuted  \* history: times each deferred transaction was executed

cVars == <<cInst, cEntries, cLatest, cCounter, cIndex, cLog, cMinted, cExecuted>>
NoKey == << >>       \* the zero InstanceID
NameKeys == {<<COwners[i], n>> : i \in CValues, n \in CNames}

\* What one instruction works on and hands to the next one.
State == [inst |-> cInst, entries |-> cEntries, latest |-> cLatest, counter |-> cCounter,
          minted |-> cMinted, executed |-> cExecuted, coins |-> 0, ok |-> TRUE]
Exists(st, i) == i \in DOMAIN st.inst
Put(f, k, v) == [x \in DOMAIN f \union {k} |-> IF x = k THEN v ELSE f[x]]
CreateInst(st, i, value) == IF Exists(st, i) THEN [st EXCEPT !.ok = FALSE] ELSE [st EXCEPT !.inst = Put(@, i, value)]
RemoveInst(st, i) == [st EXCEPT !.inst = Restrict(@, DOMAIN @ \ {i})]
Fail(st) == [st EXCEPT !.ok = FALSE]
Check(st, ok, new) == IF ok THEN new ELSE Fail(st)

-----------------------------------------------------------------------------
(* Instructions.  Those on coins carry an amount, the others what they need. *)
Instr(op, i, arg, ids) == [op |-> op, inst |-> i, arg |-> arg, ids |-> ids]
ValueInstrs ==
    UNION {{Instr("spawnValue", v, 0, {CMinter}), Instr("update", v, 0, COwners[v]), Instr("deleteValue", v, 0, COwners[v])}
           : v \in CValues}
CoinInstrs ==
    UNION {{Instr("spawnCoin", c, 0, {CMinter}), Instr("store", c, 0, COwners[c]), Instr("deleteCoin", c, 0, COwners[c])}
           \union {Instr("fetch", c, n, COwners[c]) : n \in 1 .. 2}
           \union {Instr("mint", c, n, {CMinter}) : n \in {2}}
           \union {Instr("transfer", c, [to |-> d, coins |-> 1], COwners[c]) : d \in CCoins} : c \in CCoins}
DeferredInstrs ==
    {Instr("spawnDeferred", x, <<v>>, {CMinter}) : x \in CDeferreds, v \in {v \in ValueInstrs : v.op # "spawnValue"}}
    \union {Instr("addProof", x, [index |-> 1, identity |-> k], {k}) : x \in CDeferreds, k \in CSigners}
    \union {Instr(op, x, 0, {CMinter}) : op \in {"execProposedTx", "deleteDeferred"}, x \in CDeferreds}
NameInstrs == {Instr(op, v, n, COwners[v]) : op \in {"addName", "removeName"}, v \in CValues, n \in CNames}

\* A client signs every instruction with the counters that will be next.
Signed(instrs) ==
    [i \in DOMAIN instrs |->
        [instr |-> instrs[i],
         counters |-> [k \in instrs[i].ids |-> cCounter[k] + Cardinality({j \in 1 .. i : k \in instrs[j].ids})]]]
Proposals ==
    {<<i>> : i \in ValueInstrs \union CoinInstrs \union DeferredInstrs \union NameInstrs}
    \union {<<i, j>> : i \in {i \in CoinInstrs : i.op = "fetch"},
                       j \in {j \in CoinInstrs : j.op \in {"fetch", "store", "transfer"}}}

-----------------------------------------------------------------------------
(* The coin contract.                                                      *)
\* Mutant: an account may send to itself.
AnyTarget(from, to) == TRUE
NotOurselves(from, to) == from # to
\* Mutant: only the amount is checked, not the sum.
SafeAmount(value, n) == n <= CMaxCoin
SafeAdd(value, n) == value + n <= CMaxCoin
SafeSub(value, n) == n <= value

SpawnCoinInst(st, c) == CreateInst(st, c, 0)
CoinInstr(st, in) ==
    LET c == in.inst v == st.inst[c] n == in.arg
    IN  IF in.op = "spawnCoin" THEN SpawnCoinInst(st, c)
        ELSE IF ~Exists(st, c) THEN Fail(st)
        ELSE CASE in.op = "mint" -> Check(st, SafeAdd(v, n), [st EXCEPT !.inst[c] = v + n, !.minted = @ + n])
             [] in.op = "transfer" ->
                    Check(st, /\ NotOurselves(c, n.to) /\ Exists(st, n.to)
                              /\ SafeSub(v, n.coins) /\ SafeAdd(st.inst[n.to], n.coins),
                          \* the state change of the target comes first
                          [st EXCEPT !.inst[n.to] = @ + n.coins, !.inst[c] = v - n.coins])
             [] in.op = "fetch" -> Check(st, SafeSub(v, n), [st EXCEPT !.inst[c] = v - n, !.coins = @ + n])
             [] in.op = "store" -> Check(st, SafeAdd(v, st.coins), [st EXCEPT !.inst[c] = v + st.coins, !.coins = 0])
             [] in.op = "deleteCoin" -> Check(st, v = 0, RemoveInst(st, c))

(* The value contract; a value is the number of its updates.               *)
ValueInstr(st, in) ==
    LET v == st.inst[in.inst]
    IN  IF in.op = "spawnValue" THEN CreateInst(st, in.inst, 0)
        ELSE IF ~Exists(st, in.inst) THEN Fail(st)
        ELSE CASE in.op = "update" -> [st EXCEPT !.inst[in.inst] = 1 - v]
             [] in.op = "deleteValue" -> RemoveInst(st, in.inst)

-----------------------------------------------------------------------------
(* The deferred contract.                                                  *)
NewDeferred(tx) ==
    [tx |-> tx, proofs |-> [i \in DOMAIN tx |-> {}], expire |-> cIndex + CExpire, max |-> 1]
checkInvoke(x) == x.max >= 1 /\ cIndex <= x.expire
\* VerifyDeferredInstruction: the collected identities, without counters.
VerifyDeferredInstruction(in, proofs) == COwners[in.inst] \subseteq proofs
execProposedTx(st, x) ==
    LET step(s, i) == IF s.ok /\ Exists(s, x.tx[i].inst) /\ VerifyDeferredInstruction(x.tx[i], x.proofs[i])
                      THEN ValueInstr(s, x.tx[i]) ELSE Fail(s)
        after[i \in 0 .. Len(x.tx)] == IF i = 0 THEN st ELSE step(after[i - 1], i)
    IN  after[Len(x.tx)]
DeferredInstr(st, in) ==
    LET d == in.inst x == st.inst[d]
    IN  IF in.op = "spawnDeferred" THEN CreateInst(st, d, NewDeferred(in.arg))
        ELSE IF ~Exists(st, d) THEN Fail(st)
        ELSE CASE in.op = "addProof" ->
                    Check(st, checkInvoke(x) /\ in.arg.identity \notin x.proofs[in.arg.index],
                          [st EXCEPT !.inst[d].proofs[in.arg.index] = @ \union {in.arg.identity}])
             [] in.op = "execProposedTx" ->
                    LET new == execProposedTx(st, x)
                    IN  Check(st, checkInvoke(x) /\ new.ok, [new EXCEPT !.inst[d].max = @ - 1, !.executed[d] = @ + 1])
             [] in.op = "deleteDeferred" -> [RemoveInst(st, d) EXCEPT !.executed[d] = 0]

-----------------------------------------------------------------------------
(* The naming contract: entries form a list that starts at Latest.         *)
\* Mutant: a removed name may be used again.
Unused(st, key) == key \in DOMAIN st.entries => st.entries[key].removed
NotOverwriting(st, key) == key \notin DOMAIN st.entries
NameInstr(st, in) ==
    LET key == <<COwners[in.inst], in.arg>>
    IN  IF ~Exists(st, in.inst) THEN Fail(st)
        ELSE CASE in.op = "addName" ->
                    Check(st, NotOverwriting(st, key),
                          [st EXCEPT !.entries = Put(@, key, [iid |-> in.inst, prev |-> st.latest, removed |-> FALSE]),
                                     !.latest = key])
             [] in.op = "removeName" ->
                    Check(st, key \in DOMAIN st.entries /\ ~st.entries[key].removed, [st EXCEPT !.entries[key].removed = TRUE])

-----------------------------------------------------------------------------
(* Instruction.Verify: counters first, then the darc of the instance.      *)
Creates(in) == in.op \in {"spawnCoin", "spawnValue", "spawnDeferred"}
Expired(st, in) == in.op = "deleteDeferred" /\ Exists(st, in.inst) /\ cIndex >= st.inst[in.inst].expire
Rule(in) == IF Creates(in) \/ in.op \in {"mint", "execProposedTx", "deleteDeferred"} THEN {CMinter}
            ELSE IF in.op = "addProof" THEN in.ids ELSE COwners[in.inst]
verifySignerCounters(counters, counter) == \A k \in DOMAIN counters : counters[k] = counter[k] + 1
VerifyInstruction(st, s) ==
    \/ Expired(st, s.instr)
    \/ /\ verifySignerCounters(s.counters, st.counter)
       /\ s.instr.ids # {} /\ Rule(s.instr) \subseteq s.instr.ids

executeInstruction(st, in) ==
    IF in.inst \in CCoins THEN CoinInstr(st, in)
    ELSE IF in.op \in {"addName", "removeName"} THEN NameInstr(st, in)
    ELSE IF in.inst \in CValues THEN ValueInstr(st, in)
    ELSE DeferredInstr(st, in)
incrementSignerCounters(counter, ids) == [k \in CSigners |-> counter[k] + (IF k \in ids THEN 1 ELSE 0)]

\* All instructions or none; leftover coins are discarded.
processInstruction(st, s) ==
    LET new == executeInstruction(st, s.instr)
    IN  IF ~st.ok \/ ~VerifyInstruction(st, s) THEN Fail(st)
        ELSE [new EXCEPT !.counter = incrementSignerCounters(@, s.instr.ids)]
processOneTx(tx) ==
    LET after[n \in 0 .. Len(tx)] == IF n = 0 THEN State ELSE processInstruction(after[n - 1], tx[n])
        end == after[Len(tx)]
    IN  [end EXCEPT !.minted = @ - end.coins]

Deliver(tx) ==
    LET end == processOneTx(tx)
    IN  /\ Len(cLog) < CMaxTx /\ end.ok
        /\ cInst' = end.inst /\ cEntries' = end.entries /\ cLatest' = end.latest
        /\ cCounter' = end.counter /\ cMinted' = end.minted /\ cExecuted' = end.executed
        /\ cLog' = Append(cLog, tx)
        /\ UNCHANGED cIndex
NewBlock ==
    /\ cIndex < CMaxIndex /\ cIndex' = cIndex + 1
    /\ UNCHANGED <<cInst, cEntries, cLatest, cCounter, cLog, cMinted, cExecuted>>

CInit ==
    /\ cInst = << >> /\ cEntries = << >> /\ cLatest = NoKey
    /\ cCounter = [k \in CSigners |-> 0] /\ cIndex = 0
    /\ cLog = << >> /\ cMinted = 0 /\ cExecuted = [x \in CDeferreds |-> 0]
CNext ==
    \/ \E p \in Proposals : Deliver(Signed(p))
    \/ \E tx \in ToSet(cLog) : Deliver(tx)
    \/ NewBlock

-----------------------------------------------------------------------------
CTypeOK ==
    /\ DOMAIN cInst \subseteq CInstances /\ DOMAIN cEntries \subseteq NameKeys
    /\ \A c \in CCoins \intersect DOMAIN cInst : cInst[c] \in 0 .. CMaxCoin
    /\ \A v \in CValues \intersect DOMAIN cInst : cInst[v] \in 0 .. 1
    /\ \A x \in CDeferreds \intersect DOMAIN cInst : cInst[x].max \in 0 .. 1
    /\ cIndex \in 0 .. CMaxIndex /\ cCounter \in [CSigners -> 0 .. 2 * CMaxTx]

(* Whatever is fetched, stored and transferred, in one or in several         *)
(* instructions and near the largest value, coins are neither made nor lost, *)
(* except those a transaction leaves over (contracts/coins.go).              *)
CoinsConserved ==
    MapThenSumSet(LAMBDA c : cInst[c], CCoins \intersect DOMAIN cInst) = cMinted

(* A transaction that is delivered again is refused although nothing but the *)
(* counters remembers it, and a deferred transaction is executed once        *)
(* (replayguard.go, contract_deferred.go).                                   *)
AppliedOnce ==
    /\ \A i, j \in DOMAIN cLog : cLog[i] = cLog[j] => \/ i = j
                                                      \/ \A s \in ToSet(cLog[i]) : s.instr.op = "deleteDeferred"
    /\ \A x \in CDeferreds : cExecuted[x] <= 1

(* Names stay: every entry ever made is found from Latest, and a name never  *)
(* stands for another instance later (contract_name.go, ResolveInstanceID).  *)
\* Whoever follows the entries from Latest on comes through all of these.
Followed(keys) ==
    /\ cLatest # NoKey => cLatest \in keys
    /\ \A k \in keys : cEntries[k].prev # NoKey => cEntries[k].prev \in keys
NamesListed ==
    /\ Followed(DOMAIN cEntries)
    /\ \A keys \in SUBSET DOMAIN cEntries : Followed(keys) => keys = DOMAIN cEntries
NamesFinal ==
    [][\A k \in DOMAIN cEntries : /\ k \in DOMAIN cEntries' /\ cEntries'[k].iid = cEntries[k].iid
                                  /\ cEntries[k].removed => cEntries'[k].removed]_cVars
=============================================================================
