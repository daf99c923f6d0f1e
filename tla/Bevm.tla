-------------------------------- MODULE Bevm --------------------------------
(***************************************************************************)
(* The contract that runs an Ethereum virtual machine (bevm/): its state   *)
(* database is spread over value instances of the trie, one per node of    *)
(* Ethereum's own trie, and the events of Ethereum contracts become        *)
(* instructions of the transaction that is executed (processOneTx).        *)
(*                                                                         *)
(* The machine is external: its state is the funds and the nonce of one    *)
(* account and the storage of one contract (0: not deployed).  Nodes are   *)
(* content-addressed, so a key stands for its value.  A leader and a       *)
(* follower execute the same transactions; the machine hands its changes   *)
(* to the database in any order.                                           *)
(***************************************************************************)
EXTENDS Integers, Sequences, FiniteSets, SequencesExt

CONSTANTS BvInsts,     \* instances of the contract
          BvAddrs,     \* addresses of Ethereum contracts
          BvCalls,     \* calls of Ethereum contracts [reverts, logs], logs of events [kind, addr]
          BvAllowed,   \* <<addr, kind>> that the darc of the target instance allows
          BvCredit,    \* the amount of a credit
          BvMaxTx,     \* bound: accepted transactions
          BvMaxSteps   \* bound: instructions of a transaction, generated ones included

ASSUME BevmAssumption == {BvCredit, BvMaxTx, BvMaxSteps} \subseteq Nat

VARIABLES bvTrie,      \* of leader and follower: the values of instances by their IDs
          bvCounters,  \* signer counters of the Ethereum contracts' identities
          bvChanges,   \* of leader and follower: state changes of the last transaction
          bvRefusal,   \* why the last transaction was refused, or ""
          bvNonces,    \* the nonce of the client's account, EvmAccount.Nonce
          bvSpawned,   \* instances that were spawned: their IDs are never derived again
          bvLate,      \* history: a client gave up waiting for a transaction that was accepted
          bvRead,      \* a client's view call: the root it has read
          bvEvents,    \* history: recognised events of accepted calls by identity
          bvTarget,    \* history: changes that were asked of the target instance
          bvAccepted   \* history: number of accepted transactions

bvVars == <<bvTrie, bvCounters, bvChanges, bvRefusal, bvNonces, bvSpawned, bvLate, bvRead, bvEvents, bvTarget, bvAccepted>>

Nodes2 == {"leader", "follower"}
EmptyEvm == [funds |-> 0, nonce |-> 0, store |-> 0]
NoRead == [inst |-> "", evm |-> EmptyEvm]
Target == <<"target", 0>>
BevmID(i) == <<i, 0>>
getValueInstanceID(i, key) == <<i, key>>
Identities == BvInsts \X BvAddrs

-----------------------------------------------------------------------------
(* The Ethereum machine (go-ethereum).                                     *)
NodeKey(evm, kind) == CASE kind = 1 -> 1000 + 10 * evm.nonce + evm.funds
                        [] kind = 2 -> 2000 + evm.store
                        [] kind = 3 -> 3000 + 100 * evm.nonce + 10 * evm.funds + evm.store
NodeKinds(evm) == IF evm = EmptyEvm THEN {} ELSE IF evm.store = 0 THEN {1, 3} ELSE {1, 2, 3}
EvmNodes(evm) == {NodeKey(evm, k) : k \in NodeKinds(evm)}
\* What a commit writes, in the order "order" of the kinds of nodes.
Committed(old, new, order) ==
    SelectSeq([i \in DOMAIN order |-> IF order[i] \in NodeKinds(new) THEN NodeKey(new, order[i]) ELSE 0],
              LAMBDA key : key # 0 /\ key \notin EvmNodes(old))
\* A transaction is refused for its nonce or its funds; a reverted one only pays.
ApplyTransaction(evm, call, nonce) ==
    [ok |-> evm.nonce = nonce /\ evm.funds > 0,
     evm |-> [funds |-> evm.funds - 1, nonce |-> nonce + 1,
              store |-> IF call.reverts THEN evm.store ELSE IF evm.store = 1 THEN 2 ELSE 1],
     logs |-> IF call.reverts THEN << >> ELSE call.logs]

-----------------------------------------------------------------------------
(* ServerByzDatabase.                                                      *)
NewServerByzDatabase(i, keyList) == [inst |-> i, keyMap |-> ToSet(keyList), stateChanges |-> << >>]
Changed(db, act, key, val) ==
    [db EXCEPT !.stateChanges = Append(@, [act |-> act, id |-> getValueInstanceID(db.inst, key), val |-> val])]
put(db, key) == [Changed(db, IF key \in db.keyMap THEN "Update" ELSE "Create", key, key)
                    EXCEPT !.keyMap = @ \union {key}]
deleteKey(db, key) == [Changed(db, "Remove", key, 0) EXCEPT !.keyMap = @ \ {key}]
\* Sorted, so that every node dumps the same lists.
keyMapToList(keyMap) ==
    [n \in 1 .. Cardinality(keyMap) |-> CHOOSE k \in keyMap : Cardinality({j \in keyMap : j < k}) = n - 1]
Dump(db) == [unique |-> \A a, b \in ToSet(db.stateChanges) : a.id = b.id => a.val = b.val,
             stateChanges |-> SortSeq(db.stateChanges, LAMBDA a, b : a.id[2] < b.id[2]),
             keyList |-> keyMapToList(db.keyMap)]
WriteBatch(db, writes) == FoldLeft(put, db, writes)
NewContractState(i, st, new, order) ==
    Dump(WriteBatch(NewServerByzDatabase(i, st.keyList), Committed(st.evm, new, order)))
DeleteValues(i, st) == Dump(FoldLeft(deleteKey, NewServerByzDatabase(i, st.keyList), st.keyList))

-----------------------------------------------------------------------------
(* The contract.  An outcome has the state changes and the instructions    *)
(* that are generated, or a reason of refusal.                             *)
Refused(why) == [why |-> why, scs |-> << >>, gen |-> << >>]
Outcome(scs, gen) == [why |-> "", scs |-> scs, gen |-> gen]

\* What an event asks for: nothing if it is not one of the three, and no
\* contract is whitelisted to be spawned.
unpackEvent(event) == event.kind \in {"spawn", "invoke", "delete"}
getInstrForEvent(event, id, n) ==
    IF event.kind = "spawn" THEN << >>
    ELSE <<[op |-> event.kind, id |-> id, counter |-> n, synthetic |-> TRUE]>>
\* The counter of an address is read once and then counted.
handleLog(r, i, counters, event) ==
    LET id == <<i, event.addr>>
        n == (IF id \in DOMAIN r.counters THEN r.counters[id] ELSE counters[id]) + 1
        instr == getInstrForEvent(event, id, n)
    IN  IF ~unpackEvent(event) THEN r
        ELSE [r EXCEPT !.ok = @ /\ instr # << >>, !.gen = @ \o instr,
                       !.counters = [x \in DOMAIN @ \union {id} |-> IF x = id THEN n ELSE @[x]]]
handleLogs(i, counters, logs) ==
    FoldLeft(LAMBDA r, event : handleLog(r, i, counters, event), [ok |-> TRUE, counters |-> << >>, gen |-> << >>], logs)

SpawnBevm(i) == Outcome(<<[act |-> "Create", id |-> BevmID(i), val |-> [evm |-> EmptyEvm, keyList |-> << >>]]>>, << >>)
Committing(i, st, new, order, gen) ==
    LET dump == NewContractState(i, st, new, order)
    IN  IF ~dump.unique THEN Refused("dump")
        ELSE Outcome(<<[act |-> "Update", id |-> BevmID(i), val |-> [evm |-> new, keyList |-> dump.keyList]]>>
                        \o dump.stateChanges, gen)
invokeCredit(i, st, order) == Committing(i, st, [st.evm EXCEPT !.funds = @ + BvCredit], order, << >>)
invokeTransaction(i, st, counters, in, order) ==
    LET receipt == ApplyTransaction(st.evm, in, in.nonce)
        handled == handleLogs(i, counters, receipt.logs)
    IN  IF ~receipt.ok THEN Refused("evm") ELSE IF ~handled.ok THEN Refused("event")
        ELSE Committing(i, st, receipt.evm, order, handled.gen)
\* An unknown command changes nothing, and is accepted.
invokeUnknown(i, st, order) == Committing(i, st, st.evm, order, << >>)
DeleteBevm(i, st) ==
    LET dump == DeleteValues(i, st)
    IN  IF ~dump.unique \/ dump.keyList # << >> THEN Refused("dump")
        ELSE Outcome(<<[act |-> "Remove", id |-> BevmID(i), val |-> 0]>> \o dump.stateChanges, << >>)

-----------------------------------------------------------------------------
(* The target: an instance that Ethereum contracts, and clients that pass  *)
(* the attribute "bevm" of its rule, may change.                           *)
usesForbiddenIdentities(in) == ~in.synthetic
VerifySynthetic(counters, in) ==
    CASE in.counter # counters[in.id] + 1 -> "counter"
      [] usesForbiddenIdentities(in) -> "forbidden"
      [] <<in.id[2], in.op>> \notin BvAllowed -> "darc"
      [] OTHER -> ""
ChangeTarget(trie, op) ==
    Outcome(<<[act |-> IF op = "delete" THEN "Remove" ELSE "Update", id |-> Target,
               val |-> IF op = "delete" THEN 0 ELSE trie[Target] + 1]>>, << >>)
OnTarget(trie, counters, in) ==
    LET why == VerifySynthetic(counters, in)
    IN  CASE Target \notin DOMAIN trie -> Refused("missing")
          [] why # "" -> Refused(why)
          [] OTHER -> ChangeTarget(trie, in.op)
\* The view method of the Ethereum contract, on the state as it is in the transaction.
MakeBevmAttr(trie, i) == BevmID(i) \in DOMAIN trie /\ trie[BevmID(i)].evm.store = 2

ExecuteOne(trie, counters, in, order) ==
    LET id == BevmID(in.inst)
    IN  CASE in.op \in {"invoke", "delete"} -> OnTarget(trie, counters, in)
          [] in.op = "guarded" -> IF Target \in DOMAIN trie /\ MakeBevmAttr(trie, in.inst) THEN ChangeTarget(trie, "invoke")
                                  ELSE Refused("darc")
          [] in.op = "spawnBevm" -> SpawnBevm(in.inst)
          [] id \notin DOMAIN trie -> Refused("missing")
          [] in.op = "credit" -> invokeCredit(in.inst, trie[id], order)
          [] in.op = "transaction" -> invokeTransaction(in.inst, trie[id], counters, in, order)
          [] in.op = "deleteBevm" -> DeleteBevm(in.inst, trie[id])
          [] OTHER -> invokeUnknown(in.inst, trie[id], order)

-----------------------------------------------------------------------------
(* processOneTx.                                                           *)
StoreChange(r, sc) ==
    IF r.why # "" \/ (sc.act = "Create") = (sc.id \in DOMAIN r.trie)
    THEN [r EXCEPT !.why = IF @ = "" THEN "statechange" ELSE @]
    ELSE [r EXCEPT !.trie = CASE sc.act = "Remove" -> [x \in DOMAIN @ \ {sc.id} |-> @[x]]
                              [] OTHER -> [x \in DOMAIN @ \union {sc.id} |-> IF x = sc.id THEN sc.val ELSE @[x]],
                   !.scs = Append(@, sc)]
\* The generated instructions come right after the one that generated them.
Inserted(queue, gen) == gen \o Tail(queue)
ProcessInstruction(r, order) ==
    IF r.why # "" \/ r.queue = << >> THEN r
    ELSE LET in == Head(r.queue)
             out == ExecuteOne(r.trie, r.counters, in, order)
             done == FoldLeft(StoreChange, [r EXCEPT !.why = out.why], out.scs)
         IN  [done EXCEPT !.queue = Inserted(@, out.gen),
                          !.counters = IF in.op \in {"invoke", "delete"} THEN [@ EXCEPT ![in.id] = @ + 1] ELSE @]
ProcessTx(trie, counters, tx, order) ==
    FoldLeft(LAMBDA r, n : ProcessInstruction(r, order),
             [why |-> "", trie |-> trie, counters |-> counters, queue |-> tx, scs |-> << >>],
             [n \in 1 .. BvMaxSteps |-> n])

-----------------------------------------------------------------------------
BvInit ==
    /\ bvTrie = [n \in Nodes2 |-> [id \in {Target} |-> 0]]
    /\ bvCounters = [id \in Identities |-> 0]
    /\ bvChanges = [n \in Nodes2 |-> << >>]
    /\ bvRefusal = "" /\ bvNonces = [i \in BvInsts |-> 0] /\ bvSpawned = {} /\ bvLate = FALSE /\ bvRead = NoRead
    /\ bvEvents = [id \in Identities |-> 0] /\ bvTarget = 0 /\ bvAccepted = 0

(* The instructions clients send.  "forged" names the identity of an       *)
(* Ethereum contract, whose signature anybody can compute.                 *)
Plain(op, i) == [op |-> op, inst |-> i]
Calls(i) == {[op |-> "transaction", inst |-> i] @@ call : call \in BvCalls}
Forged(i) == {[op |-> "invoke", inst |-> i, id |-> <<i, a>>, counter |-> bvCounters[<<i, a>>] + 1, synthetic |-> FALSE]
                : a \in BvAddrs}
ClientInstrs(i) == {Plain(op, i) : op \in {"credit", "deleteBevm", "unknown", "guarded"}} \union Calls(i) \union Forged(i)
\* The calls of a transaction take the nonces of the account one after the other.
WithNonces(tx) == [k \in DOMAIN tx |->
    IF tx[k].op = "transaction"
    THEN [nonce |-> bvNonces[tx[k].inst] + Len(SelectSeq(SubSeq(tx, 1, k - 1),
                        LAMBDA in : in.op = "transaction" /\ in.inst = tx[k].inst))] @@ tx[k]
    ELSE tx[k]]
Events(tx, id) == FoldLeft(LAMBDA n, in : n + (IF in.op # "transaction" \/ in.inst # id[1] THEN 0 ELSE
                                IF in.reverts THEN 0 ELSE Len(SelectSeq(in.logs, LAMBDA ev :
                                    ev.addr = id[2] /\ ev.kind \in {"invoke", "delete"}))), 0, tx)
Asked(tx) == FoldLeft(LAMBDA n, in : n + CASE in.op = "guarded" -> 1
                          [] in.op = "transaction" -> IF in.reverts THEN 0
                                                      ELSE Len(SelectSeq(in.logs, LAMBDA ev : ev.kind = "invoke"))
                          [] OTHER -> 0, 0, tx)

(* A transaction is executed by the leader and the follower.  If it is     *)
(* accepted the client counts the nonces it used, unless it gave up.       *)
Send(tx, order, late) ==
    LET r == [n \in Nodes2 |-> ProcessTx(bvTrie[n], bvCounters, tx, IF n = "leader" THEN <<1, 2, 3>> ELSE order)]
        used(i) == Len(SelectSeq(tx, LAMBDA in : in.op = "transaction" /\ in.inst = i))
    IN  /\ bvAccepted < BvMaxTx
        /\ bvRefusal' = r["leader"].why
        /\ IF r["leader"].why # ""
           THEN ~late /\ UNCHANGED <<bvTrie, bvCounters, bvChanges, bvNonces, bvLate, bvEvents, bvTarget, bvAccepted>>
           ELSE /\ bvTrie' = [n \in Nodes2 |-> r[n].trie]
                /\ bvChanges' = [n \in Nodes2 |-> r[n].scs]
                /\ bvCounters' = r["leader"].counters
                /\ bvLate' = (bvLate \/ late)
                /\ bvNonces' = [i \in BvInsts |-> bvNonces[i] + IF late THEN 0 ELSE used(i)]
                /\ bvEvents' = [id \in Identities |-> bvEvents[id] + Events(tx, id)]
                /\ bvTarget' = bvTarget + Asked(tx)
                /\ bvAccepted' = bvAccepted + 1
        /\ UNCHANGED bvRead

Orders == SetToSeqs({1, 2, 3})
SpawnTx(i) == i \notin bvSpawned /\ bvSpawned' = bvSpawned \union {i} /\ Send(<<Plain("spawnBevm", i)>>, <<1, 2, 3>>, FALSE)
OneInstr(i) == /\ \E in \in ClientInstrs(i) : \/ \E order \in Orders : Send(WithNonces(<<in>>), order, FALSE)
                                              \/ Send(WithNonces(<<in>>), <<3, 2, 1>>, TRUE)
               /\ UNCHANGED bvSpawned
TwoInstrs(i) == \E a, b \in Calls(i) \union {Plain("guarded", i)} :
                    Send(WithNonces(<<a, b>>), <<3, 2, 1>>, FALSE) /\ UNCHANGED bvSpawned

(* A client's view call (Client.Call) reads the instance with its root,    *)
(* and only then, one proof of the latest block after the other, the       *)
(* nodes.                                                                  *)
getEvmDb(i) == /\ bvRead = NoRead /\ BevmID(i) \in DOMAIN bvTrie["leader"]
               /\ bvRead' = [inst |-> i, evm |-> bvTrie["leader"][BevmID(i)].evm]
               /\ UNCHANGED <<bvTrie, bvCounters, bvChanges, bvRefusal, bvNonces, bvSpawned, bvLate, bvEvents, bvTarget, bvAccepted>>
CallEnds == /\ bvRead # NoRead /\ bvRead' = NoRead
            /\ UNCHANGED <<bvTrie, bvCounters, bvChanges, bvRefusal, bvNonces, bvSpawned, bvLate, bvEvents, bvTarget, bvAccepted>>

BvNext == (\E i \in BvInsts : SpawnTx(i) \/ OneInstr(i) \/ TwoInstrs(i) \/ getEvmDb(i)) \/ CallEnds
BvSpec == BvInit /\ [][BvNext]_bvVars

-----------------------------------------------------------------------------
\* Type invariant.
BvTypeOK == /\ DOMAIN bvTrie = Nodes2 /\ DOMAIN bvChanges = Nodes2
            /\ bvCounters \in [Identities -> Nat] /\ bvEvents \in [Identities -> Nat]
            /\ bvNonces \in [BvInsts -> Nat] /\ bvLate \in BOOLEAN /\ bvAccepted \in 0 .. BvMaxTx

ValueKeys(i) == {id[2] : id \in {x \in DOMAIN bvTrie["leader"] : x[1] = i}} \ {0}
(* The list of keys of an instance is exactly its value instances, the     *)
(* nodes of its root and of the root a view call has read are among them,  *)
(* and nothing is left of a deleted instance.                              *)
StateComplete ==
    \A i \in BvInsts :
        IF BevmID(i) \notin DOMAIN bvTrie["leader"] THEN ValueKeys(i) = {}
        ELSE LET st == bvTrie["leader"][BevmID(i)]
             IN  /\ ValueKeys(i) = ToSet(st.keyList) /\ EvmNodes(st.evm) \subseteq ValueKeys(i)
                 /\ bvRead.inst = i => EvmNodes(bvRead.evm) \subseteq ValueKeys(i)
                 /\ bvNonces[i] <= st.evm.nonce /\ (~bvLate => bvNonces[i] = st.evm.nonce)
(* Every recognised event of an accepted call was executed once and under  *)
(* the next counter of its contract, and nothing but events and clients    *)
(* that pass the attribute changes the target; no transaction is refused   *)
(* for a counter or a state change that the contract itself produced.      *)
EventsExecuted ==
    /\ bvCounters = bvEvents
    /\ Target \in DOMAIN bvTrie["leader"] => bvTrie["leader"][Target] = bvTarget
    /\ bvRefusal \notin {"counter", "statechange", "dump"}
(* Leader and follower have produced the same state changes.               *)
BevmAgrees == bvTrie["leader"] = bvTrie["follower"] /\ bvChanges["leader"] = bvChanges["follower"]
BevmRight == StateComplete /\ EventsExecuted /\ BevmAgrees
=============================================================================
