---------------------------- MODULE LedgerProofs ----------------------------
(***************************************************************************)
(* Proofs about what transactions do to the state, for every set of        *)
(* instances, names and signers, and any number of transactions and        *)
(* blocks.                                                                 *)
(***************************************************************************)
EXTENDS MCLedger, NatLemmas, SequenceTheorems

-----------------------------------------------------------------------------
(* The contracts.  Every instruction takes a state of this kind to one of  *)
(* this kind, so that a transaction does, and the trie holds one.          *)

Instructions == ValueInstrs \union CoinInstrs \union DeferredInstrs \union NameInstrs
Updates == {v \in ValueInstrs : v.op # "spawnValue"}
Deferred == [tx : {<<v>> : v \in Updates}, proofs : [1 .. 1 -> SUBSET CSigners], expire : Nat, max : 0 .. 1]
Holding(i) == IF i \in CCoins THEN 0 .. CMaxCoin ELSE IF i \in CValues THEN 0 .. 1 ELSE Deferred
Held == UNION {Holding(i) : i \in CInstances}
Insts == {f \in UNION {[D -> Held] : D \in SUBSET CInstances} : \A i \in DOMAIN f : f[i] \in Holding(i)}
Entry == [iid : CValues, prev : NameKeys \union {NoKey}, removed : BOOLEAN]
Entries == UNION {[D -> Entry] : D \in SUBSET NameKeys}
States == [inst : Insts, entries : Entries, latest : NameKeys \union {NoKey}, counter : [CSigners -> Nat],
           minted : Int, executed : [CDeferreds -> Nat], coins : Nat, ok : BOOLEAN]

\* The coins of all instances and those on the way are the minted ones.
FundsOK(inst, coins, minted) == SumOver(inst, CCoins \intersect DOMAIN inst) + coins = minted
\* A deferred transaction can be executed as long as it was not.
DeferredOK(inst, executed) ==
    \A x \in CDeferreds : executed[x] = IF x \in DOMAIN inst THEN 1 - inst[x].max ELSE 0
\* These keys are all that one comes through from Latest on.
Closed(entries, latest, keys) ==
    /\ latest # NoKey => latest \in keys
    /\ \A k \in keys : entries[k].prev # NoKey => entries[k].prev \in keys
NamesOK(entries, latest) ==
    /\ Closed(entries, latest, DOMAIN entries)
    /\ \A keys \in SUBSET DOMAIN entries : Closed(entries, latest, keys) => keys = DOMAIN entries
GoodStates == {st \in States : /\ FundsOK(st.inst, st.coins, st.minted)
                               /\ DeferredOK(st.inst, st.executed)
                               /\ NamesOK(st.entries, st.latest)}

(* What the sets of instructions hold.                                     *)
LEMMA CoinShapes ==
    ASSUME NEW in \in CoinInstrs
    PROVE  /\ in.inst \in CCoins /\ in.ids \in SUBSET CSigners
           /\ in.op \in {"spawnCoin", "store", "deleteCoin", "fetch", "mint", "transfer"}
           /\ in.op \in {"fetch", "mint"} => in.arg \in Nat
           /\ in.op = "transfer" => in.arg.to \in CCoins /\ in.arg.coins = 1
BY ContractsAssumption DEF CoinInstrs, Instr, CInstances
LEMMA ValueShapes ==
    ASSUME NEW in \in ValueInstrs
    PROVE  /\ in.inst \in CValues /\ in.ids \in SUBSET CSigners
           /\ in.op \in {"spawnValue", "update", "deleteValue"}
BY ContractsAssumption DEF ValueInstrs, Instr, CInstances
LEMMA DeferredShapes ==
    ASSUME NEW in \in DeferredInstrs
    PROVE  /\ in.inst \in CDeferreds /\ in.ids \in SUBSET CSigners
           /\ in.op \in {"spawnDeferred", "addProof", "execProposedTx", "deleteDeferred"}
           /\ in.op = "spawnDeferred" => in.arg \in {<<v>> : v \in Updates}
           /\ in.op = "addProof" => in.arg.index = 1 /\ in.arg.identity \in CSigners
BY ContractsAssumption DEF DeferredInstrs, Instr, CInstances, Updates
LEMMA NameShapes ==
    ASSUME NEW in \in NameInstrs
    PROVE  /\ in.inst \in CValues /\ in.ids \in SUBSET CSigners
           /\ in.op \in {"addName", "removeName"} /\ in.arg \in CNames
BY ContractsAssumption DEF NameInstrs, Instr, CInstances

(* The functions from instances to what they hold.                         *)
LEMMA InstsAre ==
    ASSUME NEW f \in Insts
    PROVE  /\ f = [i \in DOMAIN f |-> f[i]] /\ DOMAIN f \in SUBSET CInstances
           /\ \A i \in DOMAIN f : f[i] \in Holding(i)
BY DEF Insts
LEMMA IsInsts ==
    ASSUME NEW f, f = [i \in DOMAIN f |-> f[i]], DOMAIN f \in SUBSET CInstances,
           \A i \in DOMAIN f : f[i] \in Holding(i)
    PROVE  f \in Insts
<1>1. f \in [DOMAIN f -> Held]
    <2>1. \A i \in DOMAIN f : f[i] \in Held
        BY Zenon DEF Held
    <2> HIDE DEF Held
    <2> QED  BY <2>1
<1>2. f \in UNION {[D -> Held] : D \in SUBSET CInstances}
    BY <1>1, Zenon
<1> QED  BY <1>2, Zenon DEF Insts
LEMMA EntriesAre ==
    ASSUME NEW f \in Entries
    PROVE  f \in [DOMAIN f -> Entry] /\ DOMAIN f \in SUBSET NameKeys
BY DEF Entries
LEMMA IsEntries ==
    ASSUME NEW D \in SUBSET NameKeys, NEW f \in [D -> Entry]
    PROVE  f \in Entries
BY Zenon DEF Entries

(* Fields of a state.                                                      *)
LEMMA GoodAre ==
    ASSUME NEW st \in GoodStates
    PROVE  /\ st \in States
           /\ st.inst \in Insts /\ st.entries \in Entries /\ st.latest \in NameKeys \union {NoKey}
           /\ st.counter \in [CSigners -> Nat] /\ st.minted \in Int /\ st.executed \in [CDeferreds -> Nat]
           /\ st.coins \in Nat /\ st.ok \in BOOLEAN
           /\ FundsOK(st.inst, st.coins, st.minted) /\ DeferredOK(st.inst, st.executed)
           /\ NamesOK(st.entries, st.latest)
BY DEF GoodStates, States
LEMMA IsGood ==
    ASSUME NEW st \in States,
           FundsOK(st.inst, st.coins, st.minted), DeferredOK(st.inst, st.executed), NamesOK(st.entries, st.latest)
    PROVE  st \in GoodStates
BY DEF GoodStates

(* A failed instruction changes nothing.                                   *)
LEMMA FailKeeps ==
    ASSUME NEW st \in GoodStates
    PROVE  /\ Fail(st) \in GoodStates /\ Fail(st).ok = FALSE /\ Fail(st).counter = st.counter
           /\ Fail(st).executed = st.executed /\ Fail(st).inst = st.inst /\ Fail(st).entries = st.entries
<1> DEFINE new == Fail(st)
<1>1. /\ new \in States /\ new.inst = st.inst /\ new.coins = st.coins /\ new.minted = st.minted
      /\ new.executed = st.executed /\ new.entries = st.entries /\ new.latest = st.latest
      /\ new.ok = FALSE /\ new.counter = st.counter
    BY GoodAre DEF Fail, States
<1> HIDE DEF new
<1>2. new \in GoodStates
    <2>1. FundsOK(new.inst, new.coins, new.minted) /\ DeferredOK(new.inst, new.executed)
          /\ NamesOK(new.entries, new.latest)
        BY <1>1, GoodAre
    <2> QED  BY <1>1, <2>1, IsGood, Zenon
<1> QED  BY <1>1, <1>2 DEF new

(* Funds: what is changed, added or taken away among the coins.            *)
CoinsOf(f) == CCoins \intersect DOMAIN f
LEMMA CoinsAre ==
    ASSUME NEW f \in Insts
    PROVE  /\ IsFiniteSet(CoinsOf(f)) /\ \A c \in CoinsOf(f) : f[c] \in 0 .. CMaxCoin /\ f[c] \in Int
           /\ SumOver(f, CoinsOf(f)) \in Int
<1>1. IsFiniteSet(CoinsOf(f))
    BY ContractsAssumption, FS_Subset DEF CoinsOf
<1>2. \A c \in CoinsOf(f) : f[c] \in 0 .. CMaxCoin
    BY InstsAre DEF CoinsOf, Holding
<1>3. \A c \in CoinsOf(f) : f[c] \in Int
    BY <1>2, ContractsAssumption
<1> QED  BY <1>1, <1>2, <1>3, Sums
LEMMA FundsChange ==
    ASSUME NEW f \in Insts, NEW c \in CoinsOf(f), NEW g \in Insts, DOMAIN g = DOMAIN f,
           \A d \in CoinsOf(f) \ {c} : f[d] = g[d]
    PROVE  SumOver(g, CoinsOf(g)) = SumOver(f, CoinsOf(f)) - f[c] + g[c]
<1>1. CoinsOf(g) = CoinsOf(f)
    BY DEF CoinsOf
<1>2. \A d \in CoinsOf(f) : f[d] \in Int
    BY CoinsAre, Zenon
<1>3. \A d \in CoinsOf(f) : g[d] \in Int
    BY <1>1, CoinsAre, Zenon
<1>4. IsFiniteSet(CoinsOf(f))
    BY CoinsAre, Zenon
<1>5. SumOver(g, CoinsOf(f)) = SumOver(f, CoinsOf(f)) - f[c] + g[c]
    BY <1>2, <1>3, <1>4, SumChanges
<1> QED  BY <1>1, <1>5
LEMMA FundsSame ==
    ASSUME NEW f \in Insts, NEW g \in Insts, CoinsOf(g) = CoinsOf(f), \A d \in CoinsOf(f) : f[d] = g[d]
    PROVE  SumOver(g, CoinsOf(g)) = SumOver(f, CoinsOf(f))
<1>1. IsFiniteSet(CoinsOf(f)) /\ \A d \in CoinsOf(f) : f[d] \in Int
    BY CoinsAre, Zenon
<1>2. SumOver(f, CoinsOf(f)) = SumOver(g, CoinsOf(f))
    BY <1>1, Sums
<1> QED  BY <1>2, Zenon
LEMMA FundsAdd ==
    ASSUME NEW f \in Insts, NEW g \in Insts, NEW c \in CoinsOf(g), g[c] = 0,
           CoinsOf(f) = CoinsOf(g) \ {c}, \A d \in CoinsOf(f) : f[d] = g[d]
    PROVE  SumOver(g, CoinsOf(g)) = SumOver(f, CoinsOf(f))
<1> DEFINE E == CoinsOf(f)
<1>1. IsFiniteSet(E) /\ \A d \in E : f[d] \in Int
    BY CoinsAre, Zenon
<1>2. SumOver(f, E) = SumOver(g, E) /\ SumOver(f, E) \in Int
    <2>1. \A d \in E : f[d] = g[d]
        OBVIOUS
    <2> HIDE DEF E
    <2> QED  BY <1>1, <2>1, Sums, Zenon
<1>3. IsFiniteSet(CoinsOf(g)) /\ \A d \in CoinsOf(g) : g[d] \in Int
    BY CoinsAre, Zenon
<1>4. SumOver(g, CoinsOf(g)) = g[c] + SumOver(g, CoinsOf(g) \ {c})
    BY <1>3, Sums, Zenon
<1>5. SumOver(g, CoinsOf(g)) = 0 + SumOver(g, E)
    BY <1>4, Zenon
<1> HIDE DEF E
<1>6. SumOver(g, CoinsOf(g)) = SumOver(f, E)
    BY <1>2, <1>5
<1> QED  BY <1>6 DEF E

(* A state whose instances changed.                                        *)
LEMMA InstChanges ==
    ASSUME NEW st \in GoodStates, NEW new \in States,
           SumOver(new.inst, CoinsOf(new.inst)) + new.coins - new.minted
               = SumOver(st.inst, CoinsOf(st.inst)) + st.coins - st.minted,
           DOMAIN new.inst \intersect CDeferreds = DOMAIN st.inst \intersect CDeferreds,
           \A x \in DOMAIN new.inst \intersect CDeferreds : new.inst[x].max = st.inst[x].max,
           new.executed = st.executed, new.entries = st.entries, new.latest = st.latest
    PROVE  new \in GoodStates
<1> DEFINE f == new.inst  c == new.coins  m == new.minted
<1>0. f \in Insts /\ c \in Nat /\ m \in Int
    BY DEF States
<1>1. FundsOK(f, c, m)
    <2>1. SumOver(st.inst, CoinsOf(st.inst)) + st.coins = st.minted
        BY GoodAre DEF FundsOK, CoinsOf
    <2>2. SumOver(f, CoinsOf(f)) \in Int /\ SumOver(st.inst, CoinsOf(st.inst)) \in Int
          /\ st.coins \in Int /\ st.minted \in Int
        <3> HIDE DEF f
        <3> QED  BY <1>0, CoinsAre, GoodAre
    <2>3. SumOver(f, CoinsOf(f)) + c = m
        <3> DEFINE a == SumOver(f, CoinsOf(f))
                   b == SumOver(st.inst, CoinsOf(st.inst))
                   k == st.coins  l == st.minted
        <3>1. a + c - m = b + k - l /\ b + k = l
            BY <2>1
        <3>2. {a, b, c, k, l, m} \subseteq Int
            BY <1>0, <2>2
        <3> HIDE DEF a, b, c, k, l, m
        <3>3. a + c = m
            BY <3>1, <3>2
        <3> QED  BY <3>3 DEF a
    <2> QED  BY <2>3 DEF FundsOK, CoinsOf
<1>2. DeferredOK(f, new.executed)
    <2>1. DeferredOK(st.inst, st.executed)
        BY GoodAre
    <2>2. ASSUME NEW x \in CDeferreds PROVE st.executed[x] = IF x \in DOMAIN f THEN 1 - f[x].max ELSE 0
        BY <2>1 DEF DeferredOK
    <2> QED  BY <2>2 DEF DeferredOK
<1>3. NamesOK(new.entries, new.latest)
    BY GoodAre
<1> QED  BY <1>1, <1>2, <1>3, IsGood, Zenon

(* Instances put, set and removed.                                         *)
LEMMA InstsPut ==
    ASSUME NEW f \in Insts, NEW i \in CInstances, NEW v \in Holding(i)
    PROVE  /\ Put(f, i, v) \in Insts /\ DOMAIN Put(f, i, v) = DOMAIN f \union {i} /\ Put(f, i, v)[i] = v
           /\ \A j \in DOMAIN f \ {i} : Put(f, i, v)[j] = f[j]
<1> DEFINE g == Put(f, i, v)
<1>1. /\ g = [j \in DOMAIN g |-> g[j]] /\ DOMAIN g = DOMAIN f \union {i} /\ g[i] = v
      /\ \A j \in DOMAIN f \ {i} : g[j] = f[j]
    BY DEF Put
<1>2. DOMAIN g \in SUBSET CInstances /\ \A j \in DOMAIN g : g[j] \in Holding(j)
    <2> HIDE DEF g
    <2> QED  BY <1>1, InstsAre
<1>3. g \in Insts
    <2> HIDE DEF g
    <2> QED  BY <1>1, <1>2, IsInsts, Zenon
<1> QED  BY <1>1, <1>3
LEMMA InstsSet ==
    ASSUME NEW f \in Insts, NEW i \in DOMAIN f, NEW v \in Holding(i)
    PROVE  /\ [f EXCEPT ![i] = v] \in Insts /\ DOMAIN [f EXCEPT ![i] = v] = DOMAIN f
           /\ [f EXCEPT ![i] = v][i] = v
           /\ \A j \in DOMAIN f \ {i} : [f EXCEPT ![i] = v][j] = f[j]
<1> DEFINE g == [f EXCEPT ![i] = v]
<1>1. /\ g = [j \in DOMAIN g |-> g[j]] /\ DOMAIN g = DOMAIN f /\ g[i] = v
      /\ \A j \in DOMAIN f \ {i} : g[j] = f[j]
    OBVIOUS
<1>2. DOMAIN g \in SUBSET CInstances /\ \A j \in DOMAIN g : g[j] \in Holding(j)
    <2> HIDE DEF g
    <2> QED  BY <1>1, InstsAre
<1>3. g \in Insts
    <2> HIDE DEF g
    <2> QED  BY <1>1, <1>2, IsInsts, Zenon
<1> QED  BY <1>1, <1>3
LEMMA InstsRemove ==
    ASSUME NEW f \in Insts, NEW i
    PROVE  /\ Restrict(f, DOMAIN f \ {i}) \in Insts /\ DOMAIN Restrict(f, DOMAIN f \ {i}) = DOMAIN f \ {i}
           /\ \A j \in DOMAIN f \ {i} : Restrict(f, DOMAIN f \ {i})[j] = f[j]
<1> DEFINE g == Restrict(f, DOMAIN f \ {i})
<1>1. /\ g = [j \in DOMAIN g |-> g[j]] /\ DOMAIN g = DOMAIN f \ {i}
      /\ \A j \in DOMAIN f \ {i} : g[j] = f[j]
    BY DEF Restrict
<1>2. DOMAIN g \in SUBSET CInstances /\ \A j \in DOMAIN g : g[j] \in Holding(j)
    <2> HIDE DEF g
    <2> QED  BY <1>1, InstsAre
<1>3. g \in Insts
    <2> HIDE DEF g
    <2> QED  BY <1>1, <1>2, IsInsts, Zenon
<1> QED  BY <1>1, <1>3
(* What kinds of instances hold.                                           *)
LEMMA Kinds ==
    /\ \A c \in CCoins : c \in CInstances /\ c \notin CValues /\ c \notin CDeferreds /\ Holding(c) = 0 .. CMaxCoin
    /\ \A v \in CValues : v \in CInstances /\ v \notin CCoins /\ v \notin CDeferreds /\ Holding(v) = 0 .. 1
    /\ \A x \in CDeferreds : x \in CInstances /\ x \notin CCoins /\ x \notin CValues /\ Holding(x) = Deferred
BY ContractsAssumption DEF CInstances, Holding

(* The value contract.                                                     *)
Elsewhere(f, g, i) == DOMAIN g \ {i} = DOMAIN f \ {i} /\ \A j \in DOMAIN g \ {i} : g[j] = f[j]
SameButInst(st, new) ==
    /\ new \in States /\ new.coins = st.coins /\ new.minted = st.minted /\ new.executed = st.executed
    /\ new.entries = st.entries /\ new.latest = st.latest /\ new.counter = st.counter
LEMMA ValueChanges ==
    ASSUME NEW st \in GoodStates, NEW new, SameButInst(st, new), NEW i \in CValues,
           Elsewhere(st.inst, new.inst, i)
    PROVE  new \in GoodStates
<1> DEFINE f == st.inst
           g == new.inst
<1>1. f \in Insts /\ g \in Insts /\ new \in States
    BY GoodAre DEF SameButInst, States
<1>2. CoinsOf(g) = CoinsOf(f) /\ \A c \in CoinsOf(f) : f[c] = g[c]
    BY Kinds DEF CoinsOf, Elsewhere
<1>3. SumOver(g, CoinsOf(g)) = SumOver(f, CoinsOf(f))
    <2> HIDE DEF f, g
    <2> QED  BY <1>1, <1>2, FundsSame, Zenon
<1>4. /\ DOMAIN g \intersect CDeferreds = DOMAIN f \intersect CDeferreds
      /\ \A x \in DOMAIN g \intersect CDeferreds : g[x].max = f[x].max
    BY Kinds DEF Elsewhere
<1>5. SumOver(g, CoinsOf(g)) + new.coins - new.minted = SumOver(f, CoinsOf(f)) + st.coins - st.minted
    BY <1>3 DEF SameButInst
<1> QED  BY <1>1, <1>4, <1>5, InstChanges DEF SameButInst
LEMMA InstOnly ==
    ASSUME NEW st \in GoodStates, NEW f \in Insts
    PROVE  SameButInst(st, [st EXCEPT !.inst = f]) /\ [st EXCEPT !.inst = f].inst = f
BY GoodAre DEF SameButInst, States
LEMMA ValuesKeep ==
    ASSUME NEW st \in GoodStates, NEW in \in ValueInstrs
    PROVE  /\ ValueInstr(st, in) \in GoodStates /\ SameButInst(st, ValueInstr(st, in))
           /\ Elsewhere(st.inst, ValueInstr(st, in).inst, in.inst)
<1> DEFINE i == in.inst
           new == ValueInstr(st, in)
<1>1. i \in CValues /\ i \in CInstances /\ Holding(i) = 0 .. 1 /\ in.op \in {"spawnValue", "update", "deleteValue"}
    BY ValueShapes, Kinds
<1>2. st.inst \in Insts
    BY GoodAre
<1>3. SameButInst(st, Fail(st)) /\ Elsewhere(st.inst, Fail(st).inst, i)
    <2>1. Fail(st) \in States /\ Fail(st).inst = st.inst /\ Fail(st).latest = st.latest
          /\ Fail(st).coins = st.coins /\ Fail(st).minted = st.minted
        BY GoodAre DEF Fail, States
    <2> QED  BY <2>1, FailKeeps DEF SameButInst, Elsewhere
<1>4. CASE in.op = "spawnValue"
    <2>1. CASE Exists(st, i)
        <3>1. new = Fail(st)
            BY <1>4, <2>1 DEF ValueInstr, CreateInst, Fail
        <3> QED  BY <1>3, <3>1, FailKeeps
    <2>2. CASE ~Exists(st, i)
        <3> DEFINE f == Put(st.inst, i, 0)
        <3>1. new = [st EXCEPT !.inst = f]
            BY <1>4, <2>2 DEF ValueInstr, CreateInst
        <3>2. f \in Insts /\ Elsewhere(st.inst, f, i)
            <4>1. 0 \in Holding(i)
                BY <1>1
            <4>2. /\ f \in Insts /\ DOMAIN f = DOMAIN st.inst \union {i}
                  /\ \A j \in DOMAIN st.inst \ {i} : f[j] = st.inst[j]
                BY <1>1, <1>2, <4>1, InstsPut
            <4> HIDE DEF f
            <4> QED  BY <4>2 DEF Elsewhere
        <3> HIDE DEF f, new
        <3>3. SameButInst(st, new) /\ new.inst = f
            BY <3>1, <3>2, InstOnly
        <3> QED  BY <1>1, <3>2, <3>3, ValueChanges DEF new
    <2> QED  BY <2>1, <2>2
<1>5. CASE in.op # "spawnValue" /\ ~Exists(st, i)
    <2>1. new = Fail(st)
        BY <1>5 DEF ValueInstr
    <2> QED  BY <1>3, <2>1, FailKeeps
<1>6. CASE in.op = "update" /\ Exists(st, i)
    <2> DEFINE f == [st.inst EXCEPT ![i] = 1 - st.inst[i]]
    <2>1. new = [st EXCEPT !.inst = f]
        BY <1>6 DEF ValueInstr
    <2>2. f \in Insts /\ Elsewhere(st.inst, f, i)
        <3>1. 1 - st.inst[i] \in Holding(i) /\ i \in DOMAIN st.inst
            <4>1. i \in DOMAIN st.inst
                BY <1>6 DEF Exists
            <4>2. st.inst[i] \in 0 .. 1
                BY <1>1, <1>2, <4>1, InstsAre
            <4> QED  BY <1>1, <4>1, <4>2
        <3> QED  BY <1>2, <3>1, InstsSet DEF Elsewhere
    <2> HIDE DEF f, new
    <2>3. SameButInst(st, new) /\ new.inst = f
        BY <2>1, <2>2, InstOnly
    <2> QED  BY <1>1, <2>2, <2>3, ValueChanges DEF new
<1>7. CASE in.op = "deleteValue" /\ Exists(st, i)
    <2> DEFINE f == Restrict(st.inst, DOMAIN st.inst \ {i})
    <2>1. new = [st EXCEPT !.inst = f]
        BY <1>7 DEF ValueInstr, RemoveInst
    <2>2. f \in Insts /\ Elsewhere(st.inst, f, i)
        BY <1>2, InstsRemove DEF Elsewhere
    <2> HIDE DEF f, new
    <2>3. SameButInst(st, new) /\ new.inst = f
        BY <2>1, <2>2, InstOnly
    <2> QED  BY <1>1, <2>2, <2>3, ValueChanges DEF new
<1> QED  BY <1>1, <1>4, <1>5, <1>6, <1>7

(* The coin contract.                                                      *)
\* A state in which coins moved and nothing else.
CoinsMoved(st, new) ==
    /\ new \in States /\ new.executed = st.executed
    /\ new.entries = st.entries /\ new.latest = st.latest /\ new.counter = st.counter
LEMMA CoinChanges ==
    ASSUME NEW st \in GoodStates, NEW new, CoinsMoved(st, new),
           DOMAIN new.inst \ CCoins = DOMAIN st.inst \ CCoins,
           \A x \in DOMAIN new.inst \ CCoins : new.inst[x] = st.inst[x],
           SumOver(new.inst, CoinsOf(new.inst)) + new.coins - new.minted
               = SumOver(st.inst, CoinsOf(st.inst)) + st.coins - st.minted
    PROVE  new \in GoodStates
<1>1. /\ DOMAIN new.inst \intersect CDeferreds = DOMAIN st.inst \intersect CDeferreds
      /\ \A x \in DOMAIN new.inst \intersect CDeferreds : new.inst[x].max = st.inst[x].max
    BY Kinds
<1> QED  BY <1>1, InstChanges DEF CoinsMoved
\* The balance of c becomes w: the coins are those of the others and w.
BalanceIs(old, c, w, f) ==
    /\ f \in Insts /\ DOMAIN f = DOMAIN old /\ f[c] = w /\ old[c] \in 0 .. CMaxCoin
    /\ \A x \in DOMAIN old \ {c} : f[x] = old[x]
    /\ SumOver(f, CoinsOf(f)) = SumOver(old, CoinsOf(old)) - old[c] + w
    /\ SumOver(old, CoinsOf(old)) \in Int
LEMMA BalanceSet ==
    ASSUME NEW old \in Insts, NEW c \in CCoins, c \in DOMAIN old, NEW w \in 0 .. CMaxCoin, NEW f, f = [old EXCEPT ![c] = w]
    PROVE  BalanceIs(old, c, w, f)
<1>1. c \in CInstances /\ Holding(c) = 0 .. CMaxCoin
    BY Kinds
<1>2. /\ f \in Insts /\ DOMAIN f = DOMAIN old /\ f[c] = w
      /\ \A j \in DOMAIN old \ {c} : f[j] = old[j]
    BY <1>1, InstsSet
<1>3. old[c] \in 0 .. CMaxCoin
    BY <1>1, InstsAre
<1>4. c \in CoinsOf(old) /\ \A d \in CoinsOf(old) \ {c} : old[d] = f[d]
    BY <1>1, <1>2 DEF CoinsOf
<1>5. SumOver(f, CoinsOf(f)) = SumOver(old, CoinsOf(old)) - old[c] + f[c]
    BY <1>2, <1>4, FundsChange
<1> QED  BY <1>2, <1>3, <1>5, CoinsAre DEF BalanceIs
LEMMA SpawnsCoin ==
    ASSUME NEW st \in GoodStates, NEW c \in CCoins
    PROVE  CreateInst(st, c, 0) \in GoodStates /\ CoinsMoved(st, CreateInst(st, c, 0))
<1> DEFINE new == CreateInst(st, c, 0)
           old == st.inst
           f == Put(old, c, 0)
<1>1. c \in CInstances /\ 0 \in Holding(c) /\ old \in Insts
    BY Kinds, GoodAre, ContractsAssumption
<1>2. CASE Exists(st, c)
    <2>1. new = Fail(st)
        BY <1>2 DEF CreateInst, Fail
    <2>2. Fail(st) \in States /\ Fail(st).latest = st.latest
        BY GoodAre DEF Fail, States
    <2> QED  BY <2>1, <2>2, FailKeeps DEF CoinsMoved
<1>3. CASE ~Exists(st, c)
    <2>1. new = [st EXCEPT !.inst = f]
        BY <1>3 DEF CreateInst
    <2>2. /\ f \in Insts /\ DOMAIN f = DOMAIN old \union {c} /\ f[c] = 0
          /\ \A j \in DOMAIN old \ {c} : f[j] = old[j]
        <3> HIDE DEF old
        <3> QED  BY <1>1, InstsPut, Zenon
    <2> HIDE DEF f, new
    <2>3. SameButInst(st, new) /\ new.inst = f
        BY <2>1, <2>2, InstOnly
    <2>4. /\ c \in CoinsOf(f) /\ CoinsOf(old) = CoinsOf(f) \ {c} /\ c \notin DOMAIN old
          /\ \A d \in CoinsOf(old) : old[d] = f[d]
        BY <1>3, <2>2 DEF CoinsOf, Exists
    <2>5. SumOver(f, CoinsOf(f)) = SumOver(old, CoinsOf(old))
        <3> HIDE DEF old
        <3> QED  BY <1>1, <2>2, <2>4, FundsAdd
    <2>6. CoinsMoved(st, new)
        BY <2>3 DEF CoinsMoved, SameButInst
    <2>7. /\ DOMAIN new.inst \ CCoins = DOMAIN st.inst \ CCoins
          /\ \A x \in DOMAIN new.inst \ CCoins : new.inst[x] = st.inst[x]
        BY <2>2, <2>3
    <2>8. SumOver(new.inst, CoinsOf(new.inst)) + new.coins - new.minted
              = SumOver(st.inst, CoinsOf(st.inst)) + st.coins - st.minted
        BY <2>3, <2>5 DEF SameButInst
    <2>9. new \in GoodStates
        BY <2>6, <2>7, <2>8, CoinChanges
    <2> QED  BY <2>6, <2>9 DEF new
<1> QED  BY <1>2, <1>3
LEMMA DeletesCoin ==
    ASSUME NEW st \in GoodStates, NEW c \in CCoins, Exists(st, c), st.inst[c] = 0
    PROVE  RemoveInst(st, c) \in GoodStates /\ CoinsMoved(st, RemoveInst(st, c))
<1> DEFINE new == RemoveInst(st, c)
           old == st.inst
           f == Restrict(old, DOMAIN old \ {c})
<1>1. old \in Insts /\ c \in DOMAIN old
    BY GoodAre DEF Exists
<1>2. new = [st EXCEPT !.inst = f]
    BY DEF RemoveInst
<1>3. f \in Insts /\ DOMAIN f = DOMAIN old \ {c} /\ \A j \in DOMAIN old \ {c} : f[j] = old[j]
    <2> HIDE DEF old
    <2> QED  BY <1>1, InstsRemove, Zenon
<1> HIDE DEF f, new
<1>4. SameButInst(st, new) /\ new.inst = f
    BY <1>2, <1>3, InstOnly
<1>5. /\ c \in CoinsOf(old) /\ CoinsOf(f) = CoinsOf(old) \ {c} /\ old[c] = 0
      /\ \A d \in CoinsOf(f) : f[d] = old[d]
    BY <1>1, <1>3 DEF CoinsOf
<1>6. SumOver(old, CoinsOf(old)) = SumOver(f, CoinsOf(f))
    <2> HIDE DEF old
    <2> QED  BY <1>1, <1>3, <1>5, FundsAdd
<1>7. CoinsMoved(st, new)
    BY <1>4 DEF CoinsMoved, SameButInst
<1>8. /\ DOMAIN new.inst \ CCoins = DOMAIN st.inst \ CCoins
      /\ \A x \in DOMAIN new.inst \ CCoins : new.inst[x] = st.inst[x]
    BY <1>3, <1>4
<1>9. SumOver(new.inst, CoinsOf(new.inst)) + new.coins - new.minted
          = SumOver(st.inst, CoinsOf(st.inst)) + st.coins - st.minted
    BY <1>4, <1>6 DEF SameButInst
<1>10. new \in GoodStates
    BY <1>7, <1>8, <1>9, CoinChanges
<1> QED  BY <1>7, <1>10 DEF new
\* A coin set to another balance, with the coins on the way and the minted ones.
LEMMA CoinSet ==
    ASSUME NEW st \in GoodStates, NEW c \in CCoins, c \in DOMAIN st.inst, NEW w \in 0 .. CMaxCoin,
           NEW new, new \in States, new.inst = [st.inst EXCEPT ![c] = w], CoinsMoved(st, new),
           w + new.coins - new.minted = st.inst[c] + st.coins - st.minted
    PROVE  new \in GoodStates
<1> DEFINE old == st.inst
           f == new.inst
           a == SumOver(f, CoinsOf(f))
           b == SumOver(old, CoinsOf(old))
<1>1. old \in Insts /\ st.coins \in Int /\ st.minted \in Int /\ new.coins \in Int /\ new.minted \in Int
    BY GoodAre DEF States
<1>2. /\ f \in Insts /\ DOMAIN f = DOMAIN old /\ old[c] \in 0 .. CMaxCoin
      /\ \A x \in DOMAIN old \ {c} : f[x] = old[x]
      /\ a = b - old[c] + w /\ b \in Int
    <2>1. f = [old EXCEPT ![c] = w] /\ c \in DOMAIN old
        OBVIOUS
    <2> HIDE DEF f, old
    <2>2. BalanceIs(old, c, w, f)
        BY <1>1, <2>1, BalanceSet, Zenon
    <2> QED  BY <2>2, Zenon DEF BalanceIs
<1>3. /\ DOMAIN new.inst \ CCoins = DOMAIN st.inst \ CCoins
      /\ \A x \in DOMAIN new.inst \ CCoins : new.inst[x] = st.inst[x]
    BY <1>2
<1>4. a + new.coins - new.minted = b + st.coins - st.minted
    <2> DEFINE p == new.coins  q == new.minted  r == st.coins  t == st.minted  o == st.inst[c]
    <2>1. a = b - o + w /\ w + p - q = o + r - t
        BY <1>2
    <2>2. b \in Int /\ o \in Int /\ w \in Int /\ p \in Int /\ q \in Int /\ r \in Int /\ t \in Int
        BY <1>1, <1>2
    <2> HIDE DEF a, b, p, q, r, t, o
    <2>3. a \in Int
        BY <2>1, <2>2
    <2>4. a + p - q = b + r - t
        BY <2>1, <2>2, <2>3
    <2> QED  BY <2>4 DEF p, q, r, t
<1> QED  BY <1>3, <1>4, CoinChanges
\* A transfer takes from one account what it adds to another.
LEMMA Transfers ==
    ASSUME NEW st \in GoodStates, NEW c \in CCoins, NEW d \in CCoins, Exists(st, c), Exists(st, d), c # d,
           1 <= st.inst[c], st.inst[d] + 1 <= CMaxCoin, NEW f,
           f = [[st.inst EXCEPT ![d] = st.inst[d] + 1] EXCEPT ![c] = st.inst[c] - 1]
    PROVE  [st EXCEPT !.inst = f] \in GoodStates /\ CoinsMoved(st, [st EXCEPT !.inst = f])
<1> DEFINE old == st.inst
           g == [old EXCEPT ![d] = old[d] + 1]
           new == [st EXCEPT !.inst = f]
<1>1. old \in Insts /\ c \in DOMAIN old /\ d \in DOMAIN old /\ CMaxCoin \in Nat
    BY GoodAre, ContractsAssumption DEF Exists
<1>2. old[c] \in 0 .. CMaxCoin /\ old[d] \in 0 .. CMaxCoin
    <2> HIDE DEF old
    <2> QED  BY <1>1, InstsAre, Kinds
<1>3. BalanceIs(old, d, old[d] + 1, g)
    <2>1. old[d] + 1 \in 0 .. CMaxCoin
        BY <1>1, <1>2
    <2> HIDE DEF old
    <2> QED  BY <1>1, <2>1, BalanceSet
<1>4. BalanceIs(g, c, old[c] - 1, f)
    <2>1. old[c] - 1 \in 0 .. CMaxCoin
        BY <1>1, <1>2
    <2>2. g \in Insts /\ c \in DOMAIN g /\ f = [g EXCEPT ![c] = old[c] - 1]
        BY <1>1, <1>3 DEF BalanceIs
    <2> HIDE DEF old, g
    <2> QED  BY <2>1, <2>2, BalanceSet, Zenon
<1> HIDE DEF g
<1>5. /\ f \in Insts /\ DOMAIN f = DOMAIN old /\ \A x \in DOMAIN old \ {c, d} : f[x] = old[x]
      /\ SumOver(f, CoinsOf(f)) = SumOver(old, CoinsOf(old))
    <2>1. g[c] = old[c]
        BY <1>1, <1>3 DEF BalanceIs
    <2>2. f \in Insts /\ DOMAIN f = DOMAIN old /\ \A x \in DOMAIN old \ {c, d} : f[x] = old[x]
        BY <1>3, <1>4 DEF BalanceIs
    <2> DEFINE a == SumOver(old, CoinsOf(old))
               b == SumOver(g, CoinsOf(g))
               e == SumOver(f, CoinsOf(f))
               o == old[d]
               p == old[c]
    <2>3. b = a - o + (o + 1) /\ e = b - p + (p - 1) /\ a \in Int /\ b \in Int /\ o \in Int /\ p \in Int
        BY <1>2, <1>3, <1>4, <2>1 DEF BalanceIs
    <2> HIDE DEF a, b, e, o, p
    <2>4. e = a
        BY <2>3
    <2> QED  BY <2>2, <2>4 DEF a, e
<1>6. SameButInst(st, new) /\ new.inst = f
    BY <1>5, InstOnly
<1> HIDE DEF new
<1>7. CoinsMoved(st, new)
    BY <1>6 DEF CoinsMoved, SameButInst
<1>8. /\ DOMAIN new.inst \ CCoins = DOMAIN st.inst \ CCoins
      /\ \A x \in DOMAIN new.inst \ CCoins : new.inst[x] = st.inst[x]
    BY <1>5, <1>6
<1>9. SumOver(new.inst, CoinsOf(new.inst)) + new.coins - new.minted
          = SumOver(st.inst, CoinsOf(st.inst)) + st.coins - st.minted
    BY <1>5, <1>6 DEF SameButInst
<1>10. new \in GoodStates
    BY <1>7, <1>8, <1>9, CoinChanges
<1> QED  BY <1>7, <1>10 DEF new
LEMMA CoinsKeep ==
    ASSUME NEW st \in GoodStates, NEW in \in CoinInstrs
    PROVE  CoinInstr(st, in) \in GoodStates /\ CoinsMoved(st, CoinInstr(st, in))
<1> DEFINE c == in.inst
           v == st.inst[c]
           n == in.arg
           new == CoinInstr(st, in)
<1>1. /\ c \in CCoins /\ CMaxCoin \in Nat
      /\ in.op \in {"spawnCoin", "store", "deleteCoin", "fetch", "mint", "transfer"}
      /\ in.op \in {"fetch", "mint"} => n \in Nat
      /\ in.op = "transfer" => n.to \in CCoins /\ n.coins = 1
    BY CoinShapes, ContractsAssumption
<1>2. st.inst \in Insts /\ st.coins \in Nat /\ st.minted \in Int
    BY GoodAre
<1>3. CoinsMoved(st, Fail(st)) /\ Fail(st) \in GoodStates
    <2>1. Fail(st) \in States /\ Fail(st).latest = st.latest
        BY GoodAre DEF Fail, States
    <2> QED  BY <2>1, FailKeeps DEF CoinsMoved
<1>4. CASE in.op = "spawnCoin"
    <2>1. new = CreateInst(st, c, 0)
        BY <1>4 DEF CoinInstr, SpawnCoinInst
    <2> QED  BY <1>1, <2>1, SpawnsCoin
<1>5. CASE in.op # "spawnCoin" /\ ~Exists(st, c)
    <2>1. new = Fail(st)
        BY <1>5 DEF CoinInstr
    <2> QED  BY <1>3, <2>1
<1>6. ASSUME Exists(st, c) PROVE c \in DOMAIN st.inst /\ v \in 0 .. CMaxCoin
    BY <1>1, <1>2, <1>6, InstsAre, Kinds DEF Exists
\* The balance is set to w.
<1>7. ASSUME Exists(st, c), NEW w \in 0 .. CMaxCoin
      PROVE  [st.inst EXCEPT ![c] = w] \in Insts
    <2>1. w \in Holding(c) /\ c \in DOMAIN st.inst
        BY <1>1, <1>6, <1>7, Kinds
    <2> QED  BY <1>2, <2>1, InstsSet
<1>8. CASE in.op = "mint" /\ Exists(st, c)
    <2> DEFINE f == [st.inst EXCEPT ![c] = v + n]
               end == [st EXCEPT !.inst = f, !.minted = st.minted + n]
    <2>1. new = IF SafeAdd(v, n) THEN end ELSE Fail(st)
        BY <1>8 DEF CoinInstr, Check
    <2>2. ASSUME SafeAdd(v, n) PROVE end \in GoodStates /\ CoinsMoved(st, end)
        <3>1. v + n \in 0 .. CMaxCoin /\ n \in Nat /\ v \in Int /\ c \in DOMAIN st.inst
            BY <1>1, <1>6, <1>8, <2>2 DEF SafeAdd
        <3>2. f \in Insts
            BY <1>7, <1>8, <3>1
        <3>3. CoinsMoved(st, end) /\ end.inst = f /\ end.minted = st.minted + n /\ end.coins = st.coins
            <4> DEFINE m == st.minted + n
            <4>1. m \in Int
                BY <1>2, <3>1
            <4> HIDE DEF f, m
            <4>2. CoinsMoved(st, end) /\ end.inst = f /\ end.minted = m /\ end.coins = st.coins
                BY <1>2, <3>2, <4>1, GoodAre DEF CoinsMoved, States, m
            <4> QED  BY <4>2 DEF m
        <3>4. (v + n) + end.coins - end.minted = v + st.coins - st.minted
            BY <1>2, <3>1, <3>3
        <3> HIDE DEF end, new
        <3>5. end \in States
            BY <3>3 DEF CoinsMoved
        <3> QED  BY <1>1, <3>1, <3>3, <3>4, <3>5, CoinSet
    <2> QED  BY <1>3, <2>1, <2>2
<1>9. CASE in.op = "fetch" /\ Exists(st, c)
    <2> DEFINE f == [st.inst EXCEPT ![c] = v - n]
               end == [st EXCEPT !.inst = f, !.coins = st.coins + n]
    <2>1. new = IF SafeSub(v, n) THEN end ELSE Fail(st)
        BY <1>9 DEF CoinInstr, Check
    <2>2. ASSUME SafeSub(v, n) PROVE end \in GoodStates /\ CoinsMoved(st, end)
        <3>1. v - n \in 0 .. CMaxCoin /\ n \in Nat /\ v \in Int /\ c \in DOMAIN st.inst
            BY <1>1, <1>6, <1>9, <2>2 DEF SafeSub
        <3>2. f \in Insts
            BY <1>7, <1>9, <3>1
        <3>3. CoinsMoved(st, end) /\ end.inst = f /\ end.minted = st.minted /\ end.coins = st.coins + n
            <4> DEFINE m == st.coins + n
            <4>1. m \in Nat
                BY <1>2, <3>1
            <4> HIDE DEF f, m
            <4>2. CoinsMoved(st, end) /\ end.inst = f /\ end.minted = st.minted /\ end.coins = m
                BY <1>2, <3>2, <4>1, GoodAre DEF CoinsMoved, States, m
            <4> QED  BY <4>2 DEF m
        <3>4. (v - n) + end.coins - end.minted = v + st.coins - st.minted
            BY <1>2, <3>1, <3>3
        <3> HIDE DEF end, new
        <3>5. end \in States
            BY <3>3 DEF CoinsMoved
        <3> QED  BY <1>1, <3>1, <3>3, <3>4, <3>5, CoinSet
    <2> QED  BY <1>3, <2>1, <2>2
<1>10. CASE in.op = "store" /\ Exists(st, c)
    <2> DEFINE f == [st.inst EXCEPT ![c] = v + st.coins]
               end == [st EXCEPT !.inst = f, !.coins = 0]
    <2>1. new = IF SafeAdd(v, st.coins) THEN end ELSE Fail(st)
        BY <1>10 DEF CoinInstr, Check
    <2>2. ASSUME SafeAdd(v, st.coins) PROVE end \in GoodStates /\ CoinsMoved(st, end)
        <3>1. v + st.coins \in 0 .. CMaxCoin /\ v \in Int /\ c \in DOMAIN st.inst
            BY <1>1, <1>2, <1>6, <1>10, <2>2 DEF SafeAdd
        <3>2. f \in Insts
            BY <1>7, <1>10, <3>1
        <3>3. CoinsMoved(st, end) /\ end.inst = f /\ end.minted = st.minted /\ end.coins = 0
            <4> HIDE DEF f
            <4> QED  BY <1>2, <3>2, GoodAre DEF CoinsMoved, States
        <3>4. (v + st.coins) + end.coins - end.minted = v + st.coins - st.minted
            BY <1>2, <3>1, <3>3
        <3> HIDE DEF end, new
        <3>5. end \in States
            BY <3>3 DEF CoinsMoved
        <3> QED  BY <1>1, <3>1, <3>3, <3>4, <3>5, CoinSet
    <2> QED  BY <1>3, <2>1, <2>2
<1>11. CASE in.op = "deleteCoin" /\ Exists(st, c)
    <2>1. new = IF v = 0 THEN RemoveInst(st, c) ELSE Fail(st)
        BY <1>11 DEF CoinInstr, Check
    <2> QED  BY <1>1, <1>3, <1>11, <2>1, DeletesCoin
<1>12. CASE in.op = "transfer" /\ Exists(st, c)
    <2> DEFINE d == n.to
               f == [st.inst EXCEPT ![d] = st.inst[d] + n.coins, ![c] = v - n.coins]
               ok == NotOurselves(c, d) /\ Exists(st, d) /\ SafeSub(v, n.coins) /\ SafeAdd(st.inst[d], n.coins)
    <2>1. new = IF ok THEN [st EXCEPT !.inst = f] ELSE Fail(st)
        BY <1>12 DEF CoinInstr, Check
    <2>2. ASSUME ok PROVE [st EXCEPT !.inst = f] \in GoodStates /\ CoinsMoved(st, [st EXCEPT !.inst = f])
        <3>1. d \in CCoins /\ c # d /\ Exists(st, d) /\ 1 <= v /\ st.inst[d] + 1 <= CMaxCoin
            BY <1>1, <1>12, <2>2 DEF NotOurselves, SafeSub, SafeAdd
        <3>2. f = [[st.inst EXCEPT ![d] = st.inst[d] + 1] EXCEPT ![c] = v - 1]
            BY <1>1, <1>12
        <3> HIDE DEF f
        <3> QED  BY <1>1, <1>12, <3>1, <3>2, Transfers
    <2> QED  BY <1>3, <2>1, <2>2
<1> QED  BY <1>1, <1>4, <1>5, <1>8, <1>9, <1>10, <1>11, <1>12

(* The naming contract.                                                    *)
EntriesKept(old, new) ==
    \A k \in DOMAIN old : /\ k \in DOMAIN new /\ new[k].iid = old[k].iid
                          /\ old[k].removed => new[k].removed
SameButNames(st, new) ==
    /\ new \in States /\ new.coins = st.coins /\ new.minted = st.minted /\ new.executed = st.executed
    /\ new.inst = st.inst /\ new.counter = st.counter
LEMMA NamesChange ==
    ASSUME NEW st \in GoodStates, NEW new, SameButNames(st, new), NamesOK(new.entries, new.latest)
    PROVE  new \in GoodStates
<1>1. FundsOK(new.inst, new.coins, new.minted) /\ DeferredOK(new.inst, new.executed) /\ new \in States
    BY GoodAre DEF SameButNames
<1> QED  BY <1>1, IsGood
\* A new entry at the head of the list.
LEMMA NameAdded ==
    ASSUME NEW old \in Entries, NEW latest \in NameKeys \union {NoKey}, NamesOK(old, latest),
           NEW key \in NameKeys, key \notin DOMAIN old, NEW new, NEW iid \in CValues,
           new = Put(old, key, [iid |-> iid, prev |-> latest, removed |-> FALSE])
    PROVE  new \in Entries /\ NamesOK(new, key) /\ EntriesKept(old, new)
<1> DEFINE e == [iid |-> iid, prev |-> latest, removed |-> FALSE]
<1>1. old \in [DOMAIN old -> Entry] /\ DOMAIN old \in SUBSET NameKeys
    BY EntriesAre
<1>2. e \in Entry /\ e.prev = latest
    BY DEF Entry
<1> HIDE DEF e
<1>3. /\ new \in [DOMAIN old \union {key} -> Entry] /\ DOMAIN new = DOMAIN old \union {key} /\ new[key] = e
      /\ \A k \in DOMAIN old : new[k] = old[k]
    <2>1. new = Put(old, key, e)
        BY DEF e
    <2> QED  BY <1>1, <1>2, <2>1 DEF Put
<1>4. new \in Entries
    BY <1>1, <1>3, IsEntries
<1>5. key # NoKey
    BY DEF NameKeys, NoKey
<1>6. Closed(old, latest, DOMAIN old)
    BY DEF NamesOK
<1>7. Closed(new, key, DOMAIN new)
    <2>1. ASSUME NEW k \in DOMAIN new, new[k].prev # NoKey PROVE new[k].prev \in DOMAIN new
        <3>1. CASE k = key
            BY <1>2, <1>3, <1>6, <2>1, <3>1 DEF Closed
        <3>2. CASE k # key
            BY <1>3, <1>6, <2>1, <3>2 DEF Closed
        <3> QED  BY <3>1, <3>2
    <2> QED  BY <1>3, <2>1 DEF Closed
<1>8. ASSUME NEW keys \in SUBSET DOMAIN new, Closed(new, key, keys) PROVE keys = DOMAIN new
    <2> DEFINE rest == keys \ {key}
    <2>1. key \in keys
        BY <1>5, <1>8 DEF Closed
    <2>2. rest \in SUBSET DOMAIN old
        BY <1>3
    <2>3. latest # NoKey => latest \in rest
        <3>1. ASSUME latest # NoKey PROVE latest \in keys
            <4>1. new[key].prev = latest
                BY <1>2, <1>3
            <4> QED  BY <1>8, <2>1, <3>1, <4>1 DEF Closed
        <3>2. latest # NoKey => latest # key
            BY <1>6 DEF Closed
        <3> QED  BY <3>1, <3>2
    <2>4. ASSUME NEW k \in rest, old[k].prev # NoKey PROVE old[k].prev \in rest
        <3>1. k \in keys /\ k \in DOMAIN old /\ new[k] = old[k]
            BY <1>3, <2>2
        <3>2. old[k].prev \in keys
            BY <1>8, <2>4, <3>1 DEF Closed
        <3>3. old[k].prev # key
            BY <1>6, <2>4, <3>1 DEF Closed
        <3> QED  BY <3>2, <3>3
    <2>5. Closed(old, latest, rest)
        BY <2>3, <2>4 DEF Closed
    <2>6. rest = DOMAIN old
        <3> HIDE DEF rest
        <3> QED  BY <2>2, <2>5 DEF NamesOK
    <2> QED  BY <1>3, <2>1, <2>6
<1>9. EntriesKept(old, new)
    BY <1>3 DEF EntriesKept
<1> QED  BY <1>4, <1>7, <1>8, <1>9 DEF NamesOK
\* An entry that is marked as removed keeps its place.
LEMMA NameRemoved ==
    ASSUME NEW old \in Entries, NEW latest, NamesOK(old, latest), NEW key \in DOMAIN old,
           NEW new, new = [old EXCEPT ![key] = [old[key] EXCEPT !.removed = TRUE]]
    PROVE  new \in Entries /\ NamesOK(new, latest) /\ EntriesKept(old, new)
<1>1. old \in [DOMAIN old -> Entry] /\ DOMAIN old \in SUBSET NameKeys
    BY EntriesAre
<1> DEFINE e == [old[key] EXCEPT !.removed = TRUE]
<1>2. old[key] \in Entry
    BY <1>1
<1>3. e \in Entry /\ e.iid = old[key].iid /\ e.prev = old[key].prev /\ e.removed
    BY <1>2 DEF Entry
<1> HIDE DEF e
<1>4. /\ new \in [DOMAIN old -> Entry] /\ DOMAIN new = DOMAIN old /\ new[key] = e
      /\ \A k \in DOMAIN old \ {key} : new[k] = old[k]
    <2>1. new = [old EXCEPT ![key] = e]
        BY DEF e
    <2> QED  BY <1>1, <1>3, <2>1
<1>5. new \in Entries
    BY <1>1, <1>4, IsEntries
<1>6. \A k \in DOMAIN old : new[k].prev = old[k].prev /\ new[k].iid = old[k].iid /\ (old[k].removed => new[k].removed)
    BY <1>3, <1>4
<1>7. \A keys \in SUBSET DOMAIN old : Closed(new, latest, keys) <=> Closed(old, latest, keys)
    BY <1>6 DEF Closed
<1>8. NamesOK(new, latest)
    <2>1. DOMAIN old \in SUBSET DOMAIN old
        OBVIOUS
    <2> QED  BY <1>4, <1>7, <2>1 DEF NamesOK
<1> QED  BY <1>4, <1>5, <1>6, <1>8 DEF EntriesKept
LEMMA NamesKeep ==
    ASSUME NEW st \in GoodStates, NEW in \in NameInstrs
    PROVE  /\ NameInstr(st, in) \in GoodStates /\ NameInstr(st, in).counter = st.counter
           /\ EntriesKept(st.entries, NameInstr(st, in).entries)
<1> DEFINE key == <<COwners[in.inst], in.arg>>
           new == NameInstr(st, in)
           old == st.entries
<1>1. in.inst \in CValues /\ in.op \in {"addName", "removeName"} /\ key \in NameKeys
    BY NameShapes DEF NameKeys
<1>2. old \in Entries /\ st.latest \in NameKeys \union {NoKey} /\ NamesOK(old, st.latest) /\ st \in States
    BY GoodAre
<1>3. Fail(st) \in GoodStates /\ Fail(st).counter = st.counter /\ EntriesKept(old, Fail(st).entries)
    BY FailKeeps DEF EntriesKept
<1> HIDE DEF key
<1>4. CASE ~Exists(st, in.inst)
    <2>1. new = Fail(st)
        BY <1>4 DEF NameInstr
    <2> QED  BY <1>3, <2>1
<1>5. CASE Exists(st, in.inst) /\ in.op = "addName"
    <2> DEFINE f == Put(old, key, [iid |-> in.inst, prev |-> st.latest, removed |-> FALSE])
               end == [st EXCEPT !.entries = f, !.latest = key]
    <2>1. new = IF NotOverwriting(st, key) THEN end ELSE Fail(st)
        BY <1>5 DEF NameInstr, Check, key
    <2>2. ASSUME NotOverwriting(st, key)
          PROVE  end \in GoodStates /\ end.counter = st.counter /\ EntriesKept(old, end.entries)
        <3>1. f \in Entries /\ NamesOK(f, key) /\ EntriesKept(old, f)
            <4>1. key \notin DOMAIN old
                BY <2>2 DEF NotOverwriting
            <4> HIDE DEF old
            <4> QED  BY <1>1, <1>2, <4>1, NameAdded
        <3> HIDE DEF f
        <3>2. SameButNames(st, end) /\ end.entries = f /\ end.latest = key
            BY <1>1, <1>2, <3>1 DEF SameButNames, States
        <3> HIDE DEF end
        <3> QED  BY <3>1, <3>2, NamesChange DEF SameButNames
    <2> QED  BY <1>3, <2>1, <2>2
<1>6. CASE Exists(st, in.inst) /\ in.op = "removeName"
    <2> DEFINE f == [old EXCEPT ![key] = [old[key] EXCEPT !.removed = TRUE]]
               end == [st EXCEPT !.entries = f]
               ok == key \in DOMAIN old /\ ~old[key].removed
    <2>1. new = IF ok THEN end ELSE Fail(st)
        BY <1>6 DEF NameInstr, Check, key
    <2>2. ASSUME ok
          PROVE  end \in GoodStates /\ end.counter = st.counter /\ EntriesKept(old, end.entries)
        <3>1. f \in Entries /\ NamesOK(f, st.latest) /\ EntriesKept(old, f)
            <4>1. key \in DOMAIN old
                BY <2>2
            <4> HIDE DEF old
            <4> QED  BY <1>2, <4>1, NameRemoved
        <3> HIDE DEF f
        <3>2. SameButNames(st, end) /\ end.entries = f /\ end.latest = st.latest
            BY <1>1, <1>2, <3>1 DEF SameButNames, States
        <3> HIDE DEF end
        <3> QED  BY <3>1, <3>2, NamesChange DEF SameButNames
    <2> QED  BY <1>3, <2>1, <2>2
<1> QED  BY <1>1, <1>4, <1>5, <1>6

(* The deferred contract.                                                  *)
LEMMA DeferredChanges ==
    ASSUME NEW st \in GoodStates, NEW new \in States, NEW d \in CDeferreds, Elsewhere(st.inst, new.inst, d),
           new.coins = st.coins, new.minted = st.minted, new.entries = st.entries, new.latest = st.latest,
           \A y \in CDeferreds \ {d} : new.executed[y] = st.executed[y],
           new.executed[d] = IF d \in DOMAIN new.inst THEN 1 - new.inst[d].max ELSE 0
    PROVE  new \in GoodStates
<1> DEFINE f == st.inst
           g == new.inst
<1>1. f \in Insts /\ g \in Insts
    BY GoodAre DEF States
<1>2. CoinsOf(g) = CoinsOf(f) /\ \A c \in CoinsOf(f) : f[c] = g[c]
    BY Kinds DEF CoinsOf, Elsewhere
<1>3. SumOver(g, CoinsOf(g)) = SumOver(f, CoinsOf(f))
    <2> HIDE DEF f, g
    <2> QED  BY <1>1, <1>2, FundsSame, Zenon
<1>4. FundsOK(g, new.coins, new.minted)
    BY <1>3, GoodAre DEF FundsOK, CoinsOf
<1>5. ASSUME NEW y \in CDeferreds PROVE new.executed[y] = IF y \in DOMAIN g THEN 1 - g[y].max ELSE 0
    <2>1. CASE y = d
        BY <2>1
    <2>2. CASE y # d
        <3>1. st.executed[y] = IF y \in DOMAIN f THEN 1 - f[y].max ELSE 0
            BY GoodAre DEF DeferredOK
        <3>2. (y \in DOMAIN g <=> y \in DOMAIN f) /\ (y \in DOMAIN g => g[y] = f[y])
            BY <2>2 DEF Elsewhere
        <3> QED  BY <2>2, <3>1, <3>2
    <2> QED  BY <2>1, <2>2
<1>6. DeferredOK(g, new.executed) /\ NamesOK(new.entries, new.latest)
    BY <1>5, GoodAre DEF DeferredOK
<1> QED  BY <1>4, <1>6, IsGood
\* What the execution of a deferred transaction leaves as it is.
Beside(st, d) ==
    {s \in GoodStates : /\ d \in DOMAIN s.inst /\ s.inst[d] = st.inst[d] /\ s.executed = st.executed
                        /\ s.counter = st.counter /\ s.entries = st.entries}
LEMMA ExecutesProposed ==
    ASSUME NEW st \in GoodStates, NEW d \in CDeferreds, d \in DOMAIN st.inst
    PROVE  execProposedTx(st, st.inst[d]) \in Beside(st, d)
<1> DEFINE x == st.inst[d]
           n == Len(x.tx)
           step(s, i) == IF s.ok /\ Exists(s, x.tx[i].inst) /\ VerifyDeferredInstruction(x.tx[i], x.proofs[i])
                         THEN ValueInstr(s, x.tx[i]) ELSE Fail(s)
           Is(a) == a = [i \in 0 .. n |-> IF i = 0 THEN st ELSE step(a[i - 1], i)]
           after == CHOOSE a : Is(a)
           W == Beside(st, d)
           F == [i \in 1 .. n |-> [s \in W |-> step(s, i)]]
<1>1. n \in Nat /\ \A i \in 1 .. n : x.tx[i] \in ValueInstrs
    <2>1. x \in Deferred
        BY GoodAre, InstsAre, Kinds
    <2>2. PICK v \in Updates : x.tx = <<v>>
        BY <2>1 DEF Deferred
    <2> QED  BY <2>2 DEF Updates
<1>2. ASSUME NEW i \in 1 .. n, NEW s \in W PROVE step(s, i) \in W
    <2>1. s \in GoodStates /\ d \in DOMAIN s.inst
        BY DEF Beside
    <2>2. Fail(s) \in W
        BY <2>1, FailKeeps DEF Beside
    <2>3. ValueInstr(s, x.tx[i]) \in W
        <3> DEFINE new == ValueInstr(s, x.tx[i])
        <3>1. new \in GoodStates /\ SameButInst(s, new) /\ Elsewhere(s.inst, new.inst, x.tx[i].inst)
            BY <1>1, <2>1, ValuesKeep
        <3>2. x.tx[i].inst # d
            BY <1>1, ValueShapes, Kinds
        <3> HIDE DEF new
        <3>3. d \in DOMAIN new.inst /\ new.inst[d] = s.inst[d]
            BY <2>1, <3>1, <3>2 DEF Elsewhere
        <3>4. new.executed = s.executed /\ new.counter = s.counter /\ new.entries = s.entries
            BY <3>1 DEF SameButInst
        <3>5. new \in W
            BY <3>1, <3>3, <3>4 DEF Beside
        <3> QED  BY <3>5 DEF new
    <2> QED  BY <2>2, <2>3
<1>3. F \in [1 .. n -> [W -> W]]
    <2> HIDE DEF W, step
    <2> QED  BY <1>2
<1>4. st \in W
    BY DEF Beside
<1> HIDE DEF W, step
<1>5. \E a : Is(a)
    <2>1. PICK a : IsRecursion(a, n, W, st, F)
        <3> HIDE DEF F, n
        <3> QED  BY <1>1, <1>3, <1>4, RecursionExists, Zenon
    <2>2. a \in [0 .. n -> W] /\ a[0] = st /\ \A i \in 1 .. n : a[i] = F[i][a[i - 1]]
        BY <2>1 DEF IsRecursion
    <2>3. \A i \in 1 .. n : a[i - 1] \in W
        <3> HIDE DEF n, F
        <3> QED  BY <1>1, <2>2
    <2>4. \A i \in 1 .. n : F[i][a[i - 1]] = step(a[i - 1], i)
        <3> HIDE DEF n
        <3> QED  BY <2>3
    <2>5. Is(a)
        <3> HIDE DEF F, n
        <3> QED  BY <1>1, <2>2, <2>4
    <2> QED  BY <2>5
<1>6. Is(after)
    <2> HIDE DEF Is
    <2> QED  BY <1>5, Zenon
<1>7. \A i \in 0 .. n : after[i] \in W
    <2> HIDE DEF after, n
    <2>1. after[0] = st /\ \A i \in 1 .. n : after[i] = step(after[i - 1], i)
        BY <1>1, <1>6
    <2>2. \A i \in 1 .. n : after[i - 1] \in W => after[i] = F[i][after[i - 1]]
        BY <2>1
    <2> HIDE DEF F
    <2> QED  BY <1>1, <1>3, <1>4, <2>1, <2>2, StaysIn
<1>8. execProposedTx(st, x) = after[n]
    BY DEF execProposedTx, step
<1> HIDE DEF after, n
<1> QED  BY <1>1, <1>7, <1>8 DEF W
LEMMA DeferredsKeep ==
    ASSUME NEW st \in GoodStates, NEW in \in DeferredInstrs, cIndex \in Nat
    PROVE  /\ DeferredInstr(st, in) \in GoodStates /\ DeferredInstr(st, in).counter = st.counter
           /\ DeferredInstr(st, in).entries = st.entries
<1> DEFINE d == in.inst
           x == st.inst[d]
           old == st.inst
           new == DeferredInstr(st, in)
<1>1. /\ d \in CDeferreds /\ d \in CInstances /\ Holding(d) = Deferred
      /\ in.op \in {"spawnDeferred", "addProof", "execProposedTx", "deleteDeferred"}
    BY DeferredShapes, Kinds
<1>2. old \in Insts /\ st \in States /\ st.executed \in [CDeferreds -> Nat]
    BY GoodAre
<1>3. Fail(st) \in GoodStates /\ Fail(st).counter = st.counter /\ Fail(st).entries = st.entries
    BY FailKeeps
<1>4. ASSUME d \in DOMAIN old
      PROVE  x \in Deferred /\ x.max \in 0 .. 1 /\ x.proofs \in [1 .. 1 -> SUBSET CSigners] /\ st.executed[d] = 1 - x.max
    <2>1. x \in Deferred
        BY <1>1, <1>2, <1>4, InstsAre
    <2>2. st.executed[d] = 1 - x.max
        BY <1>1, <1>4, GoodAre DEF DeferredOK
    <2> QED  BY <2>1, <2>2 DEF Deferred
<1>5. CASE in.op = "spawnDeferred" /\ Exists(st, d)
    <2>1. new = Fail(st)
        BY <1>5 DEF DeferredInstr, CreateInst, Fail
    <2> QED  BY <1>3, <2>1
<1>6. CASE in.op # "spawnDeferred" /\ ~Exists(st, d)
    <2>1. new = Fail(st)
        BY <1>6 DEF DeferredInstr
    <2> QED  BY <1>3, <2>1
<1>7. CASE in.op = "spawnDeferred" /\ ~Exists(st, d)
    <2> DEFINE y == NewDeferred(in.arg)
               f == Put(old, d, y)
    <2>1. new = [st EXCEPT !.inst = f]
        BY <1>7 DEF DeferredInstr, CreateInst
    <2>2. y \in Deferred /\ y.max = 1
        <3>1. PICK v \in Updates : in.arg = <<v>>
            BY <1>7, DeferredShapes
        <3>2. DOMAIN in.arg = 1 .. 1
            BY <3>1
        <3>3. cIndex + CExpire \in Nat
            BY ContractsAssumption
        <3>4. in.arg \in {<<v_1>> : v_1 \in Updates}
            BY <3>1
        <3> QED  BY <3>2, <3>3, <3>4 DEF NewDeferred, Deferred
    <2>3. /\ f \in Insts /\ DOMAIN f = DOMAIN old \union {d} /\ f[d] = y
          /\ \A j \in DOMAIN old \ {d} : f[j] = old[j]
        <3> HIDE DEF old, y, d
        <3> QED  BY <1>1, <1>2, <2>2, InstsPut
    <2> HIDE DEF f, new, y
    <2>4. SameButInst(st, new) /\ new.inst = f
        BY <2>1, <2>3, InstOnly
    <2>5. Elsewhere(old, new.inst, d)
        BY <2>3, <2>4 DEF Elsewhere
    <2>6. st.executed[d] = 0
        BY <1>1, <1>7, GoodAre DEF DeferredOK, Exists
    <2>7. new.executed[d] = IF d \in DOMAIN new.inst THEN 1 - new.inst[d].max ELSE 0
        BY <2>2, <2>3, <2>4, <2>6 DEF SameButInst
    <2> QED  BY <1>1, <2>4, <2>5, <2>7, DeferredChanges DEF SameButInst, new
<1>8. CASE in.op = "addProof" /\ Exists(st, d)
    <2> DEFINE y == [x EXCEPT !.proofs = [x.proofs EXCEPT ![1] = x.proofs[1] \union {in.arg.identity}]]
               f == [old EXCEPT ![d] = y]
               ok == checkInvoke(x) /\ in.arg.identity \notin x.proofs[1]
    <2>1. in.arg.index = 1 /\ in.arg.identity \in CSigners
        BY <1>8, DeferredShapes
    <2>2. new = IF ok THEN [st EXCEPT !.inst = f] ELSE Fail(st)
        BY <1>8, <2>1 DEF DeferredInstr, Check
    <2>3. d \in DOMAIN old
        BY <1>8 DEF Exists
    <2>4. y \in Deferred /\ y.max = x.max
        BY <1>4, <2>1, <2>3 DEF Deferred
    <2> HIDE DEF y
    <2>5. /\ f \in Insts /\ DOMAIN f = DOMAIN old /\ f[d] = y
          /\ \A j \in DOMAIN old \ {d} : f[j] = old[j]
        <3> HIDE DEF old, d
        <3> QED  BY <1>1, <1>2, <2>3, <2>4, InstsSet
    <2> HIDE DEF f
    <2> DEFINE end == [st EXCEPT !.inst = f]
    <2>6. SameButInst(st, end) /\ end.inst = f
        BY <2>5, InstOnly
    <2> HIDE DEF end
    <2>7. Elsewhere(old, end.inst, d)
        BY <2>5, <2>6 DEF Elsewhere
    <2>8. end.executed[d] = IF d \in DOMAIN end.inst THEN 1 - end.inst[d].max ELSE 0
        BY <1>4, <2>3, <2>4, <2>5, <2>6 DEF SameButInst
    <2>9. end \in GoodStates
        BY <1>1, <2>6, <2>7, <2>8, DeferredChanges DEF SameButInst
    <2>10. new = IF ok THEN end ELSE Fail(st)
        BY <2>2 DEF end
    <2> QED  BY <1>3, <2>6, <2>9, <2>10 DEF SameButInst
<1>9. CASE in.op = "execProposedTx" /\ Exists(st, d)
    <2> DEFINE s == execProposedTx(st, x)
               y == [s.inst[d] EXCEPT !.max = s.inst[d].max - 1]
               f == [s.inst EXCEPT ![d] = y]
               e == [s.executed EXCEPT ![d] = s.executed[d] + 1]
               end == [s EXCEPT !.inst = f, !.executed = e]
               ok == checkInvoke(x) /\ s.ok
    <2>1. new = IF ok THEN end ELSE Fail(st)
        BY <1>9 DEF DeferredInstr, Check
    <2>2. d \in DOMAIN old
        BY <1>9 DEF Exists
    <2>3. s \in Beside(st, d)
        BY <1>1, <2>2, ExecutesProposed
    <2> HIDE DEF s
    <2>4. /\ s \in GoodStates /\ d \in DOMAIN s.inst /\ s.inst[d] = x /\ s.executed = st.executed
          /\ s.counter = st.counter /\ s.entries = st.entries
        BY <2>3 DEF Beside
    <2>5. ASSUME ok PROVE end \in GoodStates /\ end.counter = st.counter /\ end.entries = st.entries
        <3>1. x.max = 1 /\ x \in Deferred /\ s.executed[d] = 0
            BY <1>4, <2>2, <2>4, <2>5 DEF checkInvoke
        <3>2. y \in Deferred /\ y.max = 0
            BY <2>4, <3>1 DEF Deferred
        <3>3. e \in [CDeferreds -> Nat] /\ e[d] = 1 /\ \A z \in CDeferreds \ {d} : e[z] = s.executed[z]
            BY <1>1, <1>2, <2>4, <3>1
        <3> HIDE DEF y, e
        <3>4. s.inst \in Insts
            BY <2>4, GoodAre
        <3>5. /\ f \in Insts /\ DOMAIN f = DOMAIN s.inst /\ f[d] = y
              /\ \A j \in DOMAIN s.inst \ {d} : f[j] = s.inst[j]
            <4> HIDE DEF d
            <4> QED  BY <1>1, <2>4, <3>2, <3>4, InstsSet
        <3> HIDE DEF f
        <3>6. /\ end \in States /\ end.inst = f /\ end.executed = e /\ end.coins = s.coins /\ end.minted = s.minted
              /\ end.entries = s.entries /\ end.latest = s.latest /\ end.counter = s.counter
            BY <2>4, <3>3, <3>5, GoodAre DEF States
        <3> HIDE DEF end
        <3>7. Elsewhere(s.inst, end.inst, d)
            BY <3>5, <3>6 DEF Elsewhere
        <3>8. end.executed[d] = IF d \in DOMAIN end.inst THEN 1 - end.inst[d].max ELSE 0
            BY <2>4, <3>2, <3>3, <3>5, <3>6
        <3>9. end \in GoodStates
            BY <1>1, <2>4, <3>3, <3>6, <3>7, <3>8, DeferredChanges
        <3> QED  BY <2>4, <3>6, <3>9
    <2> HIDE DEF end
    <2> QED  BY <1>3, <2>1, <2>5
<1>10. CASE in.op = "deleteDeferred" /\ Exists(st, d)
    <2> DEFINE f == Restrict(old, DOMAIN old \ {d})
               e == [st.executed EXCEPT ![d] = 0]
    <2>1. new = [[st EXCEPT !.inst = f] EXCEPT !.executed = e]
        BY <1>10, <1>2 DEF DeferredInstr, RemoveInst, States
    <2>2. /\ f \in Insts /\ DOMAIN f = DOMAIN old \ {d}
          /\ \A j \in DOMAIN old \ {d} : f[j] = old[j]
        <3> HIDE DEF old
        <3> QED  BY <1>2, InstsRemove, Zenon
    <2>3. e \in [CDeferreds -> Nat] /\ e[d] = 0 /\ \A z \in CDeferreds \ {d} : e[z] = st.executed[z]
        BY <1>1, <1>2
    <2> HIDE DEF e, f, new
    <2>4. /\ new \in States /\ new.inst = f /\ new.executed = e /\ new.coins = st.coins /\ new.minted = st.minted
          /\ new.entries = st.entries /\ new.latest = st.latest /\ new.counter = st.counter
        BY <1>2, <2>1, <2>2, <2>3 DEF States
    <2>5. Elsewhere(old, new.inst, d)
        BY <2>2, <2>4 DEF Elsewhere
    <2>6. new.executed[d] = IF d \in DOMAIN new.inst THEN 1 - new.inst[d].max ELSE 0
        BY <2>2, <2>3, <2>4
    <2>7. new \in GoodStates
        BY <1>1, <2>3, <2>4, <2>5, <2>6, DeferredChanges
    <2> QED  BY <2>4, <2>7 DEF new
<1> QED  BY <1>1, <1>5, <1>6, <1>7, <1>8, <1>9, <1>10

(* Instructions and transactions.                                          *)
LEMMA Executes ==
    ASSUME NEW st \in GoodStates, NEW in \in Instructions, cIndex \in Nat
    PROVE  /\ executeInstruction(st, in) \in GoodStates /\ executeInstruction(st, in).counter = st.counter
           /\ EntriesKept(st.entries, executeInstruction(st, in).entries)
<1> DEFINE new == executeInstruction(st, in)
<1>1. EntriesKept(st.entries, st.entries)
    BY DEF EntriesKept
<1>2. CASE in \in CoinInstrs
    <2>1. new = CoinInstr(st, in)
        BY <1>2, CoinShapes DEF executeInstruction
    <2> QED  BY <1>1, <1>2, <2>1, CoinsKeep DEF CoinsMoved
<1>3. CASE in \in NameInstrs
    <2>1. new = NameInstr(st, in)
        BY <1>3, NameShapes, Kinds DEF executeInstruction
    <2> QED  BY <1>3, <2>1, NamesKeep
<1>4. CASE in \in ValueInstrs
    <2>1. new = ValueInstr(st, in)
        BY <1>4, ValueShapes, Kinds DEF executeInstruction
    <2> QED  BY <1>1, <1>4, <2>1, ValuesKeep DEF SameButInst
<1>5. CASE in \in DeferredInstrs
    <2>1. new = DeferredInstr(st, in)
        BY <1>5, DeferredShapes, Kinds DEF executeInstruction
    <2> QED  BY <1>1, <1>5, <2>1, DeferredsKeep
<1> QED  BY <1>2, <1>3, <1>4, <1>5 DEF Instructions

SignedInstrs ==
    {s \in [instr : Instructions, counters : UNION {[D -> Nat] : D \in SUBSET CSigners}] :
        DOMAIN s.counters = s.instr.ids}
TxsOf == UNION {[1 .. n -> SignedInstrs] : n \in 1 .. 2}
\* An instruction that has to carry the next counters of all who signed it.
Counted(s) == s.instr.op # "deleteDeferred"
LEMMA SignedAre ==
    ASSUME NEW s \in SignedInstrs
    PROVE  /\ s.instr \in Instructions /\ s.instr.ids \in SUBSET CSigners
           /\ DOMAIN s.counters = s.instr.ids /\ \A k \in s.instr.ids : s.counters[k] \in Nat
BY DEF SignedInstrs
LEMMA Processes ==
    ASSUME NEW st \in GoodStates, NEW s \in SignedInstrs, cIndex \in Nat, NEW new, new = processInstruction(st, s)
    PROVE  /\ new \in GoodStates /\ EntriesKept(st.entries, new.entries)
           /\ \A k \in CSigners : st.counter[k] <= new.counter[k] /\ new.counter[k] <= st.counter[k] + 1
           /\ new.ok => st.ok
           /\ new.ok /\ Counted(s) =>
                  /\ s.instr.ids # {}
                  /\ \A k \in s.instr.ids : s.counters[k] = st.counter[k] + 1 /\ new.counter[k] = st.counter[k] + 1
<1> DEFINE e == executeInstruction(st, s.instr)
           fails == ~st.ok \/ ~VerifyInstruction(st, s)
           c == incrementSignerCounters(e.counter, s.instr.ids)
           end == [e EXCEPT !.counter = c]
<1>1. new = IF fails THEN Fail(st) ELSE end
    BY DEF processInstruction
<1>2. st.counter \in [CSigners -> Nat]
    BY GoodAre
<1>3. CASE fails
    <2>1. new = Fail(st)
        BY <1>1, <1>3
    <2>2. new \in GoodStates /\ new.ok = FALSE /\ new.counter = st.counter /\ new.entries = st.entries
        BY <2>1, FailKeeps
    <2> QED  BY <1>2, <2>2 DEF EntriesKept
<1>4. CASE ~fails
    <2>1. e \in GoodStates /\ e.counter = st.counter /\ EntriesKept(st.entries, e.entries)
        BY SignedAre, Executes
    <2>2. /\ c \in [CSigners -> Nat]
          /\ \A k \in CSigners : c[k] = st.counter[k] + (IF k \in s.instr.ids THEN 1 ELSE 0)
        BY <1>2, <2>1 DEF incrementSignerCounters
    <2> HIDE DEF e, c
    <2>3. /\ end \in States /\ end.inst = e.inst /\ end.executed = e.executed /\ end.coins = e.coins
          /\ end.minted = e.minted /\ end.entries = e.entries /\ end.latest = e.latest /\ end.counter = c
        BY <2>1, <2>2, GoodAre DEF States
    <2>4. new = end
        BY <1>1, <1>4
    <2> HIDE DEF end
    <2>5. end \in GoodStates
        <3>1. FundsOK(end.inst, end.coins, end.minted) /\ DeferredOK(end.inst, end.executed)
              /\ NamesOK(end.entries, end.latest)
            BY <2>1, <2>3, GoodAre
        <3> QED  BY <2>3, <3>1, IsGood
    <2>6. \A k \in CSigners : st.counter[k] <= c[k] /\ c[k] <= st.counter[k] + 1
        BY <1>2, <2>2
    <2>7. ASSUME Counted(s)
          PROVE  s.instr.ids # {} /\ \A k \in s.instr.ids : s.counters[k] = st.counter[k] + 1 /\ c[k] = st.counter[k] + 1
        <3>1. s.instr.ids # {} /\ verifySignerCounters(s.counters, st.counter)
            BY <1>4, <2>7 DEF VerifyInstruction, Expired, Counted
        <3>2. \A k \in s.instr.ids : s.counters[k] = st.counter[k] + 1
            BY <3>1, SignedAre DEF verifySignerCounters
        <3> QED  BY <1>2, <2>2, <3>1, <3>2, SignedAre
    <2>8. st.ok
        BY <1>4
    <2> QED  BY <2>1, <2>3, <2>4, <2>5, <2>6, <2>7, <2>8
<1> QED  BY <1>3, <1>4
LEMMA TxAre ==
    ASSUME NEW tx \in TxsOf
    PROVE  /\ Len(tx) \in 1 .. 2 /\ DOMAIN tx = 1 .. Len(tx) /\ \A i \in 1 .. Len(tx) : tx[i] \in SignedInstrs
<1>1. PICK n \in 1 .. 2 : tx \in [1 .. n -> SignedInstrs]
    BY DEF TxsOf
<1>2. Len(tx) = n
    BY <1>1
<1> QED  BY <1>1, <1>2
\* What a transaction has done after n of its instructions.
Done(tx, n, new) ==
    /\ EntriesKept(cEntries, new.entries)
    /\ \A k \in CSigners : cCounter[k] <= new.counter[k] /\ new.counter[k] <= cCounter[k] + n
    /\ new.ok => \A j \in 1 .. n : Counted(tx[j]) =>
                     /\ tx[j].instr.ids # {}
                     /\ \A k \in tx[j].instr.ids : cCounter[k] < tx[j].counters[k] /\ tx[j].counters[k] <= new.counter[k]
LEMMA ProcessesTx ==
    ASSUME State \in GoodStates, cIndex \in Nat, NEW tx \in TxsOf
    PROVE  \E last \in GoodStates : /\ Done(tx, Len(tx), last)
                                    /\ processOneTx(tx) = [last EXCEPT !.minted = @ - last.coins]
<1> DEFINE n == Len(tx)
           step(s, i) == processInstruction(s, tx[i])
           Is(a) == a = [i \in 0 .. n |-> IF i = 0 THEN State ELSE step(a[i - 1], i)]
           after == CHOOSE a : Is(a)
           W == GoodStates
           F == [i \in 1 .. n |-> [s \in W |-> step(s, i)]]
<1>1. n \in Nat /\ \A i \in 1 .. n : tx[i] \in SignedInstrs
    BY TxAre
<1>2. ASSUME NEW i \in 1 .. n, NEW s \in W PROVE step(s, i) \in W
    BY <1>1, Processes
<1>3. F \in [1 .. n -> [W -> W]]
    <2> HIDE DEF W, step
    <2> QED  BY <1>2
<1>4. State \in W
    OBVIOUS
<1> HIDE DEF W, step
<1>5. \E a : Is(a)
    <2>1. PICK a : IsRecursion(a, n, W, State, F)
        <3> HIDE DEF F, n
        <3> QED  BY <1>1, <1>3, <1>4, RecursionExists, Zenon
    <2>2. a \in [0 .. n -> W] /\ a[0] = State /\ \A i \in 1 .. n : a[i] = F[i][a[i - 1]]
        BY <2>1 DEF IsRecursion
    <2>3. \A i \in 1 .. n : a[i - 1] \in W
        <3> HIDE DEF n, F
        <3> QED  BY <1>1, <2>2
    <2>4. \A i \in 1 .. n : F[i][a[i - 1]] = step(a[i - 1], i)
        <3> HIDE DEF n
        <3> QED  BY <2>3
    <2>5. Is(a)
        <3> HIDE DEF F, n
        <3> QED  BY <1>1, <2>2, <2>4
    <2> QED  BY <2>5
<1>6. Is(after)
    <2> HIDE DEF Is
    <2> QED  BY <1>5, Zenon
<1>7. processOneTx(tx) = [after[n] EXCEPT !.minted = @ - after[n].coins]
    BY DEF processOneTx, step
<1>8. after[0] = State /\ \A i \in 1 .. n : after[i] = step(after[i - 1], i)
    <2> HIDE DEF after, n
    <2> QED  BY <1>1, <1>6
<1> HIDE DEF after, n
<1>9. \A i \in 0 .. n : after[i] \in W
    <2>1. \A i \in 1 .. n : after[i - 1] \in W => after[i] = F[i][after[i - 1]]
        BY <1>8
    <2> HIDE DEF F
    <2> QED  BY <1>1, <1>3, <1>4, <1>8, <2>1, StaysIn
<1> DEFINE S == {i \in Nat : i <= n => Done(tx, i, after[i])}
<1>10. 0 \in S
    <2>1. EntriesKept(cEntries, cEntries) /\ State.entries = cEntries /\ State.counter = cCounter
        BY DEF EntriesKept, State
    <2>2. \A k \in CSigners : cCounter[k] \in Nat
        BY <2>1, GoodAre
    <2>3. Done(tx, 0, State)
        BY <2>1, <2>2 DEF Done
    <2> QED  BY <1>8, <2>3
<1>11. ASSUME NEW i \in Nat, i \in S PROVE i + 1 \in S
    <2> SUFFICES ASSUME i + 1 <= n PROVE Done(tx, i + 1, after[i + 1])
        OBVIOUS
    <2> DEFINE old == after[i]
               new == after[i + 1]
               s == tx[i + 1]
    <2>1. i \in 0 .. n /\ i + 1 \in 1 .. n /\ i <= n /\ (i + 1) - 1 = i
        BY <1>1
    <2>2. old \in GoodStates /\ s \in SignedInstrs /\ new = processInstruction(old, s) /\ Done(tx, i, old)
        BY <1>1, <1>8, <1>9, <1>11, <2>1 DEF step, W
    <2>3. /\ EntriesKept(old.entries, new.entries)
          /\ \A k \in CSigners : old.counter[k] <= new.counter[k] /\ new.counter[k] <= old.counter[k] + 1
          /\ new.ok => old.ok
          /\ new.ok /\ Counted(s) =>
                 /\ s.instr.ids # {}
                 /\ \A k \in s.instr.ids : s.counters[k] = old.counter[k] + 1 /\ new.counter[k] = old.counter[k] + 1
          /\ new \in GoodStates
        <3> HIDE DEF old, new, s
        <3> QED  BY <2>2, Processes
    <2>4. \A k \in CSigners : cCounter[k] \in Nat /\ old.counter[k] \in Nat /\ new.counter[k] \in Nat
        <3>1. cCounter \in [CSigners -> Nat]
            BY GoodAre DEF State
        <3> HIDE DEF old, new
        <3> QED  BY <2>2, <2>3, <3>1, GoodAre
    <2> HIDE DEF old, new
    <2>5. EntriesKept(cEntries, new.entries)
        BY <2>2, <2>3 DEF EntriesKept, Done
    <2>6. \A k \in CSigners : cCounter[k] <= new.counter[k] /\ new.counter[k] <= cCounter[k] + (i + 1)
        BY <2>2, <2>3, <2>4 DEF Done
    <2>7. ASSUME new.ok, NEW j \in 1 .. i + 1, Counted(tx[j])
          PROVE  /\ tx[j].instr.ids # {}
                 /\ \A k \in tx[j].instr.ids : cCounter[k] < tx[j].counters[k] /\ tx[j].counters[k] <= new.counter[k]
        <3>1. CASE j = i + 1
            <4>1. \A k \in s.instr.ids : k \in CSigners
                BY <2>2, SignedAre
            <4>2. s.instr.ids # {} /\ \A k \in s.instr.ids : s.counters[k] = old.counter[k] + 1 /\ new.counter[k] = old.counter[k] + 1
                BY <2>3, <2>7, <3>1
            <4>3. \A k \in CSigners : cCounter[k] <= old.counter[k]
                BY <2>2 DEF Done
            <4>4. \A k \in s.instr.ids : cCounter[k] < s.counters[k] /\ s.counters[k] <= new.counter[k]
                BY <2>4, <4>1, <4>2, <4>3
            <4> QED  BY <3>1, <4>2, <4>4
        <3>2. CASE j # i + 1
            <4>1. j \in 1 .. i /\ old.ok /\ tx[j] \in SignedInstrs
                BY <1>1, <2>1, <2>3, <2>7, <3>2
            <4>2. /\ tx[j].instr.ids # {}
                  /\ \A k \in tx[j].instr.ids : cCounter[k] < tx[j].counters[k] /\ tx[j].counters[k] <= old.counter[k]
                BY <2>2, <2>7, <4>1 DEF Done
            <4>3. \A k \in tx[j].instr.ids : k \in CSigners /\ tx[j].counters[k] \in Nat
                BY <4>1, SignedAre
            <4>4. \A k \in tx[j].instr.ids : tx[j].counters[k] <= new.counter[k]
                BY <2>3, <2>4, <4>2, <4>3
            <4> QED  BY <4>2, <4>4
        <3> QED  BY <3>1, <3>2
    <2>8. Done(tx, i + 1, new)
        BY <2>5, <2>6, <2>7 DEF Done
    <2> QED  BY <2>8 DEF new
<1>12. \A i \in Nat : i \in S
    <2> HIDE DEF S
    <2> QED  BY <1>10, <1>11, NatSteps
<1>13. after[n] \in GoodStates /\ Done(tx, n, after[n])
    BY <1>1, <1>9, <1>12 DEF W
<1> QED  BY <1>7, <1>13 DEF n

(* What holds between transactions.                                        *)
\* Counters that a logged instruction carried are used.
Used == \A i \in DOMAIN cLog : \A j \in DOMAIN cLog[i] : Counted(cLog[i][j]) =>
            /\ cLog[i][j].instr.ids # {}
            /\ \A k \in cLog[i][j].instr.ids : cLog[i][j].counters[k] <= cCounter[k]
LoggedOnce == \A i, j \in DOMAIN cLog : cLog[i] = cLog[j] =>
                  i = j \/ \A n \in DOMAIN cLog[i] : ~Counted(cLog[i][n])
CInv ==
    /\ State \in GoodStates /\ cIndex \in 0 .. CMaxIndex
    /\ cLog \in Seq(TxsOf) /\ Len(cLog) <= CMaxTx
    /\ \A k \in CSigners : cCounter[k] <= 2 * Len(cLog)
    /\ Used /\ LoggedOnce

(* The empty trie.                                                         *)
LEMMA ContractsBegin == CInit => CInv
<1> SUFFICES ASSUME CInit PROVE CInv
    OBVIOUS
<1>1. /\ cInst = << >> /\ cEntries = << >> /\ cLatest = NoKey /\ cLog = << >> /\ cIndex = 0 /\ cMinted = 0
      /\ cCounter \in [CSigners -> Nat] /\ cExecuted \in [CDeferreds -> Nat]
      /\ \A k \in CSigners : cCounter[k] = 0
      /\ \A x \in CDeferreds : cExecuted[x] = 0
    BY DEF CInit
<1> DEFINE e == << >>
<1>2. DOMAIN e = {} /\ e = [i \in {} |-> e[i]]
    OBVIOUS
<1>3. e \in Insts /\ e \in Entries
    <2>1. e \in Insts
        <3> HIDE DEF e
        <3> QED  BY <1>2, IsInsts
    <2>2. e \in [{} -> Entry] /\ {} \in SUBSET NameKeys
        OBVIOUS
    <2>3. e \in Entries
        <3> HIDE DEF e
        <3> QED  BY <2>2, IsEntries
    <2> QED  BY <2>1, <2>3
<1> HIDE DEF e
<1>4. SumOver(e, CCoins \intersect DOMAIN e) = 0
    <2>1. CCoins \intersect DOMAIN e = {} /\ IsFiniteSet({})
        BY <1>2, FS_EmptySet
    <2>2. SumOver(e, {}) = 0
        BY <2>1, Sums
    <2> QED  BY <2>1, <2>2
<1>5. State.inst = e /\ State.entries = e /\ State.latest = NoKey /\ State.coins = 0 /\ State.minted = 0
      /\ State.executed = cExecuted /\ State \in States
    <2>1. cInst = e /\ cEntries = e
        BY <1>1 DEF e
    <2> QED  BY <1>1, <1>3, <2>1 DEF State, States
<1>6. FundsOK(e, 0, 0) /\ DeferredOK(e, cExecuted) /\ NamesOK(e, NoKey)
    BY <1>1, <1>2, <1>4 DEF FundsOK, DeferredOK, NamesOK, Closed
<1>7. State \in GoodStates
    BY <1>5, <1>6, IsGood
<1>8. cLog \in Seq(TxsOf) /\ Len(cLog) = 0 /\ DOMAIN cLog = {}
    BY <1>1
<1>9. Used /\ LoggedOnce
    BY <1>8 DEF Used, LoggedOnce
<1> QED  BY <1>1, <1>7, <1>8, <1>9, ContractsAssumption DEF CInv

(* Clients propose transactions of one or two instructions.                *)
LEMMA ProposalsSigned ==
    ASSUME CInv, NEW p \in Proposals
    PROVE  Signed(p) \in TxsOf
<1>1. cCounter \in [CSigners -> Nat]
    BY GoodAre DEF CInv, State
<1>2. PICK n \in 1 .. 2 : p \in [1 .. n -> Instructions]
    <2>1. CASE \E i \in ValueInstrs \union CoinInstrs \union DeferredInstrs \union NameInstrs : p = <<i>>
        BY <2>1 DEF Instructions
    <2>2. CASE \E i, j \in CoinInstrs : p = <<i, j>>
        BY <2>2 DEF Instructions
    <2> QED  BY <2>1, <2>2 DEF Proposals
<1>3. \A in \in Instructions : in.ids \in SUBSET CSigners
    BY CoinShapes, ValueShapes, DeferredShapes, NameShapes DEF Instructions
<1>4. ASSUME NEW i \in 1 .. n, NEW k \in p[i].ids
      PROVE  cCounter[k] + Cardinality({j \in 1 .. i : k \in p[j].ids}) \in Nat
    <2>1. IsFiniteSet(1 .. i) /\ {j \in 1 .. i : k \in p[j].ids} \subseteq 1 .. i
        BY FS_Interval
    <2>2. Cardinality({j \in 1 .. i : k \in p[j].ids}) \in Nat
        BY <2>1, FS_Subset, FS_CardinalityType
    <2>3. cCounter[k] \in Nat
        BY <1>1, <1>2, <1>3
    <2> QED  BY <2>2, <2>3
<1> DEFINE c(i) == [k \in p[i].ids |-> cCounter[k] + Cardinality({j \in 1 .. i : k \in p[j].ids})]
           s(i) == [instr |-> p[i], counters |-> c(i)]
<1>5. ASSUME NEW i \in 1 .. n PROVE s(i) \in SignedInstrs
    <2>1. p[i] \in Instructions /\ p[i].ids \in SUBSET CSigners
        BY <1>2, <1>3
    <2>2. c(i) \in [p[i].ids -> Nat] /\ DOMAIN c(i) = p[i].ids
        BY <1>4
    <2> HIDE DEF c
    <2>3. c(i) \in UNION {[D -> Nat] : D \in SUBSET CSigners}
        BY <2>1, <2>2, Zenon
    <2> QED  BY <2>1, <2>2, <2>3 DEF SignedInstrs
<1>6. DOMAIN p = 1 .. n
    BY <1>2
<1>7. Signed(p) = [i \in 1 .. n |-> s(i)]
    BY <1>6 DEF Signed
<1> HIDE DEF s
<1>8. Signed(p) \in [1 .. n -> SignedInstrs]
    BY <1>5, <1>7
<1> QED  BY <1>8, Zenon DEF TxsOf

(* A transaction is executed: a new one, or one that was executed before.  *)
LEMMA Delivers ==
    ASSUME CInv, NEW tx \in TxsOf, Deliver(tx)
    PROVE  CInv' /\ EntriesKept(cEntries, cEntries')
<1>1. State \in GoodStates /\ cIndex \in Nat /\ cLog \in Seq(TxsOf)
    BY ContractsAssumption DEF CInv
<1>2. PICK last \in GoodStates : Done(tx, Len(tx), last) /\ processOneTx(tx) = [last EXCEPT !.minted = @ - last.coins]
    BY <1>1, ProcessesTx
<1> DEFINE end == [last EXCEPT !.minted = last.minted - last.coins]
<1>3. /\ last \in States /\ last.inst \in Insts /\ last.entries \in Entries /\ last.latest \in NameKeys \union {NoKey}
      /\ last.counter \in [CSigners -> Nat] /\ last.minted \in Int /\ last.executed \in [CDeferreds -> Nat]
      /\ last.coins \in Nat
      /\ FundsOK(last.inst, last.coins, last.minted) /\ DeferredOK(last.inst, last.executed)
      /\ NamesOK(last.entries, last.latest)
    BY GoodAre
<1>4. /\ end.inst = last.inst /\ end.entries = last.entries /\ end.latest = last.latest /\ end.counter = last.counter
      /\ end.minted = last.minted - last.coins /\ end.executed = last.executed /\ end.ok = last.ok
    BY <1>3 DEF States
<1>5. processOneTx(tx) = end
    BY <1>2
<1> HIDE DEF end
<1>6. /\ cInst' = last.inst /\ cEntries' = last.entries /\ cLatest' = last.latest /\ cCounter' = last.counter
      /\ cMinted' = last.minted - last.coins /\ cExecuted' = last.executed /\ last.ok
      /\ cLog' = Append(cLog, tx) /\ Len(cLog) < CMaxTx /\ cIndex' = cIndex
    BY <1>4, <1>5 DEF Deliver
<1>7. State' \in GoodStates
    <2> DEFINE new == State'
    <2>1. /\ new \in States /\ new.inst = last.inst /\ new.entries = last.entries /\ new.latest = last.latest
          /\ new.coins = 0 /\ new.minted = last.minted - last.coins /\ new.executed = last.executed
        BY <1>3, <1>6 DEF State, States
    <2>2. FundsOK(last.inst, 0, last.minted - last.coins)
        <3> DEFINE a == SumOver(last.inst, CCoins \intersect DOMAIN last.inst)
        <3>1. a \in Int
            BY <1>3, CoinsAre DEF CoinsOf
        <3>2. a + last.coins = last.minted
            BY <1>3 DEF FundsOK
        <3> HIDE DEF a
        <3>3. a + 0 = last.minted - last.coins
            BY <1>3, <3>1, <3>2
        <3> QED  BY <3>3 DEF a, FundsOK
    <2> HIDE DEF new
    <2>3. FundsOK(new.inst, new.coins, new.minted) /\ DeferredOK(new.inst, new.executed) /\ NamesOK(new.entries, new.latest)
        BY <1>3, <2>1, <2>2
    <2>4. new \in GoodStates
        BY <2>1, <2>3, IsGood
    <2> QED  BY <2>4 DEF new
<1>8. cCounter \in [CSigners -> Nat] /\ Len(cLog) \in Nat /\ \A k \in CSigners : cCounter[k] <= 2 * Len(cLog)
    BY <1>1, GoodAre DEF State, CInv
<1>9. /\ cLog' \in Seq(TxsOf) /\ Len(cLog') = Len(cLog) + 1 /\ cLog'[Len(cLog) + 1] = tx
      /\ \A i \in DOMAIN cLog : i \in DOMAIN cLog' /\ i \in 1 .. Len(cLog) /\ cLog'[i] = cLog[i]
      /\ \A i \in DOMAIN cLog' : i \in DOMAIN cLog \/ i = Len(cLog) + 1
    BY <1>1, <1>6
<1>10. /\ \A k \in CSigners : cCounter[k] <= last.counter[k] /\ last.counter[k] <= cCounter[k] + Len(tx)
       /\ EntriesKept(cEntries, last.entries)
       /\ \A j \in 1 .. Len(tx) : Counted(tx[j]) =>
              /\ tx[j].instr.ids # {}
              /\ \A k \in tx[j].instr.ids : cCounter[k] < tx[j].counters[k] /\ tx[j].counters[k] <= last.counter[k]
    BY <1>2, <1>6 DEF Done
<1>11. \A k \in CSigners : cCounter'[k] <= 2 * Len(cLog')
    <2> DEFINE n == Len(cLog)
               m == Len(tx)
    <2>1. m \in 1 .. 2 /\ n \in Nat /\ Len(cLog') = n + 1
        BY <1>8, <1>9, TxAre
    <2> SUFFICES ASSUME NEW k \in CSigners PROVE cCounter'[k] <= 2 * Len(cLog')
        OBVIOUS
    <2>2. /\ cCounter'[k] <= cCounter[k] + m /\ cCounter[k] <= 2 * n
          /\ cCounter'[k] \in Nat /\ cCounter[k] \in Nat
        BY <1>3, <1>6, <1>8, <1>10
    <2> HIDE DEF n, m
    <2>3. cCounter'[k] <= 2 * (n + 1)
        BY <2>1, <2>2
    <2> QED  BY <2>1, <2>3
<1>12. Used'
    <2> SUFFICES ASSUME NEW i \in DOMAIN cLog', NEW j \in DOMAIN cLog'[i], Counted(cLog'[i][j])
                 PROVE  /\ cLog'[i][j].instr.ids # {}
                        /\ \A k \in cLog'[i][j].instr.ids : cLog'[i][j].counters[k] <= cCounter'[k]
        BY Zenon DEF Used, Counted
    <2>1. CASE i \in DOMAIN cLog
        <3>1. cLog'[i] = cLog[i] /\ cLog[i] \in TxsOf
            BY <1>1, <1>9, <2>1
        <3> DEFINE s == cLog[i][j]
        <3>2. s \in SignedInstrs
            BY <3>1, TxAre
        <3>3. s.instr.ids # {} /\ \A k \in s.instr.ids : s.counters[k] <= cCounter[k]
            BY <2>1, <3>1 DEF Used, CInv
        <3>4. \A k \in s.instr.ids : k \in CSigners /\ s.counters[k] \in Nat
            BY <3>2, SignedAre
        <3> HIDE DEF s
        <3>5. \A k \in s.instr.ids : s.counters[k] <= cCounter'[k]
            BY <1>3, <1>6, <1>8, <1>10, <3>3, <3>4
        <3> QED  BY <3>1, <3>3, <3>5 DEF s
    <2>2. CASE i = Len(cLog) + 1
        <3>1. cLog'[i] = tx /\ j \in 1 .. Len(tx)
            BY <1>9, <2>2, TxAre
        <3> QED  BY <1>6, <1>10, <3>1
    <2> QED  BY <1>9, <2>1, <2>2
<1>13. ASSUME NEW i \in DOMAIN cLog, cLog[i] = tx, NEW n \in DOMAIN tx PROVE ~Counted(tx[n])
    <2> SUFFICES ASSUME Counted(tx[n]) PROVE FALSE
        OBVIOUS
    <2>1. n \in 1 .. Len(tx) /\ tx[n] \in SignedInstrs
        BY TxAre
    <2>2. PICK k \in tx[n].instr.ids : TRUE
        BY <1>10, <2>1
    <2>3. k \in CSigners /\ tx[n].counters[k] \in Nat
        BY <2>1, SignedAre
    <2>4. cCounter[k] < tx[n].counters[k]
        BY <1>10, <2>1
    <2>5. tx[n].counters[k] <= cCounter[k]
        BY <1>13 DEF Used, CInv
    <2> QED  BY <1>8, <2>3, <2>4, <2>5
<1>14. LoggedOnce'
    <2> SUFFICES ASSUME NEW i \in DOMAIN cLog', NEW j \in DOMAIN cLog', cLog'[i] = cLog'[j], i # j,
                        NEW n \in DOMAIN cLog'[i]
                 PROVE  ~Counted(cLog'[i][n])
        BY Zenon DEF LoggedOnce, Counted
    <2>1. CASE i \in DOMAIN cLog /\ j \in DOMAIN cLog
        BY <1>9, <2>1 DEF LoggedOnce, CInv
    <2>2. CASE i \in DOMAIN cLog /\ j = Len(cLog) + 1
        BY <1>9, <1>13, <2>2
    <2>3. CASE i = Len(cLog) + 1 /\ j \in DOMAIN cLog
        BY <1>9, <1>13, <2>3
    <2> QED  BY <1>9, <2>1, <2>2, <2>3
<1>15. Len(cLog') <= CMaxTx /\ cIndex' \in 0 .. CMaxIndex
    BY <1>6, <1>8, <1>9, ContractsAssumption DEF CInv
<1> QED  BY <1>6, <1>7, <1>9, <1>10, <1>11, <1>12, <1>14, <1>15 DEF CInv

LEMMA ContractsStep ==
    ASSUME CInv, CNext
    PROVE  CInv' /\ EntriesKept(cEntries, cEntries')
<1>1. ASSUME NEW p \in Proposals, Deliver(Signed(p)) PROVE CInv' /\ EntriesKept(cEntries, cEntries')
    BY <1>1, ProposalsSigned, Delivers
<1>2. ASSUME NEW tx \in ToSet(cLog), Deliver(tx) PROVE CInv' /\ EntriesKept(cEntries, cEntries')
    <2>1. tx \in TxsOf
        BY DEF CInv, ToSet
    <2> QED  BY <1>2, <2>1, Delivers
<1>3. ASSUME NewBlock PROVE CInv' /\ EntriesKept(cEntries, cEntries')
    <2>1. UNCHANGED <<cInst, cEntries, cLatest, cCounter, cLog, cMinted, cExecuted>> /\ cIndex' \in 0 .. CMaxIndex
        BY <1>3, ContractsAssumption DEF NewBlock, CInv
    <2>2. State' = State /\ Used' = Used /\ LoggedOnce' = LoggedOnce
        BY <2>1 DEF State, Used, LoggedOnce
    <2> QED  BY <2>1, <2>2 DEF CInv, EntriesKept
<1> QED  BY <1>1, <1>2, <1>3 DEF CNext
LEMMA ContractsStutter ==
    ASSUME CInv, UNCHANGED cVars
    PROVE  CInv'
<1>1. State' = State /\ Used' = Used /\ LoggedOnce' = LoggedOnce
    BY DEF State, Used, LoggedOnce, cVars
<1> QED  BY <1>1 DEF CInv, cVars

(* The invariant says what the runs check.                                 *)
LEMMA ContractsHold ==
    ASSUME CInv
    PROVE  CTypeOK /\ CoinsConserved /\ AppliedOnce /\ NamesListed
<1>1. /\ cInst \in Insts /\ cEntries \in Entries /\ cCounter \in [CSigners -> Nat] /\ cMinted \in Int
      /\ FundsOK(cInst, 0, cMinted) /\ DeferredOK(cInst, cExecuted) /\ NamesOK(cEntries, cLatest)
    BY GoodAre DEF CInv, State
<1>2. CTypeOK
    <2>1. DOMAIN cInst \subseteq CInstances /\ DOMAIN cEntries \subseteq NameKeys
        BY <1>1, InstsAre, EntriesAre
    <2>2. /\ \A c \in CCoins \intersect DOMAIN cInst : cInst[c] \in 0 .. CMaxCoin
          /\ \A v \in CValues \intersect DOMAIN cInst : cInst[v] \in 0 .. 1
          /\ \A x \in CDeferreds \intersect DOMAIN cInst : cInst[x] \in Deferred
        BY <1>1, InstsAre, Kinds
    <2>3. \A x \in CDeferreds \intersect DOMAIN cInst : cInst[x].max \in 0 .. 1
        BY <2>2 DEF Deferred
    <2>4. cCounter \in [CSigners -> 0 .. 2 * CMaxTx]
        <3>1. \A k \in CSigners : cCounter[k] \in 0 .. 2 * CMaxTx
            BY <1>1, ContractsAssumption DEF CInv
        <3> QED  BY <1>1, <3>1
    <2> QED  BY <2>1, <2>2, <2>3, <2>4 DEF CTypeOK, CInv
<1>3. CoinsConserved
    <2> DEFINE D == CCoins \intersect DOMAIN cInst
    <2>1. MapThenSumSet(LAMBDA c : cInst[c], D) = SumOver(cInst, D)
        BY MapThenSumIsSum
    <2>2. SumOver(cInst, D) = cMinted
        <3>1. SumOver(cInst, D) \in Int
            BY <1>1, CoinsAre DEF CoinsOf
        <3> QED  BY <1>1, <3>1 DEF FundsOK
    <2> QED  BY <2>1, <2>2 DEF CoinsConserved
<1>4. AppliedOnce
    <2>1. ASSUME NEW x \in CDeferreds PROVE cExecuted[x] <= 1
        <3>1. cExecuted[x] = IF x \in DOMAIN cInst THEN 1 - cInst[x].max ELSE 0
            BY <1>1 DEF DeferredOK
        <3>2. x \in DOMAIN cInst => cInst[x].max \in 0 .. 1
            BY <1>2 DEF CTypeOK
        <3> QED  BY <3>1, <3>2
    <2>2. ASSUME NEW i \in DOMAIN cLog, NEW j \in DOMAIN cLog, cLog[i] = cLog[j], i # j, NEW s \in ToSet(cLog[i])
          PROVE  s.instr.op = "deleteDeferred"
        BY <2>2 DEF CInv, LoggedOnce, Counted, ToSet
    <2> QED  BY <2>1, <2>2 DEF AppliedOnce
<1>5. NamesListed
    BY <1>1 DEF NamesListed, NamesOK, Followed, Closed
<1> QED  BY <1>2, <1>3, <1>4, <1>5

-----------------------------------------------------------------------------
(* The caches.  The cached configuration is never out of date, for any     *)
(* number of readers, darcs and writes, although the two locks are taken   *)
(* in both orders and the writer does not hold the lock of the cache while *)
(* it writes.                                                              *)

WriterPlaces == {"idle", "invalidate", "write"}
Places == WriterPlaces \union {"readConfig", "readDarc", "config", "configRead", "known", "panic"}

\* The types that the argument needs.
CacheTypes ==
    /\ tcStore \in [TcKeys -> Nat] /\ tcWrites \in Nat
    /\ tcAt \in [TcReaders \union {TcWriter} -> Places]
    /\ tcAt[TcWriter] \in WriterPlaces
    /\ tcConfig \in Nat \union {NilConfig}
\* Whoever reads the trie does so while the writer is not between its two ends.
WriterHoldsLock == tcAt[TcWriter] # "idle" => tcLockT = TcWriter
\* From the invalidation on nothing can have filled the cache again.
EmptyWhileWriting == tcAt[TcWriter] = "write" => tcConfig = NilConfig
CacheInv == CacheTypes /\ WriterHoldsLock /\ EmptyWhileWriting /\ CachedConfigFresh

(* No configuration is cached when a chain is loaded.                      *)
LEMMA CacheInvInit == TcInit => CacheInv
<1> SUFFICES ASSUME TcInit PROVE CacheInv
  OBVIOUS
<1>1. tcAt[TcWriter] = "idle" /\ tcAt \in [TcReaders \union {TcWriter} -> Places]
  BY DEF TcInit, Places, WriterPlaces
<1>2. tcStore \in [TcKeys -> Nat] /\ tcWrites \in Nat /\ tcConfig = NilConfig
  BY DEF TcInit
<1>3. QED
  BY <1>1, <1>2 DEF CacheInv, CacheTypes, WriterPlaces, WriterHoldsLock, EmptyWhileWriting, CachedConfigFresh

(* A load, which fills the cache only when it finds the trie unlocked.     *)
LEMMA LoadKeeps ==
    ASSUME CacheInv, NEW p \in TcReaders, NEW start \in Places, NEW read \in Places, NEW next \in Places,
           loadConfigFromTrie(p, start, read, next)
    PROVE  CacheInv'
<1>1. /\ p # TcWriter
      /\ \/ tcAt' = [tcAt EXCEPT ![p] = next]
         \/ tcAt' = [tcAt EXCEPT ![p] = read]
      /\ UNCHANGED <<tcStore, tcLockT, tcWrites>>
  BY TrieCacheAssumption DEF loadConfigFromTrie, Goto
<1>2. tcAt' \in [TcReaders \union {TcWriter} -> Places] /\ tcAt'[TcWriter] = tcAt[TcWriter]
  BY <1>1, TrieCacheAssumption DEF CacheInv, CacheTypes
<1>3. UNCHANGED tcConfig \/ (tcLockT = Nobody /\ tcConfig' = tcStore["config"])
  BY DEF loadConfigFromTrie
<1>4. CASE UNCHANGED tcConfig
  BY <1>1, <1>2, <1>4 DEF CacheInv, CacheTypes, WriterHoldsLock, EmptyWhileWriting, CachedConfigFresh
<1>5. CASE tcLockT = Nobody /\ tcConfig' = tcStore["config"]
  <2>1. tcAt[TcWriter] = "idle"
    BY <1>5, TrieCacheAssumption DEF CacheInv, WriterHoldsLock
  <2>2. tcStore["config"] \in Nat
    BY DEF CacheInv, CacheTypes, TcKeys
  <2>3. QED
    BY <1>1, <1>2, <1>5, <2>1, <2>2 DEF CacheInv, CacheTypes, WriterHoldsLock, EmptyWhileWriting, CachedConfigFresh
<1>6. QED
  BY <1>3, <1>4, <1>5

(* Steps of a reader that leave the trie, its lock and the configuration   *)
(* as they are.                                                            *)
LEMMA ReaderKeeps ==
    ASSUME CacheInv, NEW p \in TcReaders, NEW place \in Places,
           tcAt' = [tcAt EXCEPT ![p] = place], UNCHANGED <<tcStore, tcLockT, tcConfig, tcWrites>>
    PROVE  CacheInv'
<1>1. p # TcWriter
  BY TrieCacheAssumption
<1>2. tcAt' \in [TcReaders \union {TcWriter} -> Places] /\ tcAt'[TcWriter] = tcAt[TcWriter]
  BY <1>1 DEF CacheInv, CacheTypes
<1>3. QED
  BY <1>2 DEF CacheInv, CacheTypes, WriterHoldsLock, EmptyWhileWriting, CachedConfigFresh

(* The invariant is inductive.                                             *)
LEMMA CacheInvNext == CacheInv /\ [TcNext]_tcVars => CacheInv'
<1> SUFFICES ASSUME CacheInv, [TcNext]_tcVars PROVE CacheInv'
  OBVIOUS
<1>1. ASSUME NEW p \in TcReaders, LoadConfig(p) PROVE CacheInv'
  BY <1>1, LoadKeeps DEF LoadConfig, Places, WriterPlaces
<1>2. ASSUME NEW p \in TcReaders, ReadDarc(p) PROVE CacheInv'
  BY <1>2, ReaderKeeps DEF ReadDarc, Goto, Places, WriterPlaces
<1>3. ASSUME NEW p \in TcReaders, ConfigForDarc(p) PROVE CacheInv'
  BY <1>3, LoadKeeps DEF ConfigForDarc, Places, WriterPlaces
<1>4. ASSUME NEW p \in TcReaders, NEW d \in TcDarcs, LoadDarc(p, d) PROVE CacheInv'
  BY <1>4, ReaderKeeps DEF LoadDarc, Goto, Places, WriterPlaces
<1>5. ASSUME NEW p \in TcReaders, NEW known \in BOOLEAN, CacheDarc(p, known) PROVE CacheInv'
  <2>1. tcAt' = [tcAt EXCEPT ![p] = "idle"] \/ tcAt' = [tcAt EXCEPT ![p] = "panic"]
    BY <1>5 DEF CacheDarc, Goto
  <2>2. UNCHANGED <<tcStore, tcLockT, tcConfig, tcWrites>>
    BY <1>5 DEF CacheDarc
  <2>3. QED
    BY <2>1, <2>2, ReaderKeeps DEF Places, WriterPlaces
<1>6. CASE StoreBegin
  <2>1. tcAt' \in [TcReaders \union {TcWriter} -> Places] /\ tcAt'[TcWriter] = "invalidate"
    BY <1>6 DEF StoreBegin, Goto, CacheInv, CacheTypes, Places, WriterPlaces
  <2>2. QED
    BY <1>6, <2>1 DEF StoreBegin, CacheInv, CacheTypes, WriterPlaces, WriterHoldsLock, EmptyWhileWriting, CachedConfigFresh
<1>7. CASE invalidate
  <2>1. tcAt' \in [TcReaders \union {TcWriter} -> Places] /\ tcAt'[TcWriter] = "write"
    BY <1>7 DEF invalidate, Goto, CacheInv, CacheTypes, Places, WriterPlaces
  <2>2. tcLockT = TcWriter
    BY <1>7 DEF invalidate, At, CacheInv, WriterHoldsLock
  <2>3. QED
    BY <1>7, <2>1, <2>2 DEF invalidate, Forget, CacheInv, CacheTypes, WriterPlaces, WriterHoldsLock,
       EmptyWhileWriting, CachedConfigFresh
<1>8. ASSUME NEW keys \in SUBSET TcKeys, NEW rootOK \in BOOLEAN, StoreEnd(keys, rootOK) PROVE CacheInv'
  <2>1. tcAt' \in [TcReaders \union {TcWriter} -> Places] /\ tcAt'[TcWriter] = "idle"
    BY <1>8 DEF StoreEnd, Goto, CacheInv, CacheTypes, Places, WriterPlaces
  <2>2. tcConfig' = NilConfig
    BY <1>8 DEF StoreEnd, At, CacheInv, EmptyWhileWriting
  <2>3. tcWrites' \in Nat /\ tcStore' \in [TcKeys -> Nat]
    BY <1>8 DEF StoreEnd, CacheInv, CacheTypes
  <2>4. QED
    BY <2>1, <2>2, <2>3 DEF CacheInv, CacheTypes, WriterPlaces, WriterHoldsLock, EmptyWhileWriting, CachedConfigFresh
<1>9. CASE UNCHANGED tcVars
  BY <1>9 DEF tcVars, CacheInv, CacheTypes, WriterHoldsLock, EmptyWhileWriting, CachedConfigFresh
<1>10. QED
  BY <1>1, <1>2, <1>3, <1>4, <1>5, <1>6, <1>7, <1>8, <1>9 DEF TcNext

\* A writer that has begun can still count its write.
TcInv == TcTypeOK /\ (tcAt[TcWriter] # "idle" => tcWrites < TcMaxWrites)

(* Types of the caches, with the count of writes.                          *)
LEMMA CacheTypesInit == TcInit => TcInv
<1> SUFFICES ASSUME TcInit PROVE TcInv
    OBVIOUS
<1>1. tcAt[TcWriter] = "idle"
    BY DEF TcInit
<1> QED  BY <1>1, TrieCacheAssumption DEF TcInit, TcInv, TcTypeOK
LEMMA CacheTypesNext ==
    ASSUME CacheInv, TcInv, [TcNext]_tcVars
    PROVE  TcInv'
<1>1. tcAt \in [TcReaders \union {TcWriter} -> Places] /\ TcWriter \notin TcReaders
    BY TrieCacheAssumption DEF CacheInv, CacheTypes
<1>2. ASSUME NEW p \in TcReaders, NEW place, Goto(p, place) PROVE tcAt'[TcWriter] = tcAt[TcWriter]
    BY <1>1, <1>2 DEF Goto
<1>3. ASSUME NEW p \in TcReaders, NEW start, NEW read, NEW next, loadConfigFromTrie(p, start, read, next)
      PROVE  TcInv'
    <2>1. tcAt'[TcWriter] = tcAt[TcWriter] /\ UNCHANGED <<tcStore, tcLockT, tcWrites>>
        BY <1>2, <1>3 DEF loadConfigFromTrie
    <2>2. tcLockC' \in {Nobody} \union TcReaders
        BY <1>3 DEF loadConfigFromTrie, TcInv, TcTypeOK
    <2>3. tcConfig' \in {NilConfig} \union 0 .. TcMaxWrites
        <3>1. tcStore["config"] \in 0 .. TcMaxWrites
            BY DEF TcInv, TcTypeOK, TcKeys
        <3>2. tcConfig' = tcConfig \/ tcConfig' = tcStore["config"]
            BY <1>3 DEF loadConfigFromTrie
        <3> QED  BY <3>1, <3>2 DEF TcInv, TcTypeOK
    <2> QED  BY <2>1, <2>2, <2>3 DEF TcInv, TcTypeOK
<1>4. ASSUME NEW p \in TcReaders, ReadDarc(p) PROVE TcInv'
    <2>1. tcAt'[TcWriter] = tcAt[TcWriter]
        BY <1>2, <1>4 DEF ReadDarc
    <2> QED  BY <1>4, <2>1 DEF ReadDarc, TcInv, TcTypeOK
<1>5. ASSUME NEW p \in TcReaders, NEW d \in TcDarcs, LoadDarc(p, d) PROVE TcInv'
    <2>1. tcAt'[TcWriter] = tcAt[TcWriter]
        BY <1>2, <1>5 DEF LoadDarc
    <2> QED  BY <1>5, <2>1 DEF LoadDarc, TcInv, TcTypeOK
<1>6. ASSUME NEW p \in TcReaders, NEW known \in BOOLEAN, CacheDarc(p, known) PROVE TcInv'
    <2>1. tcAt'[TcWriter] = tcAt[TcWriter]
        BY <1>2, <1>6 DEF CacheDarc
    <2> QED  BY <1>6, <2>1 DEF CacheDarc, TcInv, TcTypeOK
<1>7. CASE StoreBegin
    <2>1. tcAt' = [tcAt EXCEPT ![TcWriter] = "invalidate"] /\ tcWrites < TcMaxWrites /\ tcLockT' = TcWriter
          /\ UNCHANGED <<tcStore, tcLockC, tcConfig, tcWrites>>
        BY <1>7 DEF StoreBegin, Goto
    <2> QED  BY <2>1 DEF TcInv, TcTypeOK
<1>8. CASE invalidate
    <2>1. /\ tcConfig' = NilConfig /\ UNCHANGED <<tcStore, tcLockT, tcLockC, tcWrites>> /\ tcWrites < TcMaxWrites
        BY <1>8 DEF invalidate, Forget, At, TcInv
    <2> QED  BY <2>1 DEF TcInv, TcTypeOK
<1>9. ASSUME NEW keys \in SUBSET TcKeys, NEW rootOK \in BOOLEAN, StoreEnd(keys, rootOK) PROVE TcInv'
    <2>1. tcWrites' = tcWrites + 1 /\ tcWrites < TcMaxWrites /\ tcLockT' = Nobody /\ UNCHANGED <<tcLockC, tcConfig>>
        BY <1>9 DEF StoreEnd, At, TcInv
    <2>2. tcAt'[TcWriter] = "idle"
        BY <1>1, <1>9 DEF StoreEnd, Goto
    <2>3. tcWrites' \in 0 .. TcMaxWrites
        BY <2>1, TrieCacheAssumption DEF TcInv, TcTypeOK
    <2>4. tcStore' \in [TcKeys -> 0 .. TcMaxWrites]
        BY <1>9, <2>3 DEF StoreEnd, TcInv, TcTypeOK
    <2> QED  BY <2>1, <2>2, <2>3, <2>4 DEF TcInv, TcTypeOK
<1>10. CASE UNCHANGED tcVars
    BY <1>10 DEF tcVars, TcInv, TcTypeOK
<1> QED  BY <1>3, <1>4, <1>5, <1>6, <1>7, <1>8, <1>9, <1>10 DEF TcNext, LoadConfig, ConfigForDarc

-----------------------------------------------------------------------------
(* The execution of blocks.                                                *)

Tries == [counters : [ExSigners -> Nat], clock : ExTimes \union {0}]
Runs == [ok : BOOLEAN, st : Tries]
\* One transaction, instruction by instruction.
RunsTx(a, st, tx, time) ==
    /\ a \in [0 .. Len(tx) -> Runs] /\ a[0] = [ok |-> TRUE, st |-> st]
    /\ \A i \in 1 .. Len(tx) : a[i] = ExecuteInstruction(a[i - 1], tx[i], time)
LEMMA TxsAre ==
    ASSUME NEW tx \in ExTxs
    PROVE  /\ Len(tx) \in Nat /\ Len(tx) >= 1 /\ DOMAIN tx = 1 .. Len(tx)
           /\ \A i \in 1 .. Len(tx) : tx[i].who \in ExSigners /\ tx[i].n \in Nat /\ tx[i].timed \in BOOLEAN
<1> DEFINE R == [who : ExSigners, n : Nat, timed : BOOLEAN]
<1>1. tx \in Seq(R) /\ tx # << >>
    BY ExecutionAssumption
<1>2. \A x \in R : x.who \in ExSigners /\ x.n \in Nat /\ x.timed \in BOOLEAN
    OBVIOUS
<1> HIDE DEF R
<1>3. Len(tx) \in Nat /\ Len(tx) >= 1 /\ DOMAIN tx = 1 .. Len(tx) /\ \A i \in 1 .. Len(tx) : tx[i] \in R
    BY <1>1
<1> QED  BY <1>2, <1>3
\* What one instruction does.
LEMMA InstructionDoes ==
    ASSUME NEW r \in Runs, NEW who \in ExSigners, NEW in, in.who = who, in.n \in Nat, in.timed \in BOOLEAN,
           NEW time \in ExTimes, NEW new, new = ExecuteInstruction(r, in, time)
    PROVE  /\ new \in Runs /\ (new.ok => r.ok)
           /\ \A s \in ExSigners : r.st.counters[s] <= new.st.counters[s]
           /\ new.ok => in.n = r.st.counters[who] + 1 /\ new.st.counters[who] = in.n
           /\ new.st.clock \in {r.st.clock, time} /\ (new.ok /\ in.timed => new.st.clock = time)
           /\ ~in.timed => new.st.clock = r.st.clock
<1> DEFINE fails == ~r.ok \/ in.n # r.st.counters[in.who] + 1
           c == [r.st.counters EXCEPT ![in.who] = in.n]
           k == IF in.timed THEN time ELSE r.st.clock
           t == [r.st EXCEPT !.counters = c, !.clock = k]
<1>1. r.ok \in BOOLEAN /\ r.st \in Tries
    BY DEF Runs
<1>2. r.st.counters \in [ExSigners -> Nat] /\ r.st.clock \in ExTimes \union {0}
    BY <1>1 DEF Tries
<1>3. CASE fails
    <2>1. new = [r EXCEPT !.ok = FALSE]
        BY <1>3 DEF ExecuteInstruction
    <2>2. new \in Runs /\ new.ok = FALSE /\ new.st = r.st
        BY <2>1 DEF Runs
    <2> QED  BY <1>2, <2>2
<1>4. CASE ~fails
    <2>1. new = [r EXCEPT !.st = t]
        BY <1>4 DEF ExecuteInstruction
    <2>2. c \in [ExSigners -> Nat] /\ c[who] = in.n /\ in.n = r.st.counters[who] + 1
          /\ \A s \in ExSigners : r.st.counters[s] <= c[s]
        BY <1>2, <1>4
    <2>3. k \in ExTimes \union {0} /\ k \in {r.st.clock, time} /\ (in.timed => k = time) /\ (~in.timed => k = r.st.clock)
        BY <1>2
    <2> HIDE DEF c, k
    <2>4. t \in Tries /\ t.counters = c /\ t.clock = k
        BY <1>1, <2>2, <2>3 DEF Tries
    <2> HIDE DEF t
    <2>5. new \in Runs /\ new.ok = r.ok /\ new.st = t
        BY <2>1, <2>4 DEF Runs
    <2> QED  BY <1>4, <2>2, <2>3, <2>4, <2>5
<1> QED  BY <1>3, <1>4
LEMMA TxTrace ==
    ASSUME NEW st \in Tries, NEW tx \in ExTxs, NEW time \in ExTimes
    PROVE  \E a : RunsTx(a, st, tx, time) /\ ExecuteAll(st, tx, time) = a[Len(tx)]
<1> DEFINE n == Len(tx)
           b == [ok |-> TRUE, st |-> st]
           step(r, i) == ExecuteInstruction(r, tx[i], time)
           Is(a) == a = [i \in 0 .. n |-> IF i = 0 THEN b ELSE step(a[i - 1], i)]
           after == CHOOSE a : Is(a)
           F == [i \in 1 .. n |-> [r \in Runs |-> step(r, i)]]
<1>1. n \in Nat /\ b \in Runs
    BY TxsAre DEF Runs
<1>2. ASSUME NEW i \in 1 .. n, NEW r \in Runs PROVE step(r, i) \in Runs
    <2> DEFINE in == tx[i]
               new == ExecuteInstruction(r, in, time)
    <2>1. in.who \in ExSigners /\ in.n \in Nat /\ in.timed \in BOOLEAN
        BY TxsAre
    <2>2. new \in Runs
        <3>1. new = ExecuteInstruction(r, in, time)
            OBVIOUS
        <3> HIDE DEF in, new
        <3> QED  BY <2>1, <3>1, InstructionDoes
    <2> QED  BY <2>2
<1>3. F \in [1 .. n -> [Runs -> Runs]]
    <2> HIDE DEF step
    <2> QED  BY <1>2
<1>4. ExecuteAll(st, tx, time) = after[n]
    BY DEF ExecuteAll
<1> HIDE DEF b, step
<1>5. \E a : Is(a)
    <2>1. PICK a : IsRecursion(a, n, Runs, b, F)
        <3> HIDE DEF F, n
        <3> QED  BY <1>1, <1>3, RecursionExists, Zenon
    <2>2. a \in [0 .. n -> Runs] /\ a[0] = b /\ \A i \in 1 .. n : a[i] = F[i][a[i - 1]]
        BY <2>1 DEF IsRecursion
    <2>3. \A i \in 1 .. n : a[i - 1] \in Runs
        <3> HIDE DEF n, F
        <3> QED  BY <1>1, <2>2
    <2>4. \A i \in 1 .. n : F[i][a[i - 1]] = step(a[i - 1], i)
        <3> HIDE DEF n
        <3> QED  BY <2>3
    <2>5. Is(a)
        <3> HIDE DEF F, n
        <3> QED  BY <1>1, <2>2, <2>4
    <2> QED  BY <2>5
<1>6. Is(after)
    <2> HIDE DEF Is
    <2> QED  BY <1>5, Zenon
<1>7. after[0] = b /\ \A i \in 1 .. n : after[i] = step(after[i - 1], i)
    <2> HIDE DEF after, n
    <2> QED  BY <1>1, <1>6
<1>8. DOMAIN after = 0 .. n /\ after = [i \in 0 .. n |-> after[i]]
    <2> HIDE DEF after, n
    <2> QED  BY <1>6
<1> HIDE DEF after, n
<1>9. \A i \in 0 .. n : after[i] \in Runs
    <2>1. \A i \in 1 .. n : after[i - 1] \in Runs => after[i] = F[i][after[i - 1]]
        BY <1>7
    <2> HIDE DEF F
    <2> QED  BY <1>1, <1>3, <1>7, <2>1, StaysIn
<1>10. after \in [0 .. n -> Runs]
    BY <1>8, <1>9
<1>11. RunsTx(after, st, tx, time)
    BY <1>7, <1>10 DEF RunsTx, n, b, step
<1> QED  BY <1>4, <1>11 DEF n

\* An instruction of the transaction is of the time, the clock is set to it.
HasTimed(tx) == \E i \in DOMAIN tx : tx[i].timed
\* Whoever signed the first instruction has used its counter.
Spent(tx, counters) == tx[1].n <= counters[tx[1].who]
TxDoes(st, tx, time, r) ==
    /\ r \in Runs
    /\ \A s \in ExSigners : st.counters[s] <= r.st.counters[s]
    /\ r.ok => ~Spent(tx, st.counters) /\ Spent(tx, r.st.counters)
    /\ r.st.clock \in {st.clock, time} /\ (r.ok /\ HasTimed(tx) => r.st.clock = time)
LEMMA TxDoesThis ==
    ASSUME NEW st \in Tries, NEW tx \in ExTxs, NEW time \in ExTimes
    PROVE  TxDoes(st, tx, time, ExecuteAll(st, tx, time))
<1>1. PICK a : RunsTx(a, st, tx, time) /\ ExecuteAll(st, tx, time) = a[Len(tx)]
    BY TxTrace
<1> DEFINE n == Len(tx)
<1>2. /\ n \in Nat /\ n >= 1 /\ DOMAIN tx = 1 .. n
      /\ \A i \in 1 .. n : tx[i].who \in ExSigners /\ tx[i].n \in Nat /\ tx[i].timed \in BOOLEAN
    BY TxsAre
<1>3. /\ a \in [0 .. n -> Runs] /\ a[0] = [ok |-> TRUE, st |-> st]
      /\ \A i \in 1 .. n : a[i] = ExecuteInstruction(a[i - 1], tx[i], time)
    BY <1>1 DEF RunsTx
<1> HIDE DEF n
<1>4. \A r \in Runs : \A s \in ExSigners : r.st.counters[s] \in Nat
    BY DEF Runs, Tries
<1>5. st.counters \in [ExSigners -> Nat]
    BY DEF Tries
<1> DEFINE P(i) == /\ \A s \in ExSigners : st.counters[s] <= a[i].st.counters[s]
                   /\ a[i].ok /\ i >= 1 => ~Spent(tx, st.counters) /\ Spent(tx, a[i].st.counters)
                   /\ a[i].st.clock \in {st.clock, time}
                   /\ a[i].ok /\ (\E j \in 1 .. i : tx[j].timed) => a[i].st.clock = time
           S == {i \in Nat : i <= n => P(i)}
<1>6. 0 \in S
    BY <1>3, <1>5
<1>7. ASSUME NEW i \in Nat, i \in S PROVE i + 1 \in S
    <2> SUFFICES ASSUME i + 1 <= n PROVE P(i + 1)
        OBVIOUS
    <2> DEFINE old == a[i]
               new == a[i + 1]
               in == tx[i + 1]
    <2>1. i \in 0 .. n /\ i + 1 \in 1 .. n /\ (i + 1) - 1 = i /\ i <= n
        BY <1>2
    <2>2. /\ old \in Runs /\ new = ExecuteInstruction(old, in, time)
          /\ \A s \in ExSigners : st.counters[s] <= old.st.counters[s]
          /\ old.ok /\ i >= 1 => ~Spent(tx, st.counters) /\ Spent(tx, old.st.counters)
          /\ old.st.clock \in {st.clock, time}
          /\ old.ok /\ (\E j \in 1 .. i : tx[j].timed) => old.st.clock = time
        BY <1>3, <1>7, <2>1
    <2>3. in.who \in ExSigners /\ in.n \in Nat /\ in.timed \in BOOLEAN
        BY <1>2, <2>1
    <2>4. /\ new \in Runs /\ (new.ok => old.ok)
          /\ \A s \in ExSigners : old.st.counters[s] <= new.st.counters[s]
          /\ new.ok => in.n = old.st.counters[in.who] + 1 /\ new.st.counters[in.who] = in.n
          /\ new.st.clock \in {old.st.clock, time} /\ (new.ok /\ in.timed => new.st.clock = time)
        <3> HIDE DEF old, new, in
        <3> QED  BY <2>2, <2>3, InstructionDoes
    <2>10. i = 0 => old = [ok |-> TRUE, st |-> st]
        BY <1>3
    <2> HIDE DEF old, new
    <2>5. /\ \A s \in ExSigners : old.st.counters[s] \in Nat /\ new.st.counters[s] \in Nat /\ st.counters[s] \in Nat
        BY <1>4, <1>5, <2>2, <2>4
    <2>6. \A s \in ExSigners : st.counters[s] <= new.st.counters[s]
        BY <2>2, <2>4, <2>5
    <2>7. ASSUME new.ok PROVE ~Spent(tx, st.counters) /\ Spent(tx, new.st.counters)
        <3>1. CASE i = 0
            <4>1. old = [ok |-> TRUE, st |-> st] /\ in = tx[1]
                BY <2>10, <3>1
            <4>2. tx[1].n = st.counters[tx[1].who] + 1 /\ new.st.counters[tx[1].who] = tx[1].n /\ tx[1].who \in ExSigners
                BY <2>3, <2>4, <2>7, <4>1
            <4> QED  BY <2>5, <4>2 DEF Spent
        <3>2. CASE i # 0
            <4>1. ~Spent(tx, st.counters) /\ Spent(tx, old.st.counters)
                <5>1. i >= 1
                    BY <3>2
                <5>2. old.ok
                    BY <2>4, <2>7, Zenon
                <5> QED  BY <2>2, <5>1, <5>2, Zenon
            <4>2. tx[1].who \in ExSigners /\ tx[1].n \in Nat
                BY <1>2
            <4> QED  BY <2>4, <2>5, <4>1, <4>2 DEF Spent
        <3> QED  BY <3>1, <3>2
    <2>8. new.st.clock \in {st.clock, time}
        BY <2>2, <2>4
    <2>9. ASSUME new.ok, NEW j \in 1 .. i + 1, tx[j].timed PROVE new.st.clock = time
        <3>1. CASE j = i + 1
            BY <2>4, <2>9, <3>1
        <3>2. CASE j # i + 1
            <4>1. j \in 1 .. i
                BY <2>9, <3>2
            <4>2. old.st.clock = time
                <5>1. old.ok
                    BY <2>4, <2>9, Zenon
                <5> QED  BY <2>2, <2>9, <4>1, <5>1, Zenon
            <4> QED  BY <2>4, <4>2
        <3> QED  BY <3>1, <3>2
    <2> QED  BY <2>6, <2>7, <2>8, <2>9 DEF new
<1>8. \A i \in Nat : i \in S
    <2> HIDE DEF S
    <2> QED  BY <1>6, <1>7, NatSteps
<1>9. P(n) /\ a[n] \in Runs
    BY <1>2, <1>3, <1>8
<1>10. HasTimed(tx) => \E j \in 1 .. n : tx[j].timed
    BY <1>2 DEF HasTimed
<1>11. TxDoes(st, tx, time, a[n])
    BY <1>2, <1>9, <1>10 DEF TxDoes
<1> QED  BY <1>1, <1>11 DEF n

\* Without timed instructions the time does not matter.
LEMMA UntimedSame ==
    ASSUME NEW st \in Tries, NEW tx \in ExTxs, ~HasTimed(tx), NEW t \in ExTimes, NEW u \in ExTimes
    PROVE  ExecuteAll(st, tx, t) = ExecuteAll(st, tx, u)
<1>1. PICK a : RunsTx(a, st, tx, t) /\ ExecuteAll(st, tx, t) = a[Len(tx)]
    BY TxTrace
<1>2. PICK b : RunsTx(b, st, tx, u) /\ ExecuteAll(st, tx, u) = b[Len(tx)]
    BY TxTrace
<1> DEFINE n == Len(tx)
           S == {i \in Nat : i <= n => a[i] = b[i]}
<1>3. n \in Nat /\ DOMAIN tx = 1 .. n
    BY TxsAre
<1>4. /\ a[0] = b[0]
      /\ \A i \in 1 .. n : a[i] = ExecuteInstruction(a[i - 1], tx[i], t)
      /\ \A i \in 1 .. n : b[i] = ExecuteInstruction(b[i - 1], tx[i], u)
    BY <1>1, <1>2 DEF RunsTx
<1>5. ASSUME NEW i \in 1 .. n, NEW r PROVE ExecuteInstruction(r, tx[i], t) = ExecuteInstruction(r, tx[i], u)
    <2>1. ~tx[i].timed
        BY <1>3 DEF HasTimed
    <2> QED  BY <2>1 DEF ExecuteInstruction
<1> HIDE DEF n
<1>6. 0 \in S
    BY <1>4
<1>7. ASSUME NEW i \in Nat, i \in S PROVE i + 1 \in S
    <2> SUFFICES ASSUME i + 1 <= n PROVE a[i + 1] = b[i + 1]
        OBVIOUS
    <2>1. i + 1 \in 1 .. n /\ (i + 1) - 1 = i /\ i <= n
        BY <1>3
    <2>2. a[i + 1] = ExecuteInstruction(a[i], tx[i + 1], t) /\ b[i + 1] = ExecuteInstruction(b[i], tx[i + 1], u) /\ a[i] = b[i]
        BY <1>4, <1>7, <2>1
    <2> QED  BY <1>5, <2>1, <2>2
<1>8. \A i \in Nat : i \in S
    <2> HIDE DEF S
    <2> QED  BY <1>6, <1>7, NatSteps
<1> QED  BY <1>1, <1>2, <1>3, <1>8 DEF n

\* A refused transaction leaves nothing.
TxResult(st, tx, time, r) ==
    /\ r \in Runs /\ r.st \in Tries
    /\ \A s \in ExSigners : st.counters[s] <= r.st.counters[s]
    /\ (r.ok => ~Spent(tx, st.counters) /\ Spent(tx, r.st.counters)) /\ (~r.ok => r.st = st)
    /\ r.st.clock \in {st.clock, time} /\ (r.ok /\ HasTimed(tx) => r.st.clock = time)
LEMMA TxResults ==
    ASSUME NEW st \in Tries, NEW tx \in ExTxs, NEW time \in ExTimes
    PROVE  TxResult(st, tx, time, ExecuteTx(st, tx, time))
<1> DEFINE e == ExecuteAll(st, tx, time)
           r == ExecuteTx(st, tx, time)
<1>1. TxDoes(st, tx, time, e)
    BY TxDoesThis
<1>2. r = [ok |-> e.ok, st |-> IF e.ok THEN e.st ELSE st]
    BY DEF ExecuteTx
<1> HIDE DEF e, r
<1>3. e.ok \in BOOLEAN /\ e.st \in Tries
    BY <1>1 DEF TxDoes, Runs
<1>4. \A s \in ExSigners : st.counters[s] <= st.counters[s]
    BY DEF Tries
<1>5. CASE e.ok
    <2>1. r.ok /\ r.st = e.st /\ r \in Runs
        BY <1>2, <1>3, <1>5 DEF Runs
    <2>3. /\ \A s \in ExSigners : st.counters[s] <= r.st.counters[s]
          /\ ~Spent(tx, st.counters) /\ Spent(tx, r.st.counters)
          /\ r.st.clock \in {st.clock, time} /\ (HasTimed(tx) => r.st.clock = time)
        BY <1>1, <1>5, <2>1, Zenon DEF TxDoes
    <2>2. TxResult(st, tx, time, r)
        BY <1>3, <2>1, <2>3, Zenon DEF TxResult
    <2> QED  BY <2>2 DEF r
<1>6. CASE ~e.ok
    <2>1. ~r.ok /\ r.st = st /\ r \in Runs
        BY <1>2, <1>3, <1>6 DEF Runs
    <2>3. r.st.clock \in {st.clock, time} /\ r.st \in Tries
        BY <2>1
    <2>4. \A s \in ExSigners : st.counters[s] <= r.st.counters[s]
        BY <1>4, <2>1
    <2>2. TxResult(st, tx, time, r)
        BY <2>1, <2>3, <2>4, Zenon DEF TxResult
    <2> QED  BY <2>2 DEF r
<1> QED  BY <1>5, <1>6

\* Several transactions, one after the other.
Results == [tx : ExTxs, ok : BOOLEAN]
Accs == [st : Tries, out : Seq(Results), changes : BOOLEAN]
RunsTxs(a, st, txs, time) ==
    /\ a \in [0 .. Len(txs) -> Accs] /\ a[0] = [st |-> st, out |-> << >>, changes |-> FALSE]
    /\ \A i \in 1 .. Len(txs) : a[i] = ExecuteNext(a[i - 1], txs[i], time)
LEMMA NextAcc ==
    ASSUME NEW a \in Accs, NEW tx \in ExTxs, NEW time \in ExTimes, NEW new, new = ExecuteNext(a, tx, time)
    PROVE  /\ new \in Accs /\ new.st = ExecuteTx(a.st, tx, time).st
           /\ new.out = Append(a.out, [tx |-> tx, ok |-> ExecuteTx(a.st, tx, time).ok])
           /\ new.changes = (a.changes \/ ExecuteTx(a.st, tx, time).ok)
<1> DEFINE r == ExecuteTx(a.st, tx, time)
<1>1. a.st \in Tries /\ a.out \in Seq(Results) /\ a.changes \in BOOLEAN
    BY DEF Accs
<1>2. r \in Runs
    BY <1>1, TxResults DEF TxResult
<1>3. new = [st |-> r.st, out |-> Append(a.out, [tx |-> tx, ok |-> r.ok]), changes |-> a.changes \/ r.ok]
    BY DEF ExecuteNext
<1> HIDE DEF r
<1>4. r.st \in Tries /\ r.ok \in BOOLEAN
    BY <1>2 DEF Runs
<1>5. [tx |-> tx, ok |-> r.ok] \in Results
    BY <1>4 DEF Results
<1>6. Append(a.out, [tx |-> tx, ok |-> r.ok]) \in Seq(Results)
    BY <1>1, <1>5
<1> DEFINE o == Append(a.out, [tx |-> tx, ok |-> r.ok])
           c == a.changes \/ r.ok
<1>7. new = [st |-> r.st, out |-> o, changes |-> c] /\ c \in BOOLEAN
    BY <1>3
<1> HIDE DEF o, c
<1>8. new \in Accs /\ new.st = r.st /\ new.out = o /\ new.changes = c
    BY <1>4, <1>6, <1>7 DEF Accs, o
<1> QED  BY <1>8 DEF o, c, r
LEMMA TxsTrace ==
    ASSUME NEW st \in Tries, NEW txs \in Seq(ExTxs), NEW time \in ExTimes
    PROVE  \E a : RunsTxs(a, st, txs, time) /\ Execute(st, txs, time) = a[Len(txs)]
<1> DEFINE n == Len(txs)
           b == [st |-> st, out |-> << >>, changes |-> FALSE]
           step(r, i) == ExecuteNext(r, txs[i], time)
           Is(a) == a = [i \in 0 .. n |-> IF i = 0 THEN b ELSE step(a[i - 1], i)]
           after == CHOOSE a : Is(a)
           F == [i \in 1 .. n |-> [r \in Accs |-> step(r, i)]]
<1>1. n \in Nat /\ b \in Accs
    BY DEF Accs
<1>2. ASSUME NEW i \in 1 .. n, NEW r \in Accs PROVE step(r, i) \in Accs
    <2>1. txs[i] \in ExTxs
        OBVIOUS
    <2> QED  BY <2>1, NextAcc
<1>3. F \in [1 .. n -> [Accs -> Accs]]
    <2> HIDE DEF step
    <2> QED  BY <1>2
<1>4. Execute(st, txs, time) = after[n]
    BY DEF Execute
<1> HIDE DEF b, step
<1>5. \E a : Is(a)
    <2>1. PICK a : IsRecursion(a, n, Accs, b, F)
        <3> HIDE DEF F, n
        <3> QED  BY <1>1, <1>3, RecursionExists, Zenon
    <2>2. a \in [0 .. n -> Accs] /\ a[0] = b /\ \A i \in 1 .. n : a[i] = F[i][a[i - 1]]
        BY <2>1 DEF IsRecursion
    <2>3. \A i \in 1 .. n : a[i - 1] \in Accs
        <3> HIDE DEF n, F
        <3> QED  BY <1>1, <2>2
    <2>4. \A i \in 1 .. n : F[i][a[i - 1]] = step(a[i - 1], i)
        <3> HIDE DEF n
        <3> QED  BY <2>3
    <2>5. Is(a)
        <3> HIDE DEF F, n
        <3> QED  BY <1>1, <2>2, <2>4
    <2> QED  BY <2>5
<1>6. Is(after)
    <2> HIDE DEF Is
    <2> QED  BY <1>5, Zenon
<1>7. after[0] = b /\ \A i \in 1 .. n : after[i] = step(after[i - 1], i)
    <2> HIDE DEF after, n
    <2> QED  BY <1>1, <1>6
<1>8. DOMAIN after = 0 .. n /\ after = [i \in 0 .. n |-> after[i]]
    <2> HIDE DEF after, n
    <2> QED  BY <1>6
<1> HIDE DEF after, n
<1>9. \A i \in 0 .. n : after[i] \in Accs
    <2>1. \A i \in 1 .. n : after[i - 1] \in Accs => after[i] = F[i][after[i - 1]]
        BY <1>7
    <2> HIDE DEF F
    <2> QED  BY <1>1, <1>3, <1>7, <2>1, StaysIn
<1>10. after \in [0 .. n -> Accs]
    BY <1>8, <1>9
<1>11. RunsTxs(after, st, txs, time)
    BY <1>7, <1>10 DEF RunsTxs, n, b, step
<1> QED  BY <1>4, <1>11 DEF n

LEMMA SpentStays ==
    ASSUME NEW tx \in ExTxs, NEW c \in [ExSigners -> Nat], NEW d \in [ExSigners -> Nat],
           \A s \in ExSigners : c[s] <= d[s], Spent(tx, c)
    PROVE  Spent(tx, d)
<1> DEFINE w == tx[1].who
           k == tx[1].n
<1>1. w \in ExSigners /\ k \in Nat
    BY TxsAre
<1>2. k <= c[w] /\ c[w] <= d[w] /\ c[w] \in Nat /\ d[w] \in Nat
    BY <1>1 DEF Spent
<1>3. k <= d[w]
    <2> HIDE DEF w, k
    <2> QED  BY <1>1, <1>2
<1> QED  BY <1>3 DEF Spent

\* What an execution of several transactions gives.
Executed(st, txs, time, e) ==
    /\ e \in Accs /\ Len(e.out) = Len(txs) /\ \A j \in 1 .. Len(txs) : e.out[j].tx = txs[j]
    /\ \A s \in ExSigners : st.counters[s] <= e.st.counters[s]
    /\ \A j \in 1 .. Len(txs) : e.out[j].ok => ~Spent(txs[j], st.counters) /\ Spent(txs[j], e.st.counters)
    /\ e.changes => \E j \in 1 .. Len(txs) : e.out[j].ok
    /\ ~e.changes => e.st = st
    /\ e.st.clock \in {st.clock, time}
    /\ \A j \in 1 .. Len(txs) : e.out[j].ok /\ HasTimed(txs[j]) => e.st.clock = time
LEMMA TriesAre ==
    ASSUME NEW st \in Tries
    PROVE  st.counters \in [ExSigners -> Nat] /\ st.clock \in ExTimes \union {0}
BY DEF Tries
LEMMA Monotone ==
    ASSUME NEW a \in Tries, NEW b \in Tries, NEW c \in Tries,
           \A s \in ExSigners : a.counters[s] <= b.counters[s],
           \A s \in ExSigners : b.counters[s] <= c.counters[s]
    PROVE  \A s \in ExSigners : a.counters[s] <= c.counters[s]
<1>1. a.counters \in [ExSigners -> Nat] /\ b.counters \in [ExSigners -> Nat] /\ c.counters \in [ExSigners -> Nat]
    BY TriesAre
<1> QED  BY <1>1
LEMMA ExecutedStep ==
    ASSUME NEW st \in Tries, NEW txs \in Seq(ExTxs), NEW time \in ExTimes, NEW tx \in ExTxs,
           NEW old, Executed(st, txs, time, old), NEW new, new = ExecuteNext(old, tx, time)
    PROVE  Executed(st, Append(txs, tx), time, new)
<1> DEFINE n == Len(txs)
           more == Append(txs, tx)
           r == ExecuteTx(old.st, tx, time)
           res == [tx |-> tx, ok |-> r.ok]
<1>1. /\ old \in Accs /\ old.st \in Tries /\ old.out \in Seq(Results) /\ Len(old.out) = n /\ n \in Nat
      /\ \A s \in ExSigners : st.counters[s] <= old.st.counters[s]
    BY DEF Executed, Accs
<1>2. TxResult(old.st, tx, time, r)
    BY <1>1, TxResults
<1>3. /\ new \in Accs /\ new.st = r.st /\ new.out = Append(old.out, res) /\ new.changes = (old.changes \/ r.ok)
    BY <1>1, NextAcc
<1>4. r.st \in Tries /\ r.ok \in BOOLEAN /\ res.ok = r.ok /\ res.tx = tx
    BY <1>2 DEF TxResult, Runs
<1> HIDE DEF r, res
<1>5. /\ more \in Seq(ExTxs) /\ Len(more) = n + 1 /\ more[n + 1] = tx
      /\ \A j \in 1 .. n : more[j] = txs[j]
      /\ Len(new.out) = n + 1 /\ new.out[n + 1] = res
      /\ \A j \in 1 .. n : new.out[j] = old.out[j]
    BY <1>1, <1>3
<1> HIDE DEF more, n
<1>6. \A j \in 1 .. n + 1 : new.out[j].tx = more[j]
    <2>1. \A j \in 1 .. n : old.out[j].tx = txs[j]
        BY DEF Executed, n
    <2> SUFFICES ASSUME NEW j \in 1 .. n + 1 PROVE new.out[j].tx = more[j]
        OBVIOUS
    <2>2. CASE j = n + 1
        BY <1>4, <1>5, <2>2
    <2>3. CASE j # n + 1
        <3>1. j \in 1 .. n
            BY <1>1, <2>3
        <3> QED  BY <1>5, <2>1, <3>1
    <2> QED  BY <2>2, <2>3
<1>7. /\ \A s \in ExSigners : old.st.counters[s] <= new.st.counters[s]
      /\ \A s \in ExSigners : st.counters[s] <= new.st.counters[s]
    <2>1. \A s \in ExSigners : old.st.counters[s] <= r.st.counters[s]
        BY <1>2 DEF TxResult
    <2>2. \A s \in ExSigners : st.counters[s] <= r.st.counters[s]
        BY <1>1, <1>4, <2>1, Monotone
    <2> QED  BY <1>3, <2>1, <2>2
<1>8. ASSUME NEW j \in 1 .. n + 1, new.out[j].ok
      PROVE  ~Spent(more[j], st.counters) /\ Spent(more[j], new.st.counters)
    <2>1. /\ st.counters \in [ExSigners -> Nat] /\ old.st.counters \in [ExSigners -> Nat] /\ new.st.counters \in [ExSigners -> Nat]
        BY <1>1, <1>3, <1>4, TriesAre
    <2>2. CASE j = n + 1
        <3>1. r.ok /\ more[j] = tx
            BY <1>4, <1>5, <1>8, <2>2
        <3>2. ~Spent(tx, old.st.counters) /\ Spent(tx, r.st.counters)
            BY <1>2, <3>1, Zenon DEF TxResult
        <3>3. ~Spent(tx, st.counters)
            BY <1>1, <2>1, <3>2, SpentStays
        <3> QED  BY <1>3, <3>1, <3>2, <3>3
    <2>3. CASE j # n + 1
        <3>1. j \in 1 .. n
            BY <1>1, <2>3
        <3>2. new.out[j] = old.out[j] /\ more[j] = txs[j] /\ txs[j] \in ExTxs
            BY <1>5, <3>1 DEF n
        <3>3. ~Spent(txs[j], st.counters) /\ Spent(txs[j], old.st.counters)
            BY <1>8, <3>1, <3>2 DEF Executed, n
        <3>4. Spent(txs[j], new.st.counters)
            BY <1>7, <2>1, <3>2, <3>3, SpentStays
        <3> QED  BY <3>2, <3>3, <3>4
    <2> QED  BY <2>2, <2>3
<1>9. ASSUME new.changes PROVE \E j \in 1 .. n + 1 : new.out[j].ok
    <2>1. CASE r.ok
        <3>1. n + 1 \in 1 .. n + 1
            BY <1>1
        <3>2. new.out[n + 1].ok
            BY <1>4, <1>5, <2>1, Zenon
        <3> QED  BY <3>1, <3>2
    <2>2. CASE old.changes
        <3>1. PICK j \in 1 .. n : old.out[j].ok
            BY <2>2 DEF Executed, n
        <3>2. j \in 1 .. n + 1 /\ new.out[j].ok
            BY <1>1, <1>5, <3>1
        <3> QED  BY <3>2
    <2> QED  BY <1>3, <1>9, <2>1, <2>2, Zenon
<1>10. ASSUME ~new.changes PROVE new.st = st
    <2>1. ~old.changes /\ ~r.ok
        BY <1>3, <1>10, Zenon
    <2>2. old.st = st /\ r.st = old.st
        BY <1>2, <2>1, Zenon DEF Executed, TxResult
    <2> QED  BY <1>3, <2>2
<1>11. ASSUME NEW j \in 1 .. n + 1, new.out[j].ok, HasTimed(more[j]) PROVE new.st.clock = time
    <2>1. CASE j = n + 1
        <3>1. r.ok /\ HasTimed(tx)
            BY <1>4, <1>5, <1>11, <2>1
        <3> QED  BY <1>2, <1>3, <3>1, Zenon DEF TxResult
    <2>2. CASE j # n + 1
        <3>1. j \in 1 .. n
            BY <1>1, <2>2
        <3>2. old.out[j].ok /\ HasTimed(txs[j])
            BY <1>5, <1>11, <3>1
        <3>3. old.st.clock = time
            BY <3>1, <3>2 DEF Executed, n
        <3>4. r.st.clock \in {old.st.clock, time}
            BY <1>2 DEF TxResult
        <3> QED  BY <1>3, <3>3, <3>4
    <2> QED  BY <2>1, <2>2
<1>12. new.st.clock \in {st.clock, time}
    <2>1. old.st.clock \in {st.clock, time} /\ r.st.clock \in {old.st.clock, time}
        BY <1>2 DEF Executed, TxResult
    <2> QED  BY <1>3, <2>1
<1>13. Executed(st, more, time, new)
    BY <1>3, <1>5, <1>6, <1>7, <1>8, <1>9, <1>10, <1>11, <1>12 DEF Executed
<1> QED  BY <1>13 DEF more
LEMMA PrefixGrows ==
    ASSUME NEW T, NEW s \in Seq(T), NEW i \in Nat, i + 1 <= Len(s)
    PROVE  SubSeq(s, 1, i + 1) = Append(SubSeq(s, 1, i), s[i + 1])
<1>1. SubSeq(s, 1, i + 1) \in Seq(T) /\ Append(SubSeq(s, 1, i), s[i + 1]) \in Seq(T)
    OBVIOUS
<1>2. Len(SubSeq(s, 1, i + 1)) = i + 1 /\ Len(Append(SubSeq(s, 1, i), s[i + 1])) = i + 1
    OBVIOUS
<1>3. \A j \in 1 .. i + 1 : SubSeq(s, 1, i + 1)[j] = Append(SubSeq(s, 1, i), s[i + 1])[j]
    OBVIOUS
<1> QED  BY <1>1, <1>2, <1>3, SeqEqual
LEMMA ExecutesTxs ==
    ASSUME NEW st \in Tries, NEW txs \in Seq(ExTxs), NEW time \in ExTimes
    PROVE  Executed(st, txs, time, Execute(st, txs, time))
<1>1. PICK a : RunsTxs(a, st, txs, time) /\ Execute(st, txs, time) = a[Len(txs)]
    BY TxsTrace
<1> DEFINE n == Len(txs)
           S == {i \in Nat : i <= n => Executed(st, SubSeq(txs, 1, i), time, a[i])}
<1>2. /\ n \in Nat /\ a \in [0 .. n -> Accs] /\ a[0] = [st |-> st, out |-> << >>, changes |-> FALSE]
      /\ \A i \in 1 .. n : a[i] = ExecuteNext(a[i - 1], txs[i], time)
    BY <1>1 DEF RunsTxs
<1>3. 0 \in S
    <2>1. SubSeq(txs, 1, 0) = << >>
        OBVIOUS
    <2>2. a[0] \in Accs /\ a[0].st = st /\ a[0].out = << >> /\ ~a[0].changes
        BY <1>2
    <2>3. st.counters \in [ExSigners -> Nat]
        BY TriesAre
    <2>4. Executed(st, << >>, time, a[0])
        BY <2>2, <2>3 DEF Executed
    <2> QED  BY <2>1, <2>4
<1>4. ASSUME NEW i \in Nat, i \in S PROVE i + 1 \in S
    <2> SUFFICES ASSUME i + 1 <= n PROVE Executed(st, SubSeq(txs, 1, i + 1), time, a[i + 1])
        OBVIOUS
    <2>1. i + 1 \in 1 .. n /\ (i + 1) - 1 = i /\ i <= n
        BY <1>2
    <2>2. a[i + 1] = ExecuteNext(a[i], txs[i + 1], time)
        BY <1>2, <2>1
    <2>3. SubSeq(txs, 1, i) \in Seq(ExTxs) /\ txs[i + 1] \in ExTxs
        BY <2>1
    <2>4. Executed(st, SubSeq(txs, 1, i), time, a[i])
        BY <1>4, <2>1
    <2>5. Executed(st, Append(SubSeq(txs, 1, i), txs[i + 1]), time, a[i + 1])
        BY <2>2, <2>3, <2>4, ExecutedStep
    <2> QED  BY <2>5, PrefixGrows
<1>5. \A i \in Nat : i \in S
    <2> HIDE DEF S
    <2> QED  BY <1>3, <1>4, NatSteps
<1>6. SubSeq(txs, 1, n) = txs
    BY SubSeqFull
<1>7. n \in S
    <2> HIDE DEF S, n
    <2> QED  BY <1>2, <1>5
<1>8. Executed(st, SubSeq(txs, 1, n), time, a[n])
    <2> HIDE DEF n
    <2> QED  BY <1>2, <1>7
<1> QED  BY <1>1, <1>6, <1>8

LEMMA TxsOfResults ==
    ASSUME NEW out \in Seq(Results)
    PROVE  /\ Txs(out) \in Seq(ExTxs) /\ Len(Txs(out)) = Len(out) /\ \A i \in 1 .. Len(out) : Txs(out)[i] = out[i].tx
<1>1. Len(out) \in Nat /\ DOMAIN out = 1 .. Len(out) /\ \A i \in 1 .. Len(out) : out[i].tx \in ExTxs
    <2>1. Len(out) \in Nat /\ DOMAIN out = 1 .. Len(out) /\ \A i \in 1 .. Len(out) : out[i] \in Results
        OBVIOUS
    <2>2. \A r \in Results : r.tx \in ExTxs
        BY DEF Results
    <2> QED  BY <2>1, <2>2
<1>2. Txs(out) = [i \in 1 .. Len(out) |-> out[i].tx]
    BY <1>1 DEF Txs
<1> QED  BY <1>1, <1>2
LEMMA ExecutesThem ==
    ASSUME NEW st \in Tries, NEW txs \in Seq(ExTxs), NEW time \in ExTimes
    PROVE  Txs(Execute(st, txs, time).out) = txs
<1> DEFINE e == Execute(st, txs, time)
<1>1. Executed(st, txs, time, e)
    BY ExecutesTxs
<1> HIDE DEF e
<1>2. e.out \in Seq(Results) /\ Len(e.out) = Len(txs) /\ \A j \in 1 .. Len(txs) : e.out[j].tx = txs[j]
    BY <1>1 DEF Executed, Accs
<1>3. Txs(e.out) \in Seq(ExTxs) /\ Len(Txs(e.out)) = Len(e.out) /\ \A i \in 1 .. Len(e.out) : Txs(e.out)[i] = e.out[i].tx
    BY <1>2, TxsOfResults
<1>4. Txs(e.out) = txs
    BY <1>2, <1>3, SeqEqual
<1> QED  BY <1>4 DEF e

\* The results are those of the transactions on the states in between.
ResultAt(a, txs, time, j) == [tx |-> txs[j], ok |-> ExecuteTx(a[j - 1].st, txs[j], time).ok]
LEMMA OutTrace ==
    ASSUME NEW st \in Tries, NEW txs \in Seq(ExTxs), NEW time \in ExTimes, NEW a, RunsTxs(a, st, txs, time)
    PROVE  /\ Len(a[Len(txs)].out) = Len(txs)
           /\ \A j \in 1 .. Len(txs) : a[Len(txs)].out[j] = ResultAt(a, txs, time, j)
<1> DEFINE n == Len(txs)
           P(i) == Len(a[i].out) = i /\ \A j \in 1 .. i : a[i].out[j] = ResultAt(a, txs, time, j)
           S == {i \in Nat : i <= n => P(i)}
<1>1. /\ n \in Nat /\ a \in [0 .. n -> Accs] /\ a[0] = [st |-> st, out |-> << >>, changes |-> FALSE]
      /\ \A i \in 1 .. n : a[i] = ExecuteNext(a[i - 1], txs[i], time)
    BY DEF RunsTxs
<1>2. 0 \in S
    <2>1. a[0].out = << >>
        BY <1>1
    <2> QED  BY <2>1
<1>3. ASSUME NEW i \in Nat, i \in S PROVE i + 1 \in S
    <2> SUFFICES ASSUME i + 1 <= n PROVE P(i + 1)
        OBVIOUS
    <2>1. i + 1 \in 1 .. n /\ (i + 1) - 1 = i /\ i <= n /\ i \in 0 .. n
        BY <1>1
    <2>2. a[i + 1] = ExecuteNext(a[i], txs[i + 1], time) /\ a[i] \in Accs /\ txs[i + 1] \in ExTxs
        BY <1>1, <2>1
    <2>3. a[i + 1].out = Append(a[i].out, ResultAt(a, txs, time, i + 1))
        <3>1. a[i + 1].out = Append(a[i].out, [tx |-> txs[i + 1], ok |-> ExecuteTx(a[i].st, txs[i + 1], time).ok])
            BY <2>2, NextAcc
        <3> QED  BY <2>1, <3>1 DEF ResultAt
    <2>4. a[i].out \in Seq(Results) /\ P(i)
        BY <1>3, <2>1, <2>2 DEF Accs
    <2>5. Len(a[i + 1].out) = i + 1 /\ a[i + 1].out[i + 1] = ResultAt(a, txs, time, i + 1)
        BY <2>3, <2>4
    <2>6. \A j \in 1 .. i : a[i + 1].out[j] = a[i].out[j]
        BY <2>3, <2>4
    <2>7. ASSUME NEW j \in 1 .. i + 1 PROVE a[i + 1].out[j] = ResultAt(a, txs, time, j)
        <3>1. CASE j = i + 1
            BY <2>5, <3>1
        <3>2. CASE j # i + 1
            <4>1. j \in 1 .. i
                BY <3>2
            <4> QED  BY <2>4, <2>6, <4>1
        <3> QED  BY <3>1, <3>2
    <2> QED  BY <2>5, <2>7
<1>4. \A i \in Nat : i \in S
    <2> HIDE DEF S
    <2> QED  BY <1>2, <1>3, NatSteps
<1> QED  BY <1>1, <1>4

\* The same results at another time, none accepted of the time: the same state.
LEMMA SameAtAnyTime ==
    ASSUME NEW st \in Tries, NEW txs \in Seq(ExTxs), NEW t \in ExTimes, NEW u \in ExTimes,
           Execute(st, txs, t).out = Execute(st, txs, u).out, ~Timed(Execute(st, txs, t).out)
    PROVE  Execute(st, txs, t).st = Execute(st, txs, u).st
<1>1. PICK a : RunsTxs(a, st, txs, t) /\ Execute(st, txs, t) = a[Len(txs)]
    BY TxsTrace
<1>2. PICK b : RunsTxs(b, st, txs, u) /\ Execute(st, txs, u) = b[Len(txs)]
    BY TxsTrace
<1> DEFINE n == Len(txs)
           S == {i \in Nat : i <= n => a[i].st = b[i].st}
<1>3. /\ n \in Nat /\ a \in [0 .. n -> Accs] /\ a[0].st = b[0].st
      /\ \A i \in 1 .. n : a[i] = ExecuteNext(a[i - 1], txs[i], t)
      /\ b \in [0 .. n -> Accs] /\ \A i \in 1 .. n : b[i] = ExecuteNext(b[i - 1], txs[i], u)
    BY <1>1, <1>2 DEF RunsTxs
<1>4. a[n].out = b[n].out /\ ~Timed(a[n].out) /\ Len(a[n].out) = n /\ a[n].out \in Seq(Results)
    <2>1. Len(a[n].out) = n
        BY <1>1, OutTrace
    <2>2. a[n] \in Accs
        BY <1>3
    <2> QED  BY <1>1, <1>2, <2>1, <2>2 DEF Accs
<1>5. \A j \in 1 .. n : a[n].out[j] = ResultAt(a, txs, t, j) /\ b[n].out[j] = ResultAt(b, txs, u, j)
    BY <1>1, <1>2, OutTrace
<1> HIDE DEF n
<1>6. 0 \in S
    BY <1>3
<1>7. ASSUME NEW i \in Nat, i \in S PROVE i + 1 \in S
    <2> SUFFICES ASSUME i + 1 <= n PROVE a[i + 1].st = b[i + 1].st
        OBVIOUS
    <2> DEFINE s == a[i].st
               tx == txs[i + 1]
               p == ExecuteTx(s, tx, t)
               q == ExecuteTx(s, tx, u)
    <2>1. i + 1 \in 1 .. n /\ (i + 1) - 1 = i /\ i <= n /\ i \in 0 .. n
        BY <1>3
    <2>2. tx \in ExTxs
        BY <2>1 DEF n
    <2>3. a[i] \in Accs /\ b[i] \in Accs /\ a[i + 1] = ExecuteNext(a[i], tx, t) /\ b[i + 1] = ExecuteNext(b[i], tx, u)
        BY <1>3, <2>1
    <2>4. s = b[i].st /\ s \in Tries
        BY <1>7, <2>1, <2>3 DEF Accs
    <2>5. a[i + 1].st = p.st
        BY <2>2, <2>3, NextAcc
    <2>6. b[i + 1].st = q.st
        <3>1. b[i + 1].st = ExecuteTx(b[i].st, tx, u).st
            BY <2>2, <2>3, NextAcc
        <3> QED  BY <2>4, <3>1
    <2>7. /\ a[n].out[i + 1] = [tx |-> tx, ok |-> p.ok]
          /\ b[n].out[i + 1] = [tx |-> tx, ok |-> ExecuteTx(b[i].st, tx, u).ok]
        BY <1>5, <2>1 DEF ResultAt
    <2>8. p.ok = q.ok
        <3> DEFINE v == p.ok
                   w == q.ok
        <3>1. [tx |-> tx, ok |-> v] = [tx |-> tx, ok |-> w]
            BY <1>4, <2>4, <2>7
        <3> HIDE DEF v, w
        <3>2. v = w
            BY <3>1
        <3> QED  BY <3>2 DEF v, w
    <2>9. TxResult(s, tx, t, p) /\ TxResult(s, tx, u, q)
        BY <2>2, <2>4, TxResults
    <2>10. CASE p.ok
        <3>1. i + 1 \in DOMAIN a[n].out
            BY <1>4, <2>1
        <3>2. a[n].out[i + 1].ok /\ a[n].out[i + 1].tx = tx
            <4> DEFINE v == p.ok
            <4>1. v /\ a[n].out[i + 1] = [tx |-> tx, ok |-> v]
                BY <2>7, <2>10
            <4> HIDE DEF v
            <4> QED  BY <4>1
        <3>3. ~HasTimed(tx)
            BY <1>4, <3>1, <3>2 DEF Timed, HasTimed
        <3>4. ExecuteAll(s, tx, t) = ExecuteAll(s, tx, u)
            BY <2>2, <2>4, <3>3, UntimedSame
        <3>5. p = q
            BY <3>4 DEF ExecuteTx
        <3> QED  BY <2>5, <2>6, <3>5
    <2>11. CASE ~p.ok
        <3>1. p.st = s /\ q.st = s
            <4> HIDE DEF p, q, s, tx
            <4> QED  BY <2>8, <2>9, <2>11, Zenon DEF TxResult
        <3> QED  BY <2>5, <2>6, <3>1
    <2> QED  BY <2>10, <2>11
<1>8. \A i \in Nat : i \in S
    <2> HIDE DEF S
    <2> QED  BY <1>6, <1>7, NatSteps
<1> QED  BY <1>1, <1>2, <1>3, <1>8 DEF n

\* A replay of the results goes through the same states.
LEMMA ReplaysTxs ==
    ASSUME NEW st \in Tries, NEW txs \in Seq(ExTxs), NEW blk, blk.time \in ExTimes,
           blk.txs = Execute(st, txs, blk.time).out
    PROVE  ReplayTxs(st, blk) = [ok |-> TRUE, st |-> Execute(st, txs, blk.time).st]
<1> DEFINE time == blk.time
           n == Len(txs)
           results == blk.txs
<1>1. PICK a : RunsTxs(a, st, txs, time) /\ Execute(st, txs, time) = a[Len(txs)]
    BY TxsTrace
<1>2. /\ n \in Nat /\ a \in [0 .. n -> Accs] /\ a[0].st = st
      /\ \A i \in 1 .. n : a[i] = ExecuteNext(a[i - 1], txs[i], time)
    BY <1>1 DEF RunsTxs
<1>3. Len(results) = n /\ \A j \in 1 .. n : results[j] = ResultAt(a, txs, time, j)
    BY <1>1, OutTrace
<1> DEFINE c == [i \in 0 .. n |-> [ok |-> TRUE, st |-> a[i].st]]
           b == [ok |-> TRUE, st |-> st]
           step(r, i) == ReplayTx(r, results[i], time)
           Is(f) == f = [i \in 0 .. n |-> IF i = 0 THEN b ELSE step(f[i - 1], i)]
           after == CHOOSE f : Is(f)
<1>4. ReplayTxs(st, blk) = after[n]
    BY <1>3 DEF ReplayTxs
<1>5. ASSUME NEW i \in 1 .. n PROVE step([ok |-> TRUE, st |-> a[i - 1].st], i) = [ok |-> TRUE, st |-> a[i].st]
    <2> DEFINE s == a[i - 1].st
               p == ExecuteTx(s, txs[i], time)
    <2>1. i - 1 \in 0 .. n /\ txs[i] \in ExTxs
        BY <1>2
    <2>2. a[i - 1] \in Accs /\ s \in Tries /\ a[i] = ExecuteNext(a[i - 1], txs[i], time)
        BY <1>2, <2>1 DEF Accs
    <2>3. a[i].st = p.st
        BY <2>1, <2>2, NextAcc
    <2>4. results[i] = [tx |-> txs[i], ok |-> p.ok]
        BY <1>3 DEF ResultAt
    <2>5. p.ok \in BOOLEAN /\ (~p.ok => p.st = s)
        <3> HIDE DEF s
        <3>1. TxResult(s, txs[i], time, p)
            BY <2>1, <2>2, TxResults
        <3> HIDE DEF p
        <3> QED  BY <3>1 DEF TxResult, Runs
    <2> DEFINE v == p.ok
    <2>6. results[i].tx = txs[i] /\ results[i].ok = v
        <3>1. results[i] = [tx |-> txs[i], ok |-> v]
            BY <2>4
        <3> HIDE DEF v, results
        <3> QED  BY <3>1
    <2>7. step([ok |-> TRUE, st |-> s], i) = [ok |-> TRUE /\ v = results[i].ok, st |-> IF results[i].ok THEN p.st ELSE s]
        <3> HIDE DEF s
        <3> QED  BY <2>6 DEF ReplayTx
    <2>8. (TRUE /\ v = results[i].ok) = TRUE
        BY <2>6
    <2>9. (IF results[i].ok THEN p.st ELSE s) = p.st
        <3> HIDE DEF s, results
        <3>1. results[i].ok = p.ok
            BY <2>6
        <3> HIDE DEF p
        <3> QED  BY <2>5, <3>1
    <2> QED  BY <2>3, <2>7, <2>8, <2>9
<1>6. Is(c)
    <2>1. c[0] = b
        <3>1. 0 \in 0 .. n
            BY <1>2
        <3> HIDE DEF n
        <3>2. c[0] = [ok |-> TRUE, st |-> a[0].st]
            BY <3>1
        <3> QED  BY <1>2, <3>2
    <2>2. \A i \in 1 .. n : c[i] = step(c[i - 1], i)
        <3> SUFFICES ASSUME NEW i \in 1 .. n PROVE c[i] = step(c[i - 1], i)
            OBVIOUS
        <3>1. i - 1 \in 0 .. n /\ i \in 0 .. n
            BY <1>2
        <3>2. c[i - 1] = [ok |-> TRUE, st |-> a[i - 1].st] /\ c[i] = [ok |-> TRUE, st |-> a[i].st]
            BY <3>1
        <3> HIDE DEF c, step
        <3> QED  BY <1>5, <3>2
    <2>3. c = [i \in 0 .. n |-> c[i]]
        OBVIOUS
    <2> HIDE DEF c, b, step, n
    <2>4. \A i \in 0 .. n : c[i] = IF i = 0 THEN b ELSE step(c[i - 1], i)
        <3> SUFFICES ASSUME NEW i \in 0 .. n PROVE c[i] = IF i = 0 THEN b ELSE step(c[i - 1], i)
            OBVIOUS
        <3>1. CASE i = 0
            BY <2>1, <3>1
        <3>2. CASE i # 0
            <4>1. i \in 1 .. n
                BY <1>2, <3>2
            <4> QED  BY <2>2, <3>2, <4>1
        <3> QED  BY <3>1, <3>2
    <2> QED  BY <2>3, <2>4
<1>7. Is(after)
    <2> HIDE DEF Is, c
    <2> QED  BY <1>6, Zenon
<1> HIDE DEF after, n, b, step
<1>8. after[0] = b /\ \A i \in 1 .. n : after[i] = step(after[i - 1], i)
    BY <1>2, <1>7
<1> DEFINE S == {i \in Nat : i <= n => after[i] = [ok |-> TRUE, st |-> a[i].st]}
<1>9. 0 \in S
    BY <1>2, <1>8 DEF b
<1>10. ASSUME NEW i \in Nat, i \in S PROVE i + 1 \in S
    <2> SUFFICES ASSUME i + 1 <= n PROVE after[i + 1] = [ok |-> TRUE, st |-> a[i + 1].st]
        OBVIOUS
    <2>1. i + 1 \in 1 .. n /\ (i + 1) - 1 = i /\ i <= n
        BY <1>2
    <2>2. after[i] = [ok |-> TRUE, st |-> a[i].st] /\ after[i + 1] = step(after[i], i + 1)
        BY <1>8, <1>10, <2>1
    <2>3. step([ok |-> TRUE, st |-> a[(i + 1) - 1].st], i + 1) = [ok |-> TRUE, st |-> a[i + 1].st]
        BY <1>5, <2>1
    <2> QED  BY <2>1, <2>2, <2>3
<1>11. \A i \in Nat : i \in S
    <2> HIDE DEF S
    <2> QED  BY <1>9, <1>10, NatSteps
<1>12. after[n] = [ok |-> TRUE, st |-> a[n].st]
    BY <1>2, <1>11
<1> QED  BY <1>1, <1>4, <1>12 DEF n

\* To store the changes gives the new state.
LEMMA StoresChanges ==
    ASSUME NEW old \in Tries, NEW new \in Tries, new.clock = old.clock \/ new.clock \in ExTimes
    PROVE  StoreAll(old, StateChanges(old, new)) = new
<1> DEFINE scs == StateChanges(old, new)
           changed == {x \in ExSigners : new.counters[x] # old.counters[x]}
<1>1. /\ scs.counters = [s \in changed |-> new.counters[s]]
      /\ scs.clock = IF new.clock # old.clock THEN new.clock ELSE 0
    BY DEF StateChanges
<1>2. new = [counters |-> new.counters, clock |-> new.clock]
    BY DEF Tries
<1>3. new.counters \in [ExSigners -> Nat] /\ new.clock \in ExTimes \union {0} /\ old.clock \in ExTimes \union {0}
    BY TriesAre
<1>4. StoreAll(old, scs) =
        [counters |-> [s \in ExSigners |-> IF s \in DOMAIN scs.counters THEN scs.counters[s] ELSE old.counters[s]],
         clock |-> IF scs.clock # 0 THEN scs.clock ELSE old.clock]
    BY DEF StoreAll
<1> HIDE DEF scs
<1>5. [s \in ExSigners |-> IF s \in DOMAIN scs.counters THEN scs.counters[s] ELSE old.counters[s]] = new.counters
    <2>1. DOMAIN scs.counters = changed /\ \A s \in changed : scs.counters[s] = new.counters[s]
        BY <1>1
    <2>2. \A s \in ExSigners : (IF s \in DOMAIN scs.counters THEN scs.counters[s] ELSE old.counters[s]) = new.counters[s]
        BY <2>1
    <2> QED  BY <1>3, <2>2
<1>6. (IF scs.clock # 0 THEN scs.clock ELSE old.clock) = new.clock
    BY <1>1, <1>3, ExecutionAssumption
<1>7. StoreAll(old, scs) = new
    BY <1>2, <1>4, <1>5, <1>6
<1> QED  BY <1>7 DEF scs

\* Blocks, each made on the state that the one before it left.
Changes == [counters : UNION {[D -> Nat] : D \in SUBSET ExSigners}, clock : ExTimes \union {0}]
Blocks == [txs : Seq(Results), root : Tries, scs : Changes, time : ExTimes]
Made(b, st) ==
    LET e == Execute(st, Txs(b.txs), b.time)
    IN  e.out = b.txs /\ e.st = b.root /\ b.scs = StateChanges(st, e.st)
LEMMA BlocksAre ==
    ASSUME NEW b \in Blocks
    PROVE  /\ b.txs \in Seq(Results) /\ b.root \in Tries /\ b.time \in ExTimes /\ Txs(b.txs) \in Seq(ExTxs)
           /\ Len(Txs(b.txs)) = Len(b.txs) /\ Len(b.txs) \in Nat /\ DOMAIN b.txs = 1 .. Len(b.txs)
           /\ \A i \in 1 .. Len(b.txs) : Txs(b.txs)[i] = b.txs[i].tx /\ b.txs[i].tx \in ExTxs
<1>1. b.txs \in Seq(Results) /\ b.root \in Tries /\ b.time \in ExTimes
    BY DEF Blocks
<1>2. /\ Txs(b.txs) \in Seq(ExTxs) /\ Len(Txs(b.txs)) = Len(b.txs)
      /\ \A i \in 1 .. Len(b.txs) : Txs(b.txs)[i] = b.txs[i].tx
    BY <1>1, TxsOfResults
<1>3. Len(b.txs) \in Nat /\ DOMAIN b.txs = 1 .. Len(b.txs)
    BY <1>1
<1>4. \A i \in 1 .. Len(b.txs) : Txs(b.txs)[i] \in ExTxs
    BY <1>2
<1> QED  BY <1>1, <1>2, <1>3, <1>4
LEMMA ChangesAre ==
    ASSUME NEW old \in Tries, NEW new \in Tries
    PROVE  StateChanges(old, new) \in Changes
<1> DEFINE D == {x \in ExSigners : new.counters[x] # old.counters[x]}
           f == [s \in D |-> new.counters[s]]
           c == IF new.clock # old.clock THEN new.clock ELSE 0
<1>1. new.counters \in [ExSigners -> Nat] /\ new.clock \in ExTimes \union {0}
    BY TriesAre
<1>2. D \in SUBSET ExSigners /\ f \in [D -> Nat] /\ c \in ExTimes \union {0}
    BY <1>1
<1>3. StateChanges(old, new) = [counters |-> f, clock |-> c]
    BY DEF StateChanges
<1> HIDE DEF D, f, c
<1>4. f \in UNION {[E -> Nat] : E \in SUBSET ExSigners}
    BY <1>2
<1> QED  BY <1>2, <1>3, <1>4 DEF Changes

BlockDoes(b, st) ==
    /\ \A s \in ExSigners : st.counters[s] <= b.root.counters[s]
    /\ \A j \in DOMAIN b.txs : b.txs[j].ok => ~Spent(b.txs[j].tx, st.counters) /\ Spent(b.txs[j].tx, b.root.counters)
    /\ Timed(b.txs) => b.root.clock = b.time
    /\ StoreAll(st, b.scs) = b.root
    /\ ReplayTxs(st, b) = [ok |-> TRUE, st |-> b.root]
LEMMA BlockDoesThis ==
    ASSUME NEW st \in Tries, NEW b \in Blocks, Made(b, st)
    PROVE  BlockDoes(b, st)
<1> DEFINE txs == Txs(b.txs)
           e == Execute(st, txs, b.time)
<1>1. /\ b.root \in Tries /\ b.time \in ExTimes /\ txs \in Seq(ExTxs) /\ Len(txs) = Len(b.txs) /\ DOMAIN b.txs = 1 .. Len(b.txs)
      /\ \A i \in 1 .. Len(b.txs) : txs[i] = b.txs[i].tx
    BY BlocksAre
<1>2. e.out = b.txs /\ e.st = b.root /\ b.scs = StateChanges(st, b.root)
    BY DEF Made
<1>3. Executed(st, txs, b.time, e)
    BY <1>1, ExecutesTxs
<1>4. ReplayTxs(st, b) = [ok |-> TRUE, st |-> b.root]
    <2>1. b.txs = Execute(st, txs, b.time).out
        BY <1>2
    <2>2. ReplayTxs(st, b) = [ok |-> TRUE, st |-> Execute(st, txs, b.time).st]
        <3> HIDE DEF txs
        <3> QED  BY <1>1, <2>1, ReplaysTxs
    <2> QED  BY <1>2, <2>2
<1> HIDE DEF e, txs
<1>5. /\ \A s \in ExSigners : st.counters[s] <= b.root.counters[s]
      /\ \A j \in 1 .. Len(txs) : b.txs[j].ok => ~Spent(txs[j], st.counters) /\ Spent(txs[j], b.root.counters)
      /\ b.root.clock \in {st.clock, b.time}
      /\ \A j \in 1 .. Len(txs) : b.txs[j].ok /\ HasTimed(txs[j]) => b.root.clock = b.time
    BY <1>2, <1>3 DEF Executed
<1>6. StoreAll(st, b.scs) = b.root
    <2>1. b.root.clock = st.clock \/ b.root.clock \in ExTimes
        BY <1>1, <1>5
    <2> QED  BY <1>1, <1>2, <2>1, StoresChanges
<1>7. Timed(b.txs) => b.root.clock = b.time
    BY <1>1, <1>5 DEF Timed, HasTimed
<1>8. \A j \in DOMAIN b.txs : b.txs[j].ok => ~Spent(b.txs[j].tx, st.counters) /\ Spent(b.txs[j].tx, b.root.counters)
    BY <1>1, <1>5
<1> QED  BY <1>4, <1>5, <1>6, <1>7, <1>8 DEF BlockDoes

\* A block whose transactions change the state never comes a second time.
LEMMA NotAgain ==
    ASSUME NEW st \in Tries, NEW b \in Blocks, Made(b, st), NEW later \in Tries, NEW c \in Blocks, Made(c, later),
           \A s \in ExSigners : b.root.counters[s] <= later.counters[s], NEW j \in DOMAIN b.txs, b.txs[j].ok
    PROVE  c.txs # b.txs
<1>1. BlockDoes(b, st) /\ BlockDoes(c, later)
    BY BlockDoesThis
<1>2. Spent(b.txs[j].tx, b.root.counters)
    BY <1>1 DEF BlockDoes
<1>3. b.root.counters \in [ExSigners -> Nat] /\ later.counters \in [ExSigners -> Nat] /\ b.txs[j].tx \in ExTxs
    BY BlocksAre, TriesAre
<1>4. Spent(b.txs[j].tx, later.counters)
    BY <1>2, <1>3, SpentStays
<1> QED  BY <1>1, <1>4 DEF BlockDoes

\* What is in the cache was executed on some state, the node's or the one before.
Left(cache, base, t) ==
    LET e == Execute(base, Txs(cache.digest), t)
    IN  e.out = cache.digest /\ e.changes /\ cache = CacheUpdate(e.out, e.st, StateChanges(base, e.st))
CacheGood(cache, st) ==
    cache = NoResult \/ \E base \in Tries, t \in ExTimes :
        cache.digest \in Seq(Results) /\ Left(cache, base, t) /\ st \in {base, cache.root}
TimeKept(cache, b) == cache.digest = b.txs /\ Timed(b.txs) => cache.root.clock = b.time
CacheFrom(cache, d, base, t) ==
    /\ cache.root = Execute(base, Txs(d), t).st /\ cache.txOut = d /\ Execute(base, Txs(d), t).out = d
    /\ cache.states = StateChanges(base, cache.root) /\ cache.root \in Tries
    /\ \E j \in DOMAIN d : d[j].ok /\ ~Spent(d[j].tx, base.counters) /\ Spent(d[j].tx, cache.root.counters)
    /\ Timed(d) => cache.root.clock = t
LEMMA LeftIs ==
    ASSUME NEW cache, NEW base \in Tries, NEW t \in ExTimes, cache.digest \in Seq(Results), Left(cache, base, t)
    PROVE  CacheFrom(cache, cache.digest, base, t)
<1> DEFINE d == cache.digest
           txs == Txs(d)
           e == Execute(base, txs, t)
<1>1. txs \in Seq(ExTxs) /\ Len(txs) = Len(d) /\ \A i \in 1 .. Len(d) : txs[i] = d[i].tx
    BY TxsOfResults
<1>2. Executed(base, txs, t, e)
    BY <1>1, ExecutesTxs
<1>3. e.out = d /\ e.changes /\ cache = CacheUpdate(e.out, e.st, StateChanges(base, e.st))
    BY DEF Left
<1>4. DOMAIN d = 1 .. Len(d)
    OBVIOUS
<1> HIDE DEF e, d, txs
<1>5. cache.root = e.st /\ cache.txOut = d /\ cache.states = StateChanges(base, cache.root)
    BY <1>3 DEF CacheUpdate
<1>6. /\ e.st \in Tries
      /\ \A j \in 1 .. Len(txs) : d[j].ok => ~Spent(txs[j], base.counters) /\ Spent(txs[j], e.st.counters)
      /\ \E j \in 1 .. Len(txs) : d[j].ok
      /\ \A j \in 1 .. Len(txs) : d[j].ok /\ HasTimed(txs[j]) => e.st.clock = t
    BY <1>2, <1>3 DEF Executed, Accs
<1>7. \E j \in DOMAIN d : d[j].ok /\ ~Spent(d[j].tx, base.counters) /\ Spent(d[j].tx, e.st.counters)
    BY <1>1, <1>4, <1>6
<1>8. Timed(d) => e.st.clock = t
    BY <1>1, <1>4, <1>6 DEF Timed, HasTimed
<1>9. CacheFrom(cache, d, base, t)
    <2>1. e = Execute(base, Txs(d), t)
        BY DEF e, txs
    <2> QED  BY <1>3, <1>5, <1>6, <1>7, <1>8, <2>1 DEF CacheFrom
<1> QED  BY <1>9 DEF d

\* A hit of an honest cache is what the execution would give.
LEMMA HitIsRight ==
    ASSUME NEW cache, NEW st \in Tries, NEW b \in Blocks, Made(b, st), CacheGood(cache, st), cache # NoResult,
           cache.digest = b.txs, TimeKept(cache, b)
    PROVE  cache.root = b.root /\ cache.txOut = b.txs /\ cache.states = b.scs
<1>1. PICK base \in Tries, t \in ExTimes :
          cache.digest \in Seq(Results) /\ Left(cache, base, t) /\ st \in {base, cache.root}
    BY DEF CacheGood
<1>2. /\ cache.root = Execute(base, Txs(b.txs), t).st /\ cache.txOut = b.txs
      /\ Execute(base, Txs(b.txs), t).out = b.txs
      /\ cache.states = StateChanges(base, cache.root)
      /\ \E j \in DOMAIN b.txs : b.txs[j].ok /\ Spent(b.txs[j].tx, cache.root.counters)
      /\ Timed(b.txs) => cache.root.clock = t
    <2>1. CacheFrom(cache, cache.digest, base, t)
        BY <1>1, LeftIs, Zenon
    <2>2. CacheFrom(cache, b.txs, base, t)
        BY <2>1
    <2> QED  BY <2>2 DEF CacheFrom
<1>3. BlockDoes(b, st)
    BY BlockDoesThis
<1>4. st = base
    <2>1. PICK j \in DOMAIN b.txs : b.txs[j].ok /\ Spent(b.txs[j].tx, cache.root.counters)
        BY <1>2
    <2>2. ~Spent(b.txs[j].tx, st.counters)
        BY <1>3, <2>1 DEF BlockDoes
    <2> QED  BY <1>1, <2>1, <2>2
<1>5. Execute(st, Txs(b.txs), b.time).out = b.txs /\ Execute(st, Txs(b.txs), b.time).st = b.root
      /\ b.scs = StateChanges(st, b.root)
    BY DEF Made
<1>6. b.time \in ExTimes /\ Txs(b.txs) \in Seq(ExTxs)
    BY BlocksAre
<1>7. cache.root = b.root
    <2>1. CASE Timed(b.txs)
        <3>1. b.time = t
            BY <1>2, <2>1 DEF TimeKept
        <3> QED  BY <1>2, <1>4, <1>5, <3>1
    <2>2. CASE ~Timed(b.txs)
        <3>1. Execute(st, Txs(b.txs), t).st = Execute(st, Txs(b.txs), b.time).st
            BY <1>2, <1>4, <1>5, <1>6, <2>2, SameAtAnyTime
        <3> QED  BY <1>2, <1>4, <1>5, <3>1
    <2> QED  BY <2>1, <2>2
<1> QED  BY <1>2, <1>4, <1>5, <1>7

CreateResult(cache, st, b, r) ==
    /\ r.root = b.root /\ r.out = b.txs /\ r.scs = b.scs
    /\ \/ r.cache = cache /\ cache.root = b.root /\ cache # NoResult
       \/ r.cache = cache /\ b.root = st
       \/ r.cache.digest = b.txs /\ Left(r.cache, st, b.time) /\ r.cache.root = b.root
LEMMA CreatesRight ==
    ASSUME NEW st \in Tries, NEW b \in Blocks, Made(b, st), CacheGood(exCache, st), TimeKept(exCache, b)
    PROVE  CreateResult(exCache, st, b, createStateChanges(st, b.txs, b.time))
<1> DEFINE r == createStateChanges(st, b.txs, b.time)
           e == Execute(st, Txs(b.txs), b.time)
           scs == StateChanges(st, e.st)
<1>1. e.out = b.txs /\ e.st = b.root /\ b.scs = scs
    BY DEF Made
<1>2. ASSUME CacheHit(exCache, b.txs) PROVE CreateResult(exCache, st, b, r)
    <2>1. exCache # NoResult /\ exCache.digest = b.txs
        BY <1>2 DEF CacheHit
    <2>2. exCache.root = b.root /\ exCache.txOut = b.txs /\ exCache.states = b.scs
        BY <2>1, HitIsRight
    <2>3. r = [root |-> exCache.root, out |-> exCache.txOut, scs |-> exCache.states, cache |-> exCache]
        BY <1>2 DEF createStateChanges
    <2> HIDE DEF r
    <2>4. r.root = b.root /\ r.out = b.txs /\ r.scs = b.scs /\ r.cache = exCache
        BY <2>2, <2>3
    <2>5. CreateResult(exCache, st, b, r)
        BY <2>1, <2>2, <2>4 DEF CreateResult
    <2> QED  BY <2>5
<1>3. ASSUME ~CacheHit(exCache, b.txs) PROVE CreateResult(exCache, st, b, r)
    <2> DEFINE new == IF e.changes THEN CacheUpdate(e.out, e.st, scs) ELSE exCache
    <2>1. r = [root |-> e.st, out |-> e.out, scs |-> scs, cache |-> new]
        BY <1>3 DEF createStateChanges
    <2>2. Executed(st, Txs(b.txs), b.time, e)
        BY BlocksAre, ExecutesTxs
    <2>3. ~e.changes => b.root = st
        <3> HIDE DEF e
        <3> QED  BY <1>1, <2>2 DEF Executed
    <2>4. e.changes => new.digest = b.txs /\ new.root = b.root /\ new = CacheUpdate(e.out, e.st, scs)
        BY <1>1 DEF CacheUpdate
    <2>5. e.changes => Left(new, st, b.time)
        BY <1>1, <2>4 DEF Left
    <2>6. ~e.changes => new = exCache
        OBVIOUS
    <2> HIDE DEF r, new, e, scs
    <2>7. r.root = b.root /\ r.out = b.txs /\ r.scs = b.scs /\ r.cache = new
        BY <1>1, <2>1
    <2>8. CreateResult(exCache, st, b, r)
        BY <2>3, <2>4, <2>5, <2>6, <2>7, Zenon DEF CreateResult
    <2> QED  BY <2>8
<1>4. CreateResult(exCache, st, b, r)
    BY <1>2, <1>3
<1> QED  BY <1>4, Zenon DEF r

(* The invariant of the execution.  The cache may hold a result only of    *)
(* the state that the node has or just had; the counters tell the two      *)
(* apart, because a transaction that was accepted is spent afterwards.     *)
ExSizes ==
    /\ Tip <= ExMaxBlocks /\ exIndex \in 0 .. Tip /\ exFailed \in BOOLEAN /\ exRetimed \in BOOLEAN
    /\ exDownloads \in 0 .. ExMaxDownloads
ChainMade == exChain \in Seq(Blocks) /\ \A i \in 1 .. Tip : Made(exChain[i], StateAt(i - 1))
CountersGrow == \A i, j \in 0 .. Tip : i <= j => \A s \in ExSigners : StateAt(i).counters[s] <= StateAt(j).counters[s]
ProposalMade == exProposal = NoProposal \/ (exProposal \in Blocks /\ Made(exProposal, StateAt(Tip)) /\ Tip < ExMaxBlocks)
ReplayRight ==
    /\ exReplay \in [at : {"none", "nothing", "running", "done"}, block : 0 .. Tip + 1, st : Tries, left : Nat]
    /\ exReplay.at = "running" => exReplay.block \in 1 .. Tip /\ exReplay.st = StateAt(exReplay.block - 1)
    /\ exReplay.at = "done" => exReplay.block \in 0 .. Tip /\ exReplay.st = StateAt(exReplay.block)
Honest == ~exRetimed /\ exDownloads = 0
CacheOK ==
    /\ ~exFailed /\ CacheGood(exCache, exState)
    /\ exProposal # NoProposal => TimeKept(exCache, exProposal)
    /\ \A i \in exIndex + 1 .. Tip : TimeKept(exCache, exChain[i])
ExInv == /\ ExSizes /\ ChainMade /\ CountersGrow /\ ProposalMade /\ exState = StateAt(exIndex) /\ ReplayRight
         /\ Honest => CacheOK
LEMMA GenesisIs == Genesis \in Tries
BY DEF Genesis, Tries
LEMMA NoBlocks ==
    ASSUME NEW b \in Blocks
    PROVE  b # NoProposal
<1>1. b.time \in ExTimes
    BY BlocksAre
<1>2. NoProposal.time = 0
    BY DEF NoProposal
<1> QED  BY <1>1, <1>2, ExecutionAssumption
LEMMA StatesAre ==
    ASSUME ChainMade, NEW i \in 0 .. Tip
    PROVE  StateAt(i) \in Tries
<1>1. CASE i = 0
    BY <1>1, GenesisIs DEF StateAt
<1>2. CASE i # 0
    <2>1. i \in 1 .. Len(exChain) /\ exChain \in Seq(Blocks)
        BY <1>2 DEF Tip, ChainMade
    <2>2. exChain[i] \in Blocks
        BY <2>1
    <2>3. exChain[i].root \in Tries
        BY <2>2, BlocksAre
    <2> QED  BY <1>2, <2>3 DEF StateAt
<1> QED  BY <1>1, <1>2
LEMMA ExBegins == ExInit => ExInv
<1> SUFFICES ASSUME ExInit PROVE ExInv
    OBVIOUS
<1> USE DEF ExInit
<1>1. Tip = 0 /\ StateAt(0) = Genesis /\ exChain \in Seq(Blocks) /\ exIndex = 0
    BY DEF Tip, StateAt
<1>2. ExSizes
    <2>1. ExMaxBlocks \in Nat /\ ExMaxDownloads \in Nat
        BY ExecutionAssumption
    <2>2. Tip <= ExMaxBlocks /\ exIndex \in 0 .. Tip /\ exDownloads \in 0 .. ExMaxDownloads
        BY <1>1, <2>1
    <2>3. exFailed \in BOOLEAN /\ exRetimed \in BOOLEAN
        BY Zenon
    <2> QED  BY <2>2, <2>3 DEF ExSizes
<1>3. ChainMade
    BY <1>1 DEF ChainMade
<1>4. CountersGrow
    <2>1. Genesis.counters \in [ExSigners -> Nat]
        BY GenesisIs, TriesAre
    <2>2. \A i \in 0 .. Tip : i = 0
        BY <1>1
    <2>3. \A s \in ExSigners : Genesis.counters[s] <= Genesis.counters[s]
        BY <2>1
    <2> QED  BY <1>1, <2>2, <2>3 DEF CountersGrow
<1>5. ReplayRight
    BY <1>1, GenesisIs DEF ReplayRight, NoReplay
<1>6. CacheOK
    BY <1>1 DEF CacheOK, CacheGood
<1> QED  BY <1>1, <1>2, <1>3, <1>4, <1>5, <1>6 DEF ExInv, ProposalMade
LEMMA SameChain ==
    ASSUME exChain' = exChain
    PROVE  Tip' = Tip /\ (\A i : StateAt(i)' = StateAt(i)) /\ ChainMade' = ChainMade /\ CountersGrow' = CountersGrow
<1>1. Tip' = Tip /\ \A i : StateAt(i)' = StateAt(i)
    BY DEF Tip, StateAt
<1>2. ChainMade' = ChainMade
    BY <1>1 DEF ChainMade
<1>3. CountersGrow' = CountersGrow
    BY <1>1 DEF CountersGrow
<1> QED  BY <1>1, <1>2, <1>3

LEMMA Proposes ==
    ASSUME ExInv, NEW txs \in UNION {[1 .. n -> ExTxs] : n \in 1 .. ExMaxTxs}, NEW time \in ExTimes, Propose(txs, time)
    PROVE  ExInv'
<1> DEFINE e == Execute(StateAt(Tip), txs, time)
           p == [txs |-> e.out, root |-> e.st, scs |-> StateChanges(StateAt(Tip), e.st), time |-> time]
<1>1. /\ Tip < ExMaxBlocks /\ exProposal' = p
      /\ exRetimed' = (exRetimed \/ (Timed(e.out) /\ exCache.txOut = e.out /\ exCache.root.clock # time))
      /\ UNCHANGED <<exChain, exState, exIndex, exCache, exReplay, exFailed, exDownloads>>
    BY DEF Propose
<1>2. Tip' = Tip /\ (\A i : StateAt(i)' = StateAt(i)) /\ ChainMade' /\ CountersGrow'
    BY <1>1, SameChain DEF ExInv
<1>3. StateAt(Tip) \in Tries
    <2>1. Tip \in 0 .. Tip
        BY DEF ExInv, ChainMade, Tip
    <2> QED  BY <2>1, StatesAre DEF ExInv
<1>4. txs \in Seq(ExTxs)
    <2>1. PICK n \in 1 .. ExMaxTxs : txs \in [1 .. n -> ExTxs]
        OBVIOUS
    <2>2. n \in Nat
        BY <2>1, ExecutionAssumption
    <2> QED  BY <2>1, <2>2
<1>5. Executed(StateAt(Tip), txs, time, e) /\ Txs(e.out) = txs
    BY <1>3, <1>4, ExecutesTxs, ExecutesThem
<1> DEFINE o == e.out
           s == e.st
           c == StateChanges(StateAt(Tip), e.st)
<1>6. o \in Seq(Results) /\ s \in Tries
    <2> HIDE DEF e
    <2> QED  BY <1>5 DEF Executed, Accs
<1>7. c \in Changes
    BY <1>3, <1>6, ChangesAre
<1>8. p.txs = o /\ p.root = s /\ p.scs = c /\ p.time = time /\ p \in Blocks
    <2>1. p = [txs |-> o, root |-> s, scs |-> c, time |-> time]
        OBVIOUS
    <2> HIDE DEF p, o, s, c
    <2> QED  BY <1>6, <1>7, <2>1 DEF Blocks
<1>9. Made(p, StateAt(Tip))
    <2>1. Txs(p.txs) = txs
        BY <1>5, <1>8
    <2> HIDE DEF p
    <2> QED  BY <1>8, <2>1 DEF Made
<1> HIDE DEF p
<1>10. ProposalMade'
    BY <1>1, <1>2, <1>8, <1>9 DEF ProposalMade
<1>11. ExSizes'
    BY <1>1, <1>2 DEF ExInv, ExSizes
<1>12. ReplayRight' /\ exState' = StateAt(exIndex)'
    BY <1>1, <1>2 DEF ExInv, ReplayRight
<1>13. ASSUME Honest' PROVE CacheOK'
    <2>1. Honest /\ ~(Timed(o) /\ exCache.txOut = o /\ exCache.root.clock # time)
        BY <1>1, <1>13, Zenon DEF Honest, o
    <2>2. CacheOK
        BY <2>1 DEF ExInv
    <2>3. ~exFailed' /\ (CacheGood(exCache, exState))' /\ (\A i \in exIndex + 1 .. Tip : TimeKept(exCache, exChain[i]))'
        BY <1>1, <1>2, <2>2 DEF CacheOK, CacheGood
    <2>4. TimeKept(exCache, p)
        <3>1. exCache.digest = o /\ Timed(o) => exCache.root.clock = time
            <4> SUFFICES ASSUME exCache.digest = o, Timed(o) PROVE exCache.root.clock = time
                OBVIOUS
            <4>1. exCache # NoResult
                <5>1. NoResult.digest = << >>
                    BY DEF NoResult
                <5>2. ~Timed(<< >>)
                    BY DEF Timed
                <5> QED  BY <5>1, <5>2
            <4>2. PICK base \in Tries, t \in ExTimes : exCache.digest \in Seq(Results) /\ Left(exCache, base, t)
                BY <2>2, <4>1 DEF CacheOK, CacheGood
            <4>3. CacheFrom(exCache, exCache.digest, base, t)
                BY <4>2, LeftIs, Zenon
            <4>4. exCache.txOut = o
                BY <4>3 DEF CacheFrom
            <4> QED  BY <2>1, <4>4
        <3> QED  BY <1>8, <3>1 DEF TimeKept
    <2>5. TimeKept(exCache, exProposal)'
        BY <1>1, <2>4 DEF TimeKept
    <2> QED  BY <2>3, <2>5 DEF CacheOK
<1> QED  BY <1>2, <1>10, <1>11, <1>12, <1>13 DEF ExInv

\* The node has the state before the block, the cache stays good.
LEMMA Verifies ==
    ASSUME ExInv, VerifyProposal
    PROVE  ExInv'
<1> DEFINE r == createStateChanges(exState, exProposal.txs, exProposal.time)
<1>1. /\ exProposal # NoProposal /\ exIndex = Tip /\ exCache' = r.cache
      /\ exFailed' = (exFailed \/ r.out # exProposal.txs \/ r.root # exProposal.root \/ r.scs # exProposal.scs)
      /\ UNCHANGED <<exChain, exProposal, exState, exIndex, exReplay, exRetimed, exDownloads>>
    BY DEF VerifyProposal
<1>2. Tip' = Tip /\ (\A i : StateAt(i)' = StateAt(i)) /\ ChainMade' /\ CountersGrow'
    BY <1>1, SameChain DEF ExInv
<1>3. exProposal \in Blocks /\ Made(exProposal, exState)
    BY <1>1 DEF ExInv, ProposalMade
<1>4. exState \in Tries
    BY StatesAre DEF ExInv, ExSizes
<1>5. ProposalMade' /\ ReplayRight' /\ exState' = StateAt(exIndex)'
    BY <1>1, <1>2 DEF ExInv, ReplayRight, ProposalMade
<1>6. ExSizes'
    <2>1. exFailed' \in BOOLEAN
        BY <1>1, Zenon
    <2> QED  BY <1>1, <1>2, <2>1 DEF ExInv, ExSizes
<1>7. ASSUME Honest' PROVE CacheOK'
    <2>1. Honest /\ CacheOK
        BY <1>1, <1>7 DEF Honest, ExInv
    <2>2. CacheGood(exCache, exState) /\ TimeKept(exCache, exProposal) /\ ~exFailed
        BY <1>1, <2>1 DEF CacheOK
    <2>3. CreateResult(exCache, exState, exProposal, r)
        BY <1>3, <1>4, <2>2, CreatesRight
    <2> HIDE DEF r
    <2>4. ~exFailed'
        <3>1. ~(r.out # exProposal.txs \/ r.root # exProposal.root \/ r.scs # exProposal.scs)
            BY <2>3 DEF CreateResult
        <3> QED  BY <1>1, <2>2, <3>1, Zenon
    <2>5. CacheGood(r.cache, exState) /\ TimeKept(r.cache, exProposal)
        <3>1. CASE r.cache = exCache
            BY <2>2, <3>1
        <3>2. CASE r.cache.digest = exProposal.txs /\ Left(r.cache, exState, exProposal.time) /\ r.cache.root = exProposal.root
            <4>1. exProposal.txs \in Seq(Results) /\ exProposal.time \in ExTimes
                BY <1>3, BlocksAre
            <4>2. CacheGood(r.cache, exState)
                BY <1>4, <3>2, <4>1 DEF CacheGood
            <4>3. BlockDoes(exProposal, exState)
                BY <1>3, <1>4, BlockDoesThis
            <4>4. TimeKept(r.cache, exProposal)
                BY <3>2, <4>3 DEF TimeKept, BlockDoes
            <4> QED  BY <4>2, <4>4
        <3> QED  BY <2>3, <3>1, <3>2 DEF CreateResult
    <2>6. CacheGood(exCache, exState)' /\ TimeKept(exCache, exProposal)'
        BY <1>1, <2>5 DEF CacheGood, TimeKept
    <2>7. exIndex' + 1 .. Tip' = {}
        BY <1>1, <1>2 DEF ExInv, ExSizes
    <2> QED  BY <2>4, <2>6, <2>7 DEF CacheOK
<1> QED  BY <1>2, <1>5, <1>6, <1>7 DEF ExInv
LEMMA Abandons ==
    ASSUME ExInv, Abandon
    PROVE  ExInv'
<1>1. exProposal' = NoProposal /\ UNCHANGED <<exChain, exState, exIndex, exCache, exReplay, exFailed, exRetimed, exDownloads>>
    BY DEF Abandon
<1>2. Tip' = Tip /\ (\A i : StateAt(i)' = StateAt(i)) /\ ChainMade' /\ CountersGrow'
    BY <1>1, SameChain DEF ExInv
<1>3. NoProposal' = NoProposal
    BY DEF NoProposal, Genesis, NoChanges
<1>4. ProposalMade' /\ ReplayRight' /\ exState' = StateAt(exIndex)' /\ ExSizes'
    BY <1>1, <1>2, <1>3 DEF ExInv, ReplayRight, ProposalMade, ExSizes
<1>5. ASSUME Honest' PROVE CacheOK'
    <2>1. CacheOK
        BY <1>1, <1>5 DEF Honest, ExInv
    <2> QED  BY <1>1, <1>2, <1>3, <2>1 DEF CacheOK, CacheGood
<1> QED  BY <1>2, <1>4, <1>5 DEF ExInv

\* The chain grows by a block made on its last state.
LEMMA Agrees ==
    ASSUME ExInv, Agree
    PROVE  ExInv'
<1> DEFINE p == exProposal
<1>0. PICK n : n = Tip
    OBVIOUS
<1>1. /\ p # NoProposal /\ exProposal' = NoProposal /\ exChain' = Append(exChain, p)
      /\ UNCHANGED <<exState, exIndex, exCache, exReplay, exFailed, exRetimed, exDownloads>>
    BY DEF Agree
<1>2. p \in Blocks /\ Made(p, StateAt(n)) /\ n < ExMaxBlocks
    BY <1>0, <1>1 DEF ExInv, ProposalMade
<1>3. exChain \in Seq(Blocks) /\ n = Len(exChain) /\ n \in Nat /\ ExMaxBlocks \in Nat
    BY <1>0, ExecutionAssumption DEF ExInv, ChainMade, Tip
<1>4. /\ Tip' = n + 1 /\ exChain' \in Seq(Blocks) /\ exChain'[n + 1] = p
      /\ \A i \in 1 .. n : exChain'[i] = exChain[i]
    BY <1>1, <1>2, <1>3 DEF Tip
<1>5. \A i \in 0 .. n : StateAt(i)' = StateAt(i)
    <2> SUFFICES ASSUME NEW i \in 0 .. n PROVE StateAt(i)' = StateAt(i)
        OBVIOUS
    <2>1. CASE i = 0
        BY <2>1 DEF StateAt
    <2>2. CASE i # 0
        <3>1. i \in 1 .. n
            BY <1>3, <2>2
        <3> QED  BY <1>4, <2>2, <3>1 DEF StateAt
    <2> QED  BY <2>1, <2>2
<1>6. StateAt(n + 1)' = p.root
    BY <1>3, <1>4 DEF StateAt
<1>7. ChainMade'
    <2> SUFFICES ASSUME NEW i \in 1 .. n + 1 PROVE Made(exChain'[i], StateAt(i - 1)')
        BY <1>4 DEF ChainMade
    <2>1. CASE i = n + 1
        <3>1. i - 1 = n /\ n \in 0 .. n
            BY <1>3, <2>1
        <3> QED  BY <1>2, <1>4, <1>5, <2>1, <3>1
    <2>2. CASE i # n + 1
        <3>1. i \in 1 .. n /\ i - 1 \in 0 .. n
            BY <1>3, <2>2
        <3>2. Made(exChain[i], StateAt(i - 1))
            BY <1>0, <3>1 DEF ExInv, ChainMade
        <3> QED  BY <1>4, <1>5, <3>1, <3>2
    <2> QED  BY <2>1, <2>2
<1>8. CountersGrow'
    <2> SUFFICES ASSUME NEW i \in 0 .. n + 1, NEW j \in 0 .. n + 1, i <= j
                 PROVE  \A s \in ExSigners : StateAt(i)'.counters[s] <= StateAt(j)'.counters[s]
        BY <1>4 DEF CountersGrow
    <2>1. \A k, l \in 0 .. n : k <= l => \A s \in ExSigners : StateAt(k).counters[s] <= StateAt(l).counters[s]
        BY <1>0 DEF ExInv, CountersGrow
    <2>2. \A k \in 0 .. n : StateAt(k) \in Tries
        BY <1>0, StatesAre DEF ExInv
    <2>3. n \in 0 .. n /\ \A k \in 0 .. n : k <= n
        BY <1>3
    <2>4. p.root \in Tries
        BY <1>2, BlocksAre
    <2>5. \A s \in ExSigners : StateAt(n).counters[s] <= p.root.counters[s]
        <3>1. BlockDoes(p, StateAt(n))
            BY <1>2, <2>2, <2>3, BlockDoesThis
        <3> QED  BY <3>1 DEF BlockDoes
    <2>6. CASE j = n + 1
        <3>1. CASE i = n + 1
            <4>1. p.root.counters \in [ExSigners -> Nat]
                BY <2>4, TriesAre
            <4> QED  BY <1>6, <2>6, <3>1, <4>1
        <3>2. CASE i # n + 1
            <4>1. i \in 0 .. n
                BY <1>3, <3>2
            <4>2. \A s \in ExSigners : StateAt(i).counters[s] <= StateAt(n).counters[s]
                BY <2>1, <2>3, <4>1
            <4>3. \A s \in ExSigners : StateAt(i).counters[s] <= p.root.counters[s]
                <5>1. StateAt(i) \in Tries /\ StateAt(n) \in Tries
                    BY <2>2, <2>3, <4>1
                <5> QED  BY <2>4, <2>5, <4>2, <5>1, Monotone
            <4> QED  BY <1>5, <1>6, <2>6, <4>1, <4>3
        <3> QED  BY <3>1, <3>2
    <2>7. CASE j # n + 1
        <3>1. i \in 0 .. n /\ j \in 0 .. n
            BY <1>3, <2>7
        <3> QED  BY <1>5, <2>1, <3>1
    <2> QED  BY <2>6, <2>7
<1>9. exIndex \in 0 .. n /\ exState = StateAt(exIndex) /\ exFailed \in BOOLEAN /\ exRetimed \in BOOLEAN /\ exDownloads \in 0 .. ExMaxDownloads
    BY <1>0 DEF ExInv, ExSizes
<1>10. ExSizes' /\ exState' = StateAt(exIndex)'
    <2>1. n + 1 <= ExMaxBlocks /\ exIndex \in 0 .. n + 1
        BY <1>2, <1>3, <1>9
    <2> QED  BY <1>1, <1>4, <1>5, <1>9, <2>1 DEF ExSizes
<1>11. NoProposal' = NoProposal
    BY DEF NoProposal, Genesis, NoChanges
<1>12. ReplayRight'
    <2>0. PICK b : b = exReplay.block
        OBVIOUS
    <2>1. /\ exReplay \in [at : {"none", "nothing", "running", "done"}, block : 0 .. n + 1, st : Tries, left : Nat]
          /\ exReplay.at = "running" => b \in 1 .. n /\ exReplay.st = StateAt(b - 1)
          /\ exReplay.at = "done" => b \in 0 .. n /\ exReplay.st = StateAt(b)
        BY <1>0, <2>0 DEF ExInv, ReplayRight
    <2>2. 0 .. n + 1 \subseteq 0 .. n + 2 /\ 0 .. n \subseteq 0 .. n + 1 /\ 1 .. n \subseteq 1 .. n + 1
        BY <1>3
    <2>3. exReplay \in [at : {"none", "nothing", "running", "done"}, block : 0 .. n + 2, st : Tries, left : Nat]
        BY <2>1, <2>2
    <2>4. exReplay.at = "running" => b \in 1 .. n + 1 /\ exReplay.st = StateAt(b - 1)'
        <3> HAVE exReplay.at = "running"
        <3>1. b \in 1 .. n /\ exReplay.st = StateAt(b - 1)
            BY <2>1
        <3>2. b - 1 \in 0 .. n
            BY <1>3, <3>1
        <3> QED  BY <1>5, <2>2, <3>1, <3>2
    <2>5. exReplay.at = "done" => b \in 0 .. n + 1 /\ exReplay.st = StateAt(b)'
        BY <1>5, <2>1, <2>2
    <2>6. (n + 1) + 1 = n + 2
        BY <1>3
    <2>7. exReplay' = exReplay /\ exReplay'.block = b
        BY <1>1, <2>0
    <2> QED  BY <1>4, <2>3, <2>4, <2>5, <2>6, <2>7 DEF ReplayRight
<1>13. ASSUME Honest' PROVE CacheOK'
    <2>1. CacheOK
        BY <1>1, <1>13 DEF Honest, ExInv
    <2>2. ASSUME NEW i \in exIndex + 1 .. n + 1 PROVE TimeKept(exCache, exChain'[i])
        <3>1. CASE i = n + 1
            BY <1>1, <1>4, <2>1, <3>1 DEF CacheOK
        <3>2. CASE i # n + 1
            <4>1. i \in exIndex + 1 .. n /\ i \in 1 .. n
                BY <1>3, <1>9, <3>2
            <4> QED  BY <1>0, <1>4, <2>1, <4>1 DEF CacheOK
        <3> QED  BY <3>1, <3>2
    <2>3. (\A i \in exIndex + 1 .. Tip : TimeKept(exCache, exChain[i]))'
        BY <1>1, <1>4, <2>2 DEF TimeKept
    <2>4. ~exFailed' /\ CacheGood(exCache, exState)'
        BY <1>1, <2>1 DEF CacheOK, CacheGood
    <2> QED  BY <1>1, <1>11, <2>3, <2>4 DEF CacheOK
<1> QED  BY <1>1, <1>7, <1>8, <1>10, <1>11, <1>12, <1>13 DEF ExInv, ProposalMade

\* The next block is applied; what it leaves in the cache is spent.
LEMMA Applies ==
    ASSUME ExInv, ApplyBlock
    PROVE  ExInv'
<1>1. PICK k : k = exIndex
    OBVIOUS
<1>2. PICK n : n = Tip
    OBVIOUS
<1> DEFINE b == exChain[k + 1]
           r == createStateChanges(exState, b.txs, b.time)
<1>3. /\ k < n /\ exCache' = r.cache
      /\ IF StoreAll(exState, r.scs) = b.root THEN exState' = b.root /\ exIndex' = exIndex + 1 /\ UNCHANGED exFailed
         ELSE exFailed' = TRUE /\ UNCHANGED <<exState, exIndex>>
      /\ UNCHANGED <<exChain, exProposal, exReplay, exRetimed, exDownloads>>
    BY <1>1, <1>2 DEF ApplyBlock
<1>4. Tip' = n /\ (\A i : StateAt(i)' = StateAt(i)) /\ ChainMade' /\ CountersGrow'
    BY <1>2, <1>3, SameChain DEF ExInv
<1>5. /\ k \in 0 .. n /\ n \in Nat /\ exChain \in Seq(Blocks) /\ n = Len(exChain) /\ exState = StateAt(k) /\ exFailed \in BOOLEAN
      /\ \A i \in 1 .. n : Made(exChain[i], StateAt(i - 1))
    BY <1>1, <1>2 DEF ExInv, ExSizes, ChainMade, Tip
<1>6. k + 1 \in 1 .. n /\ k + 1 \in 0 .. n /\ (k + 1) - 1 = k /\ k + 1 # 0
    BY <1>3, <1>5
<1>7. b \in Blocks /\ Made(b, exState) /\ exState \in Tries /\ b.root = StateAt(k + 1)
    <2>1. Made(b, StateAt((k + 1) - 1)) /\ b \in Blocks
        BY <1>5, <1>6
    <2>2. StateAt(k) \in Tries
        BY <1>2, <1>5, StatesAre DEF ExInv
    <2>3. b.root = StateAt(k + 1)
        BY <1>6 DEF StateAt
    <2> QED  BY <1>5, <1>6, <2>1, <2>2, <2>3
<1>8. BlockDoes(b, exState)
    BY <1>7, BlockDoesThis
<1>9. exIndex' \in {k, k + 1} /\ exState' = StateAt(exIndex') /\ exFailed' \in BOOLEAN
    <2>1. CASE StoreAll(exState, r.scs) = b.root
        BY <1>1, <1>3, <1>5, <1>7, <2>1
    <2>2. CASE StoreAll(exState, r.scs) # b.root
        BY <1>1, <1>3, <1>5, <2>2
    <2> QED  BY <2>1, <2>2
<1>10. exState' = StateAt(exIndex)' /\ ExSizes'
    <2>1. PICK l : l = exIndex'
        OBVIOUS
    <2>2. exState' = StateAt(exIndex)'
        BY <1>3, <1>9 DEF StateAt
    <2>3. exIndex' \in 0 .. n
        BY <1>5, <1>6, <1>9
    <2> QED  BY <1>2, <1>3, <1>4, <1>9, <2>2, <2>3 DEF ExInv, ExSizes
<1>11. ProposalMade' /\ ReplayRight'
    BY <1>2, <1>3, <1>4 DEF ExInv, ProposalMade, ReplayRight
<1>12. ASSUME Honest' PROVE CacheOK'
    <2>1. CacheOK
        BY <1>3, <1>12 DEF Honest, ExInv
    <2>2. CacheGood(exCache, exState) /\ TimeKept(exCache, b) /\ ~exFailed
        <3>1. k + 1 \in exIndex + 1 .. Tip
            BY <1>1, <1>2, <1>5, <1>6
        <3> QED  BY <2>1, <3>1 DEF CacheOK
    <2>3. CreateResult(exCache, exState, b, r)
        BY <1>7, <2>2, CreatesRight
    <2> HIDE DEF r
    <2>4. exState' = b.root /\ exIndex' = k + 1 /\ ~exFailed'
        <3>1. StoreAll(exState, r.scs) = b.root
            BY <1>8, <2>3 DEF CreateResult, BlockDoes
        <3> QED  BY <1>1, <1>3, <2>2, <3>1
    <2> HIDE DEF b
    <2>5. CASE r.cache = exCache
        <3>1. CacheGood(exCache, b.root)
            <4>1. CASE exCache.root = b.root /\ exCache # NoResult
                BY <2>2, <4>1 DEF CacheGood
            <4>2. CASE b.root = exState
                BY <2>2, <4>2
            <4>3. CASE r.cache.digest = b.txs /\ Left(r.cache, exState, b.time) /\ r.cache.root = b.root
                <5>1. b.txs \in Seq(Results) /\ b.time \in ExTimes
                    BY <1>7, BlocksAre
                <5> QED  BY <1>7, <2>5, <4>3, <5>1 DEF CacheGood
            <4> QED  BY <2>3, <2>5, <4>1, <4>2, <4>3 DEF CreateResult
        <3>2. CacheGood(exCache, exState)'
            BY <1>3, <2>4, <2>5, <3>1 DEF CacheGood
        <3>3. \A i \in (k + 1) + 1 .. n : TimeKept(exCache, exChain[i])
            <4> SUFFICES ASSUME NEW i \in (k + 1) + 1 .. n PROVE TimeKept(exCache, exChain[i])
                OBVIOUS
            <4>1. i \in exIndex + 1 .. Tip
                BY <1>1, <1>2, <1>5
            <4> QED  BY <2>1, <4>1 DEF CacheOK
        <3>4. exProposal # NoProposal => TimeKept(exCache, exProposal)
            BY <2>1 DEF CacheOK
        <3>5. exCache' = exCache /\ exProposal' = exProposal /\ exChain' = exChain
            BY <1>3, <2>5
        <3>6. NoProposal' = NoProposal
            BY DEF NoProposal, Genesis, NoChanges
        <3>7. (\A i \in exIndex + 1 .. Tip : TimeKept(exCache, exChain[i]))'
            BY <1>4, <2>4, <3>3, <3>5 DEF TimeKept
        <3>8. (exProposal # NoProposal => TimeKept(exCache, exProposal))'
            BY <3>4, <3>5, <3>6 DEF TimeKept
        <3> QED  BY <2>4, <3>2, <3>7, <3>8 DEF CacheOK
    <2>6. CASE r.cache.digest = b.txs /\ Left(r.cache, exState, b.time) /\ r.cache.root = b.root
        <3>1. b.txs \in Seq(Results) /\ b.time \in ExTimes
            BY <1>7, BlocksAre
        <3>2. CacheGood(r.cache, b.root)
            BY <1>7, <2>6, <3>1 DEF CacheGood
        <3>3. PICK j \in DOMAIN b.txs : b.txs[j].ok
            <4>1. CacheFrom(r.cache, r.cache.digest, exState, b.time)
                BY <1>7, <2>6, <3>1, LeftIs
            <4>2. CacheFrom(r.cache, b.txs, exState, b.time)
                BY <2>6, <4>1
            <4> QED  BY <4>2 DEF CacheFrom
        <3>4. ASSUME NEW c \in Blocks, NEW m \in 0 .. n, m >= k + 1, Made(c, StateAt(m)) PROVE TimeKept(r.cache, c)
            <4>1. \A s \in ExSigners : b.root.counters[s] <= StateAt(m).counters[s]
                BY <1>2, <1>6, <1>7, <3>4 DEF ExInv, CountersGrow
            <4>2. StateAt(m) \in Tries
                BY <1>2, StatesAre DEF ExInv
            <4>3. c.txs # b.txs
                BY <1>7, <3>3, <3>4, <4>1, <4>2, NotAgain
            <4> QED  BY <2>6, <4>3 DEF TimeKept
        <3>5. \A i \in (k + 1) + 1 .. n : TimeKept(r.cache, exChain[i])
            <4> SUFFICES ASSUME NEW i \in (k + 1) + 1 .. n PROVE TimeKept(r.cache, exChain[i])
                OBVIOUS
            <4>1. i \in 1 .. n /\ i - 1 \in 0 .. n /\ i - 1 >= k + 1
                BY <1>5
            <4>2. exChain[i] \in Blocks /\ Made(exChain[i], StateAt(i - 1))
                BY <1>5, <4>1
            <4> QED  BY <3>4, <4>1, <4>2
        <3>6. exProposal # NoProposal => TimeKept(r.cache, exProposal)
            <4> HAVE exProposal # NoProposal
            <4>1. exProposal \in Blocks /\ Made(exProposal, StateAt(n))
                BY <1>2 DEF ExInv, ProposalMade
            <4>2. n \in 0 .. n /\ n >= k + 1
                BY <1>5, <1>6
            <4> QED  BY <3>4, <4>1, <4>2
        <3>7. exCache' = r.cache /\ exProposal' = exProposal /\ exChain' = exChain
            BY <1>3
        <3>8. NoProposal' = NoProposal
            BY DEF NoProposal, Genesis, NoChanges
        <3>9. (\A i \in exIndex + 1 .. Tip : TimeKept(exCache, exChain[i]))'
            BY <1>4, <2>4, <3>5, <3>7 DEF TimeKept
        <3>10. (exProposal # NoProposal => TimeKept(exCache, exProposal))'
            BY <3>6, <3>7, <3>8 DEF TimeKept
        <3>11. CacheGood(exCache, exState)'
            BY <2>4, <3>2, <3>7 DEF CacheGood
        <3> QED  BY <2>4, <3>9, <3>10, <3>11 DEF CacheOK
    <2> QED  BY <2>3, <2>5, <2>6 DEF CreateResult
<1> QED  BY <1>4, <1>10, <1>11, <1>12 DEF ExInv
LEMMA Downloads ==
    ASSUME ExInv, Download
    PROVE  ExInv'
<1>1. /\ exDownloads < ExMaxDownloads /\ exDownloads' = exDownloads + 1 /\ exState' = StateAt(Tip) /\ exIndex' = Tip
      /\ UNCHANGED <<exChain, exProposal, exCache, exReplay, exFailed, exRetimed>>
    BY DEF Download
<1>2. Tip' = Tip /\ (\A i : StateAt(i)' = StateAt(i)) /\ ChainMade' /\ CountersGrow'
    BY <1>1, SameChain DEF ExInv
<1>3. ExMaxDownloads \in Nat /\ exDownloads \in Nat /\ Tip \in Nat
    BY ExecutionAssumption DEF ExInv, ExSizes, ChainMade, Tip
<1>4. exDownloads' \in 0 .. ExMaxDownloads /\ exDownloads' # 0 /\ exIndex' \in 0 .. Tip
    BY <1>1, <1>3
<1>5. exState' = StateAt(exIndex)'
    BY <1>1, <1>2 DEF StateAt
<1>6. ProposalMade' /\ ReplayRight' /\ ExSizes'
    BY <1>1, <1>2, <1>4 DEF ExInv, ReplayRight, ProposalMade, ExSizes
<1>7. ~Honest'
    BY <1>4 DEF Honest
<1> QED  BY <1>2, <1>5, <1>6, <1>7 DEF ExInv
LEMMA ExRestarts ==
    ASSUME ExInv, ExRestart
    PROVE  ExInv'
<1>1. exCache' = NoResult /\ UNCHANGED <<exChain, exProposal, exState, exIndex, exReplay, exFailed, exRetimed, exDownloads>>
    BY DEF ExRestart
<1>2. Tip' = Tip /\ (\A i : StateAt(i)' = StateAt(i)) /\ ChainMade' /\ CountersGrow'
    BY <1>1, SameChain DEF ExInv
<1>3. NoResult' = NoResult /\ \A b : TimeKept(NoResult, b)
    <2>1. NoResult.digest = << >> /\ ~Timed(<< >>)
        BY DEF NoResult, Timed
    <2>2. NoResult' = NoResult
        BY DEF NoResult, NoChanges, Genesis
    <2> QED  BY <2>1, <2>2 DEF TimeKept
<1>4. ProposalMade' /\ ReplayRight' /\ exState' = StateAt(exIndex)' /\ ExSizes'
    BY <1>1, <1>2 DEF ExInv, ReplayRight, ProposalMade, ExSizes
<1>5. ASSUME Honest' PROVE CacheOK'
    <2>1. CacheOK
        BY <1>1, <1>5 DEF Honest, ExInv
    <2>2. CacheGood(NoResult, exState)
        BY DEF CacheGood
    <2>3. \A b : exCache' = NoResult /\ TimeKept(exCache', b)
        BY <1>1, <1>3
    <2>4. TimeKept(exCache, exProposal)' /\ (\A i \in exIndex + 1 .. Tip : TimeKept(exCache, exChain[i]))'
        BY <2>3 DEF TimeKept
    <2>5. CacheGood(exCache, exState)'
        BY <1>1, <1>3 DEF CacheGood
    <2> QED  BY <1>1, <2>1, <2>4, <2>5 DEF CacheOK
<1> QED  BY <1>2, <1>4, <1>5 DEF ExInv

\* Everything but the replay is as before.
LEMMA ReplayOnly ==
    ASSUME ExInv, ReplayRight', UNCHANGED <<exChain, exProposal, exState, exIndex, exCache, exFailed, exRetimed, exDownloads>>
    PROVE  ExInv'
<1>1. Tip' = Tip /\ (\A i : StateAt(i)' = StateAt(i)) /\ ChainMade' /\ CountersGrow'
    BY SameChain DEF ExInv
<1>2. ProposalMade' /\ exState' = StateAt(exIndex)' /\ ExSizes'
    BY <1>1 DEF ExInv, ProposalMade, ExSizes
<1>3. ASSUME Honest' PROVE CacheOK'
    <2>1. CacheOK
        BY <1>3 DEF Honest, ExInv
    <2> QED  BY <1>1, <2>1 DEF CacheOK, CacheGood
<1> QED  BY <1>1, <1>2, <1>3 DEF ExInv
LEMMA StartsReplay ==
    ASSUME ExInv, NEW copy \in BOOLEAN, NEW blocks \in -1 .. 1, ReplayState(copy, blocks)
    PROVE  ExInv'
<1> DEFINE first == IF copy THEN exIndex + 1 ELSE 1
           st == IF copy THEN exState ELSE Genesis
           at == IF first > Tip THEN "nothing" ELSE "running"
           left == IF blocks < 0 THEN Tip ELSE blocks
<1>1. /\ exReplay' = [at |-> at, block |-> first, st |-> st, left |-> left]
      /\ UNCHANGED <<exChain, exProposal, exState, exIndex, exCache, exFailed, exRetimed, exDownloads>>
    BY DEF ReplayState
<1>2. Tip' = Tip /\ (\A i : StateAt(i)' = StateAt(i)) /\ Tip \in Nat /\ exIndex \in 0 .. Tip /\ ChainMade /\ exState = StateAt(exIndex)
    BY <1>1, SameChain DEF ExInv, ExSizes, ChainMade, Tip
<1>3. first \in 0 .. Tip + 1 /\ first >= 1 /\ left \in Nat /\ at \in {"none", "nothing", "running", "done"}
    BY <1>2
<1>4. st \in Tries /\ st = StateAt(first - 1)
    <2>1. CASE copy
        <3>1. (exIndex + 1) - 1 = exIndex
            BY <1>2
        <3> QED  BY <1>2, <2>1, <3>1, StatesAre
    <2>2. CASE ~copy
        <3>1. StateAt(1 - 1) = Genesis
            BY DEF StateAt
        <3> QED  BY <2>2, <3>1, GenesisIs
    <2> QED  BY <2>1, <2>2
<1>5. at = "running" => first \in 1 .. Tip
    BY <1>2, <1>3
<1>6. at # "done"
    OBVIOUS
<1>7. PICK f, s, a, l : f = first /\ s = st /\ a = at /\ l = left
    OBVIOUS
<1> HIDE DEF first, st, at, left
<1>8. /\ exReplay' \in [at : {"none", "nothing", "running", "done"}, block : 0 .. Tip + 1, st : Tries, left : Nat]
      /\ exReplay'.at = a /\ exReplay'.block = f /\ exReplay'.st = s
    BY <1>1, <1>3, <1>4, <1>7
<1>9. s = StateAt(f - 1)'
    BY <1>2, <1>4, <1>7
<1>10. ReplayRight'
    BY <1>2, <1>5, <1>6, <1>7, <1>8, <1>9 DEF ReplayRight
<1> QED  BY <1>1, <1>10, ReplayOnly
LEMMA ReplaysBlock ==
    ASSUME ExInv, ReplayBlock
    PROVE  ExInv'
<1>1. PICK k : k = exReplay.block
    OBVIOUS
<1> DEFINE b == exChain[k]
           r == ReplayTxs(exReplay.st, b)
<1>2. /\ exReplay.at = "running"
      /\ exReplay' = IF exReplay.left = 0 THEN [exReplay EXCEPT !.at = "done", !.block = @ - 1]
             ELSE IF ~r.ok \/ r.st # b.root THEN [exReplay EXCEPT !.at = "failed"]
             ELSE IF exReplay.block = Tip THEN [exReplay EXCEPT !.at = "done", !.st = r.st]
             ELSE [exReplay EXCEPT !.block = @ + 1, !.st = r.st, !.left = @ - 1]
      /\ UNCHANGED <<exChain, exProposal, exState, exIndex, exCache, exFailed, exRetimed, exDownloads>>
    BY <1>1 DEF ReplayBlock
<1>3. Tip' = Tip /\ (\A i : StateAt(i)' = StateAt(i)) /\ Tip \in Nat /\ ChainMade /\ exChain \in Seq(Blocks) /\ Tip = Len(exChain)
    BY <1>2, SameChain DEF ExInv, ChainMade, Tip
<1>4. /\ exReplay \in [at : {"none", "nothing", "running", "done"}, block : 0 .. Tip + 1, st : Tries, left : Nat]
      /\ k \in 1 .. Tip /\ exReplay.st = StateAt(k - 1)
    BY <1>1, <1>2 DEF ExInv, ReplayRight
<1>5. b \in Blocks /\ Made(b, StateAt(k - 1)) /\ b.root = StateAt(k) /\ k - 1 \in 0 .. Tip
    <2>1. b \in Blocks
        BY <1>3, <1>4
    <2>2. Made(b, StateAt(k - 1))
        BY <1>4 DEF ExInv, ChainMade
    <2>3. b.root = StateAt(k)
        BY <1>4 DEF StateAt
    <2>4. k - 1 \in 0 .. Tip
        BY <1>3, <1>4
    <2> QED  BY <2>1, <2>2, <2>3, <2>4
<1>6. r = [ok |-> TRUE, st |-> b.root] /\ b.root \in Tries
    <2>1. BlockDoes(b, StateAt(k - 1))
        BY <1>3, <1>5, StatesAre, BlockDoesThis
    <2>2. b.root \in Tries
        BY <1>5, BlocksAre
    <2> QED  BY <1>4, <2>1, <2>2 DEF BlockDoes
<1> HIDE DEF b, r
<1>7. r.ok /\ r.st = b.root
    BY <1>6
<1>8. CASE exReplay.left = 0
    <2>1. exReplay' = [exReplay EXCEPT !.at = "done", !.block = @ - 1]
        BY <1>2, <1>8
    <2>0. k - 1 \in 0 .. Tip + 1
        BY <1>3, <1>4
    <2>2. /\ exReplay' \in [at : {"none", "nothing", "running", "done"}, block : 0 .. Tip + 1, st : Tries, left : Nat]
          /\ exReplay'.at = "done" /\ exReplay'.block = k - 1 /\ exReplay'.st = StateAt(k - 1)
        BY <1>1, <1>4, <2>0, <2>1
    <2>3. ReplayRight'
        BY <1>3, <1>5, <2>2 DEF ReplayRight
    <2> QED  BY <1>2, <2>3, ReplayOnly
<1>9. CASE exReplay.left # 0 /\ k = Tip
    <2>1. exReplay' = [exReplay EXCEPT !.at = "done", !.st = b.root]
        BY <1>1, <1>2, <1>7, <1>9
    <2>2. /\ exReplay' \in [at : {"none", "nothing", "running", "done"}, block : 0 .. Tip + 1, st : Tries, left : Nat]
          /\ exReplay'.at = "done" /\ exReplay'.block = k /\ exReplay'.st = StateAt(k)
        BY <1>1, <1>4, <1>5, <1>6, <2>1
    <2>3. ReplayRight'
        BY <1>3, <1>4, <2>2 DEF ReplayRight
    <2> QED  BY <1>2, <2>3, ReplayOnly
<1>10. CASE exReplay.left # 0 /\ k # Tip
    <2>1. exReplay' = [exReplay EXCEPT !.block = @ + 1, !.st = b.root, !.left = @ - 1]
        BY <1>1, <1>2, <1>7, <1>10
    <2>2. k + 1 \in 1 .. Tip /\ k + 1 \in 0 .. Tip + 1 /\ (k + 1) - 1 = k /\ exReplay.left - 1 \in Nat
        BY <1>3, <1>4, <1>10
    <2>3. /\ exReplay' \in [at : {"none", "nothing", "running", "done"}, block : 0 .. Tip + 1, st : Tries, left : Nat]
          /\ exReplay'.at = "running" /\ exReplay'.block = k + 1 /\ exReplay'.st = StateAt(k)
        BY <1>1, <1>2, <1>4, <1>5, <1>6, <2>1, <2>2
    <2>4. ReplayRight'
        BY <1>3, <2>2, <2>3 DEF ReplayRight
    <2> QED  BY <1>2, <2>4, ReplayOnly
<1> QED  BY <1>8, <1>9, <1>10

\* Every step keeps the invariant; it gives the properties.
LEMMA ExecutionStep ==
    ASSUME ExInv, ExNext
    PROVE  ExInv'
<1>1. CASE \E txs \in UNION {[1 .. n -> ExTxs] : n \in 1 .. ExMaxTxs}, time \in ExTimes : Propose(txs, time)
    BY <1>1, Proposes
<1>2. CASE VerifyProposal
    BY <1>2, Verifies
<1>3. CASE Abandon
    BY <1>3, Abandons
<1>4. CASE Agree
    BY <1>4, Agrees
<1>5. CASE ApplyBlock
    BY <1>5, Applies
<1>6. CASE Download
    BY <1>6, Downloads
<1>7. CASE ExRestart
    BY <1>7, ExRestarts
<1>8. CASE \E copy \in BOOLEAN, n \in -1 .. 1 : ReplayState(copy, n)
    BY <1>8, StartsReplay
<1>9. CASE ReplayBlock
    BY <1>9, ReplaysBlock
<1> QED  BY <1>1, <1>2, <1>3, <1>4, <1>5, <1>6, <1>7, <1>8, <1>9 DEF ExNext
LEMMA ExecutionStutter ==
    ASSUME ExInv, UNCHANGED exVars
    PROVE  ExInv'
<1>1. UNCHANGED <<exChain, exProposal, exState, exIndex, exCache, exFailed, exRetimed, exDownloads>> /\ UNCHANGED exReplay
    BY DEF exVars
<1>2. Tip' = Tip /\ \A i : StateAt(i)' = StateAt(i)
    BY <1>1, SameChain
<1>3. ReplayRight'
    BY <1>1, <1>2 DEF ReplayRight, ExInv
<1> QED  BY <1>1, <1>3, ReplayOnly
LEMMA ExecutionHolds ==
    ASSUME ExInv
    PROVE  ExTypeOK /\ ExecutionAgrees
<1>1. ExSizes /\ ReplayRight /\ exState = StateAt(exIndex) /\ (Honest => ~exFailed)
    BY DEF ExInv, CacheOK
<1>2. ExTypeOK
    BY <1>1 DEF ExTypeOK, ExSizes, ReplayRight
<1>3. exFailed => exRetimed \/ exDownloads > 0
    BY <1>1, ExecutionAssumption DEF Honest, ExSizes
<1>4. exReplay.at # "failed" /\ (exReplay.at = "done" => exReplay.st = StateAt(exReplay.block))
    BY <1>1 DEF ReplayRight
<1> QED  BY <1>1, <1>2, <1>3, <1>4 DEF ExecutionAgrees

-----------------------------------------------------------------------------
(* The three parts together.                                               *)
LedgerInv ==
    /\ active \in {"contracts", "cache", "execution"}
    /\ active = "contracts" => CInv
    /\ active = "cache" => CacheInv /\ TcInv
    /\ active = "execution" => ExInv
LEMMA LedgerBegins == LedgerInit => LedgerInv
BY ContractsBegin, CacheInvInit, CacheTypesInit, ExBegins DEF LedgerInit, LedgerInv
LEMMA LedgerStep == LedgerInv /\ [LedgerNext]_LedgerVars => LedgerInv'
<1> SUFFICES ASSUME LedgerInv, [LedgerNext]_LedgerVars PROVE LedgerInv'
    OBVIOUS
<1>1. active' = active
    BY DEF LedgerNext, LedgerVars
<1>2. CASE active = "contracts"
    <2>1. CInv /\ (CNext \/ UNCHANGED cVars)
        BY <1>2 DEF LedgerInv, LedgerNext, LedgerVars
    <2>2. CInv'
        BY <2>1, ContractsStep, ContractsStutter
    <2> QED  BY <1>1, <1>2, <2>2 DEF LedgerInv
<1>3. CASE active = "cache"
    <2>1. CacheInv /\ TcInv /\ [TcNext]_tcVars
        BY <1>3 DEF LedgerInv, LedgerNext, LedgerVars
    <2>2. CacheInv' /\ TcInv'
        BY <2>1, CacheInvNext, CacheTypesNext
    <2> QED  BY <1>1, <1>3, <2>2 DEF LedgerInv
<1>4. CASE active = "execution"
    <2>1. ExInv /\ (ExNext \/ UNCHANGED exVars)
        BY <1>4 DEF LedgerInv, LedgerNext, LedgerVars
    <2>2. ExInv'
        BY <2>1, ExecutionStep, ExecutionStutter
    <2> QED  BY <1>1, <1>4, <2>2 DEF LedgerInv
<1> QED  BY <1>2, <1>3, <1>4 DEF LedgerInv
LEMMA LedgerHolds == LedgerInv => LedgerTypeOK /\ ContractsRight /\ ExecutionRight
BY ContractsHold, ExecutionHolds DEF LedgerInv, LedgerTypeOK, ContractsRight, ExecutionRight, CacheInv, TcInv
LEMMA LedgerAlways == LedgerSpec => []LedgerInv
BY LedgerBegins, LedgerStep, PTL DEF LedgerSpec

(* The variables of each part keep their types.                            *)
THEOREM LedgerTyped == LedgerSpec => []LedgerTypeOK
BY LedgerAlways, LedgerHolds, PTL

(* For any coins, values, names, signers and bounds: instructions mint and *)
(* move coins but never make or lose any, a signed instruction and the     *)
(* transaction of a deferred instance take effect once, and the list of    *)
(* the namings reaches every entry (byzcoin/contracts, transaction.go,     *)
(* contract_name.go, contract_deferred.go).                                *)
THEOREM ContractsAlwaysRight == LedgerSpec => []ContractsRight
BY LedgerAlways, LedgerHolds, PTL

(* No step gives an entry to another instance or takes back its removal    *)
(* (contract_name.go).                                                     *)
THEOREM NamesAlwaysRight == LedgerSpec => NamesRight
<1> DEFINE Kept == active = "contracts" =>
                    \A k \in DOMAIN cEntries : /\ k \in DOMAIN cEntries' /\ cEntries'[k].iid = cEntries[k].iid
                                               /\ cEntries[k].removed => cEntries'[k].removed
<1>1. ASSUME LedgerInv, LedgerNext PROVE Kept
    <2> SUFFICES ASSUME active = "contracts" PROVE EntriesKept(cEntries, cEntries')
        BY DEF EntriesKept
    <2>1. CInv /\ CNext
        BY <1>1 DEF LedgerInv, LedgerNext
    <2> QED  BY <2>1, ContractsStep
<1>2. LedgerInv /\ [LedgerNext]_LedgerVars => [Kept]_LedgerVars
    BY <1>1
<1> HIDE DEF Kept
<1>3. LedgerSpec => [][Kept]_LedgerVars
    BY <1>2, LedgerAlways, PTL DEF LedgerSpec
<1> QED  BY <1>3 DEF Kept, NamesRight

(* A cached configuration is that of the trie, whoever reads and writes at *)
(* the same time (statetrie.go).  For any transactions, signers and times: *)
(* a node that executed all its blocks and saw no transactions of the time *)
(* proposed again at another time neither refuses an honest block nor      *)
(* fails to apply an agreed one, whatever was verified and abandoned       *)
(* before; its state is that of the chain, and a replay gives the same     *)
(* (service.go, statechange_cache.go, statereplay.go).                     *)
THEOREM ExecutionAlwaysRight == LedgerSpec => []ExecutionRight
BY LedgerAlways, LedgerHolds, PTL
=============================================================================
