-------------------------- MODULE TxPipelineProofs --------------------------
(* Proofs about TxPipeline, for every set of transactions and of sizes, every   *)
(* capacity of the channels and every bound.                                    *)
EXTENDS TxPipeline, NatLemmas, SequenceTheorems

-----------------------------------------------------------------------------
(* The operators on transactions and results.                              *)

\* The transactions of a list of results.
LEMMA TxsType ==
    ASSUME NEW r \in Seq(TxResult)
    PROVE  /\ Txs(r) \in Seq(Tx) /\ Len(Txs(r)) = Len(r)
           /\ \A i \in 1..Len(r) : Txs(r)[i] = r[i].tx
<1>1. DOMAIN r = 1..Len(r) /\ Len(r) \in Nat
    OBVIOUS
<1>2. \A i \in 1..Len(r) : r[i] \in TxResult
    BY ElementOfSeq
<1>3. Txs(r) = [i \in 1..Len(r) |-> r[i].tx]
    BY <1>1 DEF Txs
<1>4. \A i \in 1..Len(r) : r[i].tx \in Tx
    BY <1>2 DEF TxResult
<1>5. Txs(r) \in Seq(Tx)
    BY <1>1, <1>3, <1>4, IsASeq
<1> QED  BY <1>1, <1>3, <1>5

\* The transactions of two lists of results put together.
LEMMA TxsConcat ==
    ASSUME NEW r \in Seq(TxResult), NEW z \in Seq(TxResult)
    PROVE  Txs(r \o z) = Txs(r) \o Txs(z)
<1> DEFINE c == r \o z
           a == Txs(r)
           b == Txs(z)
           d == a \o b
<1>1. Len(r) \in Nat /\ Len(z) \in Nat
    OBVIOUS
<1>2. /\ c \in Seq(TxResult) /\ Len(c) = Len(r) + Len(z)
      /\ \A i \in 1..(Len(r) + Len(z)) : c[i] = IF i <= Len(r) THEN r[i] ELSE z[i - Len(r)]
    BY ConcatProperties
<1>3. /\ a \in Seq(Tx) /\ Len(a) = Len(r) /\ \A i \in 1..Len(r) : a[i] = r[i].tx
      /\ b \in Seq(Tx) /\ Len(b) = Len(z) /\ \A i \in 1..Len(z) : b[i] = z[i].tx
    BY TxsType
<1> HIDE DEF a, b
<1>4. /\ d \in Seq(Tx) /\ Len(d) = Len(a) + Len(b)
      /\ \A i \in 1..(Len(a) + Len(b)) : d[i] = IF i <= Len(a) THEN a[i] ELSE b[i - Len(a)]
    <2>1. a \in Seq(Tx) /\ b \in Seq(Tx)
        BY <1>3
    <2> QED  BY <2>1, ConcatProperties
<1> HIDE DEF c, d
<1>5. /\ Txs(c) \in Seq(Tx) /\ Len(Txs(c)) = Len(c)
      /\ \A i \in 1..Len(c) : Txs(c)[i] = c[i].tx
    BY <1>2, TxsType
<1>6. ASSUME NEW i \in 1..(Len(r) + Len(z)) PROVE Txs(c)[i] = d[i]
    <2>1. /\ c[i] = IF i <= Len(r) THEN r[i] ELSE z[i - Len(r)]
          /\ d[i] = IF i <= Len(r) THEN a[i] ELSE b[i - Len(r)]
          /\ Txs(c)[i] = c[i].tx
        BY <1>2, <1>3, <1>4, <1>5
    <2>2. CASE i <= Len(r)
        <3>1. i \in 1..Len(r)
            BY <1>1, <2>2
        <3> QED  BY <2>1, <2>2, <3>1, <1>3
    <2>3. CASE ~(i <= Len(r))
        <3>1. i - Len(r) \in 1..Len(z)
            BY <1>1, <2>3
        <3> QED  BY <2>1, <2>3, <3>1, <1>3
    <2> QED  BY <2>2, <2>3
<1>7. Txs(c) = d
    BY <1>2, <1>3, <1>4, <1>5, <1>6, SeqEqual
<1> QED  BY <1>7 DEF a, b, c, d

\* The tries after the transactions of a list, one by one.
LEMMA TriesType ==
    ASSUME NEW sst \in SUBSET Tx, NEW q \in Seq(Tx)
    PROVE  /\ Tries(sst, q) \in [0..Len(q) -> SUBSET Tx]
           /\ Tries(sst, q)[0] = sst
           /\ \A i \in 1..Len(q) :
                Tries(sst, q)[i] = Tries(sst, q)[i-1] \union
                    (IF Accepts(Tries(sst, q)[i-1], q[i]) THEN {q[i]} ELSE {})
<1> DEFINE n == Len(q)
           V == SUBSET Tx
           Step(i, v) == v \union (IF Accepts(v, q[i]) THEN {q[i]} ELSE {})
           F == [i \in 1..n |-> [v \in V |-> Step(i, v)]]
           Is(f) == f = [i \in 0..n |-> IF i = 0 THEN sst ELSE Step(i, f[i-1])]
           T == Tries(sst, q)
<1>1. n \in Nat /\ \A i \in 1..n : q[i] \in Tx
    OBVIOUS
<1>2. sst \in V /\ \A i \in 1..n, v \in V : Step(i, v) \in V
    BY <1>1
<1>3. F \in [1..n -> [V -> V]] /\ \A i \in 1..n, v \in V : F[i][v] = Step(i, v)
    BY <1>2
<1>4. T = CHOOSE f : Is(f)
    BY DEF Tries
<1> HIDE DEF n, V, Step, F, T
<1>5. PICK g \in [0..n -> V] : g[0] = sst /\ \A i \in 1..n : g[i] = F[i][g[i-1]]
    <2>1. \E g : IsRecursion(g, n, V, sst, F)
        BY <1>1, <1>2, <1>3, RecursionExists
    <2> QED  BY <2>1 DEF IsRecursion
<1>6. Is(g)
    <2>1. \A i \in 0..n : i # 0 => i \in 1..n /\ g[i-1] \in V
        BY <1>1
    <2>2. \A i \in 0..n : g[i] = IF i = 0 THEN sst ELSE Step(i, g[i-1])
        BY <1>3, <1>5, <2>1
    <2> QED  BY <2>2
<1>7. Is(T)
    <2> HIDE DEF Is
    <2> QED  BY <1>4, <1>6
<1>8. \A i \in 0..n : T[i] = IF i = 0 THEN sst ELSE Step(i, T[i-1])
    BY <1>7
<1> DEFINE S == {k \in Nat : k <= n => T[k] \in V}
<1>9. 0 \in S
    BY <1>1, <1>2, <1>8
<1>10. ASSUME NEW k \in Nat, k \in S PROVE k + 1 \in S
    <2> SUFFICES ASSUME k + 1 <= n PROVE T[k + 1] \in V
        OBVIOUS
    <2>1. T[k] \in V /\ k + 1 \in 1..n /\ k + 1 \in 0..n /\ (k + 1) - 1 = k
        BY <1>1, <1>10
    <2>2. T[k + 1] = Step(k + 1, T[k])
        BY <1>8, <2>1
    <2> QED  BY <1>2, <2>1, <2>2
<1>11. \A k \in Nat : k \in S
    <2> HIDE DEF S
    <2> QED  BY <1>9, <1>10, NatSteps
<1>12. T \in [0..n -> V]
    <2>1. \A i \in 0..n : T[i] \in V
        BY <1>11, <1>1
    <2> QED  BY <1>7, <2>1
<1>13. T[0] = sst /\ \A i \in 1..n : T[i] = Step(i, T[i-1])
    BY <1>1, <1>8
<1> QED  BY <1>12, <1>13 DEF n, V, T, Step

\* A list of transactions has as many results, in the same order.
LEMMA ResultsType ==
    ASSUME NEW sst \in SUBSET Tx, NEW q \in Seq(Tx)
    PROVE  /\ Results(sst, q) \in Seq(TxResult) /\ Len(Results(sst, q)) = Len(q)
           /\ \A i \in 1..Len(q) :
                Results(sst, q)[i] = [tx       |-> q[i],
                                      accepted |-> Accepts(Tries(sst, q)[i-1], q[i])]
           /\ Txs(Results(sst, q)) = q
<1>1. \A i \in 1..Len(q) : [tx |-> q[i], accepted |-> Accepts(Tries(sst, q)[i-1], q[i])]
                             \in TxResult
    BY DEF TxResult, Accepts
<1>2. Results(sst, q) \in Seq(TxResult) /\ Len(Results(sst, q)) = Len(q)
    BY <1>1 DEF Results
<1>3. \A i \in 1..Len(q) : Txs(Results(sst, q))[i] = q[i]
    BY <1>2, TxsType DEF Results
<1>4. Txs(Results(sst, q)) = q
    BY <1>2, <1>3, TxsType, SeqEqual
<1> QED  BY <1>2, <1>4 DEF Results

\* The size of a list of transactions is a number.
LEMMA SizeType ==
    ASSUME NEW q \in Seq(Tx)
    PROVE  Size(q) \in Nat
<1> DEFINE D == DOMAIN q
           w == [i \in D |-> Weight[q[i]]]
           h == CHOOSE g : g = [s \in SUBSET D |->
                    IF s = {} THEN 0 ELSE Weight[q[Pick(s)]] + g[s \ {Pick(s)}]]
<1>1. D = 1..Len(q) /\ IsFiniteSet(D)
    BY FS_Interval
<1>2. w \in [D -> Nat]
    BY PipelineAssumption
<1>3. Size(q) = Overhead + h[D]
    BY Zenon DEF Size, FoldSeq, FoldFunction, FoldFunctionOnSet, MapThenFoldSet, Pick
<1>4. \A g : IsSum(g, D, w) <=>
             g = [s \in SUBSET D |->
                    IF s = {} THEN 0 ELSE Weight[q[Pick(s)]] + g[s \ {Pick(s)}]]
    <2> SUFFICES ASSUME NEW g
                 PROVE  IsSum(g, D, w) <=>
                        g = [s \in SUBSET D |->
                              IF s = {} THEN 0 ELSE Weight[q[Pick(s)]] + g[s \ {Pick(s)}]]
        OBVIOUS
    <2> DEFINE a(s) == IF s = {} THEN 0 ELSE w[Pick(s)] + g[s \ {Pick(s)}]
               b(s) == IF s = {} THEN 0 ELSE Weight[q[Pick(s)]] + g[s \ {Pick(s)}]
    <2>1. ASSUME NEW s \in SUBSET D PROVE a(s) = b(s)
        <3>1. s # {} => Pick(s) \in D
            BY DEF Pick
        <3> QED  BY <3>1
    <2>2. [s \in SUBSET D |-> a(s)] = [s \in SUBSET D |-> b(s)]
        <3> HIDE DEF a, b, D
        <3> QED  BY <2>1
    <2>3. IsSum(g, D, w) <=> g = [s \in SUBSET D |-> a(s)]
        BY Zenon DEF IsSum
    <2> QED  BY <2>2, <2>3, Zenon
<1>5. IsSum(h, D, w)
    <2>1. \E g : IsSum(g, D, w)
        <3>1. w \in [D -> Int]
            BY <1>2
        <3> HIDE DEF D, w
        <3> QED  BY <1>1, <3>1, SumExists
    <2>2. \E g : g = [s \in SUBSET D |->
                    IF s = {} THEN 0 ELSE Weight[q[Pick(s)]] + g[s \ {Pick(s)}]]
        BY <1>4, <2>1
    <2>3. h = [s \in SUBSET D |->
                    IF s = {} THEN 0 ELSE Weight[q[Pick(s)]] + h[s \ {Pick(s)}]]
        BY <2>2
    <2> QED  BY <1>4, <2>3
<1>6. h[D] \in Nat
    <2> HIDE DEF D, w, h
    <2> QED  BY <1>1, <1>2, <1>5, SumType
<1> HIDE DEF D, w, h
<1> QED  BY <1>3, <1>6, PipelineAssumption

\* addTransactions takes a prefix of the queue, and with every transaction of
\* it the block still fits.
LEMMA TakenType ==
    ASSUME NEW s \in Proposal, NEW q \in Seq(Tx)
    PROVE  /\ Taken(s, q) \in 0..Len(q)
           /\ \A k \in 1..Taken(s, q) :
                Size(Txs(s.txs) \o SubSeq(q, 1, k)) <= MaxBlockSize
<1> DEFINE N == Len(q)
           Z(k) == Size(Txs(s.txs) \o SubSeq(q, 1, k))
           Fits(n) == /\ \A k \in 1..n : Z(k) <= MaxBlockSize
                      /\ n < N => Z(n + 1) > MaxBlockSize
           C == {k \in 1..N : ~(Z(k) <= MaxBlockSize)}
<1>1. N \in Nat /\ MaxBlockSize \in Nat
    BY PipelineAssumption
<1>2. Txs(s.txs) \in Seq(Tx)
    BY TxsType DEF Proposal
<1>3. ASSUME NEW k \in 1..N PROVE Z(k) \in Nat
    <2>1. SubSeq(q, 1, k) \in Seq(Tx)
        BY <1>1
    <2>2. Txs(s.txs) \o SubSeq(q, 1, k) \in Seq(Tx)
        BY <1>2, <2>1
    <2> QED  BY <2>2, SizeType
<1>4. Taken(s, q) = CHOOSE n \in 0..N : Fits(n)
    BY DEF Taken
<1> HIDE DEF N, Z
<1>5. \E n \in 0..N : Fits(n)
    <2>1. CASE C = {}
        BY <1>1, <2>1
    <2>2. CASE C # {}
        <3>1. PICK m \in C : \A k \in C : m <= k
            <4>1. C \in SUBSET Nat
                BY <1>1
            <4> HIDE DEF C
            <4> QED  BY <2>2, <4>1, LeastNat
        <3>2. m - 1 \in 0..N /\ m \in 1..N /\ (m - 1) + 1 = m
            BY <1>1
        <3>3. Z(m) > MaxBlockSize
            BY <1>1, <1>3, <3>2
        <3>4. \A k \in 1..(m - 1) : Z(k) <= MaxBlockSize
            BY <1>1, <3>1, <3>2
        <3>5. Fits(m - 1)
            BY <3>2, <3>3, <3>4
        <3> QED  BY <3>2, <3>5
    <2> QED  BY <2>1, <2>2
<1>6. Taken(s, q) \in 0..N /\ Fits(Taken(s, q))
    <2> HIDE DEF Fits
    <2> QED  BY <1>4, <1>5
<1> QED  BY <1>6 DEF N, Z

\* What addTransactions does to a proposal.
LEMMA AddTransactionsType ==
    ASSUME NEW s \in Proposal, NEW q \in Seq(Tx)
    PROVE  /\ AddTransactions(s, q) \in Proposal
           /\ AddTransactions(s, q).newVersion = s.newVersion
           /\ SubSeq(q, 1, Taken(s, q)) \in Seq(Tx)
           /\ Len(SubSeq(q, 1, Taken(s, q))) = Taken(s, q)
           /\ AddTransactions(s, q).txs = s.txs \o Results(s.sst, SubSeq(q, 1, Taken(s, q)))
           /\ Txs(AddTransactions(s, q).txs) = Txs(s.txs) \o SubSeq(q, 1, Taken(s, q))
<1> DEFINE pre == SubSeq(q, 1, Taken(s, q))
           add == Results(s.sst, pre)
           end == Tries(s.sst, pre)[Len(pre)]
<1>1. /\ s.sst \in SUBSET Tx /\ s.txs \in Seq(TxResult) /\ s.newVersion \in Version
    BY DEF Proposal
<1>2. pre \in Seq(Tx) /\ Len(pre) = Taken(s, q) /\ Taken(s, q) \in Nat
    <2>1. Taken(s, q) \in 0..Len(q) /\ Len(q) \in Nat
        BY TakenType
    <2> QED  BY <2>1, SubSeqProperties
<1>3. AddTransactions(s, q) = [s EXCEPT !.sst = end, !.txs = @ \o add]
    BY DEF AddTransactions
<1> HIDE DEF pre
<1>4. end \in SUBSET Tx
    <2>1. Tries(s.sst, pre) \in [0..Len(pre) -> SUBSET Tx]
        BY <1>1, <1>2, TriesType
    <2> QED  BY <1>2, <2>1
<1>5. add \in Seq(TxResult) /\ Txs(add) = pre
    BY <1>1, <1>2, ResultsType
<1>6. s.txs \o add \in Seq(TxResult) /\ Txs(s.txs \o add) = Txs(s.txs) \o pre
    <2> HIDE DEF add
    <2>1. s.txs \o add \in Seq(TxResult)
        BY <1>1, <1>5
    <2> QED  BY <2>1, <1>1, <1>5, TxsConcat
<1>7. /\ AddTransactions(s, q).txs = s.txs \o add
      /\ AddTransactions(s, q).newVersion = s.newVersion
      /\ AddTransactions(s, q) \in Proposal
    <2> HIDE DEF add, end
    <2> QED  BY <1>1, <1>3, <1>4, <1>6 DEF Proposal
<1> QED  BY <1>2, <1>6, <1>7 DEF pre

-----------------------------------------------------------------------------
(* Types. The two histories are lists of transactions as well.             *)

TypeInv == TypeOK /\ arrived \in Seq(Tx) /\ proposed \in Seq(Tx)

\* A proposal without transactions.
LEMMA EmptyType ==
    ASSUME NEW sst \in SUBSET Tx
    PROVE  /\ Empty(sst) \in Proposal /\ Empty(sst).txs = <<>> /\ Empty(sst).sst = sst
           /\ Empty(sst).newVersion = 0
           /\ \A v \in Version : [Empty(sst) EXCEPT !.newVersion = v] \in Proposal
           /\ \A v \in Version : [Empty(sst) EXCEPT !.newVersion = v].txs = <<>>
<1>1. <<>> \in Seq(TxResult) /\ 0 \in Version
    BY PipelineAssumption DEF Version
<1> QED  BY <1>1 DEF Empty, Proposal

\* Channels of capacity one.
LEMMA OfOne ==
    ASSUME NEW A, NEW q \in Seq(A), Len(q) <= 1, q # <<>>
    PROVE  Head(q) \in A /\ q = <<Head(q)>>
<1>1. Len(q) = 1
    <2>1. Len(q) \in Nat
        OBVIOUS
    <2>2. Len(q) # 0
        BY EmptySeq
    <2> QED  BY <2>1, <2>2
<1>2. Head(q) = q[1] /\ q[1] \in A
    BY <1>1, ElementOfSeq
<1> QED  BY <1>1, <1>2, SeqEqual

\* Lists of one element, the channels of capacity one.
LEMMA One ==
    ASSUME NEW A, NEW x \in A
    PROVE  /\ <<x>> \in Seq(A) /\ Len(<<x>>) = 1 /\ Head(<<x>>) = x /\ <<x>> # <<>>
           /\ <<>> \in Seq(A) /\ Len(<<>>) = 0
    OBVIOUS

\* The proposal that the iteration of the leader loop continues with.
LEMMA FetchedType ==
    ASSUME TypeInv
    PROVE  /\ Fetched \in Proposal /\ Fetched.sst \in SUBSET Tx
           /\ Fetched.txs \in Seq(TxResult) /\ Txs(Fetched.txs) \in Seq(Tx)
           /\ newBlock # <<>> => newBlock = <<Fetched>>
<1>1. newBlock \in Seq(Proposal) /\ Len(newBlock) <= 1 /\ currentState \in Proposal
    BY DEF TypeInv, TypeOK
<1>2. newBlock # <<>> => Head(newBlock) \in Proposal /\ newBlock = <<Head(newBlock)>>
    BY <1>1, OfOne
<1>3. Fetched \in Proposal /\ (newBlock # <<>> => newBlock = <<Fetched>>)
    BY <1>1, <1>2 DEF Fetched
<1>4. Fetched.sst \in SUBSET Tx /\ Fetched.txs \in Seq(TxResult)
    BY <1>3 DEF Proposal
<1> QED  BY <1>3, <1>4, TxsType

\* Copy and IsEmpty.
LEMMA CopyType ==
    ASSUME NEW s \in Proposal
    PROVE  /\ Copy(s) \in Proposal /\ Copy(s).txs = s.txs /\ Copy(s).sst = s.sst
           /\ Copy(s).newVersion = 0
<1>1. 0 \in Version
    BY PipelineAssumption DEF Version
<1> QED  BY <1>1 DEF Copy, Proposal

\* The rest of an iteration of the leader loop.
LEMMA FillType ==
    ASSUME TypeInv, ProposeVersion \/ FillBlock
    PROVE  /\ currentState' \in Proposal /\ txQueue' \in Seq(Tx)
           /\ newBlock' \in Seq(Proposal) /\ Len(newBlock') <= 1
<1> USE FetchedType
<1>1. CASE ProposeVersion
    <2>1. [Empty(Fetched.sst) EXCEPT !.newVersion = newVersion] \in Proposal
        BY EmptyType DEF TypeInv, TypeOK
    <2>2. Txs(Fetched.txs) \o txQueue \in Seq(Tx)
        BY DEF TypeInv, TypeOK
    <2> QED  BY <1>1, <2>1, <2>2 DEF ProposeVersion
<1>2. CASE FillBlock
    <2> DEFINE s == AddTransactions(Fetched, txQueue)
    <2>1. txQueue \in Seq(Tx)
        BY DEF TypeInv, TypeOK
    <2>2. s \in Proposal /\ Taken(Fetched, txQueue) \in 0..Len(txQueue)
        BY <2>1, AddTransactionsType, TakenType
    <2>3. txQueue' \in Seq(Tx)
        BY <1>2, <2>1, <2>2 DEF FillBlock
    <2>4. Copy(s) \in Proposal /\ Empty(s.sst) \in Proposal
        BY <2>2, CopyType, EmptyType DEF Proposal
    <2>5. newBlock' \in {<<>>, <<Copy(s)>>} /\ currentState' \in {s, Empty(s.sst)}
        BY <1>2 DEF FillBlock
    <2> HIDE DEF s
    <2>6. newBlock' \in Seq(Proposal) /\ Len(newBlock') <= 1
        <3>1. CASE newBlock' = <<>>
            <4>1. <<>> \in Seq(Proposal) /\ Len(<<>>) <= 1
                OBVIOUS
            <4> QED  BY <3>1, <4>1
        <3>2. CASE newBlock' = <<Copy(s)>>
            BY <2>4, <3>2, One
        <3> QED  BY <2>5, <3>1, <3>2
    <2> QED  BY <2>2, <2>3, <2>4, <2>5, <2>6
<1> QED  BY <1>1, <1>2

\* The trie that a proposal leads to.
LEMMA StateAfterType ==
    ASSUME TypeInv
    PROVE  StateAfter \in SUBSET Tx /\ Txs(inState.txs) \in Seq(Tx)
<1>1. inState.txs \in Seq(TxResult) /\ ledger \in SUBSET Tx
    BY DEF TypeInv, TypeOK, Proposal
<1>2. Txs(inState.txs) \in Seq(Tx)
    BY <1>1, TxsType
<1>3. Tries(ledger, Txs(inState.txs)) \in [0..Len(Txs(inState.txs)) -> SUBSET Tx]
    BY <1>1, <1>2, TriesType
<1> QED  BY <1>2, <1>3 DEF StateAfter

\* The pipeline starts with well-formed, empty proposals and channels.
LEMMA InitTypeInv == Init => TypeInv
<1> SUFFICES ASSUME Init PROVE TypeInv
    OBVIOUS
<1>1. Empty({}) \in Proposal
    BY EmptyType
<1>2. 0 \in Version /\ CtxCap \in Nat /\ MaxTxHashes \in Nat
    BY PipelineAssumption DEF Version
<1>3. <<>> \in Seq(Tx) /\ <<>> \in Seq(Version) /\ <<>> \in Seq(Proposal) /\ Len(<<>>) = 0
    OBVIOUS
<1>4. /\ ctxChan \in Seq(Tx) /\ Len(ctxChan) <= CtxCap
      /\ needUpgrade \in Seq(Version) /\ Len(needUpgrade) <= 1
      /\ txQueue \in Seq(Tx) /\ txHashes \in Seq(Tx) /\ Len(txHashes) <= MaxTxHashes
      /\ newBlock \in Seq(Proposal) /\ Len(newBlock) <= 1
      /\ arrived \in Seq(Tx) /\ proposed \in Seq(Tx)
    BY <1>2, <1>3 DEF Init
<1>5. /\ sender \in Version /\ newVersion \in Version /\ blockSent \in 0..1
      /\ stopSignal \in BOOLEAN /\ closed \in BOOLEAN
    <2>1. blockSent \in 0..1
        BY DEF Init
    <2>2. stopSignal \in BOOLEAN /\ closed \in BOOLEAN
        BY DEF Init
    <2> QED  BY <1>2, <2>1, <2>2 DEF Init
<1>6. /\ leader \in {"select", "fill", "wait", "done"} /\ ledger \subseteq Tx
      /\ worker \in {"recv", "propose", "signal", "done"}
      /\ currentState \in Proposal /\ inState \in Proposal
    BY <1>1 DEF Init
<1> QED  BY <1>4, <1>5, <1>6 DEF TypeInv, TypeOK

\* Every step preserves the types: one case per action.
LEMMA NextTypeInv == TypeInv /\ [Next]_vars => TypeInv'
<1> SUFFICES ASSUME TypeInv, [Next]_vars PROVE TypeInv'
    OBVIOUS
<1>0. 0 \in Version /\ CtxCap \in Nat /\ MaxTxHashes \in Nat
    BY PipelineAssumption DEF Version
<1> USE DEF TypeInv, TypeOK
<1>1. ASSUME NEW t \in Tx, NEW v \in Version, AddTransaction(t, v) PROVE TypeInv'
    <2>1. sender' \in Version
        BY <1>0, <1>1 DEF AddTransaction
    <2>2. ctxChan' \in Seq(Tx) /\ Len(ctxChan') <= CtxCap
        BY <1>0, <1>1 DEF AddTransaction
    <2> QED  BY <1>1, <2>1, <2>2 DEF AddTransaction, leaderVars, workerVars
<1>2. CASE SendUpgrade
    BY <1>0, <1>2 DEF SendUpgrade, leaderVars, workerVars
<1>3. CASE Stop
    BY <1>3 DEF Stop, leaderVars, workerVars
<1>4. CASE LeaderStop
    BY <1>4 DEF LeaderStop, chanVars, workerVars
<1>5. CASE LeaderBlockSent
    BY <1>0, <1>5 DEF LeaderBlockSent, chanVars, workerVars
<1>6. CASE LeaderUpgrade
    <2>1. Head(needUpgrade) \in Version /\ Tail(needUpgrade) \in Seq(Version)
          /\ Len(Tail(needUpgrade)) <= 1
        BY <1>6 DEF LeaderUpgrade
    <2>2. newVersion' \in Version /\ leader' \in {"select", "fill", "wait", "done"}
        BY <1>6, <2>1 DEF LeaderUpgrade
    <2> QED  BY <1>6, <2>1, <2>2 DEF LeaderUpgrade, workerVars
<1>7. CASE LeaderTx
    <2>1. Head(ctxChan) \in Tx /\ Tail(ctxChan) \in Seq(Tx) /\ Len(Tail(ctxChan)) <= CtxCap
        BY <1>0, <1>7 DEF LeaderTx
    <2>2. Remember(Head(ctxChan)) \in Seq(Tx) /\ Len(Remember(Head(ctxChan))) <= MaxTxHashes
        <3> DEFINE all == Append(txHashes, Head(ctxChan))
        <3>1. all \in Seq(Tx) /\ Len(all) \in Nat
            BY <2>1
        <3>2. CASE Len(all) > MaxTxHashes
            <4> DEFINE m == Len(all) - MaxTxHashes + 1
            <4>1. m \in 1..Len(all) + 1 /\ Len(all) \in Nat
                BY <1>0, <3>1, <3>2
            <4>2. /\ SubSeq(all, m, Len(all)) \in Seq(Tx)
                  /\ Len(SubSeq(all, m, Len(all))) = MaxTxHashes
                BY <1>0, <3>1, <3>2, <4>1, SubSeqProperties
            <4>3. Remember(Head(ctxChan)) = SubSeq(all, m, Len(all))
                BY <3>2, Zenon DEF Remember
            <4>4. Len(SubSeq(all, m, Len(all))) <= MaxTxHashes
                BY <1>0, <4>2
            <4> QED  BY <4>2, <4>3, <4>4, Zenon
        <3>3. CASE ~(Len(all) > MaxTxHashes)
            BY <1>0, <3>1, <3>3 DEF Remember
        <3> QED  BY <3>2, <3>3
    <2>3. /\ txHashes' \in Seq(Tx) /\ Len(txHashes') <= MaxTxHashes
          /\ txQueue' \in Seq(Tx) /\ arrived' \in Seq(Tx)
          /\ leader' \in {"select", "fill", "wait", "done"}
        <3>1. CASE UNCHANGED <<leader, txHashes, txQueue, arrived>>
            BY <3>1
        <3>2. CASE /\ txHashes' = Remember(Head(ctxChan))
                   /\ txQueue' = Append(txQueue, Head(ctxChan))
                   /\ arrived' = Append(arrived, Head(ctxChan))
                   /\ leader' = "fill"
            BY <3>2, <2>1, <2>2, AppendProperties
        <3> QED  BY <1>7, <3>1, <3>2 DEF LeaderTx
    <2> QED  BY <1>7, <2>1, <2>3 DEF LeaderTx, workerVars
<1>8. CASE LeaderFill
    <2>1. /\ currentState' \in Proposal /\ txQueue' \in Seq(Tx)
          /\ newBlock' \in Seq(Proposal) /\ Len(newBlock') <= 1
        BY <1>8, FillType DEF LeaderFill
    <2> QED  BY <1>8, <2>1 DEF LeaderFill, chanVars, workerVars
<1>9. CASE LeaderDone
    BY <1>9 DEF LeaderDone, chanVars, workerVars
<1>10. CASE WorkerRecv
    <2>1. inState' \in Proposal /\ newBlock' \in Seq(Proposal) /\ Len(newBlock') <= 1
        <3>1. newBlock # <<>> => Head(newBlock) \in Proposal
            BY OfOne
        <3>2. newBlock' \in Seq(Proposal) /\ Len(newBlock') <= 1
            <4>1. <<>> \in Seq(Proposal) /\ Len(<<>>) <= 1
                OBVIOUS
            <4>2. newBlock' \in {<<>>, newBlock}
                BY <1>10 DEF WorkerRecv
            <4> QED  BY <4>1, <4>2
        <3> QED  BY <1>10, <3>1, <3>2 DEF WorkerRecv
    <2>2. worker' \in {"propose", "done"}
        BY <1>10 DEF WorkerRecv
    <2> QED  BY <1>10, <2>1, <2>2 DEF WorkerRecv, chanVars, leaderVars
<1>11. CASE WorkerPropose
    <2>1. ledger' \in SUBSET Tx /\ proposed' \in Seq(Tx)
        BY <1>11, StateAfterType DEF WorkerPropose
    <2> QED  BY <1>11, <2>1 DEF WorkerPropose, chanVars, leaderVars
<1>12. CASE WorkerFail
    <2>1. proposed' \in Seq(Tx)
        BY <1>12, StateAfterType DEF WorkerFail
    <2> QED  BY <1>12, <2>1 DEF WorkerFail, chanVars, leaderVars
<1>13. CASE WorkerSignal
    BY <1>13 DEF WorkerSignal, chanVars, leaderVars
<1>14. CASE UNCHANGED vars
    BY <1>14 DEF vars, chanVars, leaderVars, workerVars
<1> QED  BY <1>1, <1>2, <1>3, <1>4, <1>5, <1>6, <1>7, <1>8, <1>9, <1>10, <1>11, <1>12,
            <1>13, <1>14 DEF Next, Leader, Worker

\* The channels never exceed their capacities, at most txHashes' limit of hashes
\* is kept, and every proposal has the form that createBlocks expects.
THEOREM TypeCorrect == Spec => []TypeOK
<1>1. TypeInv => TypeOK
    BY DEF TypeInv
<1> QED  BY <1>1, InitTypeInv, NextTypeInv, PTL DEF Spec

-----------------------------------------------------------------------------
(* The size of blocks. BlockFits alone is not inductive: the proposal under  *)
(* construction, which can have transactions after a version proposal, is    *)
(* extended as well.                                                         *)

Fit(s) == s.txs # <<>> => Size(Txs(s.txs)) <= MaxBlockSize

FitsInv == /\ Fit(inState) /\ Fit(currentState)
           /\ newBlock # <<>> => Fit(Head(newBlock))

\* addTransactions does not make a proposal too big.
LEMMA AddTransactionsFits ==
    ASSUME NEW s \in Proposal, NEW q \in Seq(Tx), Fit(s)
    PROVE  Fit(AddTransactions(s, q))
<1> DEFINE n == Taken(s, q)
           a == AddTransactions(s, q)
<1>1. /\ n \in 0..Len(q) /\ Len(q) \in Nat
      /\ \A k \in 1..n : Size(Txs(s.txs) \o SubSeq(q, 1, k)) <= MaxBlockSize
    BY TakenType
<1>2. /\ a.txs = s.txs \o Results(s.sst, SubSeq(q, 1, n))
      /\ Txs(a.txs) = Txs(s.txs) \o SubSeq(q, 1, n)
      /\ SubSeq(q, 1, n) \in Seq(Tx) /\ Len(SubSeq(q, 1, n)) = n
    BY AddTransactionsType
<1> HIDE DEF n, a
<1>3. CASE n = 0
    <2>1. s.sst \in SUBSET Tx /\ s.txs \in Seq(TxResult)
        BY DEF Proposal
    <2>2. /\ Results(s.sst, SubSeq(q, 1, n)) \in Seq(TxResult)
          /\ Len(Results(s.sst, SubSeq(q, 1, n))) = 0
        BY <1>2, <1>3, <2>1, ResultsType
    <2>3. Results(s.sst, SubSeq(q, 1, n)) = <<>>
        BY <2>2, EmptySeq
    <2>4. a.txs = s.txs
        BY <1>2, <2>1, <2>3, ConcatEmptySeq
    <2> QED  BY <2>4 DEF Fit, a
<1>4. CASE n \in 1..n
    <2>1. Size(Txs(a.txs)) <= MaxBlockSize
        BY <1>1, <1>2, <1>4
    <2> QED  BY <2>1 DEF Fit, a
<1> QED  BY <1>1, <1>3, <1>4

\* Every step preserves FitsInv: only the leader loop makes proposals.
LEMMA NextFitsInv == TypeInv /\ FitsInv /\ [Next]_vars => FitsInv'
<1> SUFFICES ASSUME TypeInv, FitsInv, [Next]_vars PROVE FitsInv'
    OBVIOUS
<1>0. ASSUME UNCHANGED <<inState, currentState, newBlock>> PROVE FitsInv'
    BY <1>0 DEF FitsInv
<1>1. CASE LeaderFill
    <2>1. inState' = inState
        BY <1>1 DEF LeaderFill, workerVars
    <2>2. Fit(Fetched) /\ Fetched \in Proposal /\ Fetched.sst \in SUBSET Tx
        BY FetchedType DEF FitsInv, Fetched
    <2>3. CASE ProposeVersion
        <3>1. newBlock' = <<[Empty(Fetched.sst) EXCEPT !.newVersion = newVersion]>>
              /\ currentState' = Fetched
            BY <2>3 DEF ProposeVersion
        <3>2. Head(newBlock').txs = <<>>
            <4>1. newVersion \in Version
                BY DEF TypeInv, TypeOK
            <4> DEFINE x == [Empty(Fetched.sst) EXCEPT !.newVersion = newVersion]
            <4>2. x.txs = <<>> /\ newBlock' = <<x>>
                BY <2>2, <3>1, <4>1, EmptyType
            <4> HIDE DEF x
            <4>3. Head(newBlock') = x
                BY <4>2
            <4> QED  BY <4>2, <4>3
        <3> QED  BY <2>1, <2>2, <3>1, <3>2 DEF FitsInv, Fit
    <2>4. CASE FillBlock
        <3> DEFINE s == AddTransactions(Fetched, txQueue)
        <3>1. s \in Proposal /\ Fit(s)
            BY <2>2, AddTransactionsType, AddTransactionsFits DEF TypeInv, TypeOK
        <3>2. Fit(Copy(s)) /\ Fit(Empty(s.sst))
            BY <3>1, CopyType, EmptyType DEF Fit, Proposal
        <3>3. /\ newBlock' = <<>> \/ newBlock' = <<Copy(s)>>
              /\ currentState' = s \/ currentState' = Empty(s.sst)
            BY <2>4 DEF FillBlock
        <3> HIDE DEF s
        <3>4. newBlock' # <<>> => Head(newBlock') = Copy(s)
            BY <3>3
        <3> QED  BY <2>1, <3>1, <3>2, <3>3, <3>4 DEF FitsInv, Fit
    <2> QED  BY <1>1, <2>3, <2>4 DEF LeaderFill
<1>2. CASE WorkerRecv
    <2>1. currentState' = currentState
        BY <1>2 DEF WorkerRecv, leaderVars
    <2>2. CASE newBlock # <<>>
        BY <1>2, <2>1, <2>2 DEF WorkerRecv, FitsInv, Fit
    <2>3. CASE newBlock = <<>>
        BY <1>0, <1>2, <2>1, <2>3 DEF WorkerRecv
    <2> QED  BY <2>2, <2>3
<1>3. ASSUME NEW t \in Tx, NEW v \in Version, AddTransaction(t, v) PROVE FitsInv'
    BY <1>0, <1>3 DEF AddTransaction, leaderVars, workerVars
<1>4. CASE SendUpgrade \/ Stop
    BY <1>0, <1>4 DEF SendUpgrade, Stop, leaderVars, workerVars
<1>5. CASE LeaderStop \/ LeaderBlockSent \/ LeaderUpgrade \/ LeaderTx \/ LeaderDone
    BY <1>0, <1>5 DEF LeaderStop, LeaderBlockSent, LeaderUpgrade, LeaderTx, LeaderDone,
                      workerVars
<1>6. CASE WorkerPropose \/ WorkerFail \/ WorkerSignal
    BY <1>0, <1>6 DEF WorkerPropose, WorkerFail, WorkerSignal, leaderVars
<1>7. CASE UNCHANGED vars
    BY <1>0, <1>7 DEF vars, leaderVars, workerVars
<1> QED  BY <1>1, <1>2, <1>3, <1>4, <1>5, <1>6, <1>7 DEF Next, Leader, Worker

\* No proposal exceeds the maximal block size, whatever the sizes of the
\* transactions are and however often a pending proposal is fetched back and
\* extended (addTransactions, tx_pipeline.go:319-346).
THEOREM BlocksAlwaysFit == Spec => []BlockFits
<1>1. Init => FitsInv
    <2> SUFFICES ASSUME Init PROVE FitsInv
        OBVIOUS
    <2>1. Empty({}).txs = <<>>
        BY EmptyType
    <2> QED  BY <2>1 DEF Init, FitsInv, Fit
<1>2. TypeInv /\ FitsInv => BlockFits
    <2> SUFFICES ASSUME TypeInv, FitsInv, NEW s \in {inState} \union ToSet(newBlock),
                        s.txs # <<>>
                 PROVE  Size(Txs(s.txs)) <= MaxBlockSize
        BY DEF BlockFits
    <2>1. s \in ToSet(newBlock) => newBlock # <<>> /\ s = Head(newBlock)
        <3>1. newBlock \in Seq(Proposal) /\ Len(newBlock) <= 1
            BY DEF TypeInv, TypeOK
        <3> QED  BY <3>1 DEF ToSet
    <2> QED  BY <2>1 DEF FitsInv, Fit
<1> QED  BY <1>1, <1>2, InitTypeInv, NextTypeInv, NextFitsInv, PTL DEF Spec

-----------------------------------------------------------------------------
(* The order of transactions. All transactions on their way, the oldest      *)
(* first, form one stream. A transaction can be in it more than once, since  *)
(* a version proposal puts the ones of a pending proposal back into the      *)
(* queue and leaves them in currentState; but the first occurrences are      *)
(* always in the order in which the transactions arrived.                    *)

Has(q, t) == \E i \in 1..Len(q) : q[i] = t

\* t is in q, before any u.
Before(q, t, u) == \E i \in 1..Len(q) : q[i] = t /\ \A j \in 1..i : q[j] # u

\* The same transactions, and their first occurrences in the same order.
Alike(q, z) == \A t, u \in Tx : /\ Has(q, t) <=> Has(z, t)
                                /\ Before(q, t, u) <=> Before(z, t, u)

\* Concatenation of lists of transactions.
LEMMA TxConcat ==
    ASSUME NEW a \in Seq(Tx), NEW b \in Seq(Tx), NEW c \in Seq(Tx)
    PROVE  (a \o b) \o c = a \o (b \o c) /\ a \o b \in Seq(Tx)
    BY ConcatAssociative

\* What a concatenation has.
LEMMA HasConcat ==
    ASSUME NEW a \in Seq(Tx), NEW b \in Seq(Tx), NEW t
    PROVE  Has(a \o b, t) <=> Has(a, t) \/ Has(b, t)
<1>1. /\ a \o b \in Seq(Tx) /\ Len(a \o b) = Len(a) + Len(b)
      /\ \A i \in 1..(Len(a) + Len(b)) :
           (a \o b)[i] = IF i <= Len(a) THEN a[i] ELSE b[i - Len(a)]
    BY ConcatProperties
<1>2. Len(a) \in Nat /\ Len(b) \in Nat
    OBVIOUS
<1>3. ASSUME Has(a \o b, t) PROVE Has(a, t) \/ Has(b, t)
    <2>1. PICK i \in 1..(Len(a) + Len(b)) : (a \o b)[i] = t
        BY <1>1, <1>3 DEF Has
    <2>2. CASE i <= Len(a)
        BY <1>1, <1>2, <2>1, <2>2 DEF Has
    <2>3. CASE ~(i <= Len(a))
        <3>1. i - Len(a) \in 1..Len(b) /\ b[i - Len(a)] = t
            BY <1>1, <1>2, <2>1, <2>3
        <3> QED  BY <3>1 DEF Has
    <2> QED  BY <2>2, <2>3
<1>4. ASSUME Has(a, t) PROVE Has(a \o b, t)
    <2>1. PICK i \in 1..Len(a) : a[i] = t
        BY <1>4 DEF Has
    <2>2. i \in 1..(Len(a) + Len(b)) /\ (a \o b)[i] = t
        BY <1>1, <1>2, <2>1
    <2> QED  BY <1>1, <2>2 DEF Has
<1>5. ASSUME Has(b, t) PROVE Has(a \o b, t)
    <2>1. PICK i \in 1..Len(b) : b[i] = t
        BY <1>5 DEF Has
    <2>2. Len(a) + i \in 1..(Len(a) + Len(b)) /\ (a \o b)[Len(a) + i] = t
        BY <1>1, <1>2, <2>1
    <2> QED  BY <1>1, <2>2 DEF Has
<1> QED  BY <1>3, <1>4, <1>5

\* The first of two transactions in two lists put together.
LEMMA BeforeConcat ==
    ASSUME NEW a \in Seq(Tx), NEW b \in Seq(Tx), NEW t, NEW u
    PROVE  Before(a \o b, t, u) <=> Before(a, t, u) \/ (~Has(a, u) /\ Before(b, t, u))
<1> DEFINE c == a \o b
<1>1. /\ Len(c) = Len(a) + Len(b)
      /\ \A i \in 1..(Len(a) + Len(b)) : c[i] = IF i <= Len(a) THEN a[i] ELSE b[i - Len(a)]
    BY ConcatProperties
<1>2. Len(a) \in Nat /\ Len(b) \in Nat
    OBVIOUS
<1> HIDE DEF c
<1>a. \A i \in 1..Len(a) : i \in 1..(Len(a) + Len(b)) /\ c[i] = a[i]
    BY <1>1, <1>2
<1>b. \A i \in 1..Len(b) : Len(a) + i \in 1..(Len(a) + Len(b)) /\ c[Len(a) + i] = b[i]
    BY <1>1, <1>2
<1>3. ASSUME Before(c, t, u) PROVE Before(a, t, u) \/ (~Has(a, u) /\ Before(b, t, u))
    <2>1. PICK i \in 1..(Len(a) + Len(b)) : c[i] = t /\ \A j \in 1..i : c[j] # u
        BY <1>1, <1>3 DEF Before
    <2>2. CASE i <= Len(a)
        <3>1. i \in 1..Len(a) /\ a[i] = t /\ \A j \in 1..i : a[j] # u
            BY <1>2, <1>a, <2>1, <2>2
        <3> QED  BY <3>1 DEF Before
    <2>3. CASE ~(i <= Len(a))
        <3> DEFINE k == i - Len(a)
        <3>1. k \in 1..Len(b) /\ b[k] = t
            BY <1>1, <1>2, <2>1, <2>3
        <3>2. \A j \in 1..Len(a) : a[j] # u
            BY <1>2, <1>a, <2>1, <2>3
        <3>3. \A j \in 1..k : b[j] # u
            <4> TAKE j \in 1..k
            <4>1. j \in 1..Len(b) /\ Len(a) + j \in 1..i
                BY <1>2, <2>3, <3>1
            <4> QED  BY <1>b, <2>1, <4>1
        <3> HIDE DEF k
        <3>4. Before(b, t, u)
            BY <3>1, <3>3 DEF Before
        <3> QED  BY <3>2, <3>4 DEF Has
    <2> QED  BY <2>2, <2>3
<1>4. ASSUME Before(a, t, u) PROVE Before(c, t, u)
    <2>1. PICK i \in 1..Len(a) : a[i] = t /\ \A j \in 1..i : a[j] # u
        BY <1>4 DEF Before
    <2>2. i \in 1..Len(c) /\ c[i] = t /\ \A j \in 1..i : c[j] # u
        BY <1>1, <1>2, <1>a, <2>1
    <2> QED  BY <2>2 DEF Before
<1>5. ASSUME ~Has(a, u), Before(b, t, u) PROVE Before(c, t, u)
    <2>1. PICK i \in 1..Len(b) : b[i] = t /\ \A j \in 1..i : b[j] # u
        BY <1>5 DEF Before
    <2>2. Len(a) + i \in 1..Len(c) /\ c[Len(a) + i] = t
        BY <1>1, <1>2, <1>b, <2>1
    <2>3. \A j \in 1..(Len(a) + i) : c[j] # u
        <3> TAKE j \in 1..(Len(a) + i)
        <3>1. CASE j <= Len(a)
            BY <1>2, <1>5, <1>a, <3>1 DEF Has
        <3>2. CASE ~(j <= Len(a))
            <4>1. j - Len(a) \in 1..i /\ j - Len(a) \in 1..Len(b) /\ Len(a) + (j - Len(a)) = j
                BY <1>2, <3>2
            <4>2. c[j] = b[j - Len(a)]
                BY <1>b, <4>1
            <4> QED  BY <2>1, <4>1, <4>2
        <3> QED  BY <3>1, <3>2
    <2> QED  BY <2>2, <2>3 DEF Before
<1> QED  BY <1>3, <1>4, <1>5 DEF c

\* What the empty list and a list of one transaction hold.
LEMMA OfLists ==
    ASSUME NEW x, NEW t, NEW u
    PROVE  /\ ~Has(<<>>, t) /\ ~Before(<<>>, t, u)
           /\ Has(<<x>>, t) <=> t = x
           /\ Before(<<x>>, t, u) <=> (t = x /\ u # x)
    BY DEF Has, Before

\* A transaction that comes before another one is in the list.
LEMMA BeforeHas ==
    ASSUME NEW q \in Seq(Tx), NEW t, NEW u, Before(q, t, u)
    PROVE  Has(q, t)
    BY DEF Has, Before

\* Lists that are alike stay so when a list is put before or after both.
LEMMA AlikeConcat ==
    ASSUME NEW a \in Seq(Tx), NEW b \in Seq(Tx), NEW c \in Seq(Tx), Alike(a, b)
    PROVE  Alike(c \o a, c \o b) /\ Alike(a \o c, b \o c)
    BY HasConcat, BeforeConcat DEF Alike

\* A list that comes twice in a row adds nothing the second time.
LEMMA AlikeTwice ==
    ASSUME NEW a \in Seq(Tx), NEW b \in Seq(Tx)
    PROVE  Alike(a \o b, a \o (a \o b))
<1>1. a \o b \in Seq(Tx)
    OBVIOUS
<1> QED  BY <1>1, HasConcat, BeforeConcat DEF Alike

\* Being alike is transitive.
LEMMA AlikeTrans ==
    ASSUME NEW a, NEW b, NEW c, Alike(a, b), Alike(b, c)
    PROVE  Alike(a, c)
    BY DEF Alike

\* The transactions that createBlocks is proposing.
Proposing == IF worker = "propose" THEN Txs(inState.txs) ELSE <<>>

Stream == proposed \o (Proposing \o (Txs(Fetched.txs) \o txQueue))

\* Transactions left in currentState wait at the head of the queue as well, and
\* a proposal is only pending beside them if it has none.
KeptBack ==
    /\ \E r \in Seq(Tx) : txQueue = Txs(currentState.txs) \o r
    /\ newBlock # <<>> /\ currentState.txs # <<>> => Head(newBlock).txs = <<>>

StreamInv == Alike(arrived, Stream) /\ KeptBack

\* The parts of the stream are lists of transactions.
LEMMA StreamType ==
    ASSUME TypeInv
    PROVE  /\ proposed \in Seq(Tx) /\ Proposing \in Seq(Tx) /\ txQueue \in Seq(Tx)
           /\ arrived \in Seq(Tx) /\ Txs(Fetched.txs) \in Seq(Tx)
           /\ Txs(currentState.txs) \in Seq(Tx) /\ Stream \in Seq(Tx)
<1>1. /\ proposed \in Seq(Tx) /\ txQueue \in Seq(Tx) /\ arrived \in Seq(Tx)
      /\ inState.txs \in Seq(TxResult) /\ currentState.txs \in Seq(TxResult)
    BY DEF TypeInv, TypeOK, Proposal
<1>2. Txs(inState.txs) \in Seq(Tx) /\ Txs(currentState.txs) \in Seq(Tx)
    BY <1>1, TxsType
<1>3. Proposing \in Seq(Tx)
    BY <1>2 DEF Proposing
<1>4. Txs(Fetched.txs) \in Seq(Tx)
    BY FetchedType
<1>5. Txs(Fetched.txs) \o txQueue \in Seq(Tx)
    BY <1>1, <1>4
<1>6. Proposing \o (Txs(Fetched.txs) \o txQueue) \in Seq(Tx)
    BY <1>3, <1>5
<1>7. Stream \in Seq(Tx)
    BY <1>1, <1>6 DEF Stream
<1> QED  BY <1>1, <1>2, <1>3, <1>4, <1>7

\* No results, no transactions.
LEMMA NoTxs == Txs(<<>>) = <<>>
<1>1. <<>> \in Seq(TxResult)
    OBVIOUS
<1>2. Txs(<<>>) \in Seq(Tx) /\ Len(Txs(<<>>)) = 0
    BY <1>1, TxsType
<1> QED  BY <1>2, EmptySeq

\* The stream and KeptBack after the rest of an iteration of the leader loop.
LEMMA FillStream ==
    ASSUME TypeInv, StreamInv, LeaderFill
    PROVE  Stream' = Stream /\ KeptBack'
<1> DEFINE F == Txs(Fetched.txs)
<1>1. F \in Seq(Tx) /\ txQueue \in Seq(Tx) /\ Fetched \in Proposal
    BY FetchedType DEF TypeInv, TypeOK
<1>2. proposed' = proposed /\ Proposing' = Proposing
    BY DEF LeaderFill, workerVars, Proposing
<1>3. SUFFICES Txs((Fetched').txs) \o txQueue' = F \o txQueue /\ KeptBack'
    BY <1>2 DEF Stream
<1>4. CASE ProposeVersion
    <2> DEFINE x == [Empty(Fetched.sst) EXCEPT !.newVersion = newVersion]
    <2>1. x.txs = <<>>
        BY FetchedType, EmptyType DEF TypeInv, TypeOK
    <2>2. newBlock' = <<x>> /\ txQueue' = F \o txQueue /\ currentState' = Fetched
        BY <1>4 DEF ProposeVersion
    <2> HIDE DEF x
    <2>3. newBlock' # <<>> /\ Head(newBlock') = x
        BY <2>2
    <2>4. Fetched' = x
        BY <2>3 DEF Fetched
    <2>5. F \o txQueue \in Seq(Tx)
        BY <1>1
    <2>6. <<>> \o (F \o txQueue) = F \o txQueue
        BY <2>5, ConcatEmptySeq
    <2>7. Txs((Fetched').txs) \o txQueue' = F \o txQueue
        BY <2>1, <2>2, <2>4, <2>6, NoTxs
    <2> QED  BY <1>1, <2>1, <2>2, <2>3, <2>7 DEF KeptBack
<1>5. CASE FillBlock
    <2> DEFINE s == AddTransactions(Fetched, txQueue)
               n == Taken(Fetched, txQueue)
               pre == SubSeq(txQueue, 1, n)
               post == SubSeq(txQueue, n + 1, Len(txQueue))
    <2>1. s \in Proposal /\ Txs(s.txs) = F \o pre /\ n \in 0..Len(txQueue)
        BY <1>1, AddTransactionsType, TakenType
    <2>2. pre \in Seq(Tx) /\ post \in Seq(Tx) /\ pre \o post = txQueue
        <3>1. Len(txQueue) \in Nat
            BY <1>1
        <3>2. pre \in Seq(Tx) /\ post \in Seq(Tx)
            BY <1>1, <2>1, <3>1
        <3> HIDE DEF n
        <3>a. /\ 1 \in 1..(Len(txQueue) + 1) /\ n \in (1 - 1)..Len(txQueue)
              /\ Len(txQueue) \in n..Len(txQueue)
            BY <2>1, <3>1
        <3>3. pre \o post = SubSeq(txQueue, 1, Len(txQueue))
            BY <1>1, <3>a, ConcatAdjacentSubSeq
        <3> QED  BY <1>1, <3>2, <3>3, SubSeqFull
    <2>3. txQueue' = post
        BY <1>5 DEF FillBlock
    <2>4. (Fetched').txs = s.txs
        <3>1. CASE IsEmpty(s)
            BY <1>5, <3>1 DEF FillBlock, Fetched
        <3>2. CASE ~IsEmpty(s)
            <4>1. newBlock' = <<Copy(s)>>
                BY <1>5, <3>2 DEF FillBlock
            <4>2. newBlock' # <<>> /\ Head(newBlock') = Copy(s)
                BY <4>1
            <4> QED  BY <2>1, <4>2, CopyType DEF Fetched
        <3> QED  BY <3>1, <3>2
    <2>5. currentState'.txs = <<>>
        <3>1. s.sst \in SUBSET Tx
            BY <2>1 DEF Proposal
        <3> QED  BY <1>5, <3>1, EmptyType DEF FillBlock, IsEmpty
    <2> HIDE DEF s, n, pre, post
    <2>6. Txs((Fetched').txs) \o txQueue' = F \o txQueue
        <3> HIDE DEF F
        <3>1. (F \o pre) \o post = F \o (pre \o post)
            <4>1. F \in Seq(Tx) /\ pre \in Seq(Tx) /\ post \in Seq(Tx)
                BY <1>1, <2>2
            <4> QED  BY <4>1, TxConcat
        <3>2. Txs((Fetched').txs) = F \o pre
            BY <2>1, <2>4
        <3> QED  BY <2>2, <2>3, <3>1, <3>2
    <2>7. txQueue' = Txs(currentState'.txs) \o post
        BY <2>2, <2>3, <2>5, NoTxs, ConcatEmptySeq
    <2> QED  BY <2>2, <2>5, <2>6, <2>7 DEF KeptBack
<1> QED  BY <1>4, <1>5 DEF LeaderFill

\* A step that moves no transaction.
LEMMA StreamFrame ==
    ASSUME StreamInv, Proposing' = Proposing,
           UNCHANGED <<arrived, proposed, newBlock, currentState, txQueue>>
    PROVE  StreamInv'
<1>1. Fetched' = Fetched
    BY DEF Fetched
<1>2. Stream' = Stream
    BY <1>1 DEF Stream
<1>3. KeptBack'
    BY DEF StreamInv, KeptBack
<1> QED  BY <1>2, <1>3 DEF StreamInv

\* A transaction is received.
LEMMA TxStream ==
    ASSUME TypeInv, StreamInv, LeaderTx
    PROVE  StreamInv'
<1> DEFINE x == Head(ctxChan)
           F == Txs(Fetched.txs)
           X == Txs(currentState.txs)
<1>1. /\ proposed \in Seq(Tx) /\ Proposing \in Seq(Tx) /\ txQueue \in Seq(Tx)
      /\ arrived \in Seq(Tx) /\ F \in Seq(Tx) /\ X \in Seq(Tx) /\ Stream \in Seq(Tx)
    BY StreamType
<1>2. x \in Tx
    BY DEF LeaderTx, TypeInv, TypeOK
<1>3. proposed' = proposed /\ newBlock' = newBlock /\ currentState' = currentState
    BY DEF LeaderTx, workerVars
<1>4. Proposing' = Proposing
    BY DEF LeaderTx, workerVars, Proposing
<1>5. CASE UNCHANGED <<txQueue, arrived>>
    BY <1>3, <1>4, <1>5, StreamFrame
<1>6. CASE txQueue' = Append(txQueue, x) /\ arrived' = Append(arrived, x)
    <2>1. <<x>> \in Seq(Tx)
        BY <1>2
    <2>2. txQueue' = txQueue \o <<x>> /\ arrived' = arrived \o <<x>>
        BY <1>1, <1>2, <1>6, AppendIsConcat
    <2>3. Fetched' = Fetched
        BY <1>3 DEF Fetched
    <2>4. Stream' = Stream \o <<x>>
        <3> DEFINE y == <<x>>
        <3>1. Stream' = proposed \o (Proposing \o (F \o (txQueue \o y)))
            BY <1>3, <1>4, <2>2, <2>3 DEF Stream
        <3>2. Stream = proposed \o (Proposing \o (F \o txQueue))
            BY DEF Stream
        <3>3. y \in Seq(Tx)
            BY <2>1
        <3> HIDE DEF F, y
        <3>4. F \o txQueue \in Seq(Tx) /\ F \o (txQueue \o y) = (F \o txQueue) \o y
            <4>1. F \in Seq(Tx) /\ txQueue \in Seq(Tx) /\ y \in Seq(Tx)
                BY <1>1, <3>3
            <4> QED  BY <4>1, TxConcat
        <3> DEFINE b == F \o txQueue
        <3>5. b \in Seq(Tx) /\ F \o (txQueue \o y) = b \o y
            BY <3>4
        <3>6. Stream = proposed \o (Proposing \o b)
            BY <3>2
        <3> HIDE DEF b
        <3>7. /\ Proposing \o b \in Seq(Tx)
              /\ Proposing \o (b \o y) = (Proposing \o b) \o y
            <4>1. Proposing \in Seq(Tx) /\ b \in Seq(Tx) /\ y \in Seq(Tx)
                BY <1>1, <3>3, <3>5
            <4> QED  BY <4>1, TxConcat
        <3> DEFINE c == Proposing \o b
        <3>8. c \in Seq(Tx) /\ Proposing \o (b \o y) = c \o y
            BY <3>7
        <3>9. Stream = proposed \o c
            BY <3>6
        <3> HIDE DEF c
        <3>10. proposed \o (c \o y) = (proposed \o c) \o y
            <4>1. proposed \in Seq(Tx) /\ c \in Seq(Tx) /\ y \in Seq(Tx)
                BY <1>1, <3>3, <3>8
            <4> QED  BY <4>1, TxConcat
        <3>11. Stream' = Stream \o y
            BY <3>1, <3>5, <3>8, <3>9, <3>10
        <3> QED  BY <3>11 DEF y
    <2>5. Alike(arrived \o <<x>>, Stream \o <<x>>)
        BY <1>1, <2>1, AlikeConcat DEF StreamInv
    <2>6. KeptBack'
        <3>1. PICK r \in Seq(Tx) : txQueue = X \o r
            BY DEF StreamInv, KeptBack
        <3> DEFINE y == <<x>>
        <3>2. y \in Seq(Tx) /\ txQueue' = txQueue \o y
            BY <2>1, <2>2
        <3> HIDE DEF X, y
        <3>3. r \o y \in Seq(Tx) /\ (X \o r) \o y = X \o (r \o y)
            <4>1. X \in Seq(Tx) /\ r \in Seq(Tx) /\ y \in Seq(Tx)
                BY <1>1, <3>2
            <4> QED  BY <4>1, TxConcat
        <3>4. txQueue' = X \o (r \o y)
            BY <3>1, <3>2, <3>3
        <3>5. \E z \in Seq(Tx) : txQueue' = Txs(currentState'.txs) \o z
            BY <1>3, <3>3, <3>4 DEF X
        <3> QED  BY <1>3, <3>5 DEF StreamInv, KeptBack
    <2> QED  BY <2>2, <2>4, <2>5, <2>6 DEF StreamInv
<1> QED  BY <1>5, <1>6 DEF LeaderTx

\* createBlocks receives a proposal: transactions that currentState still holds
\* are in the stream twice from then on.
LEMMA RecvStream ==
    ASSUME TypeInv, StreamInv, WorkerRecv
    PROVE  StreamInv'
<1> DEFINE F == Txs(Fetched.txs)
           X == Txs(currentState.txs)
<1>1. /\ proposed \in Seq(Tx) /\ Proposing \in Seq(Tx) /\ txQueue \in Seq(Tx)
      /\ arrived \in Seq(Tx) /\ F \in Seq(Tx) /\ X \in Seq(Tx) /\ Stream \in Seq(Tx)
    BY StreamType
<1>2. UNCHANGED <<arrived, proposed, currentState, txQueue>> /\ Proposing = <<>>
    BY DEF WorkerRecv, leaderVars, Proposing
<1>3. CASE newBlock = <<>>
    <2>1. newBlock' = newBlock /\ worker' = "done"
        BY <1>3 DEF WorkerRecv
    <2>2. Proposing' = <<>>
        BY <2>1 DEF Proposing
    <2> QED  BY <1>2, <2>1, <2>2, StreamFrame
<1>4. CASE newBlock # <<>>
    <2>1. inState' = Fetched /\ newBlock' = <<>> /\ worker' = "propose"
        BY <1>4 DEF WorkerRecv, Fetched
    <2>2. Proposing' = F
        BY <2>1 DEF Proposing
    <2>3. Fetched' = currentState
        BY <1>2, <2>1 DEF Fetched
    <2>4. Txs((Fetched').txs) = X
        BY <2>3
    <2>5. PICK r \in Seq(Tx) : txQueue = X \o r
        BY DEF StreamInv, KeptBack
    <2>6. Stream' = proposed \o (F \o (X \o txQueue))
        BY <1>2, <2>2, <2>4 DEF Stream
    <2>7. Stream = proposed \o (<<>> \o (F \o txQueue))
        BY <1>2 DEF Stream
    <2>8. currentState.txs # <<>> => F = <<>>
        BY <1>4, NoTxs DEF StreamInv, KeptBack, Fetched
    <2>9. currentState.txs = <<>> => X = <<>>
        BY NoTxs
    <2>10. KeptBack'
        BY <1>2, <2>1 DEF StreamInv, KeptBack
    <2> HIDE DEF F, X
    <2>11. F \o txQueue \in Seq(Tx) /\ X \o txQueue \in Seq(Tx)
        BY <1>1, TxConcat
    <2>12. Stream = proposed \o (F \o txQueue)
        BY <2>7, <2>11, ConcatEmptySeq
    <2>13. Alike(Stream, Stream')
        <3>1. CASE X = <<>>
            <4>1. X \o txQueue = txQueue
                BY <1>1, <3>1, ConcatEmptySeq
            <4>2. Stream' = Stream
                BY <2>6, <2>12, <4>1
            <4> QED  BY <4>2 DEF Alike
        <3>2. CASE F = <<>>
            <4>1. F \o txQueue = txQueue /\ F \o (X \o txQueue) = X \o txQueue
                BY <1>1, <2>11, <3>2, ConcatEmptySeq
            <4>2. Stream = proposed \o (X \o r) /\ Stream' = proposed \o (X \o (X \o r))
                BY <2>5, <2>6, <2>12, <4>1
            <4>3. X \o r \in Seq(Tx) /\ X \o (X \o r) \in Seq(Tx)
                BY <1>1, <2>5, <2>11
            <4>4. Alike(X \o r, X \o (X \o r))
                BY <1>1, AlikeTwice
            <4>5. Alike(proposed \o (X \o r), proposed \o (X \o (X \o r)))
                BY <1>1, <4>3, <4>4, AlikeConcat
            <4> QED  BY <4>2, <4>5
        <3> QED  BY <2>8, <2>9, <3>1, <3>2
    <2>14. Alike(arrived, Stream')
        BY <2>13, AlikeTrans DEF StreamInv
    <2> QED  BY <1>2, <2>10, <2>14 DEF StreamInv
<1> QED  BY <1>3, <1>4

\* A proposal has been handled, with success or not.
LEMMA HandledStream ==
    ASSUME TypeInv, StreamInv, WorkerPropose \/ WorkerFail
    PROVE  StreamInv'
<1> DEFINE F == Txs(Fetched.txs)
           P == Txs(inState.txs)
<1>1. /\ proposed \in Seq(Tx) /\ Proposing \in Seq(Tx) /\ txQueue \in Seq(Tx)
      /\ F \in Seq(Tx)
    BY StreamType
<1>2. /\ UNCHANGED <<arrived, newBlock, currentState, txQueue>>
      /\ worker = "propose" /\ worker' = "signal" /\ proposed' = proposed \o P
    BY DEF WorkerPropose, WorkerFail, leaderVars
<1>3. Proposing = P /\ Proposing' = <<>> /\ Fetched' = Fetched
    BY <1>2 DEF Proposing, Fetched
<1>4. Stream' = (proposed \o P) \o (<<>> \o (F \o txQueue))
    BY <1>2, <1>3 DEF Stream
<1>5. Stream = proposed \o (P \o (F \o txQueue)) /\ P \in Seq(Tx)
    BY <1>1, <1>3 DEF Stream
<1>6. KeptBack'
    BY <1>2 DEF StreamInv, KeptBack
<1> HIDE DEF F, P
<1>7. F \o txQueue \in Seq(Tx)
    BY <1>1, TxConcat
<1> DEFINE b == F \o txQueue
<1>8. <<>> \o b = b /\ b \in Seq(Tx)
    BY <1>7, ConcatEmptySeq
<1>9. Stream' = (proposed \o P) \o b /\ Stream = proposed \o (P \o b)
    BY <1>4, <1>5, <1>8
<1> HIDE DEF b
<1>10. Stream' = Stream
    <2>1. proposed \in Seq(Tx) /\ P \in Seq(Tx) /\ b \in Seq(Tx)
        BY <1>1, <1>5, <1>8
    <2>2. (proposed \o P) \o b = proposed \o (P \o b)
        BY <2>1, TxConcat
    <2> QED  BY <1>9, <2>2
<1> QED  BY <1>2, <1>6, <1>10 DEF StreamInv

\* At the start nothing has arrived and nothing is on its way.
LEMMA InitStreamInv == ASSUME Init PROVE StreamInv
<1>1. currentState.txs = <<>> /\ Fetched.txs = <<>> /\ Proposing = <<>>
    BY DEF Init, Empty, Fetched, Proposing
<1>2. arrived = <<>> /\ txQueue = <<>> /\ proposed = <<>> /\ newBlock = <<>>
    BY DEF Init
<1>3. <<>> \in Seq(Tx) /\ <<>> \o <<>> = <<>>
    BY ConcatEmptySeq
<1>4. Stream = <<>>
    BY <1>1, <1>2, <1>3, NoTxs DEF Stream
<1>5. KeptBack
    BY <1>1, <1>2, <1>3, NoTxs DEF KeptBack
<1> QED  BY <1>2, <1>4, <1>5 DEF StreamInv, Alike

\* No step of the leader loop or of createBlocks loses or reorders the stream.
LEMMA NextStreamInv ==
    ASSUME TypeInv, StreamInv, [Next]_vars
    PROVE  StreamInv'
<1>1. CASE \/ \E t \in Tx, v \in Version : AddTransaction(t, v)
           \/ SendUpgrade \/ Stop
    <2>1. UNCHANGED <<arrived, proposed, newBlock, currentState, txQueue, worker, inState>>
        BY <1>1 DEF AddTransaction, SendUpgrade, Stop, leaderVars, workerVars
    <2> QED  BY <2>1, StreamFrame DEF Proposing
<1>2. CASE LeaderStop \/ LeaderBlockSent \/ LeaderUpgrade \/ LeaderDone
    <2>1. UNCHANGED <<arrived, proposed, newBlock, currentState, txQueue, worker, inState>>
        BY <1>2 DEF LeaderStop, LeaderBlockSent, LeaderUpgrade, LeaderDone, workerVars
    <2> QED  BY <2>1, StreamFrame DEF Proposing
<1>3. CASE LeaderTx
    BY <1>3, TxStream
<1>4. CASE LeaderFill
    <2>1. Stream' = Stream /\ KeptBack'
        BY <1>4, FillStream
    <2>2. arrived' = arrived
        BY <1>4 DEF LeaderFill
    <2> QED  BY <2>1, <2>2 DEF StreamInv
<1>5. CASE WorkerRecv
    BY <1>5, RecvStream
<1>6. CASE WorkerPropose \/ WorkerFail
    BY <1>6, HandledStream
<1>7. CASE WorkerSignal
    <2>1. UNCHANGED <<arrived, proposed, newBlock, currentState, txQueue>>
        BY <1>7 DEF WorkerSignal, leaderVars
    <2>2. Proposing' = Proposing
        BY <1>7 DEF WorkerSignal, Proposing
    <2> QED  BY <2>1, <2>2, StreamFrame
<1>8. CASE UNCHANGED vars
    <2>1. UNCHANGED <<arrived, proposed, newBlock, currentState, txQueue, worker, inState>>
        BY <1>8 DEF vars, leaderVars, workerVars
    <2> QED  BY <2>1, StreamFrame DEF Proposing
<1> QED  BY <1>1, <1>2, <1>3, <1>4, <1>5, <1>6, <1>7, <1>8 DEF Next, Leader, Worker

\* ToSet and Has agree.
LEMMA ToSetHas ==
    ASSUME NEW q \in Seq(Tx), NEW t
    PROVE  t \in ToSet(q) <=> Has(q, t)
    BY DEF ToSet, Has

\* A transaction the leader loop has taken is never dropped before it has been
\* proposed, for every number of transactions, versions and failures.
THEOREM NoTxEverLost == Spec => []NoTxLost
<1>1. ASSUME TypeInv, StreamInv PROVE NoTxLost
    <2>1. /\ proposed \in Seq(Tx) /\ Proposing \in Seq(Tx) /\ txQueue \in Seq(Tx)
          /\ arrived \in Seq(Tx) /\ Txs(Fetched.txs) \in Seq(Tx)
          /\ Txs(currentState.txs) \in Seq(Tx) /\ Stream \in Seq(Tx)
        BY <1>1, StreamType
    <2>2. SUFFICES ASSUME NEW t \in ToSet(arrived)
                   PROVE  \/ t \in ToSet(txQueue) \/ t \in Pending
                          \/ t \in InFlight \/ t \in ToSet(proposed)
        BY DEF NoTxLost
    <2>3. t \in Tx /\ Has(arrived, t)
        <3>1. Has(arrived, t)
            BY <2>1, <2>2, ToSetHas
        <3> QED  BY <2>1, <3>1 DEF Has
    <2>4. Has(Stream, t)
        BY <1>1, <2>3 DEF StreamInv, Alike
    <2>5. Txs(Fetched.txs) \o txQueue \in Seq(Tx)
        BY <2>1
    <2>6. Proposing \o (Txs(Fetched.txs) \o txQueue) \in Seq(Tx)
        BY <2>1, <2>5
    <2>7. \/ Has(proposed, t) \/ Has(Proposing, t)
          \/ Has(Txs(Fetched.txs), t) \/ Has(txQueue, t)
        <3> DEFINE F == Txs(Fetched.txs)
                   b == Txs(Fetched.txs) \o txQueue
                   c == Proposing \o (Txs(Fetched.txs) \o txQueue)
        <3>1. Has(b, t) => Has(F, t) \/ Has(txQueue, t)
            BY <2>1, HasConcat
        <3>2. Has(c, t) => Has(Proposing, t) \/ Has(b, t)
            BY <2>1, <2>5, HasConcat
        <3>3. Stream = proposed \o c /\ c \in Seq(Tx) /\ proposed \in Seq(Tx)
            BY <2>1, <2>6 DEF Stream
        <3> HIDE DEF F, b, c
        <3>4. Has(proposed, t) \/ Has(c, t)
            BY <2>4, <3>3, HasConcat
        <3> QED  BY <3>1, <3>2, <3>4 DEF F
    <2>8. CASE Has(proposed, t) \/ Has(txQueue, t)
        BY <2>1, <2>8, ToSetHas
    <2>9. CASE Has(Proposing, t)
        <3>1. worker = "propose"
            BY <2>9, OfLists DEF Proposing
        <3>2. t \in ToSet(Proposing)
            BY <2>1, <2>9, ToSetHas
        <3> QED  BY <3>1, <3>2 DEF Proposing, InFlight
    <2>10. CASE Has(Txs(Fetched.txs), t)
        <3>1. CASE newBlock = <<>>
            <4>1. PICK r \in Seq(Tx) : txQueue = Txs(currentState.txs) \o r
                BY <1>1 DEF StreamInv, KeptBack
            <4>2. Has(Txs(currentState.txs), t)
                BY <2>10, <3>1 DEF Fetched
            <4>3. Has(txQueue, t)
                BY <2>1, <4>1, <4>2, HasConcat
            <4> QED  BY <2>1, <4>3, ToSetHas
        <3>2. CASE newBlock # <<>>
            <4>1. t \in ToSet(Txs(Fetched.txs))
                BY <2>1, <2>10, ToSetHas
            <4> QED  BY <3>2, <4>1 DEF Pending, Fetched
        <3> QED  BY <3>1, <3>2
    <2> QED  BY <2>7, <2>8, <2>9, <2>10
<1> QED  BY <1>1, InitTypeInv, NextTypeInv, InitStreamInv, NextStreamInv, PTL DEF Spec

\* The first occurrence.
LEMMA FirstIs ==
    ASSUME NEW q \in Seq(Tx), NEW t, Has(q, t)
    PROVE  /\ First(q, t) \in 1..Len(q) /\ q[First(q, t)] = t
           /\ \A j \in 1..(First(q, t) - 1) : q[j] # t
<1> DEFINE S == {i \in 1..Len(q) : q[i] = t}
<1>1. S # {} /\ S \subseteq Nat
    BY DEF Has
<1>2. PICK i \in S : \A j \in S : i <= j
    BY <1>1, LeastNat
<1>3. i \in DOMAIN q /\ q[i] = t /\ \A j \in 1..(i - 1) : q[j] # t
    BY <1>2
<1>4. /\ First(q, t) \in DOMAIN q /\ q[First(q, t)] = t
      /\ \A j \in 1..(First(q, t) - 1) : q[j] # t
    BY <1>3 DEF First
<1> QED  BY <1>4

\* Comparing first occurrences.
LEMMA FirstBefore ==
    ASSUME NEW q \in Seq(Tx), NEW t, NEW u, Has(q, t), Has(q, u)
    PROVE  First(q, t) < First(q, u) <=> Before(q, t, u)
<1> DEFINE k == First(q, t)
           l == First(q, u)
<1>1. /\ k \in 1..Len(q) /\ q[k] = t /\ \A j \in 1..(k - 1) : q[j] # t
      /\ l \in 1..Len(q) /\ q[l] = u /\ \A j \in 1..(l - 1) : q[j] # u
    BY FirstIs
<1> HIDE DEF k, l
<1>2. Len(q) \in Nat
    OBVIOUS
<1>3. ASSUME k < l PROVE Before(q, t, u)
    <2>1. \A j \in 1..k : q[j] # u
        BY <1>1, <1>2, <1>3
    <2> QED  BY <1>1, <2>1 DEF Before
<1>4. ASSUME Before(q, t, u) PROVE k < l
    <2>1. PICK i \in 1..Len(q) : q[i] = t /\ \A j \in 1..i : q[j] # u
        BY <1>4 DEF Before
    <2>2. ~(l \in 1..i) /\ ~(i \in 1..(k - 1))
        BY <1>1, <2>1
    <2> QED  BY <1>1, <1>2, <2>1, <2>2
<1> QED  BY <1>3, <1>4 DEF k, l

\* Transactions are proposed in the order of their arrival, also when proposals
\* are fetched back and replaced by version proposals.
THEOREM AlwaysProposedInOrder == Spec => []ProposedInOrder
<1>1. ASSUME TypeInv, StreamInv PROVE ProposedInOrder
    <2>1. proposed \in Seq(Tx) /\ arrived \in Seq(Tx) /\ Proposing \in Seq(Tx)
          /\ txQueue \in Seq(Tx) /\ Txs(Fetched.txs) \in Seq(Tx)
        BY <1>1, StreamType
    <2>2. SUFFICES ASSUME NEW t \in ToSet(arrived), NEW u \in ToSet(arrived),
                          u \in ToSet(proposed), First(arrived, t) < First(arrived, u)
                   PROVE  t \in ToSet(proposed) /\ First(proposed, t) < First(proposed, u)
        BY DEF ProposedInOrder
    <2>3. Has(arrived, t) /\ Has(arrived, u) /\ Has(proposed, u)
        BY <2>1, <2>2, ToSetHas
    <2>4. t \in Tx /\ u \in Tx
        BY <2>1, <2>3 DEF Has
    <2>5. Before(arrived, t, u)
        BY <2>1, <2>2, <2>3, FirstBefore
    <2>6. Before(Stream, t, u)
        BY <1>1, <2>4, <2>5 DEF StreamInv, Alike
    <2>7. Proposing \o (Txs(Fetched.txs) \o txQueue) \in Seq(Tx)
        <3>1. Txs(Fetched.txs) \o txQueue \in Seq(Tx)
            BY <2>1
        <3> QED  BY <2>1, <3>1
    <2>8. Before(proposed, t, u)
        BY <2>1, <2>3, <2>6, <2>7, BeforeConcat DEF Stream
    <2>9. Has(proposed, t)
        BY <2>1, <2>8, BeforeHas
    <2> QED  BY <2>1, <2>3, <2>8, <2>9, FirstBefore, ToSetHas
<1> QED  BY <1>1, InitTypeInv, NextTypeInv, InitStreamInv, NextStreamInv, PTL DEF Spec

-----------------------------------------------------------------------------
(* Working ahead. While no version is proposed and no proposal fails, the      *)
(* proposals are built on one another: the one in flight on the committed trie, *)
(* the pending one on what the one in flight leads to, and currentState on what *)
(* the pending one leads to.                                                    *)

\* The trie after all transactions of q.
RunOn(sst, q) == Tries(sst, q)[Len(q)]

\* The proposal s has been computed on the trie base.
BuiltOn(s, base) == /\ s.txs = Results(base, Txs(s.txs))
                    /\ s.sst = RunOn(base, Txs(s.txs))

\* The tries after the two parts of a list.
LEMMA TriesConcat ==
    ASSUME NEW sst \in SUBSET Tx, NEW a \in Seq(Tx), NEW b \in Seq(Tx)
    PROVE  /\ RunOn(sst, a) \in SUBSET Tx
           /\ \A i \in 0..Len(a) : Tries(sst, a \o b)[i] = Tries(sst, a)[i]
           /\ \A j \in 0..Len(b) :
                Tries(sst, a \o b)[Len(a) + j] = Tries(RunOn(sst, a), b)[j]
<1> DEFINE c == a \o b
           m == Len(a)
           n == Len(b)
           A == Tries(sst, a)
           B == Tries(RunOn(sst, a), b)
           C == Tries(sst, a \o b)
           Step(v, t) == v \union (IF Accepts(v, t) THEN {t} ELSE {})
<1>1. /\ c \in Seq(Tx) /\ Len(c) = m + n /\ m \in Nat /\ n \in Nat
      /\ \A i \in 1..(m + n) : c[i] = IF i <= m THEN a[i] ELSE b[i - m]
    BY ConcatProperties
<1>2. A[0] = sst /\ \A i \in 1..m : A[i] = Step(A[i-1], a[i])
    BY TriesType
<1>3. RunOn(sst, a) = A[m] /\ RunOn(sst, a) \in SUBSET Tx
    <2>1. A \in [0..m -> SUBSET Tx]
        BY TriesType
    <2>2. A[m] \in SUBSET Tx
        BY <1>1, <2>1
    <2> QED  BY <2>2 DEF RunOn
<1>4. B[0] = A[m] /\ \A i \in 1..n : B[i] = Step(B[i-1], b[i])
    BY <1>3, TriesType
<1>5. C[0] = sst /\ \A i \in 1..(m + n) : C[i] = Step(C[i-1], c[i])
    <2>1. c \in Seq(Tx) /\ Len(c) = m + n
        BY <1>1
    <2>2. C = Tries(sst, c)
        OBVIOUS
    <2> HIDE DEF c, m, n
    <2>3. /\ Tries(sst, c)[0] = sst
          /\ \A i \in 1..Len(c) : Tries(sst, c)[i] = Step(Tries(sst, c)[i-1], c[i])
        BY <2>1, TriesType
    <2> QED  BY <2>1, <2>2, <2>3
<1> HIDE DEF A, B, C, Step, c, m, n
<1> DEFINE S == {k \in Nat : k <= m => C[k] = A[k]}
           R == {k \in Nat : k <= n => C[m + k] = B[k]}
<1>6. \A k \in Nat : k \in S
    <2>1. 0 \in S
        BY <1>2, <1>5
    <2>2. ASSUME NEW k \in Nat, k \in S PROVE k + 1 \in S
        <3> SUFFICES ASSUME k + 1 <= m PROVE C[k + 1] = A[k + 1]
            OBVIOUS
        <3>1. k + 1 \in 1..m /\ k + 1 \in 1..(m + n) /\ (k + 1) - 1 = k /\ C[k] = A[k]
            BY <1>1, <2>2
        <3>2. c[k + 1] = a[k + 1]
            BY <1>1, <3>1
        <3> QED  BY <1>2, <1>5, <3>1, <3>2
    <2> HIDE DEF S
    <2> QED  BY <2>1, <2>2, NatSteps
<1>7. \A i \in 0..m : C[i] = A[i]
    BY <1>1, <1>6
<1>8. \A k \in Nat : k \in R
    <2>1. 0 \in R
        BY <1>1, <1>4, <1>7
    <2>2. ASSUME NEW k \in Nat, k \in R PROVE k + 1 \in R
        <3> SUFFICES ASSUME k + 1 <= n PROVE C[m + (k + 1)] = B[k + 1]
            OBVIOUS
        <3>1. /\ k + 1 \in 1..n /\ m + (k + 1) \in 1..(m + n) /\ (k + 1) - 1 = k
              /\ (m + (k + 1)) - 1 = m + k /\ C[m + k] = B[k]
              /\ ~(m + (k + 1) <= m) /\ (m + (k + 1)) - m = k + 1
            BY <1>1, <2>2
        <3>2. c[m + (k + 1)] = b[k + 1]
            BY <1>1, <3>1
        <3> QED  BY <1>4, <1>5, <3>1, <3>2
    <2> HIDE DEF R
    <2> QED  BY <2>1, <2>2, NatSteps
<1>9. \A j \in 0..n : C[m + j] = B[j]
    BY <1>1, <1>8
<1> QED  BY <1>3, <1>7, <1>9 DEF A, B, C, m, n

\* Running a list is running its second part after its first.
LEMMA RunConcat ==
    ASSUME NEW sst \in SUBSET Tx, NEW a \in Seq(Tx), NEW b \in Seq(Tx)
    PROVE  /\ RunOn(sst, a \o b) = RunOn(RunOn(sst, a), b)
           /\ Results(sst, a \o b) = Results(sst, a) \o Results(RunOn(sst, a), b)
<1> DEFINE c == a \o b
           m == Len(a)
           n == Len(b)
           mid == RunOn(sst, a)
           ra == Results(sst, a)
           rb == Results(mid, b)
           rc == Results(sst, c)
           d == ra \o rb
<1>1. /\ c \in Seq(Tx) /\ Len(c) = m + n /\ m \in Nat /\ n \in Nat
      /\ \A i \in 1..(m + n) : c[i] = IF i <= m THEN a[i] ELSE b[i - m]
    BY ConcatProperties
<1>2. /\ mid \in SUBSET Tx /\ \A i \in 0..m : Tries(sst, c)[i] = Tries(sst, a)[i]
      /\ \A j \in 0..n : Tries(sst, c)[m + j] = Tries(mid, b)[j]
    BY TriesConcat
<1>3. /\ ra \in Seq(TxResult) /\ Len(ra) = m
      /\ \A i \in 1..m : ra[i] = [tx |-> a[i], accepted |-> Accepts(Tries(sst, a)[i-1], a[i])]
    BY ResultsType
<1> HIDE DEF mid, c
<1>4. /\ rb \in Seq(TxResult) /\ Len(rb) = n
      /\ \A i \in 1..n : rb[i] = [tx |-> b[i], accepted |-> Accepts(Tries(mid, b)[i-1], b[i])]
    BY <1>2, ResultsType
<1>5. /\ rc \in Seq(TxResult) /\ Len(rc) = m + n
      /\ \A i \in 1..(m + n) :
           rc[i] = [tx |-> c[i], accepted |-> Accepts(Tries(sst, c)[i-1], c[i])]
    <2>1. c \in Seq(Tx) /\ Len(c) = m + n
        BY <1>1
    <2> HIDE DEF m, n
    <2> QED  BY <2>1, ResultsType
<1> HIDE DEF ra, rb, rc
<1>6. /\ d \in Seq(TxResult) /\ Len(d) = m + n
      /\ \A i \in 1..(m + n) : d[i] = IF i <= m THEN ra[i] ELSE rb[i - m]
    <2>1. ra \in Seq(TxResult) /\ rb \in Seq(TxResult) /\ Len(ra) = m /\ Len(rb) = n
        BY <1>3, <1>4
    <2> HIDE DEF m, n
    <2> QED  BY <2>1, ConcatProperties
<1> HIDE DEF d, m, n
<1>7. ASSUME NEW i \in 1..(m + n) PROVE rc[i] = d[i]
    <2>1. CASE i <= m
        <3>1. i \in 1..m /\ i - 1 \in 0..m
            BY <1>1, <2>1
        <3>2. c[i] = a[i] /\ Tries(sst, c)[i-1] = Tries(sst, a)[i-1] /\ d[i] = ra[i]
            BY <1>1, <1>2, <1>6, <2>1, <3>1
        <3> QED  BY <1>3, <1>5, <3>1, <3>2
    <2>2. CASE ~(i <= m)
        <3>1. i - m \in 1..n /\ (i - m) - 1 \in 0..n /\ m + ((i - m) - 1) = i - 1
            BY <1>1, <2>2
        <3>2. Tries(sst, c)[i-1] = Tries(mid, b)[(i - m) - 1]
            BY <1>2, <3>1
        <3>3. c[i] = b[i - m] /\ d[i] = rb[i - m]
            BY <1>1, <1>6, <2>2
        <3> QED  BY <1>4, <1>5, <3>1, <3>2, <3>3
    <2> QED  BY <2>1, <2>2
<1>8. rc = d
    BY <1>5, <1>6, <1>7, SeqEqual
<1>9. RunOn(sst, c) = RunOn(mid, b)
    <2>1. n \in 0..n
        BY <1>1
    <2>2. Tries(sst, c)[m + n] = Tries(mid, b)[n]
        BY <1>2, <2>1
    <2>3. RunOn(sst, c) = Tries(sst, c)[m + n] /\ RunOn(mid, b) = Tries(mid, b)[n]
        BY <1>1 DEF RunOn, n
    <2> QED  BY <2>2, <2>3
<1> QED  BY <1>8, <1>9 DEF mid, c, d, ra, rb, rc

\* A list without transactions.
LEMMA RunNothing ==
    ASSUME NEW sst \in SUBSET Tx
    PROVE  RunOn(sst, <<>>) = sst /\ Results(sst, <<>>) = <<>>
<1>1. <<>> \in Seq(Tx) /\ Len(<<>>) = 0
    OBVIOUS
<1>2. RunOn(sst, <<>>) = sst
    BY <1>1, TriesType DEF RunOn
<1>3. Results(sst, <<>>) \in Seq(TxResult) /\ Len(Results(sst, <<>>)) = 0
    BY <1>1, ResultsType
<1> QED  BY <1>2, <1>3, EmptySeq

\* addTransactions keeps a proposal on its trie.
LEMMA AddTransactionsBuilt ==
    ASSUME NEW s \in Proposal, NEW q \in Seq(Tx), NEW base \in SUBSET Tx, BuiltOn(s, base)
    PROVE  BuiltOn(AddTransactions(s, q), base)
<1> DEFINE pre == SubSeq(q, 1, Taken(s, q))
           a == Txs(s.txs)
           z == AddTransactions(s, q)
<1>1. a \in Seq(Tx) /\ pre \in Seq(Tx) /\ Txs(z.txs) = a \o pre
    BY AddTransactionsType, TxsType DEF Proposal
<1>2. z.txs = s.txs \o Results(s.sst, pre)
    BY AddTransactionsType
<1>3. z.sst = RunOn(s.sst, pre)
    BY DEF AddTransactions, RunOn, Proposal
<1>4. s.txs = Results(base, a) /\ s.sst = RunOn(base, a)
    BY DEF BuiltOn
<1> HIDE DEF pre, a, z
<1>5. /\ RunOn(base, a \o pre) = RunOn(RunOn(base, a), pre)
      /\ Results(base, a \o pre) = Results(base, a) \o Results(RunOn(base, a), pre)
    <2>1. a \in Seq(Tx) /\ pre \in Seq(Tx)
        BY <1>1
    <2> QED  BY <2>1, RunConcat
<1>6. z.txs = Results(base, Txs(z.txs)) /\ z.sst = RunOn(base, Txs(z.txs))
    BY <1>1, <1>2, <1>3, <1>4, <1>5
<1> QED  BY <1>6 DEF BuiltOn, z

\* The committed trie once the proposal in flight has been committed.
Base == IF worker = "propose" THEN StateAfter ELSE ledger

Block == [txs : Seq(TxResult), version : Version, roster : SUBSET Tx, config : SUBSET Tx]

AheadInv ==
    /\ failures = 0
    /\ blocks \in Seq(Block) /\ RosterMatchesConfig
    /\ currentState.txs = <<>>
    /\ currentState.sst = IF newBlock = <<>> THEN Base ELSE Head(newBlock).sst
    /\ worker = "propose" => BuiltOn(inState, ledger) /\ inState.txs # <<>>
    /\ newBlock # <<>> => BuiltOn(Head(newBlock), Base) /\ Head(newBlock).txs # <<>>

\* The trie that the next proposal builds on is a state.
LEMMA BaseType == ASSUME TypeInv PROVE Base \in SUBSET Tx
<1>1. StateAfter \in SUBSET Tx /\ ledger \in SUBSET Tx
    BY StateAfterType DEF TypeInv, TypeOK
<1> QED  BY <1>1 DEF Base

\* A step that leaves the proposals alone.
LEMMA AheadFrame ==
    ASSUME AheadInv, Base' = Base, (worker = "propose") <=> (worker' = "propose"),
           UNCHANGED <<failures, blocks, currentState, newBlock, inState, ledger>>
    PROVE  AheadInv'
    BY DEF AheadInv, RosterMatchesConfig

\* A conode with one version only has neither requests nor proposals for others.
LEMMA OneVersion ==
    ASSUME TypeInv, MaxVersion = 0
    PROVE  newVersion = 0 /\ inState.newVersion = 0 /\ currentState.newVersion = 0
<1>1. Version = {0}
    BY DEF Version
<1>2. newVersion \in Version /\ inState \in Proposal /\ currentState \in Proposal
    BY DEF TypeInv, TypeOK
<1> QED  BY <1>1, <1>2 DEF Proposal

\* Everything the leader has computed ahead is accepted.
LEMMA AheadAcceptable ==
    ASSUME TypeInv, AheadInv, MaxVersion = 0, worker = "propose"
    PROVE  Acceptable /\ BlockRoster = Roster(StateAfter)
<1>1. BuiltOn(inState, ledger) /\ inState.txs # <<>>
    BY DEF AheadInv
<1>2. inState.sst = StateAfter
    BY <1>1 DEF BuiltOn, RunOn, StateAfter
<1>3. BlockRoster = Roster(StateAfter)
    BY <1>2, OneVersion DEF BlockRoster
<1>4. CheckNewRoster(Roster(StateAfter), BlockRoster)
    <2>1. (Roster(StateAfter) \ BlockRoster) \union (BlockRoster \ Roster(StateAfter)) = {}
        BY <1>3
    <2> QED  BY <2>1, FS_EmptySet DEF CheckNewRoster
<1> QED  BY <1>1, <1>3, <1>4, OneVersion DEF Acceptable

\* The leader loop fills or extends a proposal.
LEMMA FillAhead ==
    ASSUME TypeInv, AheadInv, MaxVersion = 0, LeaderFill
    PROVE  AheadInv'
<1> DEFINE s == AddTransactions(Fetched, txQueue)
<1>1. FillBlock
    BY OneVersion DEF LeaderFill, ProposeVersion
<1>2. Fetched \in Proposal /\ txQueue \in Seq(Tx) /\ Base \in SUBSET Tx
    BY FetchedType, BaseType DEF TypeInv, TypeOK
<1>3. BuiltOn(Fetched, Base)
    <2>1. CASE newBlock = <<>>
        <3>1. Fetched = currentState /\ Fetched.txs = <<>> /\ Fetched.sst = Base
            BY <2>1 DEF Fetched, AheadInv
        <3> QED  BY <1>2, <3>1, RunNothing, NoTxs DEF BuiltOn
    <2>2. CASE newBlock # <<>>
        BY <2>2 DEF Fetched, AheadInv
    <2> QED  BY <2>1, <2>2
<1>4. s \in Proposal /\ BuiltOn(s, Base) /\ s.newVersion = 0
    <2>1. Fetched.newVersion = 0
        <3>1. Version = {0}
            BY DEF Version
        <3> QED  BY <1>2, <3>1 DEF Proposal
    <2> QED  BY <1>2, <1>3, <2>1, AddTransactionsType, AddTransactionsBuilt
<1>5. /\ newBlock' = IF IsEmpty(s) THEN <<>> ELSE <<Copy(s)>>
      /\ currentState' = IF IsEmpty(s) THEN s ELSE Empty(s.sst)
    BY <1>1 DEF FillBlock
<1>6. /\ UNCHANGED <<failures, blocks, inState, ledger, worker>>
    BY DEF LeaderFill, workerVars
<1>7. Base' = Base
    BY <1>6 DEF Base, StateAfter
<1>8. s.sst \in SUBSET Tx
    BY <1>4 DEF Proposal
<1> HIDE DEF s
<1>9. CASE IsEmpty(s)
    <2>1. s.txs = <<>> /\ s.sst = Base
        BY <1>2, <1>4, <1>9, RunNothing, NoTxs DEF IsEmpty, BuiltOn
    <2>2. newBlock' = <<>> /\ currentState' = s
        BY <1>5, <1>9
    <2> QED  BY <1>6, <1>7, <2>1, <2>2 DEF AheadInv, RosterMatchesConfig
<1>10. CASE ~IsEmpty(s)
    <2>1. s.txs # <<>>
        BY <1>4, <1>10 DEF IsEmpty
    <2>2. Copy(s).txs = s.txs /\ Copy(s).sst = s.sst /\ Copy(s) \in Proposal
        BY <1>4, CopyType
    <2>3. newBlock' # <<>> /\ Head(newBlock') = Copy(s)
        BY <1>5, <1>10, <2>2, One
    <2>4. currentState'.txs = <<>> /\ currentState'.sst = s.sst
        BY <1>5, <1>8, <1>10, EmptyType
    <2>5. BuiltOn(Copy(s), Base)
        BY <1>4, <2>2 DEF BuiltOn
    <2> HIDE DEF Copy
    <2> QED  BY <1>6, <1>7, <2>1, <2>2, <2>3, <2>4, <2>5 DEF AheadInv, RosterMatchesConfig
<1> QED  BY <1>9, <1>10

\* createBlocks receives the pending proposal.
LEMMA RecvAhead ==
    ASSUME TypeInv, AheadInv, WorkerRecv
    PROVE  AheadInv'
<1>1. /\ UNCHANGED <<failures, blocks, currentState, ledger>> /\ worker = "recv"
      /\ Base = ledger
    BY DEF WorkerRecv, leaderVars, Base
<1>2. CASE newBlock = <<>>
    <2>1. worker' = "done" /\ UNCHANGED <<inState, newBlock>>
        BY <1>2 DEF WorkerRecv
    <2>2. Base' = ledger
        BY <1>1, <2>1 DEF Base
    <2> QED  BY <1>1, <2>1, <2>2, AheadFrame
<1>3. CASE newBlock # <<>>
    <2>1. worker' = "propose" /\ inState' = Head(newBlock) /\ newBlock' = <<>>
        BY <1>3 DEF WorkerRecv
    <2>2. BuiltOn(inState', ledger) /\ inState'.txs # <<>> /\ currentState.sst = inState'.sst
        BY <1>1, <1>3, <2>1 DEF AheadInv
    <2>3. Base' = inState'.sst
        BY <1>1, <2>1, <2>2 DEF Base, StateAfter, BuiltOn, RunOn
    <2> QED  BY <1>1, <2>1, <2>2, <2>3 DEF AheadInv, RosterMatchesConfig
<1> QED  BY <1>2, <1>3

\* The version of the chain is a version.
LEMMA ChainVersionType ==
    ASSUME blocks \in Seq(Block)
    PROVE  ChainVersion \in Version
<1>1. CASE blocks = <<>>
    BY <1>1, PipelineAssumption DEF ChainVersion, Version
<1>2. CASE blocks # <<>>
    <2>1. Len(blocks) \in 1..Len(blocks)
        BY <1>2, EmptySeq
    <2>2. blocks[Len(blocks)] \in Block
        BY <2>1, ElementOfSeq
    <2> QED  BY <1>2, <2>2 DEF ChainVersion, Last, Block
<1> QED  BY <1>1, <1>2

\* The block of a proposal.
LEMMA ProposeAhead ==
    ASSUME TypeInv, AheadInv, MaxVersion = 0, WorkerPropose
    PROVE  AheadInv' /\ Last(blocks').txs = inState.txs
<1> DEFINE q == Txs(inState.txs)
           blk == [txs     |-> Results(ledger, q),
                   version |-> IF inState.newVersion > 0 THEN inState.newVersion
                               ELSE ChainVersion,
                   roster  |-> BlockRoster,
                   config  |-> Roster(StateAfter)]
<1>1. /\ blocks' = Append(blocks, blk) /\ ledger' = StateAfter
      /\ worker = "propose" /\ worker' = "signal"
      /\ UNCHANGED <<failures, currentState, newBlock, inState>>
    BY DEF WorkerPropose, leaderVars
<1>2. blocks \in Seq(Block) /\ \A i \in 1..Len(blocks) : blocks[i].roster = blocks[i].config
    BY DEF AheadInv, RosterMatchesConfig
<1>3. Results(ledger, q) = inState.txs
    BY <1>1 DEF AheadInv, BuiltOn
<1>4. BlockRoster = Roster(StateAfter) /\ StateAfter \in SUBSET Tx
    BY <1>1, AheadAcceptable, StateAfterType
<1>5. inState.txs \in Seq(TxResult) /\ inState.newVersion = 0 /\ ChainVersion \in Version
    BY <1>2, OneVersion, ChainVersionType DEF TypeInv, TypeOK, Proposal
<1>6. blk \in Block /\ blk.roster = blk.config /\ blk.txs = inState.txs
    <2>1. Roster(StateAfter) \in SUBSET Tx
        BY <1>4 DEF Roster
    <2> QED  BY <1>3, <1>4, <1>5, <2>1 DEF Block
<1> HIDE DEF blk
<1>7. /\ blocks' \in Seq(Block) /\ Len(blocks') = Len(blocks) + 1
      /\ \A i \in 1..Len(blocks) : blocks'[i] = blocks[i]
      /\ blocks'[Len(blocks) + 1] = blk
    <2>1. blocks \in Seq(Block) /\ blk \in Block
        BY <1>2, <1>6
    <2> QED  BY <1>1, <2>1, AppendProperties
<1>8. RosterMatchesConfig'
    <2>1. ASSUME NEW i \in 1..(Len(blocks) + 1) PROVE blocks'[i].roster = blocks'[i].config
        <3>1. Len(blocks) \in Nat
            BY <1>2
        <3>2. i \in 1..Len(blocks) \/ i = Len(blocks) + 1
            BY <3>1
        <3> QED  BY <1>2, <1>6, <1>7, <3>2
    <2>2. DOMAIN blocks' = 1..(Len(blocks) + 1)
        BY <1>7
    <2> QED  BY <2>1, <2>2 DEF RosterMatchesConfig
<1>9. Base' = Base
    BY <1>1 DEF Base
<1>10. Last(blocks').txs = inState.txs
    BY <1>6, <1>7 DEF Last
<1> QED  BY <1>1, <1>7, <1>8, <1>9, <1>10 DEF AheadInv

\* The empty proposal is built on the empty trie.
LEMMA InitAheadInv == Init => AheadInv
<1> SUFFICES ASSUME Init PROVE AheadInv
    OBVIOUS
<1>1. Empty({}).txs = <<>> /\ Empty({}).sst = {}
    BY EmptyType
<1>2. blocks \in Seq(Block) /\ RosterMatchesConfig
    BY DEF Init, RosterMatchesConfig
<1> QED  BY <1>1, <1>2 DEF Init, AheadInv, Base

\* Without failures and upgrades what is computed ahead stays built on what is
\* committed, and a new block has the transactions that were proposed.
LEMMA NextAheadInv ==
    ASSUME TypeInv, AheadInv, MaxVersion = 0, MaxFailures = 0, [Next]_vars
    PROVE  AheadInv' /\ (blocks' # blocks => Last(blocks').txs = inState.txs)
<1>0. failures = 0 /\ ~(failures < MaxFailures)
    BY DEF AheadInv
<1>1. CASE \/ \E t \in Tx, v \in Version : AddTransaction(t, v)
           \/ SendUpgrade \/ Stop
    <2>1. UNCHANGED <<failures, blocks, currentState, newBlock, inState, ledger, worker>>
        BY <1>1 DEF AddTransaction, SendUpgrade, Stop, leaderVars, workerVars
    <2> QED  BY <2>1, AheadFrame DEF Base, StateAfter
<1>2. CASE LeaderStop \/ LeaderBlockSent \/ LeaderTx \/ LeaderDone \/ LeaderUpgrade
    <2>1. UNCHANGED <<failures, blocks, currentState, newBlock, inState, ledger, worker>>
        BY <1>0, <1>2
           DEF LeaderStop, LeaderBlockSent, LeaderTx, LeaderDone, LeaderUpgrade, workerVars
    <2> QED  BY <2>1, AheadFrame DEF Base, StateAfter
<1>3. CASE LeaderFill
    <2>1. blocks' = blocks
        BY <1>3 DEF LeaderFill, workerVars
    <2> QED  BY <1>3, <2>1, FillAhead
<1>4. CASE WorkerRecv
    <2>1. blocks' = blocks
        BY <1>4 DEF WorkerRecv
    <2> QED  BY <1>4, <2>1, RecvAhead
<1>5. CASE WorkerPropose
    BY <1>5, ProposeAhead
<1>6. CASE WorkerFail
    <2>1. worker = "propose" /\ ~Acceptable
        BY <1>0, <1>6 DEF WorkerFail
    <2> QED  BY <2>1, AheadAcceptable
<1>7. CASE WorkerSignal
    <2>1. /\ UNCHANGED <<failures, blocks, currentState, newBlock, inState, ledger>>
          /\ worker = "signal" /\ worker' = "recv"
        BY <1>7 DEF WorkerSignal, leaderVars
    <2> QED  BY <2>1, AheadFrame DEF Base
<1>8. CASE UNCHANGED vars
    <2>1. UNCHANGED <<failures, blocks, currentState, newBlock, inState, ledger, worker>>
        BY <1>8 DEF vars, leaderVars, workerVars
    <2> QED  BY <2>1, AheadFrame DEF Base, StateAfter
<1> QED  BY <1>1, <1>2, <1>3, <1>4, <1>5, <1>6, <1>7, <1>8 DEF Next, Leader, Worker

\* While all conodes run one version and no proposal fails, the roster of every
\* block is the one of the configuration it leads to, although the leader computes
\* it before the older blocks are committed.
THEOREM RosterAlwaysMatches ==
    ASSUME MaxVersion = 0, MaxFailures = 0
    PROVE  Spec => []RosterMatchesConfig
<1>1. TypeInv /\ AheadInv /\ [Next]_vars => AheadInv'
    BY NextAheadInv
<1>2. AheadInv => RosterMatchesConfig
    BY DEF AheadInv
<1> QED  BY <1>1, <1>2, InitTypeInv, NextTypeInv, InitAheadInv, PTL DEF Spec

\* Under the same conditions the results the leader computed ahead of time are the
\* ones of the block: no transaction changes between refused and accepted.
THEOREM AlwaysCommittedBeforeUsed ==
    ASSUME MaxVersion = 0, MaxFailures = 0
    PROVE  Spec => CommittedBeforeUsed
<1>1. TypeInv /\ AheadInv /\ [Next]_vars => AheadInv'
    BY NextAheadInv
<1>2. TypeInv /\ AheadInv /\ [Next]_vars
      => [blocks' # blocks => Last(blocks').txs = inState.txs]_vars
    BY NextAheadInv
<1> QED  BY <1>1, <1>2, InitTypeInv, NextTypeInv, InitAheadInv, PTL
         DEF Spec, CommittedBeforeUsed
=============================================================================
