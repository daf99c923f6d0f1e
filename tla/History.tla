------------------------------ MODULE History ------------------------------
(***************************************************************************)
(* The history of the instances that a node keeps besides the state trie:  *)
(* stateChangeStorage (struct.go) with its cleaning by size, filled after  *)
(* the trie of a block was stored (updateTrieCallback), read by the        *)
(* handlers for instance versions (service.go).  A node may crash between  *)
(* the two, and counts the size of what it finds when it starts again.     *)
(*                                                                         *)
(* One skipchain.  Every entry counts 1 towards the size.  cleanByBlock is *)
(* off: nothing but tests sets maxNbrBlock.                                *)
(***************************************************************************)
EXTENDS Integers, FiniteSets, Sequences, FiniteSetsExt, SequencesExt

CONSTANTS HInstances,
          HMaxSize, HThreshold,   \* maxSize, and what remains after cleaning
          HMaxIndex,              \* bound: blocks
          HMaxChanges             \* bound: state changes of a block

ASSUME HistoryAssumption == {HMaxSize, HThreshold, HMaxIndex, HMaxChanges} \subseteq Nat /\ HThreshold <= HMaxSize

VARIABLES hLive,      \* state trie: version of the instances, Absent for the others
          hIndex,     \* index of the state trie
          hDb,        \* the entries of the bucket
          hSize,      \* size
          hCount,     \* calculateSize: "start", "added" or the sum it has read
          hPanic,     \* append has failed and stopped the node
          hBlocks,    \* history: the entries that were appended for each block
          hRecreated  \* history: an instance was created again after it was removed

hVars == <<hLive, hIndex, hDb, hSize, hCount, hPanic, hBlocks, hRecreated>>
Absent == -1
Entry(i, ver, idx, tx) == [iid |-> i, ver |-> ver, idx |-> idx, tx |-> tx]

-----------------------------------------------------------------------------
(* What the instructions of a block can do: an instance starts at version  *)
(* 0, also when it existed before, and each change adds one.               *)
HChange == [iid : HInstances, remove : BOOLEAN]
Step(st, c) ==
    IF st.live[c.iid] = Absent
    THEN [st EXCEPT !.live[c.iid] = 0, !.seen = @ \union {c.iid}, !.vers = Append(@, 0),
                    !.ok = ~c.remove, !.again = @ \/ c.iid \in st.seen]
    ELSE [st EXCEPT !.live[c.iid] = IF c.remove THEN Absent ELSE @ + 1, !.vers = Append(@, st.live[c.iid] + 1)]
Logged(blocks) == UNION {ToSet(b) : b \in ToSet(blocks)}
Seen == {i \in HInstances : hLive[i] # Absent} \union {e.iid : e \in Logged(hBlocks)}
createStateChanges(changes) ==
    LET after[n \in 0 .. Len(changes)] ==
            IF n = 0 THEN [live |-> hLive, seen |-> Seen, vers |-> << >>, ok |-> TRUE, again |-> FALSE]
            ELSE IF after[n - 1].ok THEN Step(after[n - 1], changes[n]) ELSE after[n - 1]
    IN  after[Len(changes)]

-----------------------------------------------------------------------------
(* The storage.  Keys are sorted by instance, then version, then block.    *)
KeyBefore(d, e) == d.iid = e.iid /\ (d.ver < e.ver \/ (d.ver = e.ver /\ d.idx <= e.idx))
OfInstance(db, i) == {e \in db : e.iid = i}
FirstKey(entries) == CHOOSE e \in entries : \A d \in entries : KeyBefore(e, d)
LastKey(entries) == CHOOSE e \in entries : \A d \in entries : KeyBefore(d, e)
Stored(db) == {e.iid : e \in db}

\* The oldest block is looked for at the first entry of every instance, and
\* the entries are removed while they belong to it.
oldestIndex(db) == Min({FirstKey(OfInstance(db, i)).idx : i \in Stored(db)})
Leading(entries, idx) == {e \in entries : \A d \in entries : KeyBefore(d, e) => d.idx = idx}
OldestBlock(db) == LET idx == oldestIndex(db) IN UNION {Leading(OfInstance(db, i), idx) : i \in Stored(db)}
CleanOldest(r) ==
    IF r.size <= HThreshold \/ r.db = {} THEN r
    ELSE [db |-> r.db \ OldestBlock(r.db), size |-> r.size - Cardinality(OldestBlock(r.db))]
\* The loop ends after as many rounds as there are entries, at the latest.
cleanBySize(db, size) ==
    LET after[n \in 0 .. Cardinality(db)] ==
            IF n = 0 THEN [db |-> db, size |-> size] ELSE CleanOldest(after[n - 1])
    IN  after[Cardinality(db)]

\* append cleans first, and fails when a key exists already.
SameKey(d, e) == d.iid = e.iid /\ d.ver = e.ver /\ d.idx = e.idx
append(entries) ==
    LET cleaned == IF hSize < HMaxSize THEN [db |-> hDb, size |-> hSize] ELSE cleanBySize(hDb, hSize)
        twice == \E j, k \in DOMAIN entries : j # k /\ SameKey(entries[j], entries[k])
    IN  /\ hPanic' = twice
        /\ hDb' = IF twice THEN cleaned.db ELSE cleaned.db \union ToSet(entries)
        /\ hSize' = IF twice THEN cleaned.size ELSE cleaned.size + Len(entries)

\* updateTrieCallback: the trie first, then the history.
Block(changes, crash) ==
    LET st == createStateChanges(changes)
        entries == [k \in DOMAIN changes |-> Entry(changes[k].iid, st.vers[k], hIndex + 1, k)]
    IN  /\ ~hPanic /\ hIndex < HMaxIndex /\ st.ok
        /\ hCount = "start" => hSize + Len(changes) <= HThreshold   \* bound
        /\ hIndex' = hIndex + 1 /\ hLive' = st.live
        /\ hRecreated' = (hRecreated \/ st.again)
        /\ IF crash THEN /\ hSize' = 0 /\ hCount' = "start"
                         /\ hBlocks' = Append(hBlocks, << >>) /\ UNCHANGED <<hDb, hPanic>>
           ELSE append(entries) /\ hBlocks' = Append(hBlocks, entries) /\ UNCHANGED hCount

\* A node that starts again: the size is summed up while blocks come in.
Restart ==
    /\ hIndex > 0 /\ (hPanic \/ hCount = "added")
    /\ hPanic' = FALSE /\ hSize' = 0 /\ hCount' = "start"
    /\ UNCHANGED <<hLive, hIndex, hDb, hBlocks, hRecreated>>
ReadSize ==
    /\ hCount = "start" /\ hCount' = ToString(Cardinality(hDb))
    /\ UNCHANGED <<hLive, hIndex, hDb, hSize, hPanic, hBlocks, hRecreated>>
AddSize ==
    /\ \E n \in 0 .. HMaxIndex * HMaxChanges : hCount = ToString(n) /\ hSize' = hSize + n
    /\ hCount' = "added"
    /\ UNCHANGED <<hLive, hIndex, hDb, hPanic, hBlocks, hRecreated>>

HInit ==
    /\ hLive = [i \in HInstances |-> Absent] /\ hIndex = 0 /\ hDb = {}
    /\ hSize = 0 /\ hCount = "start" /\ hPanic = FALSE
    /\ hBlocks = << >> /\ hRecreated = FALSE
HNext ==
    \/ \E n \in 1 .. HMaxChanges : \E changes \in [1 .. n -> HChange], crash \in BOOLEAN : Block(changes, crash)
    \/ Restart \/ ReadSize \/ AddSize

-----------------------------------------------------------------------------
(* The answers of the handlers.                                            *)
getAll(i) == OfInstance(hDb, i)
getLast(i) == LastKey(getAll(i))
getByVersion(i, ver) == FirstKey({e \in getAll(i) : e.ver = ver})
\* Sorted by its place in the block, which an entry carries.
getByBlock(idx) == {e \in hDb : e.idx = idx}

HTypeOK ==
    /\ hLive \in [HInstances -> Absent .. HMaxIndex * HMaxChanges] /\ hIndex \in 0 .. HMaxIndex
    /\ hDb \subseteq Logged(hBlocks) /\ Len(hBlocks) = hIndex
    /\ hPanic \in BOOLEAN /\ hRecreated \in BOOLEAN

(* As long as no instance is created again after its removal: a node that   *)
(* cleans its history, crashes and miscounts its size still has every block *)
(* as a whole or not at all, the oldest ones go first, and the versions of  *)
(* an instance come in the order of the blocks, so that GetLast and         *)
(* CheckStateChangeValidity answer with what the blocks contain; and append *)
(* does not stop the node.                                                  *)
HistoryWhole ==
    ~hRecreated =>
        /\ ~hPanic
        /\ \A b \in 1 .. hIndex : getByBlock(b) \in {{}, ToSet(hBlocks[b])}
        /\ \A b, c \in 1 .. hIndex : b < c /\ getByBlock(b) # {} => getByBlock(c) = ToSet(hBlocks[c])
        /\ \A i \in Stored(hDb) :
              /\ \A d, e \in getAll(i) : KeyBefore(d, e) => d.idx <= e.idx
              /\ \A e \in getAll(i) : getByVersion(i, e.ver) = e
              /\ \A e \in getAll(i) : e.idx <= getLast(i).idx
=============================================================================
