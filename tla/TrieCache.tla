------------------------------ MODULE TrieCache ------------------------------
(***************************************************************************)
(* The cache of configuration and darcs in front of a state trie that      *)
(* several goroutines share: client requests and the view-change monitor   *)
(* load from it while updateTrieCallback stores the changes of a block.    *)
(* Two locks are involved, the one of the stateTrie and the one of its     *)
(* embedded trieCache, and they are taken in both orders.                  *)
(***************************************************************************)
EXTENDS Integers, FiniteSets, Functions, TLC

CONSTANTS TcReaders,   \* goroutines that load
          TcWriter,    \* the goroutine that stores
          TcDarcs,     \* IDs of darcs
          TcMaxWrites  \* bound: writes

Nobody == "nobody"
ASSUME TrieCacheAssumption ==
    TcWriter \notin TcReaders /\ Nobody \notin TcReaders \union {TcWriter} /\ TcMaxWrites \in Nat

VARIABLES tcStore,    \* the trie: the number of the write that set each value
          tcLockT,    \* stateTrie.Mutex: who holds it
          tcLockC,    \* trieCache.Mutex
          tcConfig,   \* trieCache.config
          tcMap,      \* trieCache.darcs, which may be a nil map
          tcAt,       \* where each goroutine is
          tcGot,      \* the darc a goroutine has read
          tcWrites    \* writes so far
tcVars == <<tcStore, tcLockT, tcLockC, tcConfig, tcMap, tcAt, tcGot, tcWrites>>

NilConfig == -1
NilMap == [nil |-> TRUE]
NoneRead == "none"
TcKeys == {"config"} \union TcDarcs
At(p, place) == tcAt[p] = place
Goto(p, place) == tcAt' = [tcAt EXCEPT ![p] = place]

-----------------------------------------------------------------------------
(* loadConfigFromTrie, for LoadConfig itself and inside loadDarcFromTrie.   *)
loadConfigFromTrie(p, start, read, next) ==
    \/ /\ At(p, start) /\ tcLockC = Nobody /\ tcConfig # NilConfig
       /\ Goto(p, next)
       /\ UNCHANGED <<tcStore, tcLockT, tcLockC, tcConfig, tcMap, tcGot, tcWrites>>
    \/ /\ At(p, start) /\ tcLockC = Nobody /\ tcConfig = NilConfig
       /\ tcLockC' = p /\ Goto(p, read)
       /\ UNCHANGED <<tcStore, tcLockT, tcConfig, tcMap, tcGot, tcWrites>>
    \/ /\ At(p, read) /\ tcLockT = Nobody     \* GetValues takes the other lock
       /\ tcConfig' = tcStore["config"] /\ tcLockC' = Nobody /\ Goto(p, next)
       /\ UNCHANGED <<tcStore, tcLockT, tcMap, tcGot, tcWrites>>
LoadConfig(p) == loadConfigFromTrie(p, "idle", "readConfig", "idle")

\* The cached darc, or the map is made and the darc looked up.
LoadDarc(p, d) ==
    /\ At(p, "idle") /\ tcLockC = Nobody
    /\ tcMap = NilMap \/ d \notin DOMAIN tcMap
    /\ tcMap' = IF tcMap = NilMap THEN << >> ELSE tcMap
    /\ tcLockC' = p /\ Goto(p, "readDarc") /\ tcGot' = [tcGot EXCEPT ![p] = [id |-> d, value |-> NilConfig]]
    /\ UNCHANGED <<tcStore, tcLockT, tcConfig, tcWrites>>
\* The lock of the cache is released while the configuration is loaded.
ReadDarc(p) ==
    /\ At(p, "readDarc") /\ tcLockT = Nobody
    /\ tcGot' = [tcGot EXCEPT ![p].value = tcStore[tcGot[p].id]]
    /\ tcLockC' = Nobody /\ Goto(p, "config")
    /\ UNCHANGED <<tcStore, tcLockT, tcConfig, tcMap, tcWrites>>
ConfigForDarc(p) == loadConfigFromTrie(p, "config", "configRead", "known")
\* The contract of the instance is one of DarcContractIDs, or not.
CacheDarc(p, known) ==
    /\ At(p, "known") /\ tcLockC = Nobody
    /\ IF ~known THEN UNCHANGED tcMap /\ Goto(p, "idle")
       ELSE IF tcMap = NilMap THEN UNCHANGED tcMap /\ Goto(p, "panic")
       ELSE tcMap' = (tcGot[p].id :> tcGot[p].value) @@ tcMap /\ Goto(p, "idle")
    /\ tcGot' = [tcGot EXCEPT ![p] = [id |-> NoneRead, value |-> NilConfig]]
    /\ UNCHANGED <<tcStore, tcLockT, tcLockC, tcConfig, tcWrites>>

-----------------------------------------------------------------------------
(* VerifiedStoreAll.                                                       *)
StoreBegin ==
    /\ At(TcWriter, "idle") /\ tcWrites < TcMaxWrites /\ tcLockT = Nobody
    /\ tcLockT' = TcWriter /\ Goto(TcWriter, "invalidate")
    /\ UNCHANGED <<tcStore, tcLockC, tcConfig, tcMap, tcGot, tcWrites>>
Forget == tcMap' = NilMap /\ tcConfig' = NilConfig
invalidate ==
    /\ At(TcWriter, "invalidate") /\ tcLockC = Nobody
    /\ Forget /\ Goto(TcWriter, "write")
    /\ UNCHANGED <<tcStore, tcLockT, tcLockC, tcGot, tcWrites>>
\* The batch of one database transaction; a wrong root undoes it.
StoreEnd(keys, rootOK) ==
    /\ At(TcWriter, "write")
    /\ tcWrites' = tcWrites + 1
    /\ tcStore' = IF rootOK THEN [k \in TcKeys |-> IF k \in keys THEN tcWrites' ELSE tcStore[k]] ELSE tcStore
    /\ tcLockT' = Nobody /\ Goto(TcWriter, "idle")
    /\ UNCHANGED <<tcLockC, tcConfig, tcMap, tcGot>>

TcInit ==
    /\ tcStore = [k \in TcKeys |-> 0] /\ tcLockT = Nobody /\ tcLockC = Nobody
    /\ tcConfig = NilConfig /\ tcMap = NilMap /\ tcWrites = 0
    /\ tcAt = [p \in TcReaders \union {TcWriter} |-> "idle"]
    /\ tcGot = [p \in TcReaders |-> [id |-> NoneRead, value |-> NilConfig]]
TcNext ==
    \/ \E p \in TcReaders :
           \/ LoadConfig(p) \/ ReadDarc(p) \/ ConfigForDarc(p)
           \/ \E d \in TcDarcs : LoadDarc(p, d)
           \/ \E known \in BOOLEAN : CacheDarc(p, known)
    \/ StoreBegin \/ invalidate
    \/ \E keys \in SUBSET TcKeys \ {{}}, rootOK \in BOOLEAN : StoreEnd(keys, rootOK)


-----------------------------------------------------------------------------
TcTypeOK ==
    /\ tcStore \in [TcKeys -> 0 .. TcMaxWrites] /\ tcWrites \in 0 .. TcMaxWrites
    /\ tcLockT \in {Nobody, TcWriter} /\ tcLockC \in {Nobody} \union TcReaders
    /\ tcConfig \in {NilConfig} \union 0 .. TcMaxWrites

(* However loads and stores interleave, a cached configuration is the one   *)
(* the trie holds, so nobody works with an old roster after a block is      *)
(* stored (statetrie.go, loadConfigFromTrie and invalidate).                *)
CachedConfigFresh == tcConfig # NilConfig => tcConfig = tcStore["config"]

(* "every write to the trie invalidates all the cache" (statetrie.go:197):  *)
(* a cached darc is the one the trie holds.                                 *)
CachedDarcsFresh == tcMap # NilMap => \A d \in DOMAIN tcMap : tcMap[d] = tcStore[d]
=============================================================================
