------------------------------ MODULE EventLog ------------------------------
(***************************************************************************)
(* The event log (eventlog/): a contract that files events in time buckets *)
(* linked backwards from the latest one, the search over them, and a       *)
(* client that streams the events from a block on.  Events may arrive late *)
(* and out of order.                                                       *)
(*                                                                         *)
(* One event log, every event in a block of its own; an event's number is  *)
(* the index of its block.  The buckets are the list that the Prev         *)
(* pointers make, oldest first: the first one catches all.  Times are      *)
(* natural numbers.                                                        *)
(***************************************************************************)
EXTENDS Integers, Sequences, FiniteSets, SequencesExt

CONSTANTS ElMaxNow,      \* bound: the clock
          ElMaxEvents,   \* bound: events logged
          ElMaxAge,      \* bucketMaxAge, which is also how far an event may be ahead
          ElPast,        \* how old an event may be
          ElTopics,
          ElSearchMax    \* searchMax

ASSUME EventLogAssumption ==
    /\ ElMaxNow \in Nat /\ ElMaxEvents \in Nat /\ ElMaxAge \in Nat /\ ElPast \in Nat /\ ElSearchMax \in Nat \ {0}

VARIABLES elNow, elEvents, elBuckets,
          stFrom,    \* block the client streams from, 0 if it does not
          stSub,     \* StreamTransactions is subscribed
          stBuf,     \* blockChan
          stLatest,  \* last block of GetUpdateChain, 0 before it answers
          stLink,    \* foundLink
          stSeen     \* events the handler was called with

elLog == <<elNow, elEvents, elBuckets>>
stVars == <<stFrom, stSub, stBuf, stLatest, stLink, stSeen>>
elVars == <<elNow, elEvents, elBuckets, stFrom, stSub, stBuf, stLatest, stLink, stSeen>>

-----------------------------------------------------------------------------
(* The contract.                                                           *)
decodeAndCheckEvent(when) == elNow - ElPast <= when /\ when <= elNow + ElMaxAge
\* Walk back to a bucket that starts before the event, or to the first one.
FindBucket(when) == Max({1} \union {i \in DOMAIN elBuckets : elBuckets[i].start <= when})
NewBucket(when, e) == [start |-> when, refs |-> <<e>>]
\* Mutant: any bucket that is too old gets a successor, not only the latest.
AnyOld(b, when) == when - elBuckets[b].start > ElMaxAge
TooOld(b, when) == b = Len(elBuckets) /\ when - elBuckets[b].start > ElMaxAge
Buckets(when, e) ==
    LET b == FindBucket(when)
    IN  IF elBuckets = << >> THEN <<[start |-> 0, refs |-> << >>], NewBucket(when, e)>>
        ELSE IF TooOld(b, when) THEN Append(elBuckets, NewBucket(when, e))
        ELSE [elBuckets EXCEPT ![b].refs = Append(@, e)]
Log(when, topic) ==
    LET e == Len(elEvents) + 1
    IN  /\ e <= ElMaxEvents /\ decodeAndCheckEvent(when)
        /\ elEvents' = Append(elEvents, [when |-> when, topic |-> topic])
        /\ elBuckets' = Buckets(when, e)
        /\ stBuf' = IF stSub THEN Append(stBuf, e) ELSE stBuf
        /\ UNCHANGED <<elNow, stFrom, stSub, stLatest, stLink, stSeen>>
Clock == elNow < ElMaxNow /\ elNow' = elNow + 1 /\ UNCHANGED <<elEvents, elBuckets>> /\ UNCHANGED stVars

(* Search: the buckets of the range from the latest back, then their events *)
(* from the oldest bucket on, until there are too many.                    *)
BucketEnd(i) == IF i = Len(elBuckets) THEN elNow ELSE elBuckets[i + 1].start
InRange(from, to) ==
    {i \in DOMAIN elBuckets : to >= elBuckets[i].start /\ \A j \in i .. Len(elBuckets) : from <= BucketEnd(j)}
RefsIn(range) ==
    LET upto[i \in 0 .. Len(elBuckets)] ==
            IF i = 0 THEN << >> ELSE IF i \in range THEN upto[i - 1] \o elBuckets[i].refs ELSE upto[i - 1]
    IN  upto[Len(elBuckets)]
Matches(e, from, to, topic) ==
    from <= elEvents[e].when /\ elEvents[e].when < to /\ topic \in {"any", elEvents[e].topic}
Search(from, to, topic) ==
    LET refs == RefsIn(InRange(from, to))
        found[k \in 0 .. Len(refs)] ==
            IF k = 0 THEN << >>
            ELSE IF Len(found[k - 1]) < ElSearchMax /\ Matches(refs[k], from, to, topic) THEN Append(found[k - 1], refs[k])
            ELSE found[k - 1]
    IN  found[Len(refs)]

-----------------------------------------------------------------------------
(* StreamEventsFrom: a goroutine subscribes, the client asks for the blocks *)
(* up to now, then takes from the stream what follows them.                *)
StreamEventsFrom(block) ==
    /\ stFrom = 0 /\ block \in DOMAIN elEvents
    /\ stFrom' = block
    /\ UNCHANGED <<stSub, stBuf, stLatest, stLink, stSeen>> /\ UNCHANGED elLog
Subscribe ==
    /\ stFrom # 0 /\ ~stSub /\ stSub' = TRUE
    /\ UNCHANGED <<stFrom, stBuf, stLatest, stLink, stSeen>> /\ UNCHANGED elLog
GetUpdateChain ==
    /\ stFrom # 0 /\ stLatest = 0
    /\ stLatest' = Len(elEvents)
    /\ stSeen' = [i \in 1 .. Len(elEvents) - stFrom + 1 |-> stFrom + i - 1]
    /\ UNCHANGED <<stFrom, stSub, stBuf, stLink>> /\ UNCHANGED elLog
FollowsLatest(block) == block - 1 = stLatest
ReadStream ==
    /\ stLatest # 0 /\ stBuf # << >>
    /\ stBuf' = Tail(stBuf)
    /\ stLink' = (stLink \/ FollowsLatest(stBuf[1]))
    /\ stSeen' = IF stLink' THEN Append(stSeen, stBuf[1]) ELSE stSeen
    /\ UNCHANGED <<stFrom, stSub, stLatest>> /\ UNCHANGED elLog

ElInit ==
    /\ elNow = 0 /\ elEvents = << >> /\ elBuckets = << >>
    /\ stFrom = 0 /\ stSub = FALSE /\ stBuf = << >> /\ stLatest = 0 /\ stLink = FALSE /\ stSeen = << >>
ElNext ==
    \/ \E w \in 0 .. ElMaxNow + ElMaxAge, t \in ElTopics : Log(w, t)
    \/ Clock \/ Subscribe \/ GetUpdateChain \/ ReadStream
    \/ \E b \in DOMAIN elEvents : StreamEventsFrom(b)

-----------------------------------------------------------------------------
ElTypeOK ==
    /\ elNow \in 0 .. ElMaxNow /\ Len(elEvents) <= ElMaxEvents
    /\ \A i \in DOMAIN elBuckets : \A k \in DOMAIN elBuckets[i].refs : elBuckets[i].refs[k] \in DOMAIN elEvents
    /\ stFrom \in 0 .. Len(elEvents) /\ stLatest \in 0 .. Len(elEvents) /\ stSub \in BOOLEAN /\ stLink \in BOOLEAN

(* However late the events arrived, a search that is not cut short finds   *)
(* every event of the range once, and one that is cut short has as many as *)
(* it may (Search, contract.Invoke).  The range starts in the past.        *)
Wanted(from, to, topic) == {e \in DOMAIN elEvents : Matches(e, from, to, topic)}
SearchFinds ==
    \A from \in 0 .. elNow, to \in 0 .. ElMaxNow + ElMaxAge + 1, topic \in ElTopics \union {"any"} :
        LET found == Search(from, to, topic)
            wanted == Wanted(from, to, topic)
        IN  /\ ToSet(found) \subseteq wanted /\ IsInjective(found)
            /\ Len(found) < ElSearchMax => ToSet(found) = wanted

(* The handler of a stream sees the events of the chain from its block on, *)
(* in their order, none twice and none left out in between: the blocks of  *)
(* GetUpdateChain and of the subscription overlap (StreamEventsFrom).      *)
StreamInOrder == \A i \in DOMAIN stSeen : stSeen[i] = stFrom + i - 1
LogServed == SearchFinds /\ StreamInOrder
=============================================================================
