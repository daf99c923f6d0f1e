------------------------------ MODULE Evoting ------------------------------
(***************************************************************************)
(* E-voting (evoting/service, evoting/lib, evoting/protocol): an election  *)
(* is a skipchain of transactions - the election and its updates, ballots, *)
(* then the mixes and the partial decryptions that the nodes append - and  *)
(* everything about it is read back from that chain.  The leader appends   *)
(* with Store, which signs the index it expects; a node of a shuffle or    *)
(* decryption reads the chain, computes, and appends what it made later,   *)
(* also when the leader has given up on the run.                           *)
(*                                                                         *)
(* One master chain, one election.  The front-end's signatures and Neff's  *)
(* proofs are ideal: a mix is the set of ballots it shuffles, a partial    *)
(* the set it decrypts.  A block that every node verifies is appended in   *)
(* one step, under the lock that the skipchain holds (skipchain.go).       *)
(***************************************************************************)
EXTENDS Integers, FiniteSets, Sequences

CONSTANTS EvNodes,         \* the roster is 1 .. EvNodes, node 1 leads
          EvVoters,        \* Election.Users
          EvAdminSets,     \* admin lists a master block can have
          EvVotes,
          EvMaxBallots,    \* bound: ballots on the election chain
          EvMaxUpdates,    \* bound: election blocks on it
          EvMaxRuns        \* bound: shuffles and decryptions started

ASSUME EvotingAssumption == EvNodes \in Nat \ {0} /\ EvMaxBallots \in Nat /\ EvMaxUpdates \in Nat /\ EvMaxRuns \in Nat

VARIABLES evMaster,   \* blocks of the master chain: admin lists and links
          evChain,    \* transactions of the election chain
          evClock,    \* before, during or after the voting
          evStore,    \* storeMu and the transaction being stored, with the index it signs
          evOpen,     \* handler of Open: the election, or an update, between its steps
          evDkg,      \* the key generation of the election is done
          evSecret,   \* nodes that stored their share
          evRuns,     \* shuffles and decryptions started
          evLock,     \* finalizeMutex: the run that holds it, 0 if none, and its success replies
          evPrompts,  \* Prompt messages under way
          evJobs      \* mixes and partials made, not yet stored

evVars == <<evMaster, evChain, evClock, evStore, evOpen, evDkg, evSecret, evRuns, evLock, evPrompts, evJobs>>
evProtocol == <<evRuns, evLock, evPrompts, evJobs>>
evHandlers == <<evStore, evOpen>>
evKeys == <<evDkg, evSecret>>

EvLeader == 1
EvUsers == EvVoters \union UNION EvAdminSets
target == (2 * EvNodes) \div 3
NoTx == [index |-> 0]
Idle == [at |-> "none"]

-----------------------------------------------------------------------------
(* What is read from the chains.                                           *)
\* Only blocks of these kinds follow from block i on.
Trailing(chain, i, kinds) == \A j \in i .. Len(chain) : chain[j].kind \in kinds
\* The blocks of the mixes and of the partials, found from the end of the chain.
Mixes(chain) == {i \in DOMAIN chain : chain[i].kind = "mix" /\ Trailing(chain, i, {"mix", "partial"})}
Partials(chain) == {i \in DOMAIN chain : Trailing(chain, i, {"partial"})}
Newest(indexes) == CHOOSE i \in indexes : \A j \in indexes : j <= i
\* The last ballot of each user.
Box(chain) ==
    LET cast == {i \in DOMAIN chain : chain[i].kind = "ballot"}
        last == {i \in cast : \A j \in cast : chain[j].ballot.user = chain[i].ballot.user => j <= i}
    IN  {chain[i].ballot : i \in last}
Source(chain) == IF Mixes(chain) = {} THEN Box(chain) ELSE chain[Newest(Mixes(chain))].of
\* The election is the last of the election blocks that start the chain.
GetElection(chain) ==
    chain[Newest({i \in DOMAIN chain : \A j \in 1 .. i : chain[j].kind = "election"})]
Exists(chain) == chain # << >> /\ chain[1].kind = "election"
setStage(chain) == IF Cardinality(Partials(chain)) >= target + 1 THEN "decrypted"
                   ELSE IF Cardinality(Mixes(chain)) >= target + 1 THEN "shuffled" ELSE "running"
GetMaster == evMaster[Newest({i \in DOMAIN evMaster : evMaster[i].kind = "master"})]
IsAdmin(u) == evMaster # << >> /\ u \in GetMaster.admins

\* What of the ballots can be recovered from the partials: nothing before there
\* are enough, and garbage if they decrypt different mixes.
Reconstruct(chain) ==
    LET decrypted == {chain[i].of : i \in Partials(chain)}
    IN  IF Cardinality(Partials(chain)) <= target THEN {}
        ELSE IF \A m, n \in decrypted : m = n THEN UNION decrypted ELSE {"garbage"}

-----------------------------------------------------------------------------
(* Verification of a transaction, by every node.                           *)
\* Mutant: a ballot is taken in any stage of the election.
BallotAnytime(t, chain) == Exists(chain) /\ t.user = t.ballot.user /\ evClock = "open" /\ t.user \in EvVoters
VerifyBallot(t, chain) ==
    /\ t.user = t.ballot.user
    /\ Exists(chain) /\ evClock = "open"
    /\ chain[Len(chain)].kind \notin {"mix", "partial"}
    /\ t.user \in EvVoters
VerifyMix(t, chain) ==
    /\ Exists(chain) /\ t.user = GetElection(chain).creator
    /\ Cardinality(Mixes(chain)) <= target
    /\ \A i \in Mixes(chain) : chain[i].node # t.node
    /\ Cardinality(Source(chain)) >= 2 /\ t.of = Source(chain)
VerifyPartial(t, chain) ==
    /\ Exists(chain) /\ t.user = GetElection(chain).creator
    /\ Cardinality(Mixes(chain)) > target
    /\ Cardinality(Partials(chain)) < EvNodes
    /\ \A i \in Partials(chain) : chain[i].node # t.node
VerifyTx(t, chain) ==
    CASE t.kind = "election" -> evClock # "closed" /\ IsAdmin(t.user)
      [] t.kind = "ballot" -> VerifyBallot(t, chain)
      [] t.kind = "mix" -> VerifyMix(t, chain)
      [] t.kind = "partial" -> VerifyPartial(t, chain)

-----------------------------------------------------------------------------
(* The service's handlers on the leader.                                   *)
Link(user, admins) ==
    /\ evMaster # << >> => IsAdmin(user)
    /\ admins # {} /\ (evMaster # << >> => admins # GetMaster.admins)
    /\ Len(evMaster) < 3
    /\ evMaster' = Append(evMaster, [kind |-> "master", admins |-> admins])
    /\ UNCHANGED <<evChain, evClock>> /\ UNCHANGED evHandlers /\ UNCHANGED evKeys /\ UNCHANGED evProtocol

BeginStore(tx) == evStore.index = 0 /\ evStore' = [index |-> Len(evChain) + 1, tx |-> tx]

\* Open of a new election: the chain and the key generation, which may time out.
OpenElection(user) ==
    /\ evMaster # << >> /\ evChain = << >> /\ ~evDkg /\ evOpen.at = "none"
    /\ evDkg' = TRUE
    /\ evOpen' = [at |-> "new", user |-> user]
    /\ BeginStore([kind |-> "election", user |-> user, creator |-> user])
    /\ UNCHANGED <<evMaster, evChain, evClock, evSecret>> /\ UNCHANGED evProtocol
\* Open of an update: nobody has voted when the box is read.
UpdateCheck(user) ==
    /\ Exists(evChain) /\ evOpen.at = "none" /\ Box(evChain) = {}
    /\ evOpen' = [at |-> "checked", user |-> user]
    /\ UNCHANGED <<evMaster, evChain, evClock, evStore>> /\ UNCHANGED evKeys /\ UNCHANGED evProtocol
UpdateStore ==
    /\ evOpen.at = "checked"
    /\ BeginStore([kind |-> "election", user |-> evOpen.user, creator |-> GetElection(evChain).creator])
    /\ evOpen' = [evOpen EXCEPT !.at = "update"]
    /\ UNCHANGED <<evMaster, evChain, evClock>> /\ UNCHANGED evKeys /\ UNCHANGED evProtocol
Cast(user, ballot) ==
    /\ Exists(evChain)
    /\ BeginStore([kind |-> "ballot", user |-> user, ballot |-> ballot])
    /\ UNCHANGED <<evMaster, evChain, evClock, evOpen>> /\ UNCHANGED evKeys /\ UNCHANGED evProtocol
\* The index is signed: the transaction is refused if another block came first.
Store ==
    LET tx == evStore.tx
        stored == evStore.index = Len(evChain) + 1 /\ VerifyTx(tx, evChain)
    IN  /\ evStore.index # 0
        /\ evStore' = NoTx
        /\ evChain' = IF stored THEN Append(evChain, tx) ELSE evChain
        /\ evOpen' = CASE tx.kind # "election" -> evOpen
                       [] evOpen.at = "new" /\ stored -> [evOpen EXCEPT !.at = "link"]
                       [] OTHER -> Idle
        /\ UNCHANGED <<evMaster, evClock>> /\ UNCHANGED evKeys /\ UNCHANGED evProtocol
\* The end of Open: the link on the master chain, then the leader's share.
OpenLink ==
    /\ evOpen.at = "link"
    /\ evOpen' = Idle
    /\ IF IsAdmin(evOpen.user)
       THEN /\ evMaster' = Append(evMaster, [kind |-> "link"])
            /\ evSecret' = evSecret \union {EvLeader}
       ELSE UNCHANGED <<evMaster, evSecret>>
    /\ UNCHANGED <<evChain, evClock, evStore, evDkg>> /\ UNCHANGED evProtocol
StoreSecret(n) ==
    /\ evDkg /\ n # EvLeader /\ n \notin evSecret
    /\ evSecret' = evSecret \union {n}
    /\ UNCHANGED <<evMaster, evChain, evClock, evDkg>> /\ UNCHANGED evHandlers /\ UNCHANGED evProtocol

-----------------------------------------------------------------------------
(* The shuffle goes from node to node, the decryption to all of them.      *)
Orders(nodes) == {o \in [1 .. Cardinality(nodes) -> nodes] : \A i, j \in DOMAIN o : o[i] = o[j] => i = j}
Participated(blocks) == {evChain[i].node : i \in blocks}
Free == [run |-> 0, ok |-> 0]
Begin(prompt) ==
    /\ evRuns < EvMaxRuns /\ evLock.run = 0 /\ Exists(evChain)
    /\ evRuns' = evRuns + 1
    /\ evLock' = [run |-> evRuns + 1, ok |-> 0]
    /\ evPrompts' = evPrompts \union {prompt}
    /\ UNCHANGED <<evMaster, evChain, evClock, evJobs>> /\ UNCHANGED evHandlers /\ UNCHANGED evKeys
Shuffle(user) ==
    LET done == Participated(Mixes(evChain))
    IN  /\ Cardinality(Mixes(evChain)) <= target
        /\ \E rest \in Orders((2 .. EvNodes) \ done) :
              Begin([kind |-> "mix", run |-> evRuns + 1, node |-> EvLeader, user |-> user, rest |-> rest,
                     takesPart |-> EvLeader \notin done])
Decrypt(user) ==
    LET done == Participated(Partials(evChain))
    IN  /\ Cardinality(Mixes(evChain)) >= target + 1
        /\ Begin([kind |-> "partial", run |-> evRuns + 1, node |-> EvLeader, user |-> user,
                  rest |-> (2 .. EvNodes) \ done, takesPart |-> EvLeader \notin done])
\* The leader gives up; the nodes go on.
FinalizeTimeout ==
    /\ evLock.run # 0 /\ evLock' = Free
    /\ UNCHANGED <<evMaster, evChain, evClock, evRuns, evPrompts, evJobs>> /\ UNCHANGED evHandlers /\ UNCHANGED evKeys

\* A node that is asked to mix asks the next one it can reach.
End(run) == evLock' = IF evLock.run = run THEN Free ELSE evLock
Continue(p, others, mixes) ==
    IF p.rest # << >> /\ mixes <= target
    THEN \/ \E i \in DOMAIN p.rest :
               /\ evPrompts' = others \union {[p EXCEPT !.node = p.rest[i], !.takesPart = TRUE,
                                                        !.rest = SubSeq(p.rest, i + 1, Len(p.rest))]}
               /\ UNCHANGED evLock
         \/ evPrompts' = others /\ End(p.run)
    ELSE evPrompts' = others /\ IF p.node # EvLeader \/ mixes > target THEN End(p.run) ELSE UNCHANGED evLock
HandlePromptShuffle(p) ==
    LET mixes == Cardinality(Mixes(evChain))
        others == evPrompts \ {p}
    IN  /\ p.kind = "mix"
        /\ CASE Cardinality(Source(evChain)) < 2 -> evPrompts' = others /\ End(p.run) /\ UNCHANGED evJobs
             [] Cardinality(Source(evChain)) >= 2 /\ mixes <= target /\ p.takesPart ->
                  /\ evJobs' = evJobs \union {[prompt |-> p, seen |-> mixes,
                        tx |-> [kind |-> "mix", user |-> p.user, node |-> p.node, of |-> Source(evChain)]]}
                  /\ evPrompts' = others /\ UNCHANGED evLock
             [] OTHER -> Continue(p, others, mixes) /\ UNCHANGED evJobs
        /\ UNCHANGED <<evMaster, evChain, evClock, evRuns>> /\ UNCHANGED evHandlers /\ UNCHANGED evKeys
StoreMix(j) ==
    /\ j.tx.kind = "mix"
    /\ evJobs' = evJobs \ {j}
    /\ IF VerifyTx(j.tx, evChain)
       THEN evChain' = Append(evChain, j.tx) /\ Continue(j.prompt, evPrompts, j.seen + 1)
       ELSE End(j.prompt.run) /\ UNCHANGED <<evChain, evPrompts>>
    /\ UNCHANGED <<evMaster, evClock, evRuns>> /\ UNCHANGED evHandlers /\ UNCHANGED evKeys

\* Decryption: the root counts the partials that are there and those that are reported.
Broadcast(p, ok) ==
    /\ evPrompts' = (evPrompts \ {p}) \union {[p EXCEPT !.node = n, !.rest = {}, !.takesPart = TRUE] : n \in p.rest}
    /\ evLock' = IF evLock.run = p.run THEN [evLock EXCEPT !.ok = ok] ELSE evLock
Finish(run, ok) ==
    evLock' = IF evLock.run # run THEN evLock
              ELSE IF evLock.ok + ok > target THEN Free ELSE [evLock EXCEPT !.ok = @ + ok]
HandlePromptDecrypt(p) ==
    LET partials == Cardinality(Partials(evChain))
    IN  /\ p.kind = "partial"
        /\ CASE Cardinality(Mixes(evChain)) <= target -> evPrompts' = evPrompts \ {p} /\ UNCHANGED <<evJobs, evLock>>
             [] Cardinality(Mixes(evChain)) > target /\ p.takesPart ->
                  /\ p.node \in evSecret      \* without its share the handler fails
                  /\ evJobs' = evJobs \union {[prompt |-> p, seen |-> partials,
                        tx |-> [kind |-> "partial", user |-> p.user, node |-> p.node, of |-> Source(evChain)]]}
                  /\ evPrompts' = evPrompts \ {p} /\ UNCHANGED evLock
             [] OTHER -> Broadcast(p, partials) /\ UNCHANGED evJobs
        /\ UNCHANGED <<evMaster, evChain, evClock, evRuns>> /\ UNCHANGED evHandlers /\ UNCHANGED evKeys
StorePartial(j) ==
    LET stored == VerifyTx(j.tx, evChain)
    IN  /\ j.tx.kind = "partial"
        /\ evJobs' = evJobs \ {j}
        /\ evChain' = IF stored THEN Append(evChain, j.tx) ELSE evChain
        /\ IF stored /\ j.prompt.node = EvLeader
           THEN Broadcast(j.prompt, j.seen + 1)
           ELSE Finish(j.prompt.run, IF stored THEN 1 ELSE 0) /\ UNCHANGED evPrompts
        /\ UNCHANGED <<evMaster, evClock, evRuns>> /\ UNCHANGED evHandlers /\ UNCHANGED evKeys

Tick ==
    /\ evClock # "closed"
    /\ evClock' = IF evClock = "before" THEN "open" ELSE "closed"
    /\ UNCHANGED <<evMaster, evChain>> /\ UNCHANGED evHandlers /\ UNCHANGED evKeys /\ UNCHANGED evProtocol

EvInit ==
    /\ evMaster = << >> /\ evChain = << >> /\ evClock = "before"
    /\ evStore = NoTx /\ evOpen = Idle /\ evDkg = FALSE /\ evSecret = {}
    /\ evRuns = 0 /\ evLock = Free /\ evPrompts = {} /\ evJobs = {}
Count(kind) == Cardinality({i \in DOMAIN evChain : evChain[i].kind = kind})
EvNext ==
    \/ \E u \in EvUsers, a \in EvAdminSets : Link(u, a)
    \/ \E u \in UNION EvAdminSets : OpenElection(u) \/ (Count("election") < EvMaxUpdates /\ UpdateCheck(u))
    \/ UpdateStore \/ Store \/ OpenLink \/ Tick \/ FinalizeTimeout
    \/ /\ Count("ballot") < EvMaxBallots
       /\ \E u \in EvUsers, b \in [user : EvVoters, vote : EvVotes] : Cast(u, b)
    \/ \E n \in 1 .. EvNodes : StoreSecret(n)
    \/ \E u \in EvUsers : Shuffle(u) \/ Decrypt(u)
    \/ \E p \in evPrompts : HandlePromptShuffle(p) \/ HandlePromptDecrypt(p)
    \/ \E j \in evJobs : StoreMix(j) \/ StorePartial(j)

-----------------------------------------------------------------------------
EvNodeSet == 1 .. EvNodes
EvBallots == [user : EvVoters, vote : EvVotes]
EvTransactions ==
    [kind : {"election"}, user : EvUsers, creator : EvUsers]
        \union [kind : {"ballot"}, user : EvUsers, ballot : EvBallots]
        \union [kind : {"mix", "partial"}, user : EvUsers, node : EvNodeSet, of : SUBSET EvBallots]
Prompts(kind, rests) ==
    [kind : {kind}, run : 1 .. EvMaxRuns, node : EvNodeSet, user : EvUsers, rest : rests, takesPart : BOOLEAN]
IsPrompt(p) ==
    \/ p.kind = "mix" /\ p \in Prompts("mix", Seq(EvNodeSet))
    \/ p.kind = "partial" /\ p \in Prompts("partial", SUBSET EvNodeSet)
EvTypeOK ==
    /\ evMaster \in Seq([kind : {"master"}, admins : EvAdminSets] \union [kind : {"link"}])
    /\ evChain \in Seq(EvTransactions) /\ evClock \in {"before", "open", "closed"}
    /\ evStore \in {NoTx} \union [index : 1 .. Len(evChain) + 1, tx : EvTransactions]
    /\ evOpen \in {Idle} \union [at : {"new", "link", "checked", "update"}, user : EvUsers]
    /\ evDkg \in BOOLEAN /\ evSecret \subseteq EvNodeSet
    /\ evRuns \in 0 .. EvMaxRuns /\ evLock \in [run : 0 .. EvMaxRuns, ok : Nat]
    /\ \A p \in evPrompts : IsPrompt(p)
    /\ \A j \in evJobs : IsPrompt(j.prompt) /\ j \in [prompt : {j.prompt}, seen : Nat, tx : EvTransactions]

(* Whatever the order in which ballots, mixes and partials arrive, also    *)
(* from runs the leader has given up: nobody votes once a mix is stored,   *)
(* the mixes shuffle exactly the last ballot of every voter, and the       *)
(* partials, once there are enough of them, decrypt that                   *)
(* (Transaction.Verify, Mixes, Partials, Reconstruct).  Only an update of  *)
(* the election that is checked before the first ballot and stored after   *)
(* it can undo this, because it hides the mixes before it.                 *)
Before(kind, later, chain) == \A i, j \in DOMAIN chain : chain[i].kind = kind /\ chain[j].kind = later => i < j
TallyRight ==
    Before("election", "ballot", evChain) =>
        /\ Before("ballot", "mix", evChain) /\ Before("mix", "partial", evChain)
        /\ \A i \in Mixes(evChain) : evChain[i].of = Box(evChain)
        /\ setStage(evChain) = "decrypted" => Reconstruct(evChain) = Box(evChain)
        /\ \A b, c \in Box(evChain) : b.user = c.user => b = c
=============================================================================
