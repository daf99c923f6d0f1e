------------------------------ MODULE Calypso ------------------------------
(***************************************************************************)
(* Calypso: a long term secret (LTS) that a roster holds in shares, its    *)
(* resharing to a new roster, and the re-encryption of a written secret to *)
(* a reader (calypso/service.go, contracts.go, protocol/ocs.go).  The      *)
(* nodes store the outcome of a key generation or resharing one after the  *)
(* other, while re-encryptions collect shares from them.                   *)
(*                                                                         *)
(* One LTS.  A sharing is its number; shares of the same sharing belong to *)
(* the same polynomial, and as many of them as its roster's threshold      *)
(* recover the secret.  A reply is checked with the public polynomial that *)
(* the asking node stores.                                                 *)
(***************************************************************************)
EXTENDS Integers, FiniteSets, Sequences

CONSTANTS CalNodes,
          CalRosters,       \* rosters an LTS instance can name
          CalMaxSharings    \* bound: key generations and resharings

ASSUME CalypsoAssumption == CalMaxSharings \in Nat /\ \A r \in CalRosters : r \subseteq CalNodes /\ IsFiniteSet(r)

VARIABLES calRoster,    \* ledger: roster of the LTS instance, {} before it is spawned
          calAuth,      \* AuthorisedByzCoinIDs has the ledger
          calSharings,  \* the sharings made so far: roster, key and the node that started it
          calShare,     \* Shared and DKS: sharing of the node's share, 0 if none
          calPoly,      \* Polys: sharing of the stored polynomial, 0 if none
          calKnown,     \* Rosters: roster of the LTS the node knows
          calStoring,   \* <<node, sharing>> whose protocol is finished, not yet stored
          calOcs,       \* re-encryption under way
          calReads,     \* ledger: read instances, each with whether it was paid
          calResult     \* history: sharings used by the last successful re-encryption

calVars == <<calRoster, calAuth, calSharings, calShare, calPoly, calKnown, calStoring, calOcs, calReads, calResult>>
calLedger == <<calRoster, calReads>>
calNodeVars == <<calAuth, calSharings, calShare, calPoly, calKnown, calStoring>>

Threshold(roster) == Cardinality(roster) - (Cardinality(roster) - 1) \div 3
NoOcs == [at |-> "none"]
NoneUsed == [shares |-> << >>, clean |-> TRUE]

-----------------------------------------------------------------------------
(* The contracts.                                                          *)
SpawnLTS(r) ==
    /\ calRoster = {} /\ calRoster' = r
    /\ UNCHANGED <<calReads, calOcs, calResult>> /\ UNCHANGED calNodeVars
\* contractLTS.Invoke: enough of the old roster stays.
Reshare(r) ==
    /\ calRoster # {} /\ r # calRoster
    /\ Cardinality(calRoster \intersect r) >= Threshold(calRoster)
    /\ calRoster' = r
    /\ UNCHANGED <<calReads, calOcs, calResult>> /\ UNCHANGED calNodeVars
\* ContractWrite.Spawn of a read: coins of the right name are taken if there are any.
SpawnRead(hasCoins) ==
    /\ calReads = {} /\ calReads' = {hasCoins}
    /\ UNCHANGED <<calRoster, calOcs, calResult>> /\ UNCHANGED calNodeVars

-----------------------------------------------------------------------------
(* Key generation and resharing.                                           *)
Authorize(n) ==
    /\ n \notin calAuth /\ calAuth' = calAuth \union {n}
    /\ UNCHANGED <<calSharings, calShare, calPoly, calKnown, calStoring, calOcs, calResult>> /\ UNCHANGED calLedger
verifyProof(nodes) == calRoster # {} /\ nodes \subseteq calAuth
NewSharing(root, key) ==
    LET s == Len(calSharings) + 1
    IN  /\ s <= CalMaxSharings
        /\ calSharings' = Append(calSharings, [roster |-> calRoster, key |-> key, root |-> root])
        /\ calStoring' = calStoring \union {<<n, s>> : n \in calRoster}
        /\ UNCHANGED <<calAuth, calShare, calPoly, calKnown, calOcs, calResult>> /\ UNCHANGED calLedger
CreateLTS(root) == root \in calRoster /\ verifyProof(calRoster) /\ NewSharing(root, Len(calSharings) + 1)
\* The old nodes take part with the shares they have stored by now.
ReshareLTS(root) ==
    /\ root \in calRoster /\ verifyProof(calRoster)
    /\ calShare[root] # 0 /\ \A n \in calKnown[root] : calShare[n] = calShare[root]
    /\ NewSharing(root, calSharings[calShare[root]].key)
KeyKept(n, s) == calShare[n] # 0 => calSharings[calShare[n]].key = calSharings[s].key
\* The outcome of a generation replaces what is there, that of a resharing only
\* with the same key.  The polynomial is stored where the protocol was started.
IsReshare(s) == calSharings[s].key # s
StoreShare(n, s) ==
    LET stores == IsReshare(s) => KeyKept(n, s)
        new(f, v, when) == [f EXCEPT ![n] = IF when THEN v ELSE @]
    IN  /\ <<n, s>> \in calStoring
        /\ calStoring' = calStoring \ {<<n, s>>}
        /\ calShare' = new(calShare, s, stores)
        /\ calKnown' = new(calKnown, calSharings[s].roster, stores)
        /\ calPoly' = new(calPoly, s, stores /\ calSharings[s].root = n)
        /\ UNCHANGED <<calAuth, calSharings, calOcs, calResult>> /\ UNCHANGED calLedger

-----------------------------------------------------------------------------
(* Re-encryption.  DecryptKey looks up the roster, verifies the proofs, and *)
(* copies the share and the polynomial later.                              *)
DecryptKey(root) ==
    /\ calOcs.at = "none" /\ calReads # {} /\ calKnown[root] # {} /\ root \in calAuth
    /\ calOcs' = [at |-> "roster", root |-> root, roster |-> calKnown[root]]
    /\ UNCHANGED calResult /\ UNCHANGED calNodeVars /\ UNCHANGED calLedger
\* The protocol asks all nodes of the roster but the root.
NewOCS(root, roster) ==
    [at |-> "asked", root |-> root, roster |-> roster, share |-> calShare[root], poly |-> calPoly[root],
     todo |-> roster \ {root}, replies |-> << >>, failures |-> 0]   \* replies: node to share
StartOCS ==
    /\ calOcs.at = "roster"
    /\ calOcs' = IF calPoly[calOcs.root] = 0 THEN NoOcs    \* the handler fails
                 ELSE NewOCS(calOcs.root, calOcs.roster)
    /\ UNCHANGED calResult /\ UNCHANGED calNodeVars /\ UNCHANGED calLedger

ValidShare(reply, poly) == reply = poly
\* Uis: the root's own share and the valid ones, each at its node's place.
recoverCommit(ocs, replies) ==
    LET valid == {n \in DOMAIN replies : ValidShare(replies[n], ocs.poly)}
        Uis == [n \in valid \union {ocs.root} |-> IF n = ocs.root THEN ocs.share ELSE replies[n]]
    IN  IF Cardinality(DOMAIN Uis) >= Threshold(ocs.roster)
        THEN [shares |-> Uis,
              clean |-> ocs.share = ocs.poly /\ calSharings[ocs.share].roster = ocs.roster]
        ELSE calResult
\* A node answers with the share it has when it is asked, or refuses.
reencrypt(n, refuses) ==
    /\ calOcs.at = "asked" /\ n \in calOcs.todo
    /\ refuses \/ calShare[n] # 0
    /\ IF refuses
       THEN /\ calOcs' = IF calOcs.failures + 1 > Cardinality(calOcs.roster) - Threshold(calOcs.roster) THEN NoOcs
                         ELSE [calOcs EXCEPT !.todo = @ \ {n}, !.failures = @ + 1]
            /\ UNCHANGED calResult
       ELSE LET answered == DOMAIN calOcs.replies \union {n}
                replies == [k \in answered |-> IF k = n THEN calShare[n] ELSE calOcs.replies[k]]
            IN  IF Cardinality(answered) >= Threshold(calOcs.roster) - 1
                THEN calOcs' = NoOcs /\ calResult' = recoverCommit(calOcs, replies)
                ELSE calOcs' = [calOcs EXCEPT !.todo = @ \ {n}, !.replies = replies] /\ UNCHANGED calResult
    /\ UNCHANGED calNodeVars /\ UNCHANGED calLedger
OcsTimeout ==
    /\ calOcs.at = "asked" /\ calOcs' = NoOcs
    /\ UNCHANGED calResult /\ UNCHANGED calNodeVars /\ UNCHANGED calLedger

CalInit ==
    /\ calRoster = {} /\ calAuth = {} /\ calSharings = << >>
    /\ calShare = [n \in CalNodes |-> 0] /\ calPoly = [n \in CalNodes |-> 0]
    /\ calKnown = [n \in CalNodes |-> {}] /\ calStoring = {} /\ calOcs = NoOcs
    /\ calReads = {} /\ calResult = NoneUsed
CalNext ==
    \/ \E r \in CalRosters : SpawnLTS(r) \/ Reshare(r)
    \/ \E b \in BOOLEAN : SpawnRead(b)
    \/ \E n \in CalNodes : Authorize(n) \/ CreateLTS(n) \/ ReshareLTS(n) \/ DecryptKey(n)
    \/ \E p \in calStoring : StoreShare(p[1], p[2])
    \/ StartOCS
    \/ \E n \in CalNodes, b \in BOOLEAN : reencrypt(n, b)
    \/ OcsTimeout

-----------------------------------------------------------------------------
CalTypeOK ==
    /\ calRoster \in CalRosters \union {{}} /\ calAuth \subseteq CalNodes
    /\ calShare \in [CalNodes -> 0 .. CalMaxSharings] /\ calPoly \in [CalNodes -> 0 .. CalMaxSharings]
    /\ calKnown \in [CalNodes -> CalRosters \union {{}}]
    /\ calStoring \subseteq CalNodes \X (1 .. CalMaxSharings)
    /\ calOcs.at \in {"none", "roster", "asked"}

(* A secret that is re-encrypted while nodes change to the shares of a new  *)
(* sharing comes from enough shares of one and the same sharing: replies of *)
(* nodes that are behind or ahead are recognised.  This needs the roster,   *)
(* the share and the polynomial of the asking node to belong together       *)
(* (DecryptKey, reencryptReply).                                            *)
RightShares(used) ==
    \A n \in DOMAIN used.shares :
        /\ \A m \in DOMAIN used.shares : used.shares[m] = used.shares[n]
        /\ Cardinality(DOMAIN used.shares) >= Threshold(calSharings[used.shares[n]].roster)
ReencryptedRight == calResult.clean => RightShares(calResult)

(* "Make sure everything used from the s.Storage structure is copied, so    *)
(* there will be no races": every successful re-encryption comes from       *)
(* enough shares of one sharing, also next to a resharing (DecryptKey).     *)
ReencryptedRightAlways == RightShares(calResult)
=============================================================================
