----------------------------- MODULE Personhood -----------------------------
(***************************************************************************)
(* The contracts of the personhood service (personhood/contracts): the     *)
(* spawner that sells instances, the rock-paper-scissors game, the         *)
(* pop-party and the credential, at the latest version of ByzCoin.  A      *)
(* client transaction is a few instructions that hand a purse of coins on; *)
(* when one of them is refused the transaction has no effect.              *)
(*                                                                         *)
(* One spawner, one game at a time, one party; all coins have one name.    *)
(* The fields last, prizes and earned of the state are history.            *)
(***************************************************************************)
EXTENDS Integers, Sequences, FiniteSets, SequencesExt, FiniteSetsExt

CONSTANTS PhAccounts,    \* coin instances
          PhStart,       \* for each scene, the coins of the accounts that exist at the start
          PhCosts,       \* prices a new spawner may ask
          PhNewCosts,    \* prices of an update
          PhUpdates,     \* sets of kinds whose prices are updated together
          PhOrganizers,  \* identities in the rule popParty.finalize, joined by |
          PhLists,       \* lists of attendees an organizer may send
          PhReward,      \* miningReward
          PhGoods,       \* what is bought besides coins, games and parties
          PhMaxInstr,    \* bound: instructions of a transaction
          PhMaxGames     \* bound: games

Attendees == UNION {Range(l) : l \in PhLists}
ASSUME PersonhoodAssumption ==
    /\ IsFiniteSet(PhAccounts) /\ IsFiniteSet(PhOrganizers) /\ IsFiniteSet(Attendees)
    /\ \A c \in {"games", "party"} : \E D \in SUBSET PhAccounts : PhStart[c] \in [D -> Nat]
    /\ PhGoods \subseteq {"darc", "credential", "calypsoWrite", "value"} /\ PhCosts \cup PhNewCosts \subseteq Nat
    /\ PhReward \in Nat /\ PhMaxInstr \in Nat /\ PhMaxGames \in Nat

VARIABLES phState,  \* the instances, as of the last transaction
          phWork,   \* the staging trie of the running transaction
          phPurse,  \* the coins handed from instruction to instruction
          phScene,  \* bound: whether the clients play, or have a party
          phLeft    \* instructions the transaction may still have, 0 if none runs

phVars == <<phState, phWork, phPurse, phScene, phLeft>>

Kinds == {"darc", "coin", "credential", "popParty", "ropasci", "calypsoWrite", "value"}
Moves == 0 .. 2
NoGame == [stake |-> 0, hash |-> 0, first |-> -1, second |-> -1, acc1 |-> "", acc2 |-> "", secret |-> FALSE, open |-> FALSE]
NoParty == [state |-> "none", attendees |-> << >>, finalizations |-> << >>, miners |-> {}]
Refused == [ok |-> FALSE, st |-> << >>, purse |-> 0]
Changed(s, p) == [ok |-> TRUE, st |-> s, purse |-> p]
Exists(s, a) == a \in DOMAIN s.coins
With(s, a, n) == [s EXCEPT !.coins = [x \in DOMAIN s.coins \cup {a} |-> IF x = a THEN n ELSE s.coins[x]]]

-----------------------------------------------------------------------------
(* The coin contract, as the other contracts of a transaction use it.      *)
CoinFetch(s, p, a, n) ==
    IF Exists(s, a) /\ s.coins[a] >= n THEN Changed(With(s, a, s.coins[a] - n), p + n) ELSE Refused
CoinStore(s, p, a) == IF Exists(s, a) THEN Changed(With(s, a, s.coins[a] + p), 0) ELSE Refused

-----------------------------------------------------------------------------
(* The spawner.                                                            *)
SpawnSpawner(s, p, v) ==
    IF s.costs = << >> THEN Changed([s EXCEPT !.costs = [k \in Kinds |-> v]], p) ELSE Refused
UpdateCosts(s, p, ks, v) ==
    IF s.costs # << >> THEN Changed([s EXCEPT !.costs = [k \in Kinds |-> IF k \in ks THEN v ELSE @[k]]], p)
    ELSE Refused
DeleteSpawner(s, p) == IF s.costs # << >> THEN Changed([s EXCEPT !.costs = << >>], p) ELSE Refused
CanPay(s, p, k) == s.costs # << >> /\ p >= s.costs[k]
\* getCoins: the price is burned.
getCoins(s, p, k) == p - s.costs[k]
\* A darc (its rules on the whitelist or not), a credential, a calypso write or a value.
SpawnOther(s, p, k, allowed) ==
    IF CanPay(s, p, k) /\ k \notin s.made /\ (k = "darc" => allowed)
    THEN Changed([s EXCEPT !.made = @ \cup {k}], getCoins(s, p, k)) ELSE Refused
\* A new account takes up to n of what is left.
SpawnCoin(s, p, a, n) ==
    IF CanPay(s, p, "coin") /\ ~Exists(s, a)
    THEN LET rest == getCoins(s, p, "coin") put == Min({n, rest}) IN Changed(With(s, a, put), rest - put)
    ELSE Refused

-----------------------------------------------------------------------------
(* The credential: update and delete under its darc.  recover counts no    *)
(* signature as valid (it passes 32 of the 64 bytes to schnorr.Verify), so *)
(* it never reaches its threshold.                                         *)
UpdateCredential(s, p) == IF "credential" \in s.made THEN Changed(s, p) ELSE Refused
DeleteCredential(s, p) ==
    IF "credential" \in s.made THEN Changed([s EXCEPT !.made = @ \ {"credential"}], p) ELSE Refused
RecoverCredential(s, p) == Refused

-----------------------------------------------------------------------------
(* Rock-paper-scissors.  With secret, the first player's account is fixed  *)
(* at the start and the move can be revealed by the second player.         *)
Playing(s) == s.game.open /\ s.game.first < 0        \* VerifyInstruction
SpawnRoPaSci(s, p, move, acc, secret) ==
    IF CanPay(s, p, "ropasci") /\ getCoins(s, p, "ropasci") > 0 /\ ~Playing(s)
    THEN Changed([s EXCEPT !.games = @ + 1,
                           !.game = [NoGame EXCEPT !.open = TRUE, !.stake = getCoins(s, p, "ropasci"), !.hash = move,
                                                   !.secret = secret, !.acc1 = IF secret THEN acc ELSE ""]], 0)
    ELSE Refused
\* The stake must be in the purse, and stays there.
Second(s, p, move, acc) ==
    IF Playing(s) /\ s.game.second < 0 /\ Exists(s, acc) /\ p = s.game.stake
    THEN Changed([s EXCEPT !.game.second = move, !.game.acc2 = acc], p) ELSE Refused
Winner(g, acc) ==
    CASE (3 + g.hash - g.second) % 3 = 0 -> "nobody"
      [] (3 + g.hash - g.second) % 3 = 1 -> IF g.secret THEN g.acc1 ELSE acc
      [] (3 + g.hash - g.second) % 3 = 2 -> g.acc2
\* The winner gets twice the stake; before the second move the first player can
\* win against none, and a second player without an account is an error.
Confirm(s, p, prehash, acc) ==
    LET w == Winner(s.game, acc) IN
    IF ~Playing(s) \/ prehash # s.game.hash \/ (~s.game.secret /\ ~Exists(s, acc)) THEN Refused
    ELSE IF w = "nobody" THEN Changed([s EXCEPT !.game.first = prehash], p)
    ELSE IF ~Exists(s, w) THEN Refused
    ELSE Changed([With(s, w, s.coins[w] + 2 * s.game.stake)
                  EXCEPT !.game.first = prehash, !.prizes = @ + s.game.stake], p)
DeleteRoPaSci(s, p) == IF Playing(s) THEN Changed([s EXCEPT !.game = NoGame], p) ELSE Refused

-----------------------------------------------------------------------------
(* The pop-party.                                                          *)
SpawnParty(s, p) ==
    IF CanPay(s, p, "popParty") /\ s.party.state = "none"
    THEN Changed([s EXCEPT !.party.state = "init"], getCoins(s, p, "popParty")) ELSE Refused
Barrier(s, p) ==
    IF s.party.state = "init" THEN Changed([s EXCEPT !.party.state = "scanning"], p) ELSE Refused
\* The list is taken over when it is the first, differs from the one there, or
\* comes from an organizer who signed already.
finalize(party, org, list) ==
    LET again == Contains(party.finalizations, org)
        same == party.attendees = list
        fins == IF party.finalizations # << >> /\ same /\ ~again THEN Append(party.finalizations, org) ELSE <<org>>
    IN  [party EXCEPT !.attendees = list, !.finalizations = fins,
                      !.state = IF Len(fins) = Cardinality(PhOrganizers) THEN "finalized" ELSE @]
Finalize(s, p, org, list) ==
    IF s.party.state = "scanning"
    THEN Changed([s EXCEPT !.party = finalize(@, org, list), !.last[org] = list], p) ELSE Refused
\* The ring signature proves membership; its tag tells attendees apart.
Mine(s, p, att, acc) ==
    IF /\ s.party.state = "finalized" /\ att \in Range(s.party.attendees)
       /\ att \notin s.party.miners
    THEN LET old == IF Exists(s, acc) THEN s.coins[acc] ELSE 0    \* else newDarc creates it
         IN  Changed([With(s, acc, old + PhReward)
                      EXCEPT !.party.miners = @ \cup {att}, !.earned[att] = @ + PhReward], p)
    ELSE Refused

-----------------------------------------------------------------------------
(* Transactions.                                                           *)
PhInit ==
    /\ phScene \in {"games", "party"}
    /\ phState = [coins |-> PhStart[phScene], costs |-> << >>, made |-> {}, game |-> NoGame, games |-> 0, party |-> NoParty,
                  last |-> [o \in PhOrganizers |-> << >>], prizes |-> 0, earned |-> [a \in Attendees |-> 0]]
    /\ phWork = phState /\ phPurse = 0 /\ phLeft = 0
PhBegin ==
    /\ phLeft = 0 /\ phWork = phState /\ phLeft' = PhMaxInstr /\ phPurse' = 0 /\ UNCHANGED <<phState, phWork, phScene>>
Instruction(r) ==
    /\ phLeft > 0 /\ UNCHANGED phScene
    /\ IF r.ok THEN phWork' = r.st /\ phPurse' = r.purse /\ phLeft' = phLeft - 1 /\ UNCHANGED phState
       ELSE phWork' = phState /\ phPurse' = 0 /\ phLeft' = 0 /\ UNCHANGED phState
\* Coins left in the purse are lost.
PhEnd ==
    /\ phWork # phState
    /\ phState' = phWork /\ phPurse' = 0 /\ phLeft' = 0 /\ UNCHANGED <<phWork, phScene>>

Amounts == 1 .. 2
DoCoins == \E a \in PhAccounts, n \in Amounts :
               Instruction(CoinFetch(phWork, phPurse, a, n)) \/ Instruction(CoinStore(phWork, phPurse, a))
DoSpawner ==
    \/ \E v \in PhCosts : Instruction(SpawnSpawner(phWork, phPurse, v))
    \/ phScene = "games" /\ \E v \in PhNewCosts, ks \in PhUpdates : Instruction(UpdateCosts(phWork, phPurse, ks, v))
DoDelete == \/ Instruction(DeleteSpawner(phWork, phPurse)) \/ Instruction(DeleteCredential(phWork, phPurse))
            \/ Instruction(DeleteRoPaSci(phWork, phPurse))
DoBuy ==
    \/ phScene = "party" /\ \E k \in PhGoods, b \in BOOLEAN : Instruction(SpawnOther(phWork, phPurse, k, b))
    \/ \E a \in PhAccounts, n \in Amounts : Instruction(SpawnCoin(phWork, phPurse, a, n))
DoCredential == Instruction(UpdateCredential(phWork, phPurse)) \/ Instruction(RecoverCredential(phWork, phPurse))
DoGame ==
    /\ phScene = "games"
    /\ \E move \in Moves, a \in PhAccounts :
        \/ \E b \in BOOLEAN : phWork.games < PhMaxGames /\ Instruction(SpawnRoPaSci(phWork, phPurse, move, a, b))
        \/ Instruction(Second(phWork, phPurse, move, a))
        \/ Instruction(Confirm(phWork, phPurse, move, a))
DoParty == phScene = "party" /\
    \/ Instruction(SpawnParty(phWork, phPurse))
    \/ Instruction(Barrier(phWork, phPurse))
    \/ \E o \in PhOrganizers, l \in PhLists : Instruction(Finalize(phWork, phPurse, o, l))
    \/ \E x \in Attendees, a \in PhAccounts : Instruction(Mine(phWork, phPurse, x, a))
PhNext == PhBegin \/ PhEnd \/ DoCoins \/ DoSpawner \/ DoDelete \/ DoBuy \/ DoCredential \/ DoGame \/ DoParty

-----------------------------------------------------------------------------
PhTypeOK ==
    /\ phLeft \in 0 .. PhMaxInstr /\ phPurse \in Nat
    /\ \A s \in {phState, phWork} :
           /\ DOMAIN s.coins \subseteq PhAccounts /\ s.made \subseteq Kinds /\ s.games \in 0 .. PhMaxGames
           /\ s.game.first \in Moves \cup {-1} /\ s.game.second \in Moves \cup {-1} /\ s.game.stake \in Nat
           /\ s.party.state \in {"none", "init", "scanning", "finalized"} /\ s.party.miners \subseteq Attendees

Total(f) == MapThenSumSet(LAMBDA x : f[x], DOMAIN f)
Staked(g) == IF g.open /\ g.first < 0 THEN g.stake ELSE 0

(* A finalised party has the list that every organizer sent last, however  *)
(* often they changed it, and no other way leads to a finalised party      *)
(* (ContractPopParty.Invoke, finalize).                                    *)
PartyAgreed ==
    phState.party.state = "finalized" => \A o \in PhOrganizers : phState.last[o] = phState.party.attendees

(* Each attendee of the final list earns the reward at most once and       *)
(* nobody else does; and the coins there are, with the stake of the game   *)
(* that is played, are the coins of the start, the rewards, and one stake  *)
(* for each game won, at most: no purchase, game or account spawned by the *)
(* spawner adds any (ContractPopParty mine, ContractRoPaSci, getCoins).    *)
CoinsExplained ==
    /\ \A a \in Attendees : phState.earned[a] <= IF a \in Range(phState.party.attendees) THEN PhReward ELSE 0
    /\ Total(phState.coins) + Staked(phState.game) <= Total(PhStart[phScene]) + Total(phState.earned) + phState.prizes

(* The contracts of the personhood service keep both.                      *)
PersonhoodRight == PartyAgreed /\ CoinsExplained
=============================================================================
