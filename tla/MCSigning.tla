----------------------------- MODULE MCSigning ------------------------------
(***************************************************************************)
(* One instance of each protocol between conodes: collective signing, the  *)
(* forward links it signs, the older signing protocols, propagation, key   *)
(* generation and the two services on top of it.  They share no state, so  *)
(* each behaviour runs one of them; the variables of the others are 0.     *)
(***************************************************************************)
EXTENDS BlsCosi, SkipLinks, SkipFollow, FtCosi, TreeCosi, BftCosi, Messaging, Dkg, Calypso, Evoting

VARIABLE active   \* the component that runs

BlsCosiOff == phase = 0 /\ subTrees = 0 /\ inst = 0 /\ col = 0 /\ buffer = 0 /\ verified = 0
    /\ refusing = 0 /\ down = 0 /\ late = 0 /\ final = 0
SkipLinksOff == db = 0 /\ reqs = 0 /\ sending = 0
SkipFollowOff == clients = 0 /\ unlinking = 0 /\ followIDs = 0 /\ follow = 0 /\ stored = 0
    /\ current = 0 /\ extend = 0
FtCosiOff == ftTree = 0 /\ ftAccepts = 0 /\ ftUp = 0 /\ ftSub = 0 /\ ftCommits = 0
    /\ ftShared = 0 /\ ftPhase = 0 /\ ftMask = 0 /\ ftResponses = 0
TreeCosiOff == cosiState = 0 /\ cosiCommit = 0 /\ cosiResponse = 0 /\ cosiSig = 0
BftCosiOff == bftPhase = 0 /\ bftAccepts = 0 /\ bftDown = 0 /\ prepareCommit = 0
    /\ prepareSum = 0 /\ commitCommit = 0 /\ commitSum = 0 /\ prepareResponse = 0
    /\ commitResponse = 0 /\ exceptions = 0 /\ signRefusal = 0 /\ bftSig = 0
MessagingOff == propSend = 0 /\ propErrors = 0 /\ propData = 0 /\ propReplies = 0
    /\ propReceived = 0 /\ propState = 0 /\ contacts = 0 /\ confirms = 0 /\ contactRcv = 0
    /\ doneRcv = 0 /\ linked = 0 /\ finished = 0
DkgOff == dkgKind = 0 /\ dkgWait = 0 /\ dkgInit = 0 /\ dkgStage = 0 /\ dkgDeals = 0
    /\ dkgResponses = 0 /\ dkgCommit = 0 /\ dkgSecrets = 0 /\ dkgAsked = 0 /\ dkgReplied = 0
CalypsoOff == calRoster = 0 /\ calAuth = 0 /\ calSharings = 0 /\ calShare = 0 /\ calPoly = 0
    /\ calKnown = 0 /\ calStoring = 0 /\ calOcs = 0 /\ calReads = 0 /\ calResult = 0
EvotingOff == evMaster = 0 /\ evChain = 0 /\ evClock = 0 /\ evStore = 0 /\ evOpen = 0
    /\ evDkg = 0 /\ evSecret = 0 /\ evRuns = 0 /\ evLock = 0 /\ evPrompts = 0 /\ evJobs = 0

SigningVars == <<active, blsVars, linkVars, followVars, ftVars, cosiVars, bftVars, msgVars, dkgVars, calVars, evVars>>

SigningInit ==
    \/ active = "bls" /\ BlsInit /\ SkipLinksOff /\ SkipFollowOff /\ FtCosiOff /\ TreeCosiOff
       /\ BftCosiOff /\ MessagingOff /\ DkgOff /\ CalypsoOff /\ EvotingOff
    \/ active = "links" /\ LinksInit /\ BlsCosiOff /\ SkipFollowOff /\ FtCosiOff /\ TreeCosiOff
       /\ BftCosiOff /\ MessagingOff /\ DkgOff /\ CalypsoOff /\ EvotingOff
    \/ active = "follow" /\ FollowInit /\ BlsCosiOff /\ SkipLinksOff /\ FtCosiOff /\ TreeCosiOff
       /\ BftCosiOff /\ MessagingOff /\ DkgOff /\ CalypsoOff /\ EvotingOff
    \/ active = "ftcosi" /\ FtInit /\ BlsCosiOff /\ SkipLinksOff /\ SkipFollowOff /\ TreeCosiOff
       /\ BftCosiOff /\ MessagingOff /\ DkgOff /\ CalypsoOff /\ EvotingOff
    \/ active = "cosi" /\ CosiInit /\ BlsCosiOff /\ SkipLinksOff /\ SkipFollowOff /\ FtCosiOff
       /\ BftCosiOff /\ MessagingOff /\ DkgOff /\ CalypsoOff /\ EvotingOff
    \/ active = "bftcosi" /\ BftInit /\ BlsCosiOff /\ SkipLinksOff /\ SkipFollowOff /\ FtCosiOff
       /\ TreeCosiOff /\ MessagingOff /\ DkgOff /\ CalypsoOff /\ EvotingOff
    \/ active = "messaging" /\ MsgInit /\ BlsCosiOff /\ SkipLinksOff /\ SkipFollowOff
       /\ FtCosiOff /\ TreeCosiOff /\ BftCosiOff /\ DkgOff /\ CalypsoOff /\ EvotingOff
    \/ active = "dkg" /\ DkgInit /\ BlsCosiOff /\ SkipLinksOff /\ SkipFollowOff /\ FtCosiOff
       /\ TreeCosiOff /\ BftCosiOff /\ MessagingOff /\ CalypsoOff /\ EvotingOff
    \/ active = "calypso" /\ CalInit /\ BlsCosiOff /\ SkipLinksOff /\ SkipFollowOff /\ FtCosiOff
       /\ TreeCosiOff /\ BftCosiOff /\ MessagingOff /\ DkgOff /\ EvotingOff
    \/ active = "evoting" /\ EvInit /\ BlsCosiOff /\ SkipLinksOff /\ SkipFollowOff /\ FtCosiOff
       /\ TreeCosiOff /\ BftCosiOff /\ MessagingOff /\ DkgOff /\ CalypsoOff
SigningNext == UNCHANGED active /\
    \/ active = "bls" /\ BlsNext /\ UNCHANGED <<linkVars, followVars, ftVars, cosiVars, bftVars,
          msgVars, dkgVars, calVars, evVars>>
    \/ active = "links" /\ LinksNext /\ UNCHANGED <<blsVars, followVars, ftVars, cosiVars, bftVars,
          msgVars, dkgVars, calVars, evVars>>
    \/ active = "follow" /\ FollowNext /\ UNCHANGED <<blsVars, linkVars, ftVars, cosiVars, bftVars,
          msgVars, dkgVars, calVars, evVars>>
    \/ active = "ftcosi" /\ FtNext /\ UNCHANGED <<blsVars, linkVars, followVars, cosiVars, bftVars,
          msgVars, dkgVars, calVars, evVars>>
    \/ active = "cosi" /\ CosiNext /\ UNCHANGED <<blsVars, linkVars, followVars, ftVars, bftVars,
          msgVars, dkgVars, calVars, evVars>>
    \/ active = "bftcosi" /\ BftNext /\ UNCHANGED <<blsVars, linkVars, followVars, ftVars, cosiVars,
          msgVars, dkgVars, calVars, evVars>>
    \/ active = "messaging" /\ MsgNext /\ UNCHANGED <<blsVars, linkVars, followVars, ftVars,
          cosiVars, bftVars, dkgVars, calVars, evVars>>
    \/ active = "dkg" /\ DkgNext /\ UNCHANGED <<blsVars, linkVars, followVars, ftVars, cosiVars,
          bftVars, msgVars, calVars, evVars>>
    \/ active = "calypso" /\ CalNext /\ UNCHANGED <<blsVars, linkVars, followVars, ftVars, cosiVars,
          bftVars, msgVars, dkgVars, evVars>>
    \/ active = "evoting" /\ EvNext /\ UNCHANGED <<blsVars, linkVars, followVars, ftVars, cosiVars,
          bftVars, msgVars, dkgVars, calVars>>
SigningSpec == SigningInit /\ [][SigningNext]_SigningVars

-----------------------------------------------------------------------------
\* Type invariant of the component that runs.
SigningTypeOK ==
    /\ active = "bls" => BlsTypeOK
    /\ active = "links" => LinksTypeOK
    /\ active = "follow" => FollowTypeOK
    /\ active = "ftcosi" => FtTypeOK
    /\ active = "cosi" => CosiTypeOK
    /\ active = "bftcosi" => BftTypeOK
    /\ active = "messaging" => MsgTypeOK
    /\ active = "dkg" => DkgTypeOK
    /\ active = "calypso" => CalTypeOK
    /\ active = "evoting" => EvTypeOK

(* Of the signing of a block: the collective signature covers only nodes   *)
(* that verified the block, and the answers of the subtrees decide the     *)
(* round (blscosi/protocol, byzcoinx).                                     *)
BlsRight == active = "bls" => SignersVerified /\ AnswersDecide

(* Of the forward links: the leader proves every block, and links jump as  *)
(* far as their level says (skipchain/struct.go, skipchain.go).            *)
LinksRight == active = "links" => LeaderProvesEveryBlock /\ LinksMatchLevel

(* Of the conodes that are asked to follow a chain: a roster is extended   *)
(* only by nodes that all agreed (skipchain/protocol.go).                  *)
FollowRight == active = "follow" => ExtensionAgreed

(* Of the older protocols: signatures are complete and verify, and nothing *)
(* is signed that too many nodes refused (ftcosi, cosi, bftcosi).          *)
OlderCosiRight ==
    /\ active = "ftcosi" => FtSignatureComplete /\ FtRefusedByMany
    /\ active = "cosi" => CosiSignatureVerifies
    /\ active = "bftcosi" => BftSignedWasPrepared

(* Of the propagation: the number that is returned is met by nodes that    *)
(* have handled the data (messaging/propagate.go).                         *)
SpreadRight == active = "messaging" => PropagationCounted

(* Of the shared keys: a key is given out when every node has its share,   *)
(* and a re-encryption is combined from shares of one sharing (dkg,        *)
(* calypso).                                                               *)
KeysRight ==
    /\ active = "dkg" => KeyIsEverywhere
    /\ active = "calypso" => ReencryptedRight

(* Of the elections: a tally is the last ballot of every voter (evoting).  *)
ElectionsRight == active = "evoting" => TallyRight
=============================================================================
