----------------------------- MODULE MCServices -----------------------------
(***************************************************************************)
(* One instance of each part that serves clients from the ledger: proofs,  *)
(* the history of instances, the event log, the proxy and the personhood   *)
(* contracts.  They share no state here, so each behaviour runs one of     *)
(* them; the variables of the others are 0.                                *)
(***************************************************************************)
EXTENDS ClientProofs, History, EventLog, Bypros, Personhood

MCNodes == <<"n", "m">>
MCStart == [games |-> [a |-> 3], party |-> [a |-> 2]]
MCLists == {<<1>>, <<1, 2>>}

VARIABLE active   \* the component that runs

ClientProofsOff == pRoster = 0 /\ pHas = 0 /\ pLinks = 0 /\ pTrie = 0 /\ pGenesis = 0
    /\ pLatest = 0 /\ pWait = 0
HistoryOff == hLive = 0 /\ hIndex = 0 /\ hDb = 0 /\ hSize = 0 /\ hCount = 0 /\ hPanic = 0
    /\ hBlocks = 0 /\ hRecreated = 0
EventLogOff == elNow = 0 /\ elEvents = 0 /\ elBuckets = 0 /\ stFrom = 0 /\ stSub = 0
    /\ stBuf = 0 /\ stLatest = 0 /\ stLink = 0 /\ stSeen = 0
ByprosOff == bpTip = 0 /\ bpDb = 0 /\ bpToken = 0 /\ bpFollowing = 0 /\ bpSession = 0
    /\ bpStop = 0 /\ bpStream = 0 /\ bpParsing = 0 /\ bpCatch = 0
PersonhoodOff == phState = 0 /\ phWork = 0 /\ phPurse = 0 /\ phScene = 0 /\ phLeft = 0

ServicesVars == <<active, pVars, hVars, elVars, bpVars, phVars>>

ServicesInit ==
    \/ active = "proofs" /\ PInit /\ HistoryOff /\ EventLogOff /\ ByprosOff /\ PersonhoodOff
    \/ active = "history" /\ HInit /\ ClientProofsOff /\ EventLogOff /\ ByprosOff
       /\ PersonhoodOff
    \/ active = "eventlog" /\ ElInit /\ ClientProofsOff /\ HistoryOff /\ ByprosOff
       /\ PersonhoodOff
    \/ active = "bypros" /\ BpInit /\ ClientProofsOff /\ HistoryOff /\ EventLogOff
       /\ PersonhoodOff
    \/ active = "personhood" /\ PhInit /\ ClientProofsOff /\ HistoryOff /\ EventLogOff
       /\ ByprosOff
ServicesNext == UNCHANGED active /\
    \/ active = "proofs" /\ PNext /\ UNCHANGED <<hVars, elVars, bpVars, phVars>>
    \/ active = "history" /\ HNext /\ UNCHANGED <<pVars, elVars, bpVars, phVars>>
    \/ active = "eventlog" /\ ElNext /\ UNCHANGED <<pVars, hVars, bpVars, phVars>>
    \/ active = "bypros" /\ BpNext /\ UNCHANGED <<pVars, hVars, elVars, phVars>>
    \/ active = "personhood" /\ PhNext /\ UNCHANGED <<pVars, hVars, elVars, bpVars>>
ServicesSpec == ServicesInit /\ [][ServicesNext]_ServicesVars

-----------------------------------------------------------------------------
\* Type invariant of the component that runs.
ServicesTypeOK ==
    /\ active = "proofs" => PTypeOK
    /\ active = "history" => HTypeOK
    /\ active = "eventlog" => ElTypeOK
    /\ active = "bypros" => BpTypeOK
    /\ active = "personhood" => PhTypeOK

(* Of the answers to clients: a proof that a client accepts holds for a    *)
(* block of the chain, and the history of an instance is whole             *)
(* (byzcoin/proof.go, api.go, struct.go).                                  *)
AnswersRight ==
    /\ active = "proofs" => ProofsHold
    /\ active = "history" => HistoryWhole

(* Of the services: the event log finds and streams what was logged, the   *)
(* proxy that catches up leaves no hole, and the personhood contracts      *)
(* account for every coin and every organizer (eventlog, bypros,           *)
(* personhood/contracts).                                                  *)
ServicesRight ==
    /\ active = "eventlog" => LogServed
    /\ active = "bypros" => CatchUpComplete
    /\ active = "personhood" => PersonhoodRight
=============================================================================
