----------------------------- MODULE ViewChange -----------------------------
(***************************************************************************)
(* The view-change of ByzCoin: one viewchange.Controller per node           *)
(* (byzcoin/viewchange/viewchange.go), the manager and the handlers that    *)
(* feed it (byzcoin/viewchange.go), and the parts of updateTrieCallback     *)
(* that reset it when a block is added (byzcoin/service.go).                *)
(*                                                                         *)
(* Blocks are named by their index: that there is one block per index is   *)
(* the promise of the skipchain, not of this module. A view is the block    *)
(* it is for together with the number of places the roster is rotated.      *)
(* Signatures are not forged: a request of node n exists once n sent it.    *)
(***************************************************************************)
EXTENDS Naturals, FiniteSets, Sequences

CONSTANTS
    N,               \* number of nodes of the roster, 0..N-1 in roster order
    Dead,            \* nodes that have stopped
    MaxIdx,          \* bound: largest LeaderIndex
    MaxBlocks,       \* bound: number of blocks added to the chain
    MaxSendFailures, \* bound: calls of sendInitReq that fail
    MaxHeld,         \* bound: requests on their way to a controller at a time
    MaxRestarts,     \* bound: restarts of nodes
    NormalBlocks     \* whether the current leader also creates blocks

Node == 0..(N - 1)
Idx  == 1..MaxIdx
Live == Node \ Dead

ASSUME ViewChangeAssumption ==
    /\ N \in Nat /\ N >= 4
    /\ Dead \subseteq Node
    /\ MaxIdx >= 1
    /\ {MaxIdx, MaxBlocks, MaxSendFailures, MaxHeld, MaxRestarts} \subseteq Nat
    /\ NormalBlocks \in BOOLEAN

\* protocol.DefaultThreshold
Threshold == N - (N - 1) \div 3

View == [block : 0..MaxBlocks, idx : Idx]
InitReq == [from : Node, view : View]

initialState == 0
sentReqState == 1
startedTimerState == 2

VARIABLES
    chain,     \* the blocks after the genesis block: their leader and, for a
               \* view-change block, the new view request
    known,     \* known[n]: index of the latest block node n has applied
    msgs,      \* the InitReq that nodes have sent (twice, to everybody)
    held,      \* pairs of a node and a request: the handler of the node has
               \* found it valid, and has not yet handed it to the controller
    doneChan,  \* doneChan[n]: the block whose Done awaits the controller
    meta,      \* meta[n][i]: the stateLog for leader index i
    ctr,       \* ctr[n]: the counter of the controller's loop
    timer,     \* timer[n]: the timer is running
    newViews,  \* the new-view requests leaders have sent
    failures,
    restarts

ctrlVars == <<meta, ctr, timer>>
vars == <<chain, known, msgs, held, doneChan, ctrlVars, newViews, failures, restarts>>

NoView == [block |-> 0, idx |-> 0]
newStateLog == [curr |-> NoView, received |-> {}, state |-> initialState, accept |-> FALSE]
newStateLogs == [i \in Idx |-> newStateLog]

\* The leader of the block with index b.
LeaderOf(b) == IF b = 0 THEN 0 ELSE chain[b].leader

\* rotateRoster: the first node of the rotated roster.
NewLeader(v) == (LeaderOf(v.block) + v.idx) % N

Init ==
    /\ chain = <<>>
    /\ known = [n \in Node |-> 0]
    /\ msgs = {}
    /\ held = {}
    /\ doneChan = [n \in Node |-> {}]
    /\ meta = [n \in Node |-> newStateLogs]
    /\ ctr = [n \in Node |-> 0]
    /\ timer = [n \in Node |-> FALSE]
    /\ newViews = {}
    /\ failures = 0
    /\ restarts = 0

-----------------------------------------------------------------------------
(* stateLog and stateLogs, as functions of the logs m of one node. An       *)
(* entry of the map exists once a request has been added to it.             *)

\* A request for another view than the ones received is ignored.
Add(m, r) ==
    LET log == m[r.view.idx]
    IN  IF log.received = {} \/ log.curr = r.view
        THEN [m EXCEPT ![r.view.idx].curr = r.view,
                       ![r.view.idx].received = @ \union {r.from}]
        ELSE m

\* Mutant: one more than the highest index, so that every request is followed.
HighestNext(m) == Cardinality({i \in Idx : m[i].received # {}}) + 1

Highest(m) ==
    LET present == {i \in Idx : m[i].received # {}}
    IN  IF present = {} THEN 0 ELSE CHOOSE i \in present : \A j \in present : j <= i

StateOf(m, i) == IF i = 0 THEN initialState ELSE m[i].state
IsNil(m) == \A i \in Idx : m[i].received = {}
NextStateFor(m, i) == [m EXCEPT ![i].state = @ + 1]
Clean(m, i) == [j \in Idx |-> IF j < i THEN newStateLog ELSE m[j]]

\* processAnomaly: the counter moves to leader index i, and the request for
\* the view in that log is sent, unless sending fails (ok = FALSE).
Sends(m, c, i) == i > c /\ m[i].state < sentReqState

\* Mutant: the state moves on although the request could not be sent.
ProcessAnomalyUnsent(m, c, i, ok) ==
    [ctr  |-> IF i > c THEN i ELSE c,
     meta |-> IF Sends(m, c, i)
              THEN [m EXCEPT ![i].state = @ + 1, ![i].accept = TRUE] ELSE m,
     sent |-> IF Sends(m, c, i) /\ ok THEN {m[i].curr} ELSE {}]

ProcessAnomaly(m, c, i, ok) ==
    [ctr  |-> IF i > c THEN i ELSE c,
     meta |-> IF Sends(m, c, i) /\ ok
              THEN [m EXCEPT ![i].state = @ + 1, ![i].accept = TRUE] ELSE m,
     sent |-> IF Sends(m, c, i) /\ ok THEN {m[i].curr} ELSE {}]

\* Mutant: the state is not looked at, the timer is started again.
StartsTimerAgain(m, c) ==
    /\ c > 0
    /\ Cardinality(m[c].received) >= Threshold
    /\ m[c].accept

\* The count of requests reaches the threshold in the current state log.
StartsTimer(m, c) ==
    /\ c > 0
    /\ Cardinality(m[c].received) >= Threshold
    /\ m[c].state < startedTimerState
    /\ m[c].accept

\* sendInitReq and sendNewView, and the failures of the former.
Send(n, s, ok) ==
    /\ ok \/ failures < MaxSendFailures
    /\ failures' = IF ok THEN failures ELSE failures + 1
    /\ msgs' = msgs \union {[from |-> n, view |-> v] : v \in s.sent}

\* Mutant: the leader is looked up in the roster before the rotation.
SendNewViewOldLeader(n, m, c) ==
    newViews' = IF LeaderOf(m[c].curr.block) = n
                THEN newViews \union {[view |-> m[c].curr, proof |-> m[c].received]}
                ELSE newViews

SendNewView(n, m, c) ==
    newViews' = IF NewLeader(m[c].curr) = n
                THEN newViews \union {[view |-> m[c].curr, proof |-> m[c].received]}
                ELSE newViews

-----------------------------------------------------------------------------
(* The four transitions of Controller.Start.                               *)

\* case req := <-c.reqChan
ControllerReq(n, r, ok) ==
    LET own    == r.from = n
        m      == Add(meta[n], r)
        follow == ~own /\ Highest(m) > ctr[n] /\ ctr[n] > 0
        s      == IF own \/ follow
                  THEN ProcessAnomaly(m, ctr[n], r.view.idx, ok)
                  ELSE [ctr |-> ctr[n], meta |-> m, sent |-> {}]
        starts == StartsTimer(s.meta, s.ctr)
    IN  /\ ~ok => Sends(m, ctr[n], r.view.idx)
        /\ Send(n, s, ok)
        /\ ctr' = [ctr EXCEPT ![n] = s.ctr]
        /\ meta' = [meta EXCEPT ![n] = IF starts THEN NextStateFor(s.meta, s.ctr)
                                       ELSE s.meta]
        /\ timer' = [timer EXCEPT ![n] = IF starts THEN TRUE ELSE @ /\ ~follow]
        /\ IF starts THEN SendNewView(n, s.meta, s.ctr) ELSE UNCHANGED newViews
        /\ UNCHANGED <<chain, known, doneChan, restarts>>

\* Mutant: the logs are kept when a view-change is done.
ControllerDoneKeepsLogs(n) ==
    /\ n \in Live
    /\ doneChan[n] # {}
    /\ doneChan' = [doneChan EXCEPT ![n] = {}]
    /\ ctr' = [ctr EXCEPT ![n] = 0]
    /\ timer' = [timer EXCEPT ![n] = FALSE]
    /\ UNCHANGED <<meta, chain, known, msgs, held, newViews, failures, restarts>>

\* case view := <-c.doneChan
ControllerDone(n) ==
    /\ n \in Live
    /\ doneChan[n] # {}
    /\ doneChan' = [doneChan EXCEPT ![n] = {}]
    /\ IF IsNil(meta[n])
       THEN UNCHANGED ctrlVars
       ELSE /\ meta' = [meta EXCEPT ![n] = newStateLogs]
            /\ ctr' = [ctr EXCEPT ![n] = 0]
            /\ timer' = [timer EXCEPT ![n] = FALSE]
    /\ UNCHANGED <<chain, known, msgs, held, newViews, failures, restarts>>

\* case <-timer.C
ControllerTimeout(n, ok) ==
    LET i == ctr[n] + 1
        r == [from |-> n, view |-> [block |-> meta[n][ctr[n]].curr.block, idx |-> i]]
        m == Add(meta[n], r)
        s == ProcessAnomaly(m, ctr[n], i, ok)
    IN  /\ n \in Live
        /\ timer[n]
        /\ i \in Idx
        /\ ~ok => Sends(m, ctr[n], i)
        /\ Send(n, s, ok)
        /\ ctr' = [ctr EXCEPT ![n] = s.ctr]
        /\ meta' = [meta EXCEPT ![n] = Clean(s.meta, s.ctr)]
        /\ timer' = [timer EXCEPT ![n] = FALSE]
        /\ UNCHANGED <<chain, known, held, doneChan, newViews, restarts>>

\* case ch := <-c.waiting
Waiting(n) == StateOf(meta[n], ctr[n]) = startedTimerState

-----------------------------------------------------------------------------
(* The service around the controllers.                                     *)

\* A request the service accepts at node n: startViewChange, when the leader
\* could not be reached with a transaction, makes the node's own, and
\* handleViewChangeReq checks that one of a peer is for the latest block.
OwnReq(n) == [from |-> n, view |-> [block |-> known[n], idx |-> 1]]

Valid(n, r) ==
    \/ r = OwnReq(n) /\ n # LeaderOf(known[n])
    \/ r \in msgs /\ r.from # n /\ r.view.block = known[n]

\* The request goes straight to the controller (viewChangeManager.addReq).
HandleReq(n, r, ok) ==
    /\ n \in Live
    /\ Valid(n, r)
    /\ ControllerReq(n, r, ok)
    /\ UNCHANGED held

\* Between the check and addReq, or in reqChan, the request is held up while
\* blocks are added.
HoldReq(n, r) ==
    /\ n \in Live
    /\ Valid(n, r)
    /\ Cardinality(held) < MaxHeld
    /\ held' = held \union {<<n, r>>}
    /\ UNCHANGED <<chain, known, msgs, doneChan, ctrlVars, newViews, failures, restarts>>

HandleHeldReq(n, r, ok) ==
    /\ <<n, r>> \in held
    /\ held' = held \ {<<n, r>>}
    /\ ControllerReq(n, r, ok)

\* The nodes that can take part in signing a block after the latest one.
UpToDate == {n \in Live : known[n] = Len(chain)}

\* Mutant: the view may be for any block.
VerifyAnyBlock(p) == Cardinality(p.proof) >= Threshold

\* NewViewReq.Verify, called by the view_change command of the config
\* contract on every signing node.
Verify(p) ==
    /\ p.view.block = Len(chain)
    /\ Cardinality(p.proof) >= Threshold

\* createViewChangeBlock, signed by a threshold of nodes.
CreateViewChangeBlock(p) ==
    /\ Len(chain) < MaxBlocks
    /\ NewLeader(p.view) \in UpToDate
    /\ Verify(p)
    /\ Cardinality(UpToDate) >= Threshold
    /\ chain' = Append(chain, [leader |-> NewLeader(p.view), newView |-> {p}])
    /\ UNCHANGED <<known, msgs, held, doneChan, ctrlVars, newViews, failures, restarts>>

\* createNewBlock of the current leader; verifySkipBlock refuses it on the
\* nodes whose controller waits for a view-change.
CreateNormalBlock ==
    /\ NormalBlocks
    /\ Len(chain) < MaxBlocks
    /\ LeaderOf(Len(chain)) \in UpToDate
    /\ Cardinality({n \in UpToDate : ~Waiting(n)}) >= Threshold
    /\ chain' = Append(chain, [leader |-> LeaderOf(Len(chain)), newView |-> {}])
    /\ UNCHANGED <<known, msgs, held, doneChan, ctrlVars, newViews, failures, restarts>>

\* updateTrieCallback: a view-change block sends Done to the controller, any
\* other one stops the controller and starts a new one.
UpdateTrie(n) ==
    LET b == known[n] + 1
    IN  /\ n \in Live
        /\ b <= Len(chain)
        /\ known' = [known EXCEPT ![n] = b]
        /\ \/ /\ chain[b].newView # {}
              /\ doneChan[n] = {}
              /\ doneChan' = [doneChan EXCEPT ![n] = {b}]
              /\ UNCHANGED ctrlVars
           \/ /\ chain[b].newView = {}
              /\ doneChan' = [doneChan EXCEPT ![n] = {}]
              /\ meta' = [meta EXCEPT ![n] = newStateLogs]
              /\ ctr' = [ctr EXCEPT ![n] = 0]
              /\ timer' = [timer EXCEPT ![n] = FALSE]
        /\ UNCHANGED <<chain, msgs, held, newViews, failures, restarts>>

-----------------------------------------------------------------------------
\* A node stops and starts again: startChain begins with a new controller, and
\* what its handlers were doing is lost.
Restart(n) ==
    /\ n \in Live
    /\ restarts < MaxRestarts
    /\ restarts' = restarts + 1
    /\ held' = {h \in held : h[1] # n}
    /\ doneChan' = [doneChan EXCEPT ![n] = {}]
    /\ meta' = [meta EXCEPT ![n] = newStateLogs]
    /\ ctr' = [ctr EXCEPT ![n] = 0]
    /\ timer' = [timer EXCEPT ![n] = FALSE]
    /\ UNCHANGED <<chain, known, msgs, newViews, failures>>

-----------------------------------------------------------------------------
Reqs(n) == msgs \union {OwnReq(n)}

Next ==
    \/ \E n \in Node :
        \/ \E r \in Reqs(n) : HoldReq(n, r)
        \/ \E r \in Reqs(n), ok \in BOOLEAN : HandleReq(n, r, ok)
        \/ ControllerDone(n)
        \/ \E ok \in BOOLEAN : ControllerTimeout(n, ok)
        \/ UpdateTrie(n)
        \/ Restart(n)
    \/ \E h \in held, ok \in BOOLEAN : HandleHeldReq(h[1], h[2], ok)
    \/ \E p \in newViews : CreateViewChangeBlock(p)
    \/ CreateNormalBlock

\* Controllers and block updates run by themselves. A request is sent twice and
\* reaches the nodes that are up, and a node whose leader is dead finds out:
\* its clients and its peers' forwarded transactions make it call
\* startViewChange. A new leader's block is signed as long as it verifies.
NodeProgress(n) ==
    \/ \E r \in Reqs(n) :
        /\ r.from = n => LeaderOf(known[n]) \in Dead
        /\ n \notin Dead /\ r.from \notin meta[n][r.view.idx].received
        /\ HandleReq(n, r, TRUE)
    \/ ControllerDone(n)
    \/ UpdateTrie(n)

Fairness ==
    /\ \A n \in Node : WF_vars(NodeProgress(n))
    /\ WF_vars(\E h \in held, ok \in BOOLEAN : HandleHeldReq(h[1], h[2], ok))
    /\ WF_vars(\E p \in newViews : CreateViewChangeBlock(p))

Spec == Init /\ [][Next]_vars /\ Fairness

-----------------------------------------------------------------------------
(* Properties.                                                             *)

\* Type invariant.
TypeOK ==
    /\ chain \in Seq([leader : Node, newView : SUBSET [view : View, proof : SUBSET Node]])
    /\ Len(chain) <= MaxBlocks
    /\ known \in [Node -> 0..MaxBlocks]
    /\ msgs \subseteq InitReq
    /\ held \subseteq Node \X InitReq
    /\ doneChan \in [Node -> SUBSET (1..MaxBlocks)]
    /\ meta \in [Node -> [Idx -> [curr : View \union {NoView}, received : SUBSET Node,
                                 state : 0..3, accept : BOOLEAN]]]
    /\ ctr \in [Node -> 0..MaxIdx]
    /\ timer \in [Node -> BOOLEAN]
    /\ newViews \subseteq [view : View, proof : SUBSET Node]

\* stateLog.nextState never panics with "there is no more next state": no log
\* is moved past startedTimerState, in whatever order requests, timeouts and
\* failures to send come.
NoPanic == \A n \in Node, i \in Idx : meta[n][i].state <= startedTimerState

\* The requests a new leader presents are real: each node in the proof of a
\* new-view request has itself sent a request for exactly that view, so the
\* signatures that createViewChangeBlock puts in the block verify.
ProofsAreRequests ==
    \A p \in newViews : \A n \in p.proof : [from |-> n, view |-> p.view] \in msgs

\* A change of leader is backed by a threshold of nodes that asked for it
\* while the replaced block was the latest one.
ViewBlockJustified ==
    \A b \in 1..Len(chain) : \A p \in chain[b].newView :
        /\ p.view.block = b - 1
        /\ Cardinality({r.from : r \in {q \in msgs : q.view = p.view}}) >= Threshold

\* The controller only collects requests for the latest block: once a block
\* has been applied and its Done handled, the logs hold nothing of an earlier
\* view-change. "View-change should not happen for blocks that are not the
\* latest" (handleViewChangeReq, line 295). A stale request would make the
\* controller ignore all others with its leader index (stateLog.add).
LogsForLatest ==
    \A n \in Node, i \in Idx :
        meta[n][i].received # {} /\ doneChan[n] = {} => meta[n][i].curr.block = known[n]

\* A dead leader is replaced: some view-change block is created.
LeaderReplaced == (LeaderOf(Len(chain)) \in Dead) ~> (LeaderOf(Len(chain)) \notin Dead)

\* A controller in startedTimerState has its timer running, so that it moves on
\* if the new leader fails as well (Controller.Start, lines 181-183). The one
\* exception: while it has a request for a later view that it did not follow, any
\* further request stops the timer (line 168).
StartedTimerRuns ==
    \A n \in Node :
        /\ Waiting(n)
        /\ \A i \in Idx : i > ctr[n] => meta[n][i].received = {}
        => timer[n]
=============================================================================
