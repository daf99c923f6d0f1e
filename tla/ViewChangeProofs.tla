-------------------------- MODULE ViewChangeProofs --------------------------
(***************************************************************************)
(* What the view-change guarantees for every size of the roster and every   *)
(* set of dead nodes: types, that stateLog.nextState never panics, and that *)
(* a change of leader is backed by a threshold of requests for that block.  *)
(***************************************************************************)
EXTENDS ViewChange, NatLemmas

Log == [curr : View \union {NoView}, received : SUBSET Node, state : 0..3, accept : BOOLEAN]

\* A log of node n, when S are the requests sent. What the log has collected
\* are requests their senders sent, n's own excepted, which is added before it
\* is sent; the log is accepted only once n's own has been sent as well.
LogOK(log, n, S) ==
    /\ log.state \in 0..startedTimerState
    /\ \A k \in log.received : k = n \/ [from |-> k, view |-> log.curr] \in S
    /\ log.received # {} => log.curr \in View
    /\ log.accept => log.received # {} /\ [from |-> n, view |-> log.curr] \in S

LogsOK(m, n, S) == \A i \in Idx : LogOK(m[i], n, S)

TimerHasView == \A n \in Node : timer[n] => ctr[n] \in Idx

HeldSent == \A h \in held : h[2].from = h[1] \/ h[2] \in msgs

BlocksFromNewViews ==
    \A b \in 1..Len(chain) : \A p \in chain[b].newView :
        p \in newViews /\ p.view.block = b - 1 /\ Cardinality(p.proof) >= Threshold

\* The inductive invariant.
IInv ==
    /\ TypeOK
    /\ \A n \in Node : LogsOK(meta[n], n, msgs)
    /\ TimerHasView
    /\ HeldSent
    /\ ProofsAreRequests
    /\ BlocksFromNewViews

-----------------------------------------------------------------------------
(* The operations of a controller on its logs.                             *)

\* Empty logs are well-formed.
LEMMA NewLogsOK ==
    ASSUME NEW n \in Node, NEW S
    PROVE  newStateLogs \in [Idx -> Log] /\ LogsOK(newStateLogs, n, S)
BY DEF newStateLogs, newStateLog, Log, LogsOK, LogOK, initialState, startedTimerState

\* Logs stay well-formed when more requests have been sent.
LEMMA MoreSentOK ==
    ASSUME NEW m, NEW n, NEW S, NEW T, S \subseteq T, LogsOK(m, n, S)
    PROVE  LogsOK(m, n, T)
BY DEF LogsOK, LogOK

\* stateLogs.add keeps the logs well-formed, and its log is not empty.
LEMMA AddOK ==
    ASSUME NEW n \in Node, NEW S, NEW m \in [Idx -> Log], LogsOK(m, n, S),
           NEW r \in InitReq, r.from = n \/ r \in S
    PROVE  /\ Add(m, r) \in [Idx -> Log]
           /\ LogsOK(Add(m, r), n, S)
           /\ Add(m, r)[r.view.idx].received # {}
<1> DEFINE i == r.view.idx
<1>1. i \in Idx /\ r.view \in View /\ r.from \in Node /\ r = [from |-> r.from, view |-> r.view]
  BY DEF InitReq, View
<1>2. CASE m[i].received = {} \/ m[i].curr = r.view
  <2>1. Add(m, r) = [m EXCEPT ![i] = [m[i] EXCEPT !.curr = r.view, !.received = m[i].received \union {r.from}]]
    BY <1>1, <1>2 DEF Add, Log
  <2>2. Add(m, r)[i] = [m[i] EXCEPT !.curr = r.view, !.received = m[i].received \union {r.from}]
    BY <2>1, <1>1
  <2> HIDE DEF i
  <2>3. m[i] \in Log /\ LogOK(m[i], n, S)
    BY <1>1 DEF LogsOK
  <2>4. Add(m, r)[i] \in Log
    <3>1. Add(m, r)[i] = [curr |-> r.view, received |-> m[i].received \union {r.from},
                          state |-> m[i].state, accept |-> m[i].accept]
      BY <2>2, <2>3 DEF Log
    <3> QED  BY <3>1, <2>3, <1>1 DEF Log
  <2>5. Add(m, r)[i].received # {} /\ LogOK(Add(m, r)[i], n, S)
    BY <2>2, <2>3, <1>1, <1>2 DEF LogOK, Log
  <2> QED  BY <2>1, <2>4, <2>5, <1>1 DEF LogsOK, i
<1>3. CASE ~(m[i].received = {} \/ m[i].curr = r.view)
  BY <1>1, <1>3 DEF Add
<1> QED  BY <1>2, <1>3

\* processAnomaly on a log that is not empty, whether or not sending succeeds.
LEMMA ProcessAnomalyOK ==
    ASSUME NEW n \in Node, NEW S, NEW m \in [Idx -> Log], LogsOK(m, n, S),
           NEW c \in 0..MaxIdx, NEW i \in Idx, m[i].received # {}, NEW ok \in BOOLEAN
    PROVE  LET s == ProcessAnomaly(m, c, i, ok)
               T == S \union {[from |-> n, view |-> v] : v \in s.sent}
           IN  /\ s.ctr \in 0..MaxIdx
               /\ c \in Idx => s.ctr \in Idx
               /\ s.meta \in [Idx -> Log]
               /\ s.sent \subseteq View
               /\ LogsOK(s.meta, n, T)
<1> DEFINE s == ProcessAnomaly(m, c, i, ok)
           T == S \union {[from |-> n, view |-> v] : v \in s.sent}
<1>0. MaxIdx \in Nat  BY ViewChangeAssumption
<1>1. s.ctr \in 0..MaxIdx /\ (c \in Idx => s.ctr \in Idx)
  BY <1>0 DEF ProcessAnomaly, Idx
<1>2. CASE Sends(m, c, i) /\ ok
  <2>1. s.meta = [m EXCEPT ![i] = [m[i] EXCEPT !.state = m[i].state + 1, !.accept = TRUE]] /\ s.sent = {m[i].curr}
    BY <1>2 DEF ProcessAnomaly
  <2>2. s.meta[i] = [m[i] EXCEPT !.state = m[i].state + 1, !.accept = TRUE]
    BY <2>1
  <2>3. m[i] \in Log /\ LogOK(m[i], n, S) /\ m[i].state < 1
    BY <1>2 DEF LogsOK, Sends, sentReqState
  <2>4. s.meta[i] \in Log
    <3> HIDE DEF s
    <3>1. s.meta[i] = [curr |-> m[i].curr, received |-> m[i].received,
                       state |-> m[i].state + 1, accept |-> TRUE]
      BY <2>2, <2>3 DEF Log
    <3>2. m[i].state + 1 \in 0..3
      BY <2>3 DEF Log
    <3> QED  BY <3>1, <3>2, <2>3 DEF Log
  <2>5. [from |-> n, view |-> m[i].curr] \in T /\ m[i].curr \in View
    BY <2>1, <2>3 DEF LogOK
  <2>6. LogOK(s.meta[i], n, T)
    BY <2>2, <2>3, <2>5 DEF LogOK, Log, startedTimerState
  <2>7. LogsOK(m, n, T)
    BY MoreSentOK
  <2>8. \A j \in Idx : j # i => s.meta[j] = m[j]
    BY <2>1
  <2> HIDE DEF s, T
  <2>9. LogsOK(s.meta, n, T)
    BY <2>6, <2>7, <2>8 DEF LogsOK
  <2>10. s.meta \in [Idx -> Log]
    BY <2>1, <2>2, <2>4
  <2> QED  BY <1>1, <2>1, <2>5, <2>9, <2>10 DEF s, T
<1>3. CASE ~(Sends(m, c, i) /\ ok)
  <2>1. s.meta = m /\ s.sent = {}
    BY <1>3 DEF ProcessAnomaly
  <2>2. LogsOK(m, n, T)
    BY MoreSentOK
  <2> QED  BY <1>1, <2>1, <2>2
<1> QED  BY <1>2, <1>3

\* Starting the timer moves a log below startedTimerState, and all that it
\* holds has been sent.
LEMMA StartsTimerOK ==
    ASSUME NEW n \in Node, NEW S, NEW m \in [Idx -> Log], LogsOK(m, n, S),
           NEW c \in 0..MaxIdx, StartsTimer(m, c)
    PROVE  /\ c \in Idx
           /\ NextStateFor(m, c) \in [Idx -> Log]
           /\ LogsOK(NextStateFor(m, c), n, S)
           /\ m[c].curr \in View
           /\ m[c].received \subseteq Node
           /\ \A k \in m[c].received : [from |-> k, view |-> m[c].curr] \in S
<1>1. c \in Idx
  BY ViewChangeAssumption DEF StartsTimer, Idx
<1>2. m[c] \in Log /\ LogOK(m[c], n, S) /\ m[c].state < 2 /\ m[c].accept
  BY <1>1 DEF LogsOK, StartsTimer, startedTimerState
<1>3. NextStateFor(m, c) = [m EXCEPT ![c] = [m[c] EXCEPT !.state = m[c].state + 1]]
  BY DEF NextStateFor
<1>4. NextStateFor(m, c)[c] = [m[c] EXCEPT !.state = m[c].state + 1]
  BY <1>1, <1>3
<1>5. NextStateFor(m, c)[c] \in Log /\ LogOK(NextStateFor(m, c)[c], n, S)
  BY <1>2, <1>4 DEF Log, LogOK, startedTimerState
<1>6. NextStateFor(m, c) \in [Idx -> Log] /\ LogsOK(NextStateFor(m, c), n, S)
  BY <1>1, <1>3, <1>5 DEF LogsOK
<1> QED  BY <1>1, <1>2, <1>6 DEF LogOK, Log

\* stateLogs.clean leaves empty logs, which are well-formed.
LEMMA CleanOK ==
    ASSUME NEW n \in Node, NEW S, NEW m \in [Idx -> Log], LogsOK(m, n, S), NEW i
    PROVE  Clean(m, i) \in [Idx -> Log] /\ LogsOK(Clean(m, i), n, S)
<1>1. newStateLog \in Log /\ LogOK(newStateLog, n, S)
  BY DEF newStateLog, Log, LogOK, initialState, startedTimerState
<1> QED  BY <1>1 DEF Clean, LogsOK

-----------------------------------------------------------------------------
(* The steps of the specification.                                         *)

\* One node replaces its logs, possibly after sending requests.
LEMMA OneNodeOK ==
    ASSUME IInv, NEW n \in Node, NEW m \in [Idx -> Log], LogsOK(m, n, msgs'),
           msgs \subseteq msgs', meta' = [meta EXCEPT ![n] = m]
    PROVE  /\ meta' \in [Node -> [Idx -> Log]]
           /\ \A k \in Node : LogsOK(meta'[k], k, msgs')
<1>1. meta \in [Node -> [Idx -> Log]]
  BY DEF IInv, TypeOK, Log
<1>2. \A k \in Node : LogsOK(meta[k], k, msgs')
  BY MoreSentOK DEF IInv
<1> QED  BY <1>1, <1>2

\* The properties of the chain and of the new views only need that requests
\* stay sent, and that new-view requests stay and are new only with a proof.
LEMMA NewViewsOK ==
    ASSUME IInv, msgs \subseteq msgs', UNCHANGED chain,
           newViews \subseteq newViews',
           \A p \in newViews' \ newViews :
                /\ p \in [view : View, proof : SUBSET Node]
                /\ \A k \in p.proof : [from |-> k, view |-> p.view] \in msgs'
    PROVE  /\ newViews' \subseteq [view : View, proof : SUBSET Node]
           /\ ProofsAreRequests'
           /\ BlocksFromNewViews'
<1>1. newViews' \subseteq [view : View, proof : SUBSET Node]
  BY DEF IInv, TypeOK
<1>2. ProofsAreRequests'
  BY DEF IInv, ProofsAreRequests
<1>3. BlocksFromNewViews'
  BY DEF IInv, BlocksFromNewViews
<1> QED  BY <1>1, <1>2, <1>3

\* The controller of node n receives a request that was sent, or n's own.
LEMMA ControllerReqOK ==
    ASSUME IInv, NEW n \in Node, NEW r \in InitReq, NEW ok \in BOOLEAN,
           r.from = n \/ r \in msgs,
           ControllerReq(n, r, ok), held' \subseteq held
    PROVE  IInv'
<1> DEFINE own    == r.from = n
           m      == Add(meta[n], r)
           follow == ~own /\ Highest(m) > ctr[n] /\ ctr[n] > 0
           pa     == ProcessAnomaly(m, ctr[n], r.view.idx, ok)
           s      == IF own \/ follow THEN pa
                     ELSE [ctr |-> ctr[n], meta |-> m, sent |-> {}]
           starts == StartsTimer(s.meta, s.ctr)
           m2     == IF starts THEN NextStateFor(s.meta, s.ctr) ELSE s.meta
<1>1. /\ meta \in [Node -> [Idx -> Log]]
      /\ ctr \in [Node -> 0..MaxIdx]
      /\ timer \in [Node -> BOOLEAN]
      /\ msgs \subseteq InitReq
      /\ LogsOK(meta[n], n, msgs)
  BY DEF IInv, TypeOK, Log
<1>2. /\ msgs' = msgs \union {[from |-> n, view |-> v] : v \in s.sent}
      /\ ctr' = [ctr EXCEPT ![n] = s.ctr]
      /\ meta' = [meta EXCEPT ![n] = m2]
      /\ timer' = [timer EXCEPT ![n] = IF starts THEN TRUE ELSE @ /\ ~follow]
      /\ starts => newViews' = IF NewLeader(s.meta[s.ctr].curr) = n
                     THEN newViews \union {[view |-> s.meta[s.ctr].curr, proof |-> s.meta[s.ctr].received]}
                     ELSE newViews
      /\ ~starts => UNCHANGED newViews
      /\ UNCHANGED <<chain, known, doneChan, restarts>>
  BY DEF ControllerReq, Send, SendNewView
<1>3. /\ m \in [Idx -> Log]
      /\ LogsOK(m, n, msgs)
      /\ m[r.view.idx].received # {}
  BY <1>1, AddOK
<1>4. r.view.idx \in Idx
  BY DEF InitReq, View
<1>5. /\ s.ctr \in 0..MaxIdx
      /\ ctr[n] \in Idx => s.ctr \in Idx
      /\ s.meta \in [Idx -> Log]
      /\ s.sent \subseteq View
      /\ LogsOK(s.meta, n, msgs')
  <2>1. CASE own \/ follow
    <3>1. s = pa  BY <2>1
    <3>2. ctr[n] \in 0..MaxIdx  BY <1>1
    <3> HIDE DEF own, m, follow
    <3> QED  BY <3>1, <3>2, <1>2, <1>3, <1>4, ProcessAnomalyOK
  <2>2. CASE ~(own \/ follow)
    <3>1. s.ctr = ctr[n] /\ s.meta = m /\ s.sent = {}  BY <2>2
    <3> HIDE DEF own, m, follow, s
    <3>2. msgs' = msgs  BY <3>1, <1>2
    <3> QED  BY <3>1, <3>2, <1>1, <1>3
  <2> QED  BY <2>1, <2>2
<1> HIDE DEF own, m, follow, pa, s
<1>6. msgs \subseteq msgs' /\ msgs' \subseteq InitReq
  BY <1>1, <1>2, <1>5 DEF InitReq
<1>7. starts => /\ s.ctr \in Idx
                /\ NextStateFor(s.meta, s.ctr) \in [Idx -> Log]
                /\ LogsOK(NextStateFor(s.meta, s.ctr), n, msgs')
                /\ s.meta[s.ctr].curr \in View
                /\ s.meta[s.ctr].received \subseteq Node
                /\ \A k \in s.meta[s.ctr].received :
                      [from |-> k, view |-> s.meta[s.ctr].curr] \in msgs'
  BY <1>5, StartsTimerOK
<1>8. m2 \in [Idx -> Log] /\ LogsOK(m2, n, msgs')
  BY <1>5, <1>7
<1>9. /\ newViews' \subseteq [view : View, proof : SUBSET Node]
      /\ ProofsAreRequests'
      /\ BlocksFromNewViews'
  <2> DEFINE p == [view |-> s.meta[s.ctr].curr, proof |-> s.meta[s.ctr].received]
  <2>1. CASE starts /\ newViews' = newViews \union {p}
    <3>1. p \in [view : View, proof : SUBSET Node]
      BY <2>1, <1>7
    <3>2. \A k \in p.proof : [from |-> k, view |-> p.view] \in msgs'
      BY <2>1, <1>7
    <3> HIDE DEF p
    <3> QED  BY <2>1, <3>1, <3>2, <1>2, <1>6, NewViewsOK
  <2>2. CASE newViews' = newViews
    BY <2>2, <1>2, <1>6, NewViewsOK
  <2> QED  BY <2>1, <2>2, <1>2
<1> HIDE DEF m2, starts
<1>10. meta' \in [Node -> [Idx -> Log]] /\ \A k \in Node : LogsOK(meta'[k], k, msgs')
  BY <1>2, <1>6, <1>8, OneNodeOK
<1>11. ctr' \in [Node -> 0..MaxIdx] /\ timer' \in [Node -> BOOLEAN]
  BY <1>1, <1>2, <1>5
<1>12. TimerHasView'
  <2> SUFFICES ASSUME NEW k \in Node, timer'[k]  PROVE ctr'[k] \in Idx
    BY DEF TimerHasView
  <2>1. CASE k = n
    <3>1. starts \/ timer[n]  BY <2>1, <1>1, <1>2
    <3>2. timer[n] => ctr[n] \in Idx  BY DEF IInv, TimerHasView
    <3> QED  BY <2>1, <3>1, <3>2, <1>1, <1>2, <1>5, <1>7
  <2>2. CASE k # n
    BY <2>2, <1>1, <1>2 DEF IInv, TimerHasView
  <2> QED  BY <2>1, <2>2
<1>13. HeldSent' /\ held' \subseteq Node \X InitReq
  BY <1>6 DEF IInv, HeldSent, TypeOK
<1>14. TypeOK'
  BY <1>2, <1>6, <1>9, <1>10, <1>11, <1>13 DEF IInv, TypeOK, Log
<1> QED  BY <1>9, <1>10, <1>12, <1>13, <1>14 DEF IInv

\* The timer of node n expires.
LEMMA ControllerTimeoutOK ==
    ASSUME IInv, NEW n \in Node, NEW ok \in BOOLEAN, ControllerTimeout(n, ok)
    PROVE  IInv'
<1> DEFINE i == ctr[n] + 1
           r == [from |-> n, view |-> [block |-> meta[n][ctr[n]].curr.block, idx |-> i]]
           m == Add(meta[n], r)
           s == ProcessAnomaly(m, ctr[n], i, ok)
<1>1. /\ meta \in [Node -> [Idx -> Log]]
      /\ ctr \in [Node -> 0..MaxIdx]
      /\ timer \in [Node -> BOOLEAN]
      /\ msgs \subseteq InitReq
      /\ LogsOK(meta[n], n, msgs)
  BY DEF IInv, TypeOK, Log
<1>2. /\ timer[n]
      /\ i \in Idx
      /\ msgs' = msgs \union {[from |-> n, view |-> v] : v \in s.sent}
      /\ ctr' = [ctr EXCEPT ![n] = s.ctr]
      /\ meta' = [meta EXCEPT ![n] = Clean(s.meta, s.ctr)]
      /\ timer' = [timer EXCEPT ![n] = FALSE]
      /\ UNCHANGED <<chain, known, held, doneChan, newViews>>
  BY DEF ControllerTimeout, Send
<1>3. r \in InitReq /\ r.from = n /\ r.view.idx = i
  <2>1. ctr[n] \in Idx
    BY <1>2 DEF IInv, TimerHasView
  <2>2. meta[n][ctr[n]] \in Log
    BY <1>1, <2>1
  <2>3. meta[n][ctr[n]].curr.block \in 0..MaxBlocks
    BY <2>2, ViewChangeAssumption DEF Log, View, NoView
  <2> QED  BY <1>2, <2>3 DEF InitReq, View
<1> HIDE DEF r
<1>4. /\ m \in [Idx -> Log]
      /\ LogsOK(m, n, msgs)
      /\ m[i].received # {}
  BY <1>1, <1>3, AddOK
<1> HIDE DEF m
<1>5. /\ s.ctr \in 0..MaxIdx
      /\ s.meta \in [Idx -> Log]
      /\ s.sent \subseteq View
      /\ LogsOK(s.meta, n, msgs')
  <2>1. ctr[n] \in 0..MaxIdx  BY <1>1
  <2> QED  BY <2>1, <1>2, <1>4, ProcessAnomalyOK
<1> HIDE DEF s, i
<1>6. msgs \subseteq msgs' /\ msgs' \subseteq InitReq
  BY <1>1, <1>2, <1>5 DEF InitReq
<1>7. Clean(s.meta, s.ctr) \in [Idx -> Log] /\ LogsOK(Clean(s.meta, s.ctr), n, msgs')
  BY <1>5, CleanOK
<1>8. meta' \in [Node -> [Idx -> Log]] /\ \A k \in Node : LogsOK(meta'[k], k, msgs')
  BY <1>2, <1>6, <1>7, OneNodeOK
<1>9. ProofsAreRequests' /\ BlocksFromNewViews'
  BY <1>2, <1>6, NewViewsOK
<1>10. ctr' \in [Node -> 0..MaxIdx] /\ timer' \in [Node -> BOOLEAN]
  BY <1>1, <1>2, <1>5
<1>11. TimerHasView'
  BY <1>1, <1>2 DEF IInv, TimerHasView
<1>12. HeldSent'
  BY <1>2, <1>6 DEF IInv, HeldSent
<1>13. TypeOK'
  BY <1>2, <1>6, <1>8, <1>10 DEF IInv, TypeOK, Log
<1> QED  BY <1>8, <1>9, <1>11, <1>12, <1>13 DEF IInv

\* The controller of node n starts again with empty logs.
LEMMA ResetOK ==
    ASSUME IInv, NEW n \in Node, UNCHANGED <<msgs, newViews, chain>>,
           \/ /\ meta' = [meta EXCEPT ![n] = newStateLogs]
              /\ ctr' = [ctr EXCEPT ![n] = 0]
              /\ timer' = [timer EXCEPT ![n] = FALSE]
           \/ UNCHANGED ctrlVars,
           held' \subseteq held,
           known' \in [Node -> 0..MaxBlocks],
           doneChan' \in [Node -> SUBSET (1..MaxBlocks)]
    PROVE  IInv'
<1>1. /\ meta' \in [Node -> [Idx -> Log]]
      /\ \A k \in Node : LogsOK(meta'[k], k, msgs')
  <2>1. CASE UNCHANGED ctrlVars
    BY <2>1 DEF IInv, TypeOK, Log, ctrlVars
  <2>2. CASE meta' = [meta EXCEPT ![n] = newStateLogs]
    BY <2>2, NewLogsOK, OneNodeOK
  <2> QED  BY <2>1, <2>2
<1>2. /\ ctr' \in [Node -> 0..MaxIdx]
      /\ timer' \in [Node -> BOOLEAN]
      /\ TimerHasView'
  <2>1. ctr \in [Node -> 0..MaxIdx] /\ timer \in [Node -> BOOLEAN] /\ 0 \in 0..MaxIdx
    BY ViewChangeAssumption DEF IInv, TypeOK
  <2>2. CASE UNCHANGED ctrlVars
    BY <2>1, <2>2 DEF IInv, TimerHasView, ctrlVars
  <2>3. CASE ctr' = [ctr EXCEPT ![n] = 0] /\ timer' = [timer EXCEPT ![n] = FALSE]
    BY <2>1, <2>3 DEF IInv, TimerHasView
  <2> QED  BY <2>2, <2>3
<1>3. ProofsAreRequests' /\ BlocksFromNewViews'
  BY NewViewsOK
<1>4. HeldSent' /\ held' \subseteq Node \X InitReq
  BY DEF IInv, HeldSent, TypeOK
<1>5. TypeOK'
  BY <1>1, <1>2, <1>4 DEF IInv, TypeOK, Log
<1> QED  BY <1>1, <1>2, <1>3, <1>4, <1>5 DEF IInv

\* A block is appended; a view-change block comes from a new-view request that
\* has been verified.
LEMMA AppendOK ==
    ASSUME IInv, NEW l \in Node, NEW V \in SUBSET newViews,
           \A p \in V : p.view.block = Len(chain) /\ Cardinality(p.proof) >= Threshold,
           Len(chain) < MaxBlocks,
           chain' = Append(chain, [leader |-> l, newView |-> V]),
           UNCHANGED <<known, msgs, held, doneChan, ctrlVars, newViews>>
    PROVE  IInv'
<1> DEFINE Block == [leader : Node, newView : SUBSET [view : View, proof : SUBSET Node]]
           B == [leader |-> l, newView |-> V]
<1>1. chain \in Seq(Block) /\ newViews \subseteq [view : View, proof : SUBSET Node]
  BY DEF IInv, TypeOK
<1>2. B \in Block
  BY <1>1
<1>3. /\ chain' \in Seq(Block)
      /\ Len(chain') = Len(chain) + 1
      /\ \A b \in 1..Len(chain) : chain'[b] = chain[b]
      /\ chain'[Len(chain) + 1] = B
  <2> HIDE DEF Block
  <2>1. chain' = Append(chain, B)  OBVIOUS
  <2> HIDE DEF B
  <2> QED  BY <1>1, <1>2, <2>1
<1>4. BlocksFromNewViews'
  <2> SUFFICES ASSUME NEW b \in 1..Len(chain'), NEW p \in chain'[b].newView
               PROVE  p \in newViews /\ p.view.block = b - 1 /\ Cardinality(p.proof) >= Threshold
    BY DEF BlocksFromNewViews, Threshold
  <2>0. Len(chain) \in Nat  BY <1>1
  <2>1. CASE b \in 1..Len(chain)
    BY <2>1, <1>3 DEF IInv, BlocksFromNewViews
  <2>2. CASE b = Len(chain) + 1
    <3>1. p \in V  BY <2>2, <1>3
    <3>2. b - 1 = Len(chain)  BY <2>0, <2>2
    <3> QED  BY <3>1, <3>2
  <2> QED  BY <2>0, <2>1, <2>2, <1>3
<1>5. TypeOK'
  <2>1. Len(chain') <= MaxBlocks
    BY <1>1, <1>3, ViewChangeAssumption
  <2>2. chain' \in Seq([leader : Node, newView : SUBSET [view : View, proof : SUBSET Node]])
    BY <1>3
  <2> QED  BY <2>1, <2>2 DEF IInv, TypeOK, ctrlVars
<1>6. /\ \A n \in Node : LogsOK(meta'[n], n, msgs')
      /\ TimerHasView'
      /\ HeldSent'
      /\ ProofsAreRequests'
  BY DEF IInv, TimerHasView, HeldSent, ProofsAreRequests, ctrlVars
<1> QED  BY <1>4, <1>5, <1>6 DEF IInv


-----------------------------------------------------------------------------
\* A controller starts with empty logs and no timer.
LEMMA InitIInv == Init => IInv
<1> SUFFICES ASSUME Init PROVE IInv
  OBVIOUS
<1>1. TypeOK
  <2>1. meta \in [Node -> [Idx -> Log]]
    BY DEF Init, newStateLogs, newStateLog, Log, initialState
  <2> QED  BY <2>1, ViewChangeAssumption DEF Init, TypeOK, Log
<1>2. \A n \in Node : LogsOK(meta[n], n, msgs)
  BY NewLogsOK DEF Init
<1>3. TimerHasView /\ HeldSent /\ ProofsAreRequests /\ BlocksFromNewViews
  BY DEF Init, TimerHasView, HeldSent, ProofsAreRequests, BlocksFromNewViews
<1> QED  BY <1>1, <1>2, <1>3 DEF IInv

\* A request the handler of node n accepts was sent, or is n's own.
LEMMA ValidSent ==
    ASSUME IInv, NEW n \in Node, NEW r, Valid(n, r)
    PROVE  r \in InitReq /\ (r.from = n \/ r \in msgs)
<1>1. known[n] \in 0..MaxBlocks /\ msgs \subseteq InitReq
  BY DEF IInv, TypeOK
<1>2. CASE r = OwnReq(n)
  <2>1. 1 \in Idx  BY ViewChangeAssumption DEF Idx
  <2> QED  BY <1>1, <1>2, <2>1 DEF OwnReq, InitReq, View
<1>3. CASE r \in msgs
  BY <1>1, <1>3
<1> QED  BY <1>2, <1>3 DEF Valid

\* Every step of a controller, a handler or a leader keeps the invariant.
LEMMA NextIInv ==
    ASSUME IInv, [Next]_vars
    PROVE  IInv'
<1>1. ASSUME NEW n \in Node, NEW r, HoldReq(n, r)  PROVE IInv'
  <2>1. r \in InitReq /\ (r.from = n \/ r \in msgs)
    BY <1>1, ValidSent DEF HoldReq
  <2>2. held' = held \union {<<n, r>>}
    BY <1>1 DEF HoldReq
  <2>3. HeldSent' /\ held' \subseteq Node \X InitReq
    BY <1>1, <2>1, <2>2 DEF HoldReq, IInv, HeldSent, TypeOK
  <2>4. UNCHANGED <<chain, known, msgs, doneChan, meta, ctr, timer, newViews>>
    BY <1>1 DEF HoldReq, ctrlVars
  <2>5. TypeOK'
    BY <2>3, <2>4 DEF IInv, TypeOK
  <2>6. /\ \A k \in Node : LogsOK(meta'[k], k, msgs')
        /\ TimerHasView' /\ ProofsAreRequests' /\ BlocksFromNewViews'
    BY <2>4 DEF IInv, TimerHasView, ProofsAreRequests, BlocksFromNewViews
  <2> QED  BY <2>3, <2>5, <2>6 DEF IInv
<1>2. ASSUME NEW n \in Node, NEW r, NEW ok \in BOOLEAN, HandleReq(n, r, ok)  PROVE IInv'
  <2>1. r \in InitReq /\ (r.from = n \/ r \in msgs)
    BY <1>2, ValidSent DEF HandleReq
  <2>2. ControllerReq(n, r, ok) /\ held' \subseteq held
    BY <1>2 DEF HandleReq
  <2> QED  BY <2>1, <2>2, ControllerReqOK
<1>3. ASSUME NEW h \in held, NEW ok \in BOOLEAN, HandleHeldReq(h[1], h[2], ok)  PROVE IInv'
  <2>1. h[1] \in Node /\ h[2] \in InitReq /\ (h[2].from = h[1] \/ h[2] \in msgs)
    BY DEF IInv, TypeOK, HeldSent
  <2>2. ControllerReq(h[1], h[2], ok) /\ held' \subseteq held
    BY <1>3 DEF HandleHeldReq
  <2> QED  BY <2>1, <2>2, ControllerReqOK
<1>4. ASSUME NEW n \in Node, ControllerDone(n)  PROVE IInv'
  <2>1. known' \in [Node -> 0..MaxBlocks] /\ doneChan' \in [Node -> SUBSET (1..MaxBlocks)]
    BY <1>4 DEF ControllerDone, IInv, TypeOK
  <2> QED  BY <1>4, <2>1, ResetOK DEF ControllerDone
<1>5. ASSUME NEW n \in Node, NEW ok \in BOOLEAN, ControllerTimeout(n, ok)  PROVE IInv'
  BY <1>5, ControllerTimeoutOK
<1>6. ASSUME NEW n \in Node, UpdateTrie(n)  PROVE IInv'
  <2> DEFINE b == known[n] + 1
  <2>1. b \in 1..MaxBlocks
    <3>1. known[n] \in 0..MaxBlocks /\ Len(chain) <= MaxBlocks /\ Len(chain) \in Nat
      BY DEF IInv, TypeOK
    <3> QED  BY <1>6, <3>1, ViewChangeAssumption DEF UpdateTrie
  <2>2. known' \in [Node -> 0..MaxBlocks]
    BY <1>6, <2>1, ViewChangeAssumption DEF UpdateTrie, IInv, TypeOK
  <2>3. doneChan' \in [Node -> SUBSET (1..MaxBlocks)]
    <3>1. doneChan \in [Node -> SUBSET (1..MaxBlocks)]  BY DEF IInv, TypeOK
    <3>2. doneChan' = [doneChan EXCEPT ![n] = {b}] \/ doneChan' = [doneChan EXCEPT ![n] = {}]
      BY <1>6 DEF UpdateTrie
    <3> QED  BY <2>1, <3>1, <3>2
  <2> QED  BY <1>6, <2>2, <2>3, ResetOK DEF UpdateTrie
<1>7. ASSUME NEW n \in Node, Restart(n)  PROVE IInv'
  <2>1. known' \in [Node -> 0..MaxBlocks] /\ doneChan' \in [Node -> SUBSET (1..MaxBlocks)]
    BY <1>7 DEF Restart, IInv, TypeOK
  <2> QED  BY <1>7, <2>1, ResetOK DEF Restart
<1>8. ASSUME NEW p \in newViews, CreateViewChangeBlock(p)  PROVE IInv'
  <2>1. NewLeader(p.view) \in Node
    BY <1>8 DEF CreateViewChangeBlock, UpToDate, Live
  <2>2. p.view.block = Len(chain) /\ Cardinality(p.proof) >= Threshold
    BY <1>8 DEF CreateViewChangeBlock, Verify
  <2> QED  BY <1>8, <2>1, <2>2, AppendOK DEF CreateViewChangeBlock
<1>9. ASSUME CreateNormalBlock  PROVE IInv'
  <2>1. LeaderOf(Len(chain)) \in Node
    BY <1>9 DEF CreateNormalBlock, UpToDate, Live
  <2> QED  BY <1>9, <2>1, AppendOK DEF CreateNormalBlock
<1>10. ASSUME UNCHANGED vars  PROVE IInv'
  <2>1. UNCHANGED <<chain, known, msgs, held, doneChan, meta, ctr, timer, newViews>>
    BY <1>10 DEF vars, ctrlVars
  <2> QED  BY <2>1 DEF IInv, TypeOK, TimerHasView, HeldSent, ProofsAreRequests, BlocksFromNewViews
<1> QED
  BY <1>1, <1>2, <1>3, <1>4, <1>5, <1>6, <1>7, <1>8, <1>9, <1>10 DEF Next

\* The invariant that the theorems below follow from: logs, timers, held
\* requests and blocks go back to requests that were sent.
THEOREM Inductive == Spec => []IInv
BY InitIInv, NextIInv, PTL DEF Spec

\* Types: the messages, logs and blocks of the view-change keep the shape the
\* handlers of viewchange.go rely on, whatever the order of their steps.
THEOREM TypeCorrect == Spec => []TypeOK
<1>1. IInv => TypeOK  BY DEF IInv
<1> QED  BY <1>1, Inductive, PTL

\* The panic of stateLog.nextState cannot be reached.
THEOREM NoPanicEver == Spec => []NoPanic
<1>1. ASSUME IInv PROVE NoPanic
  <2> SUFFICES ASSUME NEW n \in Node, NEW i \in Idx
               PROVE  meta[n][i].state <= startedTimerState
    BY DEF NoPanic
  <2>1. meta[n][i].state \in 0..startedTimerState
    BY <1>1 DEF IInv, LogsOK, LogOK
  <2> QED  BY <2>1 DEF startedTimerState
<1> QED  BY <1>1, Inductive, PTL

\* The proof in a new-view request consists of requests that were sent: the
\* signatures verify on every node.
THEOREM ProofsAlwaysRequests == Spec => []ProofsAreRequests
<1>1. IInv => ProofsAreRequests  BY DEF IInv
<1> QED  BY <1>1, Inductive, PTL

\* A change of leader replaces the latest block's leader, and a threshold of
\* nodes, which more than two thirds of the roster are, has asked for it.
THEOREM LeaderChangeJustified == Spec => []ViewBlockJustified
<1>1. ASSUME IInv PROVE ViewBlockJustified
  <2> SUFFICES ASSUME NEW b \in 1..Len(chain), NEW p \in chain[b].newView
               PROVE  /\ p.view.block = b - 1
                      /\ Cardinality({r.from : r \in {q \in msgs : q.view = p.view}}) >= Threshold
    BY DEF ViewBlockJustified
  <2> DEFINE A == {r.from : r \in {q \in msgs : q.view = p.view}}
  <2>1. p \in newViews /\ p.view.block = b - 1 /\ Cardinality(p.proof) >= Threshold
    BY <1>1 DEF IInv, BlocksFromNewViews
  <2>2. p.proof \subseteq A
    <3> SUFFICES ASSUME NEW k \in p.proof PROVE k \in A
      OBVIOUS
    <3>1. [from |-> k, view |-> p.view] \in msgs
      BY <1>1, <2>1 DEF IInv, ProofsAreRequests
    <3> QED  BY <3>1
  <2>3. A \subseteq Node
    BY <1>1 DEF IInv, TypeOK, InitReq
  <2>4. IsFiniteSet(Node)
    <3>1. 0 \in Int /\ N - 1 \in Int  BY ViewChangeAssumption
    <3> QED  BY <3>1, FS_Interval DEF Node
  <2> HIDE DEF A
  <2>5. IsFiniteSet(A)
    BY <2>3, <2>4, FS_Subset
  <2>6. Cardinality(p.proof) <= Cardinality(A) /\ Cardinality(A) \in Nat /\ Cardinality(p.proof) \in Nat
    BY <2>2, <2>5, FS_Subset, FS_CardinalityType
  <2>7. Cardinality(A) >= Threshold
    BY <2>1, <2>6, ViewChangeAssumption DEF Threshold
  <2> QED  BY <2>1, <2>7 DEF A
<1> QED  BY <1>1, Inductive, PTL

-----------------------------------------------------------------------------
(* What the operations of a controller leave alone.                        *)

\* Same view and requests.
SameReqs(a, b) == a.curr = b.curr /\ a.received = b.received

\* stateLogs.add: no state changes, what was received stays, and a log that gets
\* its first request is for the view of that request.
LEMMA AddKeeps ==
    ASSUME NEW m \in [Idx -> Log], NEW r \in InitReq, NEW j \in Idx
    PROVE  /\ Add(m, r)[j].state = m[j].state
           /\ m[j].received # {} => Add(m, r)[j].received # {}
           /\ Add(m, r)[j].received # {} =>
                \/ m[j].received # {} /\ Add(m, r)[j].curr = m[j].curr
                \/ Add(m, r)[j].curr = r.view
           /\ j # r.view.idx => Add(m, r)[j] = m[j]
<1> DEFINE i == r.view.idx
<1>1. i \in Idx /\ m[i] \in Log /\ m[j] \in Log
  BY DEF InitReq, View
<1>2. CASE m[i].received = {} \/ m[i].curr = r.view
  <2>1. Add(m, r) = [m EXCEPT ![i] = [m[i] EXCEPT !.curr = r.view, !.received = m[i].received \union {r.from}]]
    BY <1>1, <1>2 DEF Add, Log
  <2>2. CASE j = i
    <3>1. Add(m, r)[j] = [m[i] EXCEPT !.curr = r.view, !.received = m[i].received \union {r.from}]
      BY <2>1, <2>2, <1>1
    <3>2. Add(m, r)[j] = [curr |-> r.view, received |-> m[i].received \union {r.from},
                          state |-> m[i].state, accept |-> m[i].accept]
      BY <1>1, <3>1 DEF Log
    <3> QED  BY <2>2, <3>2
  <2>3. CASE j # i
    BY <2>1, <2>3
  <2> QED  BY <2>2, <2>3
<1>3. CASE ~(m[i].received = {} \/ m[i].curr = r.view)
  BY <1>1, <1>3 DEF Add
<1> QED  BY <1>2, <1>3

\* processAnomaly.
LEMMA ProcessAnomalyKeeps ==
    ASSUME NEW m \in [Idx -> Log], NEW c \in 0..MaxIdx, NEW i \in Idx, NEW ok \in BOOLEAN,
           NEW j \in Idx
    PROVE  LET s == ProcessAnomaly(m, c, i, ok)
           IN  /\ s.ctr = IF i > c THEN i ELSE c
               /\ SameReqs(s.meta[j], m[j])
               /\ \/ s.meta[j].state = m[j].state
                  \/ j = i /\ i > c /\ m[i].state < 1 /\ s.meta[j].state = m[i].state + 1
<1> DEFINE s == ProcessAnomaly(m, c, i, ok)
<1>1. s.ctr = IF i > c THEN i ELSE c
  BY DEF ProcessAnomaly
<1>2. CASE Sends(m, c, i) /\ ok
  <2>1. s.meta = [m EXCEPT ![i] = [m[i] EXCEPT !.state = m[i].state + 1, !.accept = TRUE]]
    BY <1>2 DEF ProcessAnomaly
  <2>2. CASE j = i
    <3>1. m[i] \in Log
      OBVIOUS
    <3>2. s.meta[j] = [m[i] EXCEPT !.state = m[i].state + 1, !.accept = TRUE]
      BY <2>1, <2>2
    <3>3. s.meta[j].state = m[i].state + 1 /\ SameReqs(s.meta[j], m[i])
      BY <3>1, <3>2 DEF Log, SameReqs
    <3> QED  BY <1>1, <1>2, <2>2, <3>3 DEF Sends, sentReqState
  <2>3. CASE j # i
    BY <1>1, <2>1, <2>3 DEF SameReqs
  <2> QED  BY <2>2, <2>3
<1>3. CASE ~(Sends(m, c, i) /\ ok)
  <2>1. s.meta = m
    BY <1>3 DEF ProcessAnomaly
  <2> QED  BY <1>1, <2>1 DEF SameReqs
<1> QED  BY <1>2, <1>3

\* stateLogs.nextStateFor.
LEMMA NextStateKeeps ==
    ASSUME NEW m \in [Idx -> Log], NEW c \in Idx, NEW j \in Idx
    PROVE  /\ SameReqs(NextStateFor(m, c)[j], m[j])
           /\ j # c => NextStateFor(m, c)[j] = m[j]
<1>1. NextStateFor(m, c) = [m EXCEPT ![c] = [m[c] EXCEPT !.state = m[c].state + 1]]
  BY DEF NextStateFor
<1>2. m[c] \in Log
  OBVIOUS
<1>3. SameReqs([m[c] EXCEPT !.state = m[c].state + 1], m[c])
  BY <1>2 DEF SameReqs, Log
<1> QED  BY <1>1, <1>3 DEF SameReqs

\* A request reaches the controller of node n: what it does to n's logs, counter
\* and timer. The other nodes are not concerned.
LEMMA ReqEffect ==
    ASSUME IInv, NEW n \in Node, NEW r \in InitReq, NEW ok \in BOOLEAN,
           r.from = n \/ r \in msgs, ControllerReq(n, r, ok)
    PROVE  LET A == Add(meta[n], r)
               i == r.view.idx
               follow == r.from # n /\ Highest(A) > ctr[n] /\ ctr[n] > 0
               c == IF (r.from = n \/ follow) /\ i > ctr[n] THEN i ELSE ctr[n]
           IN  /\ ctr'[n] = c
               /\ \A j \in Idx : SameReqs(meta'[n][j], A[j])
               /\ \A j \in Idx : j # c => meta'[n][j].state = meta[n][j].state
               /\ \/ timer'[n] /\ c \in Idx /\ A[c].received # {}
                  \/ /\ timer'[n] = (timer[n] /\ ~follow)
                     /\ c \in Idx => \/ meta'[n][c].state = meta[n][c].state
                                     \/ meta'[n][c].state \in 0..1
               /\ \A k \in Node : k # n => /\ meta'[k] = meta[k] /\ ctr'[k] = ctr[k]
                                           /\ timer'[k] = timer[k]
<1> DEFINE A      == Add(meta[n], r)
           i      == r.view.idx
           follow == r.from # n /\ Highest(A) > ctr[n] /\ ctr[n] > 0
           c      == IF (r.from = n \/ follow) /\ i > ctr[n] THEN i ELSE ctr[n]
           pa     == ProcessAnomaly(A, ctr[n], i, ok)
           s      == IF r.from = n \/ follow THEN pa
                     ELSE [ctr |-> ctr[n], meta |-> A, sent |-> {}]
           starts == StartsTimer(s.meta, s.ctr)
           m2     == IF starts THEN NextStateFor(s.meta, s.ctr) ELSE s.meta
           T      == msgs \union {[from |-> n, view |-> v] : v \in s.sent}
<1>1. /\ meta \in [Node -> [Idx -> Log]]
      /\ ctr \in [Node -> 0..MaxIdx]
      /\ timer \in [Node -> BOOLEAN]
      /\ LogsOK(meta[n], n, msgs)
  BY DEF IInv, TypeOK, Log
<1>2. /\ ctr' = [ctr EXCEPT ![n] = s.ctr]
      /\ meta' = [meta EXCEPT ![n] = m2]
      /\ timer' = [timer EXCEPT ![n] = IF starts THEN TRUE ELSE @ /\ ~follow]
  BY DEF ControllerReq
<1>3. i \in Idx /\ ctr[n] \in 0..MaxIdx /\ meta[n] \in [Idx -> Log]
  BY <1>1 DEF InitReq, View
<1>4. A \in [Idx -> Log] /\ LogsOK(A, n, msgs) /\ A[i].received # {}
  BY <1>1, AddOK
<1>5. \A j \in Idx : A[j].state = meta[n][j].state
  BY <1>3, AddKeeps
<1> HIDE DEF A, i
<1>6. /\ s.meta \in [Idx -> Log] /\ s.ctr \in 0..MaxIdx /\ LogsOK(s.meta, n, T)
      /\ s.ctr = c /\ \A j \in Idx : SameReqs(s.meta[j], A[j])
      /\ \A j \in Idx : \/ s.meta[j].state = A[j].state
                        \/ j = c /\ s.meta[j].state \in 0..1
  <2>1. CASE r.from = n \/ follow
    <3>1. s = pa
      BY <2>1
    <3>2. /\ pa.meta \in [Idx -> Log] /\ pa.ctr \in 0..MaxIdx
          /\ LogsOK(pa.meta, n, msgs \union {[from |-> n, view |-> v] : v \in pa.sent})
      BY <1>3, <1>4, ProcessAnomalyOK
    <3>3. pa.ctr = c
      <4>1. pa.ctr = IF i > ctr[n] THEN i ELSE ctr[n]
        BY <1>3, <1>4, ProcessAnomalyKeeps
      <4> HIDE DEF pa, follow
      <4> QED  BY <2>1, <4>1
    <3>4. ASSUME NEW j \in Idx
          PROVE  /\ SameReqs(pa.meta[j], A[j])
                 /\ pa.meta[j].state = A[j].state \/ (j = c /\ pa.meta[j].state \in 0..1)
      <4>1. /\ SameReqs(pa.meta[j], A[j])
            /\ \/ pa.meta[j].state = A[j].state
               \/ j = i /\ i > ctr[n] /\ A[i].state < 1 /\ pa.meta[j].state = A[i].state + 1
        BY <1>3, <1>4, ProcessAnomalyKeeps
      <4>2. A[i].state \in 0..3
        BY <1>3, <1>4 DEF Log
      <4> QED  BY <2>1, <4>1, <4>2
    <3> HIDE DEF pa, c
    <3> QED  BY <3>1, <3>2, <3>3, <3>4
  <2>2. CASE ~(r.from = n \/ follow)
    <3>1. s.ctr = ctr[n] /\ s.meta = A /\ s.sent = {} /\ c = ctr[n]
      BY <2>2
    <3> HIDE DEF s, c
    <3>2. T = msgs
      BY <3>1
    <3> QED  BY <1>3, <1>4, <3>1, <3>2 DEF SameReqs
  <2> QED  BY <2>1, <2>2
<1> HIDE DEF s, c, follow, pa
<1>7. ctr'[n] = c /\ meta'[n] = m2 /\ timer'[n] = IF starts THEN TRUE ELSE timer[n] /\ ~follow
  BY <1>1, <1>2, <1>6
<1>8. \A k \in Node : k # n => meta'[k] = meta[k] /\ ctr'[k] = ctr[k] /\ timer'[k] = timer[k]
  BY <1>1, <1>2
<1>9. CASE starts
  <2>1. c \in Idx /\ s.meta[c].received # {}
    <3>1. c \in Idx /\ s.meta[c].accept
      BY <1>6, <1>9, ViewChangeAssumption DEF StartsTimer, Idx
    <3> QED  BY <1>6, <3>1 DEF LogsOK, LogOK
  <2>2. A[c].received # {}
    BY <1>6, <2>1 DEF SameReqs
  <2>3. ASSUME NEW j \in Idx
        PROVE  SameReqs(m2[j], A[j]) /\ (j # c => m2[j].state = meta[n][j].state)
    <3>1. m2 = NextStateFor(s.meta, c) /\ s.meta \in [Idx -> Log]
      BY <1>6, <1>9
    <3>2. SameReqs(m2[j], s.meta[j]) /\ (j # c => m2[j] = s.meta[j])
      BY <2>1, <3>1, NextStateKeeps
    <3> QED  BY <1>5, <1>6, <3>2 DEF SameReqs
  <2>4. timer'[n]
    BY <1>7, <1>9
  <2> HIDE DEF m2, starts
  <2> QED  BY <1>7, <1>8, <2>1, <2>2, <2>3, <2>4 DEF A, i, c, follow
<1>10. CASE ~starts
  <2>1. m2 = s.meta /\ timer'[n] = (timer[n] /\ ~follow)
    BY <1>7, <1>10
  <2>2. \A j \in Idx : SameReqs(m2[j], A[j]) /\ (j # c => m2[j].state = meta[n][j].state)
    BY <1>5, <1>6, <2>1
  <2>3. c \in Idx => m2[c].state = meta[n][c].state \/ m2[c].state \in 0..1
    BY <1>5, <1>6, <2>1
  <2> HIDE DEF m2, starts
  <2> QED  BY <1>7, <1>8, <2>1, <2>2, <2>3 DEF A, i, c, follow
<1> QED  BY <1>9, <1>10

-----------------------------------------------------------------------------
(* The timer. A controller moves only the log of its counter, so that a log  *)
(* above it, to which it may move, is in its initial state.                  *)

Later(n) == \E i \in Idx : i > ctr[n] /\ meta[n][i].received # {}

TimerOK(n) ==
    /\ \A i \in Idx : i > ctr[n] => meta[n][i].state = initialState
    /\ Waiting(n) => timer[n] \/ Later(n)

TimerInv == \A n \in Node : TimerOK(n)

\* A controller with new logs.
LEMMA FreshTimer ==
    ASSUME NEW n \in Node, ctr[n] = 0, meta[n] = newStateLogs
    PROVE  TimerOK(n)
BY DEF TimerOK, Waiting, StateOf, newStateLogs, newStateLog, initialState, startedTimerState

\* The highest log is above the counter if and only if some log is.
LEMMA HighestAbove ==
    ASSUME NEW m, NEW c \in Nat, Highest(m) > c
    PROVE  \E i \in Idx : i > c /\ m[i].received # {}
<1> DEFINE P == {i \in Idx : m[i].received # {}}
<1>1. P # {}
  BY DEF Highest
<1>2. P \subseteq Nat /\ P # {} /\ MaxIdx \in Nat /\ \A x \in P : x <= MaxIdx
  BY <1>1, ViewChangeAssumption DEF Idx
<1>3. \E x \in P : \A y \in P : y <= x
  <2> HIDE DEF P
  <2> QED  BY <1>2, LargestNat
<1>4. Highest(m) \in P
  BY <1>1, <1>3 DEF Highest
<1> QED  BY <1>4

\* A request reaches a controller.
LEMMA ReqTimer ==
    ASSUME IInv, TimerInv, NEW n \in Node, NEW r \in InitReq, NEW ok \in BOOLEAN,
           r.from = n \/ r \in msgs, ControllerReq(n, r, ok)
    PROVE  TimerInv'
<1> DEFINE A == Add(meta[n], r)
           i == r.view.idx
           follow == r.from # n /\ Highest(A) > ctr[n] /\ ctr[n] > 0
           c == IF (r.from = n \/ follow) /\ i > ctr[n] THEN i ELSE ctr[n]
<1>1. /\ ctr'[n] = c
      /\ \A j \in Idx : SameReqs(meta'[n][j], A[j])
      /\ \A j \in Idx : j # c => meta'[n][j].state = meta[n][j].state
      /\ \/ timer'[n] /\ c \in Idx /\ A[c].received # {}
         \/ /\ timer'[n] = (timer[n] /\ ~follow)
            /\ c \in Idx => \/ meta'[n][c].state = meta[n][c].state
                            \/ meta'[n][c].state \in 0..1
      /\ \A k \in Node : k # n => /\ meta'[k] = meta[k] /\ ctr'[k] = ctr[k]
                                  /\ timer'[k] = timer[k]
  BY ReqEffect
<1>2. meta[n] \in [Idx -> Log] /\ ctr[n] \in 0..MaxIdx /\ i \in Idx /\ MaxIdx \in Nat
  BY ViewChangeAssumption DEF IInv, TypeOK, Log, InitReq, View
<1>3. \A j \in Idx : meta[n][j].received # {} => A[j].received # {}
  BY <1>2, AddKeeps
<1>4. c >= ctr[n] /\ c \in 0..MaxIdx
  BY <1>2 DEF Idx
<1> HIDE DEF A, i, c
<1>5. TimerOK(n)
  BY DEF TimerInv
<1>6. \A j \in Idx : j > c => meta'[n][j].state = initialState
  BY <1>1, <1>2, <1>4, <1>5 DEF TimerOK, Idx
<1>7. ASSUME Waiting(n)' PROVE timer'[n] \/ Later(n)'
  <2>1. c \in Idx /\ meta'[n][c].state = 2
    <3>1. c # 0
      BY <1>1, <1>7 DEF Waiting, StateOf, initialState, startedTimerState
    <3> QED  BY <1>1, <1>2, <1>4, <1>7, <3>1 DEF Waiting, StateOf, startedTimerState, Idx
  <2>2. SUFFICES ASSUME ~timer'[n] PROVE Later(n)'
    OBVIOUS
  <2>3. meta[n][c].state = 2 /\ timer'[n] = (timer[n] /\ ~follow)
    BY <1>1, <2>1, <2>2
  <2>4. c = ctr[n]
    BY <1>2, <1>4, <1>5, <2>1, <2>3 DEF TimerOK, initialState, Idx
  <2>5. Waiting(n)
    BY <2>1, <2>3, <2>4 DEF Waiting, StateOf, startedTimerState, Idx
  <2>6. \E j \in Idx : j > c /\ A[j].received # {}
    <3>1. CASE follow
      BY <1>2, <2>4, <3>1, HighestAbove
    <3>2. CASE ~follow
      <4>1. ~timer[n]
        BY <2>2, <2>3, <3>2
      <4> QED  BY <1>3, <1>5, <2>4, <2>5, <4>1 DEF TimerOK, Later
    <3> QED  BY <3>1, <3>2
  <2> QED  BY <1>1, <2>6 DEF Later, SameReqs
<1>8. TimerOK(n)'
  BY <1>1, <1>6, <1>7 DEF TimerOK
<1>9. ASSUME NEW k \in Node, k # n PROVE TimerOK(k)'
  BY <1>1, <1>9 DEF TimerInv, TimerOK, Waiting, StateOf, Later
<1> QED  BY <1>8, <1>9 DEF TimerInv

\* The timer expires: the counter moves to the next log, which is not waiting.
LEMMA TimeoutTimer ==
    ASSUME IInv, TimerInv, NEW n \in Node, NEW ok \in BOOLEAN, ControllerTimeout(n, ok)
    PROVE  TimerInv'
<1> DEFINE i == ctr[n] + 1
           r == [from |-> n, view |-> [block |-> meta[n][ctr[n]].curr.block, idx |-> i]]
           A == Add(meta[n], r)
           s == ProcessAnomaly(A, ctr[n], i, ok)
<1>1. /\ meta \in [Node -> [Idx -> Log]]
      /\ ctr \in [Node -> 0..MaxIdx]
      /\ timer \in [Node -> BOOLEAN]
      /\ LogsOK(meta[n], n, msgs)
  BY DEF IInv, TypeOK, Log
<1>2. /\ timer[n] /\ i \in Idx
      /\ ctr' = [ctr EXCEPT ![n] = s.ctr]
      /\ meta' = [meta EXCEPT ![n] = Clean(s.meta, s.ctr)]
      /\ timer' = [timer EXCEPT ![n] = FALSE]
  BY DEF ControllerTimeout
<1>3. r \in InitReq /\ r.from = n
  <2>1. ctr[n] \in Idx
    BY <1>2 DEF IInv, TimerHasView
  <2>2. meta[n][ctr[n]] \in Log
    BY <1>1, <2>1
  <2>3. meta[n][ctr[n]].curr.block \in 0..MaxBlocks
    BY <2>2, ViewChangeAssumption DEF Log, View, NoView
  <2> QED  BY <1>2, <2>3 DEF InitReq, View
<1>4. ctr[n] \in 0..MaxIdx /\ meta[n] \in [Idx -> Log]
  BY <1>1
<1> HIDE DEF r
<1>5. A \in [Idx -> Log] /\ \A j \in Idx : A[j].state = meta[n][j].state
  BY <1>1, <1>3, <1>4, AddOK, AddKeeps
<1> HIDE DEF A
<1>6. s.ctr = i
  <2>1. s.ctr = IF i > ctr[n] THEN i ELSE ctr[n]
    BY <1>2, <1>4, <1>5, ProcessAnomalyKeeps
  <2> QED  BY <1>4, <2>1
<1>7. \A j \in Idx : \/ s.meta[j].state = meta[n][j].state
                     \/ j = i /\ meta[n][i].state < 1 /\ s.meta[j].state = meta[n][i].state + 1
  <2>1. \A j \in Idx : \/ s.meta[j].state = A[j].state
                       \/ j = i /\ A[i].state < 1 /\ s.meta[j].state = A[i].state + 1
    BY <1>2, <1>4, <1>5, ProcessAnomalyKeeps
  <2> HIDE DEF s
  <2> QED  BY <1>2, <1>5, <2>1
<1>8. \A j \in Idx : j > ctr[n] => meta[n][j].state = 0
  BY DEF TimerInv, TimerOK, initialState
<1> HIDE DEF s
<1>9. ctr'[n] = i /\ meta'[n] = Clean(s.meta, i) /\ i > ctr[n] /\ i \in Nat
  BY <1>1, <1>2, <1>4, <1>6
<1>10. \A j \in Idx : j >= i => meta'[n][j] = s.meta[j]
  <2>1. \A j \in Idx : j >= i => ~(j < i)
    BY <1>9 DEF Idx
  <2> HIDE DEF i
  <2> QED  BY <1>9, <2>1 DEF Clean
<1>11. \A j \in Idx : j > i => meta'[n][j].state = 0
  <2> SUFFICES ASSUME NEW j \in Idx, j > i PROVE meta'[n][j].state = 0
    OBVIOUS
  <2>1. j >= i /\ j # i /\ j > ctr[n]
    BY <1>4 DEF Idx
  <2> QED  BY <1>7, <1>8, <1>10, <2>1
<1>12. meta'[n][i].state \in 0..1
  BY <1>2, <1>7, <1>8, <1>9, <1>10
<1>13. TimerOK(n)'
  <2>1. ~Waiting(n)'
    BY <1>9, <1>12 DEF Waiting, StateOf, initialState, startedTimerState
  <2> QED  BY <1>9, <1>11, <2>1 DEF TimerOK, initialState
<1>14. ASSUME NEW k \in Node, k # n PROVE TimerOK(k)'
  BY <1>1, <1>2, <1>14 DEF TimerInv, TimerOK, Waiting, StateOf, Later
<1> QED  BY <1>13, <1>14 DEF TimerInv

\* A controller starts again, or nothing happens to the controllers.
LEMMA ResetTimer ==
    ASSUME IInv, TimerInv, NEW n \in Node,
           \/ /\ meta' = [meta EXCEPT ![n] = newStateLogs]
              /\ ctr' = [ctr EXCEPT ![n] = 0]
              /\ timer' = [timer EXCEPT ![n] = FALSE]
           \/ UNCHANGED ctrlVars
    PROVE  TimerInv'
<1>1. CASE UNCHANGED ctrlVars
  BY <1>1 DEF TimerInv, TimerOK, Waiting, StateOf, Later, ctrlVars
<1>2. CASE /\ meta' = [meta EXCEPT ![n] = newStateLogs]
           /\ ctr' = [ctr EXCEPT ![n] = 0]
           /\ timer' = [timer EXCEPT ![n] = FALSE]
  <2>1. meta \in [Node -> [Idx -> Log]] /\ ctr \in [Node -> 0..MaxIdx]
        /\ timer \in [Node -> BOOLEAN]
    BY DEF IInv, TypeOK, Log
  <2>2. TimerOK(n)'
    <3>1. ctr'[n] = 0 /\ meta'[n] = newStateLogs
      BY <1>2, <2>1
    <3> QED  BY <3>1, FreshTimer
       DEF TimerOK, Waiting, StateOf, newStateLogs, newStateLog, initialState, startedTimerState
  <2>3. ASSUME NEW k \in Node, k # n PROVE TimerOK(k)'
    BY <1>2, <2>1, <2>3 DEF TimerInv, TimerOK, Waiting, StateOf, Later
  <2> QED  BY <2>2, <2>3 DEF TimerInv
<1> QED  BY <1>1, <1>2

\* No step stops the timer of a started log that it should not.
LEMMA NextTimer ==
    ASSUME IInv, TimerInv, [Next]_vars
    PROVE  TimerInv'
<1>1. CASE \/ \E n \in Node : \E r \in msgs \union {OwnReq(n)} : HoldReq(n, r)
           \/ \E p \in newViews : CreateViewChangeBlock(p)
           \/ CreateNormalBlock \/ UNCHANGED vars
  <2>1. UNCHANGED ctrlVars
    BY <1>1 DEF HoldReq, CreateViewChangeBlock, CreateNormalBlock, vars, ctrlVars
  <2>2. 0 \in Node
    BY ViewChangeAssumption DEF Node
  <2> QED  BY <2>1, <2>2, ResetTimer
<1>2. ASSUME NEW n \in Node, NEW r, NEW ok \in BOOLEAN, HandleReq(n, r, ok) PROVE TimerInv'
  <2>1. r \in InitReq /\ (r.from = n \/ r \in msgs)
    BY <1>2, ValidSent DEF HandleReq
  <2> QED  BY <1>2, <2>1, ReqTimer DEF HandleReq
<1>3. ASSUME NEW h \in held, NEW ok \in BOOLEAN, HandleHeldReq(h[1], h[2], ok) PROVE TimerInv'
  <2>1. h[1] \in Node /\ h[2] \in InitReq /\ (h[2].from = h[1] \/ h[2] \in msgs)
    BY DEF IInv, TypeOK, HeldSent
  <2> QED  BY <1>3, <2>1, ReqTimer DEF HandleHeldReq
<1>4. ASSUME NEW n \in Node, ControllerDone(n) PROVE TimerInv'
  BY <1>4, ResetTimer DEF ControllerDone
<1>5. ASSUME NEW n \in Node, NEW ok \in BOOLEAN, ControllerTimeout(n, ok) PROVE TimerInv'
  BY <1>5, TimeoutTimer
<1>6. ASSUME NEW n \in Node, UpdateTrie(n) PROVE TimerInv'
  BY <1>6, ResetTimer DEF UpdateTrie
<1>7. ASSUME NEW n \in Node, Restart(n) PROVE TimerInv'
  BY <1>7, ResetTimer DEF Restart
<1> QED  BY <1>1, <1>2, <1>3, <1>4, <1>5, <1>6, <1>7 DEF Next, Reqs

\* Whatever requests, timeouts, blocks, failures and restarts come in whatever
\* order, a controller that waits for a view-change has its timer running, unless
\* it holds a request for a later view that it did not follow.
THEOREM TimerAlwaysRuns == Spec => []StartedTimerRuns
<1>1. ASSUME Init PROVE TimerInv
  <2>1. ASSUME NEW n \in Node PROVE ctr[n] = 0 /\ meta[n] = newStateLogs
    BY <1>1 DEF Init
  <2> QED  BY <2>1, FreshTimer DEF TimerInv
<1>2. TimerInv => StartedTimerRuns
  BY DEF TimerInv, TimerOK, StartedTimerRuns, Later
<1> QED  BY <1>1, <1>2, InitIInv, NextIInv, NextTimer, PTL DEF Spec

-----------------------------------------------------------------------------
(* The block of the logs. When the timer runs, the log of the counter has a   *)
(* request, from which the timeout takes the block of the next view.          *)

TimerLog == \A n \in Node : timer[n] => meta[n][ctr[n]].received # {}

LatestInv == held = {} /\ TimerLog /\ LogsForLatest

\* Node n changes its logs, and they are for its latest block afterwards.
LEMMA OneNodeLatest ==
    ASSUME LatestInv, NEW n \in Node, held' = {}, UNCHANGED <<known, doneChan>>,
           \A k \in Node : k # n => /\ meta'[k] = meta[k] /\ ctr'[k] = ctr[k]
                                    /\ timer'[k] = timer[k],
           timer'[n] => meta'[n][ctr'[n]].received # {},
           doneChan[n] = {} => \A i \in Idx : meta'[n][i].received # {} =>
                                    meta'[n][i].curr.block = known[n]
    PROVE  LatestInv'
<1>1. TimerLog'
  BY DEF LatestInv, TimerLog
<1>2. LogsForLatest'
  BY DEF LatestInv, LogsForLatest
<1> QED  BY <1>1, <1>2 DEF LatestInv

\* A request that is for the latest block of the node reaches its controller.
LEMMA ReqLatest ==
    ASSUME IInv, LatestInv, NEW n \in Node, NEW r, NEW ok \in BOOLEAN, HandleReq(n, r, ok)
    PROVE  LatestInv'
<1> DEFINE A == Add(meta[n], r)
           i == r.view.idx
           follow == r.from # n /\ Highest(A) > ctr[n] /\ ctr[n] > 0
           c == IF (r.from = n \/ follow) /\ i > ctr[n] THEN i ELSE ctr[n]
<1>1. r \in InitReq /\ (r.from = n \/ r \in msgs) /\ ControllerReq(n, r, ok)
  BY ValidSent DEF HandleReq
<1>2. r.view.block = known[n] /\ (r.from = n => i = 1)
  BY DEF HandleReq, Valid, OwnReq
<1>3. /\ ctr'[n] = c
      /\ \A j \in Idx : SameReqs(meta'[n][j], A[j])
      /\ \/ timer'[n] /\ c \in Idx /\ A[c].received # {}
         \/ timer'[n] = (timer[n] /\ ~follow)
      /\ \A k \in Node : k # n => /\ meta'[k] = meta[k] /\ ctr'[k] = ctr[k]
                                  /\ timer'[k] = timer[k]
  BY <1>1, ReqEffect
<1>4. meta[n] \in [Idx -> Log] /\ ctr[n] \in 0..MaxIdx
  BY DEF IInv, TypeOK, Log
<1>5. held' = {} /\ UNCHANGED <<known, doneChan>>
  BY DEF HandleReq, ControllerReq, LatestInv
<1>6. timer'[n] => meta'[n][ctr'[n]].received # {}
  <2> SUFFICES ASSUME timer'[n] PROVE meta'[n][ctr'[n]].received # {}
    OBVIOUS
  <2>1. c \in Idx /\ A[c].received # {}
    <3>1. CASE timer[n] /\ ~follow
      <4>1. ctr[n] \in Idx /\ meta[n][ctr[n]].received # {}
        BY <3>1 DEF IInv, TimerHasView, LatestInv, TimerLog
      <4>2. c = ctr[n]
        <5>1. i = 1 => ~(i > ctr[n])
          BY <4>1 DEF Idx
        <5> QED  BY <1>2, <3>1, <5>1
      <4>3. A[ctr[n]].received # {}
        BY <1>1, <1>4, <4>1, AddKeeps
      <4> QED  BY <4>1, <4>2, <4>3
    <3> QED  BY <1>3, <3>1
  <2> HIDE DEF A, c
  <2> QED  BY <1>3, <2>1 DEF SameReqs
<1>7. ASSUME doneChan[n] = {}, NEW j \in Idx, meta'[n][j].received # {}
      PROVE  meta'[n][j].curr.block = known[n]
  <2>1. A[j].received # {} /\ meta'[n][j].curr = A[j].curr
    BY <1>3, <1>7 DEF SameReqs
  <2>2. meta[n][j].received # {} => meta[n][j].curr.block = known[n]
    BY <1>7 DEF LatestInv, LogsForLatest
  <2>3. (meta[n][j].received # {} /\ A[j].curr = meta[n][j].curr) \/ A[j].curr = r.view
    BY <1>1, <1>4, <2>1, AddKeeps
  <2> QED  BY <1>2, <2>1, <2>2, <2>3
<1> HIDE DEF A, c, i, follow
<1> QED  BY <1>3, <1>5, <1>6, <1>7, OneNodeLatest

\* The timer expires: the next view is for the block of the current one.
LEMMA TimeoutLatest ==
    ASSUME IInv, LatestInv, NEW n \in Node, NEW ok \in BOOLEAN, ControllerTimeout(n, ok)
    PROVE  LatestInv'
<1> DEFINE i == ctr[n] + 1
           r == [from |-> n, view |-> [block |-> meta[n][ctr[n]].curr.block, idx |-> i]]
           A == Add(meta[n], r)
           s == ProcessAnomaly(A, ctr[n], i, ok)
<1>1. /\ meta \in [Node -> [Idx -> Log]]
      /\ ctr \in [Node -> 0..MaxIdx]
      /\ timer \in [Node -> BOOLEAN]
      /\ LogsOK(meta[n], n, msgs)
  BY DEF IInv, TypeOK, Log
<1>2. /\ timer[n] /\ i \in Idx
      /\ ctr' = [ctr EXCEPT ![n] = s.ctr]
      /\ meta' = [meta EXCEPT ![n] = Clean(s.meta, s.ctr)]
      /\ timer' = [timer EXCEPT ![n] = FALSE]
      /\ UNCHANGED <<known, held, doneChan>>
  BY DEF ControllerTimeout
<1>3. ctr[n] \in Idx /\ meta[n][ctr[n]].received # {}
  BY <1>2 DEF IInv, TimerHasView, LatestInv, TimerLog
<1>4. r \in InitReq /\ r.from = n /\ r.view.block = meta[n][ctr[n]].curr.block
  <2>2. meta[n][ctr[n]] \in Log
    BY <1>1, <1>3
  <2>3. meta[n][ctr[n]].curr.block \in 0..MaxBlocks
    BY <2>2, ViewChangeAssumption DEF Log, View, NoView
  <2> QED  BY <1>2, <2>3 DEF InitReq, View
<1>5. ctr[n] \in 0..MaxIdx /\ meta[n] \in [Idx -> Log]
  BY <1>1
<1>6. doneChan[n] = {} => r.view.block = known[n]
  BY <1>3, <1>4 DEF LatestInv, LogsForLatest
<1> HIDE DEF r
<1>7. /\ A \in [Idx -> Log]
      /\ \A j \in Idx : A[j].received # {} =>
            \/ meta[n][j].received # {} /\ A[j].curr = meta[n][j].curr
            \/ A[j].curr = r.view
  BY <1>1, <1>4, <1>5, AddOK, AddKeeps
<1> HIDE DEF A
<1>8. \A j \in Idx : SameReqs(s.meta[j], A[j])
  BY <1>2, <1>5, <1>7, ProcessAnomalyKeeps
<1> HIDE DEF s
<1>9. \A j \in Idx : meta'[n][j] = newStateLog \/ meta'[n][j] = s.meta[j]
  BY <1>1, <1>2 DEF Clean
<1>10. ASSUME doneChan[n] = {}, NEW j \in Idx, meta'[n][j].received # {}
       PROVE  meta'[n][j].curr.block = known[n]
  <2>1. meta'[n][j].curr = A[j].curr /\ A[j].received # {}
    BY <1>8, <1>9, <1>10 DEF newStateLog, SameReqs
  <2>2. meta[n][j].received # {} => meta[n][j].curr.block = known[n]
    BY <1>10 DEF LatestInv, LogsForLatest
  <2> QED  BY <1>6, <1>7, <1>10, <2>1, <2>2
<1>11. /\ ~timer'[n] /\ held' = {}
       /\ \A k \in Node : k # n => meta'[k] = meta[k] /\ ctr'[k] = ctr[k] /\ timer'[k] = timer[k]
  BY <1>1, <1>2 DEF LatestInv
<1> QED  BY <1>2, <1>10, <1>11, OneNodeLatest

\* A controller starts with new logs, or keeps its logs while its Done is pending.
LEMMA ResetLatest ==
    ASSUME IInv, LatestInv, NEW n \in Node, held' = {},
           \A k \in Node : k # n => known'[k] = known[k] /\ doneChan'[k] = doneChan[k],
           \/ /\ meta' = [meta EXCEPT ![n] = newStateLogs]
              /\ ctr' = [ctr EXCEPT ![n] = 0]
              /\ timer' = [timer EXCEPT ![n] = FALSE]
           \/ UNCHANGED ctrlVars /\ (doneChan'[n] # {} \/ IsNil(meta[n]))
    PROVE  LatestInv'
<1>1. /\ meta \in [Node -> [Idx -> Log]]
      /\ ctr \in [Node -> 0..MaxIdx]
      /\ timer \in [Node -> BOOLEAN]
  BY DEF IInv, TypeOK, Log
<1>2. CASE /\ meta' = [meta EXCEPT ![n] = newStateLogs]
           /\ ctr' = [ctr EXCEPT ![n] = 0]
           /\ timer' = [timer EXCEPT ![n] = FALSE]
  <2>1. /\ \A i \in Idx : meta'[n][i].received = {}
        /\ ~timer'[n]
        /\ \A k \in Node : k # n => meta'[k] = meta[k] /\ ctr'[k] = ctr[k] /\ timer'[k] = timer[k]
    BY <1>1, <1>2 DEF newStateLogs, newStateLog
  <2>2. TimerLog'
    BY <2>1 DEF LatestInv, TimerLog
  <2>3. LogsForLatest'
    BY <2>1 DEF LatestInv, LogsForLatest
  <2> QED  BY <2>2, <2>3 DEF LatestInv
<1>3. CASE UNCHANGED ctrlVars /\ (doneChan'[n] # {} \/ IsNil(meta[n]))
  <2>1. TimerLog'
    BY <1>3 DEF LatestInv, TimerLog, ctrlVars
  <2>2. LogsForLatest'
    BY <1>3 DEF LatestInv, LogsForLatest, ctrlVars, IsNil
  <2> QED  BY <2>1, <2>2 DEF LatestInv
<1> QED  BY <1>2, <1>3

\* While checking and handing over are one step, no log is about an old block.
LEMMA NextLatest ==
    ASSUME IInv, LatestInv, MaxHeld = 0, [Next]_vars
    PROVE  LatestInv'
<1>0. known \in [Node -> 0..MaxBlocks] /\ doneChan \in [Node -> SUBSET (1..MaxBlocks)]
  BY DEF IInv, TypeOK
<1>1. ASSUME NEW n \in Node, NEW r, HoldReq(n, r) PROVE FALSE
  BY <1>1, FS_EmptySet DEF HoldReq, LatestInv
<1>2. CASE \/ \E p \in newViews : CreateViewChangeBlock(p)
           \/ CreateNormalBlock \/ UNCHANGED vars
  <2>1. UNCHANGED <<known, held, doneChan, meta, ctr, timer>>
    BY <1>2 DEF CreateViewChangeBlock, CreateNormalBlock, vars, ctrlVars
  <2> QED  BY <2>1 DEF LatestInv, TimerLog, LogsForLatest
<1>3. ASSUME NEW n \in Node, NEW r, NEW ok \in BOOLEAN, HandleReq(n, r, ok) PROVE LatestInv'
  BY <1>3, ReqLatest
<1>4. ASSUME NEW n \in Node, ControllerDone(n) PROVE LatestInv'
  <2>1. \A k \in Node : k # n => known'[k] = known[k] /\ doneChan'[k] = doneChan[k]
    BY <1>0, <1>4 DEF ControllerDone
  <2> QED  BY <1>4, <2>1, ResetLatest DEF ControllerDone, LatestInv
<1>5. ASSUME NEW n \in Node, NEW ok \in BOOLEAN, ControllerTimeout(n, ok) PROVE LatestInv'
  BY <1>5, TimeoutLatest
<1>6. ASSUME NEW n \in Node, UpdateTrie(n) PROVE LatestInv'
  <2>1. \A k \in Node : k # n => known'[k] = known[k] /\ doneChan'[k] = doneChan[k]
    BY <1>0, <1>6 DEF UpdateTrie
  <2>2. UNCHANGED ctrlVars => doneChan'[n] # {} \/ meta' = [meta EXCEPT ![n] = newStateLogs]
    BY <1>0, <1>6 DEF UpdateTrie
  <2>3. \/ UNCHANGED ctrlVars /\ doneChan'[n] # {}
        \/ /\ meta' = [meta EXCEPT ![n] = newStateLogs]
           /\ ctr' = [ctr EXCEPT ![n] = 0]
           /\ timer' = [timer EXCEPT ![n] = FALSE]
    BY <1>0, <1>6 DEF UpdateTrie
  <2> QED  BY <1>6, <2>1, <2>3, ResetLatest DEF UpdateTrie, LatestInv
<1>7. ASSUME NEW n \in Node, Restart(n) PROVE LatestInv'
  <2>1. \A k \in Node : k # n => known'[k] = known[k] /\ doneChan'[k] = doneChan[k]
    BY <1>0, <1>7 DEF Restart
  <2>2. held' = {}
    BY <1>7 DEF Restart, LatestInv
  <2> QED  BY <1>7, <2>1, <2>2, ResetLatest DEF Restart
<1>8. ASSUME NEW h \in held PROVE FALSE
  BY DEF LatestInv
<1> QED  BY <1>1, <1>2, <1>3, <1>4, <1>5, <1>6, <1>7, <1>8 DEF Next

\* When a request that was found valid is handed over before the next block is
\* applied, the logs of a controller are always for the latest block of its node.
THEOREM LogsAlwaysForLatest ==
    ASSUME MaxHeld = 0
    PROVE  Spec => []LogsForLatest
<1>1. ASSUME Init PROVE LatestInv
  BY <1>1 DEF Init, LatestInv, TimerLog, LogsForLatest, newStateLogs, newStateLog
<1>2. IInv /\ LatestInv /\ [Next]_vars => LatestInv'
  BY NextLatest
<1>3. LatestInv => LogsForLatest
  BY DEF LatestInv
<1> QED  BY <1>1, <1>2, <1>3, InitIInv, NextIInv, PTL DEF Spec
=============================================================================
