------------------------------- MODULE Bypros -------------------------------
(***************************************************************************)
(* The proxy that copies a chain into a database (bypros/): it follows a   *)
(* node's stream of new blocks and catches up with the older ones page by  *)
(* page (bypros/browse/paginate), at the same time.  The node's side of    *)
(* both is byzcoin/streaming.go.                                           *)
(*                                                                         *)
(* A block is its index plus one, bpTip is the latest.  The database is    *)
(* asked for a block and given it in two steps.                            *)
(***************************************************************************)
EXTENDS Integers, Sequences, SequencesExt

CONSTANTS BpMaxTip,     \* bound: blocks of the chain
          BpPageSize,   \* defaultPageSize
          BpNumPages    \* defaultNumPages

ASSUME ByprosAssumption == BpMaxTip \in Nat \ {0} /\ BpPageSize \in Nat \ {0} /\ BpNumPages \in Nat \ {0}

VARIABLES bpTip,
          bpDb,         \* how often each block is stored
          bpToken,      \* the token in channel follow
          bpFollowing,  \* following
          bpSession,    \* the following session: none, open, or closing
          bpStop,       \* a signal is in channel stopFollow
          bpStream,     \* blocks sent on the connection
          bpParsing,    \* block the listener found absent and is storing, 0 if none
          bpCatch       \* the catch-up

bpVars == <<bpTip, bpDb, bpToken, bpFollowing, bpSession, bpStop, bpStream, bpParsing, bpCatch>>
bpFollow == <<bpToken, bpFollowing, bpSession, bpStop, bpStream, bpParsing>>

\* Mutant: a block is stored without asking whether it is there.
NotAsked(b) == FALSE
InDatabase(b) == bpDb[b] > 0
StoreBlock(b) == bpDb' = [bpDb EXCEPT ![b] = @ + 1]

\* The node adds a block and notifies its listeners.
AddBlock ==
    /\ bpTip < BpMaxTip /\ bpTip' = bpTip + 1
    /\ bpStream' = IF bpSession = "open" THEN Append(bpStream, bpTip + 1) ELSE bpStream
    /\ UNCHANGED <<bpDb, bpToken, bpFollowing, bpSession, bpStop, bpParsing, bpCatch>>

-----------------------------------------------------------------------------
(* Following.                                                              *)
\* With the wrong chain, or when the node cannot be reached, the token is gone.
Follow(chainOk, subscribed) ==
    /\ bpToken /\ bpToken' = FALSE
    /\ bpFollowing' = chainOk
    /\ bpStop' = (bpStop /\ ~chainOk)
    /\ bpSession' = IF chainOk /\ subscribed THEN "open" ELSE bpSession
    /\ UNCHANGED <<bpTip, bpDb, bpStream, bpParsing, bpCatch>>
Lost(c) == [c EXCEPT !.covered = FALSE]
\* listenBlocks: a block that is not stored yet is stored.
ListenBlock ==
    /\ bpSession # "none" /\ bpStream # << >> /\ bpParsing = 0
    /\ bpStream' = Tail(bpStream)
    /\ bpParsing' = IF InDatabase(bpStream[1]) THEN 0 ELSE bpStream[1]
    /\ UNCHANGED <<bpTip, bpDb, bpToken, bpFollowing, bpSession, bpStop, bpCatch>>
ListenStore(fails) ==
    /\ bpParsing # 0 /\ bpParsing' = 0
    /\ IF fails THEN bpStop' = TRUE /\ bpCatch' = Lost(bpCatch) /\ UNCHANGED bpDb
       ELSE StoreBlock(bpParsing) /\ UNCHANGED <<bpStop, bpCatch>>
    /\ UNCHANGED <<bpTip, bpToken, bpFollowing, bpSession, bpStream>>
\* The connection breaks: the listener ends and asks to stop.
ConnectionLost ==
    /\ bpSession = "open" /\ bpParsing = 0
    /\ bpStop' = TRUE /\ bpStream' = << >> /\ bpCatch' = Lost(bpCatch)
    /\ bpSession' = "closing"
    /\ UNCHANGED <<bpTip, bpDb, bpToken, bpFollowing, bpParsing>>
Unfollow ==
    /\ bpFollowing /\ bpStop' = TRUE
    /\ UNCHANGED <<bpTip, bpDb, bpToken, bpFollowing, bpSession, bpStream, bpParsing, bpCatch>>
\* The goroutine of the session: close the connection, wait for the others, give
\* the token back.
CloseSession ==
    /\ bpStop /\ bpSession = "open"
    /\ bpSession' = "closing" /\ bpStream' = << >> /\ bpCatch' = Lost(bpCatch)
    /\ UNCHANGED <<bpTip, bpDb, bpToken, bpFollowing, bpStop, bpParsing>>
EndSession ==
    /\ bpSession = "closing" /\ bpStop /\ bpParsing = 0
    /\ bpSession' = "none" /\ bpFollowing' = FALSE /\ bpToken' = TRUE /\ bpStop' = FALSE
    /\ UNCHANGED <<bpTip, bpDb, bpStream, bpParsing, bpCatch>>

-----------------------------------------------------------------------------
(* Catching up.  A request asks for pages of blocks from first on; the node *)
(* prepares each page with the tip it has then.                            *)
NoCatchUp == [at |-> "none", from |-> 0, first |-> 0, next |-> 0, size |-> 0, pages |-> 0, page |-> 0,
              seen |-> 0, last |-> 0, todo |-> << >>, absent |-> FALSE, covered |-> FALSE]
Request(c, first, size, pages) ==
    [c EXCEPT !.at = "page", !.first = first, !.next = first, !.size = size, !.pages = pages, !.page = 0, !.last = 0]
CatchUP(from) ==
    /\ bpCatch.at \in {"none", "cancelled"} /\ from \in 1 .. bpTip
    /\ bpCatch' = Request([NoCatchUp EXCEPT !.from = from, !.seen = bpTip, !.covered = (bpSession = "open" /\ ~bpStop)],
                          from, BpPageSize, BpNumPages)
    /\ UNCHANGED <<bpTip, bpDb>> /\ UNCHANGED bpFollow

\* checkError, PaginateLinkMissing: the rest of the page in a request of its own.
LoadRest(c, tip) == Request(c, IF c.last = 0 THEN c.first ELSE c.last, tip - c.next + 1, 1)
Page(c, tip) ==
    IF c.next > tip THEN [c EXCEPT !.at = "done"]                 \* PaginatePageFailed
    ELSE IF c.next + c.size - 1 > tip THEN LoadRest(c, tip)
    ELSE [c EXCEPT !.at = "blocks", !.todo = [i \in 1 .. c.size |-> c.next + i - 1],
                   !.next = c.next + c.size, !.page = c.page + 1, !.last = c.next + c.size - 1]
handlePages(tip) ==
    /\ bpCatch.at = "page" /\ tip \in bpCatch.seen .. bpTip
    /\ bpCatch' = Page([bpCatch EXCEPT !.seen = tip], tip)
    /\ UNCHANGED <<bpTip, bpDb>> /\ UNCHANGED bpFollow
\* The handler of a block: parseBlock.
parseBlock ==
    /\ bpCatch.at = "blocks" /\ bpCatch.todo # << >> /\ ~bpCatch.absent
    /\ bpCatch' = IF InDatabase(bpCatch.todo[1]) THEN [bpCatch EXCEPT !.todo = Tail(@)] ELSE [bpCatch EXCEPT !.absent = TRUE]
    /\ UNCHANGED <<bpTip, bpDb>> /\ UNCHANGED bpFollow
storeParsed(fails) ==
    /\ bpCatch.absent
    /\ IF fails THEN bpCatch' = [NoCatchUp EXCEPT !.at = "failed"] /\ UNCHANGED bpDb
       ELSE StoreBlock(bpCatch.todo[1]) /\ bpCatch' = [bpCatch EXCEPT !.todo = Tail(@), !.absent = FALSE]
    /\ UNCHANGED bpTip /\ UNCHANGED bpFollow
\* After a page: the next one, the next request, or the end of the chain as the
\* node saw it.
NextPage ==
    /\ bpCatch.at = "blocks" /\ bpCatch.todo = << >>
    /\ bpCatch' = IF bpCatch.page < bpCatch.pages THEN [bpCatch EXCEPT !.at = "page"]
                  ELSE IF bpCatch.last = bpCatch.seen THEN [bpCatch EXCEPT !.at = "done"]
                  ELSE Request(bpCatch, bpCatch.last + 1, bpCatch.size, bpCatch.pages)
    /\ UNCHANGED <<bpTip, bpDb>> /\ UNCHANGED bpFollow
CancelCatchUP ==
    /\ bpCatch.at = "page" /\ bpCatch' = [NoCatchUp EXCEPT !.at = "cancelled"]
    /\ UNCHANGED <<bpTip, bpDb>> /\ UNCHANGED bpFollow

BpInit ==
    /\ bpTip = 1 /\ bpDb = [b \in 1 .. BpMaxTip |-> 0]
    /\ bpToken = TRUE /\ bpFollowing = FALSE /\ bpSession = "none" /\ bpStop = FALSE
    /\ bpStream = << >> /\ bpParsing = 0 /\ bpCatch = NoCatchUp
BpNext ==
    \/ AddBlock \/ ListenBlock \/ ConnectionLost \/ Unfollow \/ CloseSession \/ EndSession
    \/ \E c, s \in BOOLEAN : Follow(c, s)
    \/ \E f \in BOOLEAN : ListenStore(f) \/ storeParsed(f)
    \/ \E b \in 1 .. bpTip : CatchUP(b) \/ handlePages(b)
    \/ parseBlock \/ NextPage \/ CancelCatchUP

-----------------------------------------------------------------------------
BpTypeOK ==
    /\ bpTip \in 1 .. BpMaxTip /\ bpDb \in [1 .. BpMaxTip -> 0 .. 2]
    /\ bpToken \in BOOLEAN /\ bpFollowing \in BOOLEAN /\ bpStop \in BOOLEAN
    /\ bpSession \in {"none", "open", "closing"} /\ bpParsing \in 0 .. BpMaxTip
    /\ bpCatch.at \in {"none", "page", "blocks", "done", "failed", "cancelled"} /\ bpCatch.seen <= bpTip

(* A catch-up that ends without an error, next to a session that follows   *)
(* since before it began, leaves no hole: every block from where it began  *)
(* is in the database or on its way in the session, whatever the pages and *)
(* the blocks that came meanwhile (CatchUP, Paginate.handlePages,          *)
(* checkError, listenBlocks).  Without a session, every block up to the    *)
(* tip it began with is there.                                             *)
OnTheWay(b) == b = bpParsing \/ Contains(bpStream, b)
CatchUpComplete ==
    bpCatch.at = "done" =>
        \A b \in bpCatch.from .. bpTip :
            InDatabase(b) \/ (bpCatch.covered /\ OnTheWay(b)) \/ (~bpCatch.covered /\ b > bpCatch.seen)
=============================================================================
