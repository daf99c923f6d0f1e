--------------------------- MODULE ServicesProofs ---------------------------
(***************************************************************************)
(* Proofs about the parts that serve clients from the ledger, for every    *)
(* number of blocks, events, accounts and instances.                       *)
(***************************************************************************)
EXTENDS MCServices, NatLemmas, SequenceTheorems

-----------------------------------------------------------------------------
(* Sequences as queues.                                                    *)
LEMMA InAppended ==
    ASSUME NEW T, NEW s \in Seq(T), NEW x \in T, NEW y, Contains(s, y) \/ y = x
    PROVE  Contains(Append(s, x), y)
<1>1. CASE y = x
    <2>1. Len(s) + 1 \in 1 .. Len(Append(s, x)) /\ Append(s, x)[Len(s) + 1] = x
        OBVIOUS
    <2> QED  BY <1>1, <2>1 DEF Contains
<1>2. CASE Contains(s, y)
    <2>1. PICK i \in 1 .. Len(s) : s[i] = y
        BY <1>2 DEF Contains
    <2>2. i \in 1 .. Len(Append(s, x)) /\ Append(s, x)[i] = y
        BY <2>1
    <2> QED  BY <2>2 DEF Contains
<1> QED  BY <1>1, <1>2
LEMMA InTail ==
    ASSUME NEW T, NEW s \in Seq(T), s # << >>, NEW y, Contains(s, y)
    PROVE  y = s[1] \/ Contains(Tail(s), y)
<1>1. PICK i \in 1 .. Len(s) : s[i] = y
    BY DEF Contains
<1>2. CASE i = 1
    BY <1>1, <1>2
<1>3. CASE i # 1
    <2>1. i - 1 \in 1 .. Len(Tail(s)) /\ Tail(s)[i - 1] = s[i]
        BY <1>3
    <2> QED  BY <1>1, <2>1 DEF Contains
<1> QED  BY <1>2, <1>3

-----------------------------------------------------------------------------
(* The proxy.  A catch-up has every block before the next page, but for    *)
(* the ones it is about to store; the session has every later one.         *)
CatchUps == [at : {"none", "page", "blocks", "done", "failed", "cancelled"}, from : Nat, first : Nat, next : Nat, size : Nat,
             pages : Nat, page : Nat, seen : Nat, last : Nat, todo : Seq(Nat), absent : BOOLEAN, covered : BOOLEAN]
CatchIs(c, d, tip) ==
    /\ c \in CatchUps /\ c.seen <= tip
    /\ c.absent => c.at = "blocks" /\ c.todo # << >>
    /\ c.at \in {"page", "blocks"} =>
          /\ c.from >= 1 /\ c.first >= 1 /\ c.next >= 1 /\ c.size >= 1
          /\ \A b \in c.from .. c.next - 1 : b <= tip /\ (d[b] > 0 \/ Contains(c.todo, b))
    /\ c.last = 0 \/ c.last = c.next - 1
    /\ c.last = 0 => c.first <= c.next
    /\ \A i \in 1 .. Len(c.todo) : c.todo[i] \in 1 .. tip
    /\ c.at = "blocks" => c.last # 0
    /\ c.at # "blocks" => c.todo = << >>
    /\ c.at = "done" => c.from >= 1 /\ \A b \in c.from .. c.seen : d[b] > 0
StreamIs(c, d, tip, parsing, stream, session) ==
    /\ parsing \in 0 .. tip /\ stream \in Seq(1 .. tip)
    /\ c.covered => /\ session = "open"
                    /\ \A b \in c.seen + 1 .. tip : d[b] > 0 \/ b = parsing \/ Contains(stream, b)
\* A block is stored twice at most, by the session and by the catch-up.
Stores(c, b) == c.absent /\ c.todo[1] = b
TwiceIs(c, d, parsing) ==
    \A b \in 1 .. BpMaxTip : /\ parsing = b \/ Stores(c, b) => d[b] <= 1
                             /\ parsing = b /\ Stores(c, b) => d[b] = 0
Databases == [1 .. BpMaxTip -> 0 .. 2]
BpInv ==
    /\ BpMaxTip \in Nat /\ bpTip \in 1 .. BpMaxTip /\ bpDb \in Databases
    /\ bpToken \in BOOLEAN /\ bpFollowing \in BOOLEAN /\ bpStop \in BOOLEAN /\ bpSession \in {"none", "open", "closing"}
    /\ CatchIs(bpCatch, bpDb, bpTip)
    /\ StreamIs(bpCatch, bpDb, bpTip, bpParsing, bpStream, bpSession)
    /\ TwiceIs(bpCatch, bpDb, bpParsing)
LEMMA CatchGrows ==
    ASSUME NEW c, NEW d \in Databases, NEW e \in Databases, NEW tip \in 1 .. BpMaxTip, NEW new \in 1 .. BpMaxTip, BpMaxTip \in Nat,
           CatchIs(c, d, tip), tip <= new, \A b \in 1 .. BpMaxTip : d[b] > 0 => e[b] > 0
    PROVE  CatchIs(c, e, new)
<1>1. /\ c \in CatchUps /\ c.seen \in Nat /\ c.seen <= tip /\ c.from \in Nat /\ c.next \in Nat
    BY DEF CatchIs, CatchUps
<1>2. ASSUME c.at \in {"page", "blocks"}, NEW b \in c.from .. c.next - 1
      PROVE  b <= new /\ (e[b] > 0 \/ Contains(c.todo, b))
    <2>1. b <= tip /\ (d[b] > 0 \/ Contains(c.todo, b)) /\ c.from >= 1
        BY <1>2 DEF CatchIs
    <2>2. b \in 1 .. BpMaxTip /\ b <= new
        BY <1>1, <2>1
    <2> QED  BY <2>1, <2>2
<1>3. ASSUME c.at = "done", NEW b \in c.from .. c.seen PROVE e[b] > 0
    <2>1. d[b] > 0 /\ c.from >= 1
        BY <1>3 DEF CatchIs
    <2>2. b \in 1 .. BpMaxTip
        BY <1>1, <2>1
    <2> QED  BY <2>1, <2>2
<1>4. \A i \in 1 .. Len(c.todo) : c.todo[i] \in 1 .. new
    <2>1. 1 .. tip \subseteq 1 .. new
        OBVIOUS
    <2> QED  BY <2>1 DEF CatchIs
<1>5. c.seen <= new
    BY <1>1
<1> QED  BY <1>2, <1>3, <1>4, <1>5 DEF CatchIs
LEMMA BpBegins ==
    ASSUME BpInit
    PROVE  BpInv
<1>1. NoCatchUp \in CatchUps /\ NoCatchUp.at = "none" /\ ~NoCatchUp.absent /\ ~NoCatchUp.covered
      /\ NoCatchUp.seen = 0 /\ NoCatchUp.last = 0 /\ NoCatchUp.todo = << >> /\ NoCatchUp.first = 0 /\ NoCatchUp.next = 0
    BY DEF NoCatchUp, CatchUps
<1>2. BpMaxTip \in Nat /\ BpMaxTip >= 1
    BY ByprosAssumption
<1>3. CatchIs(NoCatchUp, bpDb, 1)
    <2> HIDE DEF NoCatchUp
    <2> QED  BY <1>1 DEF CatchIs
<1>4. bpDb \in Databases /\ bpTip \in 1 .. BpMaxTip
    BY <1>2 DEF BpInit, Databases
<1>5. StreamIs(NoCatchUp, bpDb, 1, 0, << >>, "none")
    BY <1>1 DEF StreamIs
<1>6. TwiceIs(NoCatchUp, bpDb, 0)
    BY <1>1 DEF TwiceIs, Stores
<1> QED  BY <1>2, <1>3, <1>4, <1>5, <1>6 DEF BpInit, BpInv
\* A session that is gone covers no catch-up.
LEMMA LosesCover ==
    ASSUME NEW c, NEW d, NEW tip, CatchIs(c, d, tip)
    PROVE  /\ CatchIs(Lost(c), d, tip) /\ Lost(c).covered = FALSE
           /\ \A b : Stores(Lost(c), b) <=> Stores(c, b)
<1>1. c \in CatchUps
    BY DEF CatchIs
<1>2. /\ Lost(c) \in CatchUps /\ Lost(c).covered = FALSE
      /\ Lost(c).at = c.at /\ Lost(c).from = c.from /\ Lost(c).first = c.first /\ Lost(c).next = c.next /\ Lost(c).size = c.size
      /\ Lost(c).seen = c.seen /\ Lost(c).last = c.last /\ Lost(c).todo = c.todo /\ Lost(c).absent = c.absent
    BY <1>1 DEF Lost, CatchUps
<1> HIDE DEF Lost
<1> QED  BY <1>2 DEF CatchIs, Stores
LEMMA BpAddBlock ==
    ASSUME BpInv, AddBlock
    PROVE  BpInv'
<1> USE DEF BpInv
<1>1. /\ bpTip' = bpTip + 1 /\ bpTip' \in 1 .. BpMaxTip /\ bpTip \in Nat
      /\ bpStream' = IF bpSession = "open" THEN Append(bpStream, bpTip + 1) ELSE bpStream
      /\ UNCHANGED <<bpDb, bpToken, bpFollowing, bpSession, bpStop, bpParsing, bpCatch>>
    BY DEF AddBlock
<1>2. CatchIs(bpCatch, bpDb, bpTip')
    BY <1>1, CatchGrows
<1>3. bpParsing \in 0 .. bpTip + 1 /\ bpStream \in Seq(1 .. bpTip + 1) /\ bpTip + 1 \in 1 .. bpTip + 1
    <2>1. 1 .. bpTip \subseteq 1 .. bpTip + 1 /\ 0 .. bpTip \subseteq 0 .. bpTip + 1 /\ bpTip + 1 \in 1 .. bpTip + 1
        BY <1>1
    <2> QED  BY <2>1 DEF StreamIs
<1>4. bpStream' \in Seq(1 .. bpTip + 1)
    <2>1. Append(bpStream, bpTip + 1) \in Seq(1 .. bpTip + 1)
        BY <1>3, AppendProperties
    <2> QED  BY <1>1, <1>3, <2>1
<1>5. ASSUME bpCatch.covered
      PROVE  /\ bpSession = "open"
             /\ \A b \in bpCatch.seen + 1 .. bpTip + 1 : bpDb[b] > 0 \/ b = bpParsing \/ Contains(bpStream', b)
    <2>1. /\ bpSession = "open" /\ bpStream' = Append(bpStream, bpTip + 1)
          /\ \A b \in bpCatch.seen + 1 .. bpTip : bpDb[b] > 0 \/ b = bpParsing \/ Contains(bpStream, b)
        BY <1>1, <1>5 DEF StreamIs
    <2>2. bpCatch.seen \in Nat
        BY DEF CatchIs, CatchUps
    <2> SUFFICES ASSUME NEW b \in bpCatch.seen + 1 .. bpTip + 1 PROVE bpDb[b] > 0 \/ b = bpParsing \/ Contains(bpStream', b)
        BY <2>1
    <2>3. b \in bpCatch.seen + 1 .. bpTip \/ b = bpTip + 1
        BY <1>1, <2>2
    <2>4. Contains(bpStream, b) \/ b = bpTip + 1 => Contains(bpStream', b)
        BY <1>3, <2>1, InAppended
    <2> QED  BY <2>1, <2>3, <2>4
<1>6. StreamIs(bpCatch, bpDb, bpTip', bpParsing, bpStream', bpSession)
    BY <1>1, <1>3, <1>4, <1>5 DEF StreamIs
<1> QED  BY <1>1, <1>2, <1>6 DEF TwiceIs, Stores
LEMMA BpSession ==
    ASSUME BpInv, Unfollow \/ CloseSession \/ ConnectionLost \/ EndSession \/ \E c, s \in BOOLEAN : Follow(c, s)
    PROVE  BpInv'
<1> USE DEF BpInv
<1>0. bpTip \in Nat /\ << >> \in Seq(1 .. bpTip)
    OBVIOUS
<1>1. CASE Unfollow
    BY <1>1 DEF Unfollow
<1>2. CASE CloseSession \/ ConnectionLost
    <2>1. /\ bpStop' \in BOOLEAN /\ bpSession' = "closing" /\ bpStream' = << >> /\ bpCatch' = Lost(bpCatch)
          /\ UNCHANGED <<bpTip, bpDb, bpToken, bpFollowing, bpParsing>>
        BY <1>2 DEF CloseSession, ConnectionLost
    <2>2. CatchIs(bpCatch', bpDb, bpTip) /\ bpCatch'.covered = FALSE /\ \A b : Stores(bpCatch', b) <=> Stores(bpCatch, b)
        BY <2>1, LosesCover
    <2>3. StreamIs(bpCatch', bpDb, bpTip, bpParsing, bpStream', bpSession')
        BY <1>0, <2>1, <2>2 DEF StreamIs
    <2>4. TwiceIs(bpCatch', bpDb, bpParsing)
        BY <2>2 DEF TwiceIs
    <2> QED  BY <2>1, <2>2, <2>3, <2>4
<1>3. CASE EndSession
    <2>1. /\ bpSession = "closing" /\ bpSession' = "none" /\ bpFollowing' = FALSE /\ bpToken' = TRUE /\ bpStop' = FALSE
          /\ UNCHANGED <<bpTip, bpDb, bpStream, bpParsing, bpCatch>>
        BY <1>3 DEF EndSession
    <2>2. ~bpCatch.covered
        BY <2>1 DEF StreamIs
    <2>3. StreamIs(bpCatch, bpDb, bpTip, bpParsing, bpStream, bpSession')
        BY <2>2 DEF StreamIs
    <2> QED  BY <2>1, <2>3
<1>4. ASSUME NEW c \in BOOLEAN, NEW s \in BOOLEAN, Follow(c, s) PROVE BpInv'
    <2>1. /\ bpToken' = FALSE /\ bpFollowing' \in BOOLEAN /\ bpStop' \in BOOLEAN
          /\ bpSession' = bpSession \/ bpSession' = "open"
          /\ UNCHANGED <<bpTip, bpDb, bpStream, bpParsing, bpCatch>>
        BY <1>4 DEF Follow
    <2>2. StreamIs(bpCatch, bpDb, bpTip, bpParsing, bpStream, bpSession')
        BY <2>1 DEF StreamIs
    <2> QED  BY <2>1, <2>2
<1> QED  BY <1>1, <1>2, <1>3, <1>4
\* A block is stored: the others are as before.
OneMore(d, b) == [d EXCEPT ![b] = @ + 1]
LEMMA OneMoreIs ==
    ASSUME NEW d \in Databases, NEW b \in 1 .. BpMaxTip, d[b] <= 1
    PROVE  /\ OneMore(d, b) \in Databases /\ OneMore(d, b)[b] = d[b] + 1
           /\ \A x \in 1 .. BpMaxTip : x # b => OneMore(d, b)[x] = d[x]
           /\ \A x \in 1 .. BpMaxTip : d[x] > 0 => OneMore(d, b)[x] > 0
<1>1. d[b] \in 0 .. 2 /\ d[b] + 1 \in 0 .. 2
    BY DEF Databases
<1> QED  BY <1>1 DEF OneMore, Databases
LEMMA BpListen ==
    ASSUME BpInv, ListenBlock \/ \E f \in BOOLEAN : ListenStore(f)
    PROVE  BpInv'
<1> USE DEF BpInv
<1>0. /\ bpCatch.seen \in Nat /\ bpTip \in Nat /\ bpParsing \in 0 .. bpTip /\ bpStream \in Seq(1 .. bpTip)
    BY DEF CatchIs, CatchUps, StreamIs
<1>1. CASE ListenBlock
    <2>1. /\ bpStream # << >> /\ bpParsing = 0 /\ bpStream' = Tail(bpStream)
          /\ bpParsing' = IF bpDb[bpStream[1]] > 0 THEN 0 ELSE bpStream[1]
          /\ UNCHANGED <<bpTip, bpDb, bpToken, bpFollowing, bpSession, bpStop, bpCatch>>
        BY <1>1 DEF ListenBlock, InDatabase
    <2>2. bpStream[1] \in 1 .. bpTip /\ Tail(bpStream) \in Seq(1 .. bpTip)
        BY <1>0, <2>1
    <2>3. bpParsing' \in 0 .. bpTip
        BY <1>0, <2>1, <2>2
    <2>4. ASSUME bpCatch.covered, NEW b \in bpCatch.seen + 1 .. bpTip
          PROVE  bpDb[b] > 0 \/ b = bpParsing' \/ Contains(bpStream', b)
        <3>1. bpDb[b] > 0 \/ Contains(bpStream, b)
            BY <1>0, <2>1, <2>4 DEF StreamIs
        <3>2. Contains(bpStream, b) => b = bpStream[1] \/ Contains(Tail(bpStream), b)
            BY <1>0, <2>1, InTail
        <3> QED  BY <2>1, <3>1, <3>2
    <2>5. StreamIs(bpCatch, bpDb, bpTip, bpParsing', bpStream', bpSession)
        BY <2>1, <2>2, <2>3, <2>4 DEF StreamIs
    <2>6. TwiceIs(bpCatch, bpDb, bpParsing')
        <3> SUFFICES ASSUME NEW b \in 1 .. BpMaxTip
                     PROVE  /\ bpParsing' = b \/ Stores(bpCatch, b) => bpDb[b] <= 1
                            /\ bpParsing' = b /\ Stores(bpCatch, b) => bpDb[b] = 0
            BY DEF TwiceIs
        <3>1. bpDb[b] \in 0 .. 2
            BY DEF Databases
        <3>2. bpParsing' = b => bpDb[b] = 0
            BY <2>1, <3>1
        <3> QED  BY <3>2 DEF TwiceIs
    <2> QED  BY <2>1, <2>5, <2>6
<1>2. ASSUME ListenStore(TRUE) PROVE BpInv'
    <2>1. /\ bpParsing' = 0 /\ bpStop' = TRUE /\ bpCatch' = Lost(bpCatch)
          /\ UNCHANGED <<bpDb, bpTip, bpToken, bpFollowing, bpSession, bpStream>>
        BY <1>2 DEF ListenStore
    <2>2. CatchIs(bpCatch', bpDb, bpTip) /\ bpCatch'.covered = FALSE /\ \A b : Stores(bpCatch', b) <=> Stores(bpCatch, b)
        BY <2>1, LosesCover
    <2>3. StreamIs(bpCatch', bpDb, bpTip, 0, bpStream, bpSession)
        BY <1>0, <2>2 DEF StreamIs
    <2>4. TwiceIs(bpCatch', bpDb, 0)
        BY <2>2 DEF TwiceIs
    <2> QED  BY <2>1, <2>2, <2>3, <2>4
<1>3. ASSUME ListenStore(FALSE) PROVE BpInv'
    <2>1. /\ bpParsing # 0 /\ bpParsing' = 0 /\ bpDb' = OneMore(bpDb, bpParsing)
          /\ UNCHANGED <<bpStop, bpCatch, bpTip, bpToken, bpFollowing, bpSession, bpStream>>
        BY <1>3 DEF ListenStore, StoreBlock, OneMore
    <2>2. bpParsing \in 1 .. BpMaxTip
        BY <1>0, <2>1
    <2>3. bpDb[bpParsing] <= 1 /\ bpDb[bpParsing] \in 0 .. 2
        BY <2>2 DEF TwiceIs, Databases
    <2>4. /\ bpDb' \in Databases /\ bpDb'[bpParsing] = bpDb[bpParsing] + 1
          /\ \A x \in 1 .. BpMaxTip : x # bpParsing => bpDb'[x] = bpDb[x]
          /\ \A x \in 1 .. BpMaxTip : bpDb[x] > 0 => bpDb'[x] > 0
        BY <2>1, <2>2, <2>3, OneMoreIs
    <2>5. CatchIs(bpCatch, bpDb', bpTip)
        <3>1. bpTip <= bpTip
            BY <1>0
        <3> QED  BY <2>4, <3>1, CatchGrows
    <2>6. ASSUME bpCatch.covered, NEW b \in bpCatch.seen + 1 .. bpTip
          PROVE  bpDb'[b] > 0 \/ Contains(bpStream, b)
        <3>1. b \in 1 .. BpMaxTip
            BY <1>0
        <3>2. bpDb[b] > 0 \/ b = bpParsing \/ Contains(bpStream, b)
            BY <2>6 DEF StreamIs
        <3> QED  BY <2>3, <2>4, <3>1, <3>2
    <2>7. StreamIs(bpCatch, bpDb', bpTip, 0, bpStream, bpSession)
        <3>1. bpCatch.covered => bpSession = "open"
            BY DEF StreamIs
        <3> QED  BY <1>0, <2>6, <3>1 DEF StreamIs
    <2>8. TwiceIs(bpCatch, bpDb', 0)
        <3> SUFFICES ASSUME NEW b \in 1 .. BpMaxTip, Stores(bpCatch, b) PROVE bpDb'[b] <= 1
            BY DEF TwiceIs
        <3>1. CASE b = bpParsing
            BY <2>3, <2>4, <3>1 DEF TwiceIs
        <3>2. CASE b # bpParsing
            BY <2>4, <3>2 DEF TwiceIs
        <3> QED  BY <3>1, <3>2
    <2> QED  BY <2>1, <2>4, <2>5, <2>7, <2>8
<1> QED  BY <1>1, <1>2, <1>3
LEMMA NoCatchUpIs ==
    /\ NoCatchUp \in CatchUps /\ NoCatchUp.absent = FALSE /\ NoCatchUp.covered = FALSE
    /\ NoCatchUp.seen = 0 /\ NoCatchUp.last = 0 /\ NoCatchUp.todo = << >> /\ NoCatchUp.first = 0 /\ NoCatchUp.next = 0
BY DEF NoCatchUp, CatchUps
\* A catch-up that begins, or that ends with an error.
LEMMA BpEnds ==
    ASSUME BpInv, CancelCatchUP \/ storeParsed(TRUE) \/ \E b \in 1 .. bpTip : CatchUP(b)
    PROVE  BpInv'
<1> USE DEF BpInv
<1>0. /\ bpTip \in Nat /\ bpParsing \in 0 .. bpTip /\ bpStream \in Seq(1 .. bpTip)
    BY DEF StreamIs
<1>1. ASSUME NEW a \in {"failed", "cancelled"}, bpCatch' = [NoCatchUp EXCEPT !.at = a],
             UNCHANGED <<bpTip, bpDb>>, UNCHANGED bpFollow
      PROVE  BpInv'
    <2>1. /\ bpCatch' \in CatchUps /\ bpCatch'.at = a /\ bpCatch'.absent = FALSE /\ bpCatch'.covered = FALSE
          /\ bpCatch'.seen = 0 /\ bpCatch'.last = 0 /\ bpCatch'.todo = << >> /\ bpCatch'.first = 0 /\ bpCatch'.next = 0
        BY <1>1, NoCatchUpIs DEF CatchUps
    <2>2. CatchIs(bpCatch', bpDb, bpTip)
        BY <1>0, <2>1 DEF CatchIs
    <2>3. StreamIs(bpCatch', bpDb, bpTip, bpParsing, bpStream, bpSession)
        BY <1>0, <2>1 DEF StreamIs
    <2>4. TwiceIs(bpCatch', bpDb, bpParsing)
        BY <2>1 DEF TwiceIs, Stores
    <2> QED  BY <1>1, <2>2, <2>3, <2>4 DEF bpFollow
<1>2. ASSUME NEW b \in 1 .. bpTip, CatchUP(b) PROVE BpInv'
    <2>1. UNCHANGED <<bpTip, bpDb>> /\ UNCHANGED bpFollow
        BY <1>2 DEF CatchUP
    <2>2. /\ bpCatch' \in CatchUps /\ bpCatch'.at = "page" /\ bpCatch'.absent = FALSE
          /\ bpCatch'.covered = (bpSession = "open" /\ ~bpStop)
          /\ bpCatch'.seen = bpTip /\ bpCatch'.last = 0 /\ bpCatch'.todo = << >>
          /\ bpCatch'.first = b /\ bpCatch'.next = b /\ bpCatch'.from = b /\ bpCatch'.size = BpPageSize
        <3> DEFINE v == (bpSession = "open" /\ ~bpStop)
                   c == [NoCatchUp EXCEPT !.from = b, !.seen = bpTip, !.covered = v]
        <3>0. v \in BOOLEAN /\ b \in Nat
            OBVIOUS
        <3>1. /\ c \in CatchUps /\ c.absent = FALSE /\ c.covered = v /\ c.seen = bpTip
              /\ c.todo = << >> /\ c.from = b
            <4> HIDE DEF v
            <4> QED  BY <1>0, <3>0, NoCatchUpIs DEF CatchUps
        <3>2. bpCatch' = Request(c, b, BpPageSize, BpNumPages)
            BY <1>2 DEF CatchUP
        <3>3. BpPageSize \in Nat /\ BpNumPages \in Nat /\ b \in Nat
            BY ByprosAssumption
        <3> HIDE DEF c
        <3> QED  BY <3>1, <3>2, <3>3 DEF Request, CatchUps
    <2>3. b \in Nat /\ b >= 1 /\ BpPageSize >= 1
        BY ByprosAssumption
    <2>4. CatchIs(bpCatch', bpDb, bpTip)
        BY <1>0, <2>2, <2>3 DEF CatchIs
    <2>5. StreamIs(bpCatch', bpDb, bpTip, bpParsing, bpStream, bpSession)
        <3>1. bpCatch'.covered => bpSession = "open"
            BY <2>2, Zenon
        <3>2. \A x \in bpCatch'.seen + 1 .. bpTip : FALSE
            BY <1>0, <2>2
        <3> QED  BY <1>0, <3>1, <3>2 DEF StreamIs
    <2>6. TwiceIs(bpCatch', bpDb, bpParsing)
        BY <2>2 DEF TwiceIs, Stores
    <2> QED  BY <2>1, <2>4, <2>5, <2>6 DEF bpFollow
<1>3. CASE CancelCatchUP
    BY <1>1, <1>3 DEF CancelCatchUP
<1>4. CASE storeParsed(TRUE)
    BY <1>1, <1>4 DEF storeParsed
<1> QED  BY <1>2, <1>3, <1>4
\* A page that is asked for, from a block that no block is missing before.
CanAsk(c, d, tip, first, size, pages) ==
    /\ d \in Databases /\ tip \in Nat /\ first \in Nat /\ size \in Nat /\ pages \in Nat
    /\ c \in CatchUps /\ c.seen <= tip /\ c.absent = FALSE /\ c.todo = << >> /\ c.from >= 1 /\ first >= 1 /\ size >= 1
    /\ \A b \in c.from .. first - 1 : b <= tip /\ d[b] > 0
Asked(r, c, d, tip) == CatchIs(r, d, tip) /\ r.absent = FALSE /\ r.seen = c.seen /\ r.covered = c.covered
LEMMA RequestIs ==
    ASSUME NEW c, NEW d, NEW tip, NEW first, NEW size, NEW pages, CanAsk(c, d, tip, first, size, pages)
    PROVE  Asked(Request(c, first, size, pages), c, d, tip)
<1> DEFINE r == Request(c, first, size, pages)
<1> USE DEF CanAsk
<1>1. /\ r \in CatchUps /\ r.at = "page" /\ r.first = first /\ r.next = first /\ r.size = size /\ r.last = 0
      /\ r.from = c.from /\ r.seen = c.seen /\ r.absent = FALSE /\ r.todo = << >> /\ r.covered = c.covered
    BY DEF Request, CatchUps
<1> HIDE DEF r
<1>2. CatchIs(r, d, tip)
    BY <1>1 DEF CatchIs
<1> QED  BY <1>1, <1>2 DEF r, Asked
\* What a step of the catch-up has to keep, when it stores nothing.
LEMMA CatchSteps ==
    ASSUME BpInv, UNCHANGED <<bpTip, bpDb>>, UNCHANGED bpFollow, CatchIs(bpCatch', bpDb, bpTip),
           bpCatch'.covered = bpCatch.covered, bpCatch'.seen >= bpCatch.seen, bpCatch'.absent = FALSE
    PROVE  BpInv'
<1> USE DEF BpInv
<1>1. bpCatch.seen \in Nat /\ bpCatch'.seen \in Nat /\ bpTip \in Nat
    BY DEF CatchIs, CatchUps
<1>2. StreamIs(bpCatch', bpDb, bpTip, bpParsing, bpStream, bpSession)
    <2>1. bpCatch'.seen + 1 .. bpTip \subseteq bpCatch.seen + 1 .. bpTip
        BY <1>1
    <2> QED  BY <2>1 DEF StreamIs
<1>3. TwiceIs(bpCatch', bpDb, bpParsing)
    BY DEF TwiceIs, Stores
<1> QED  BY <1>2, <1>3 DEF bpFollow
LEMMA BpPages ==
    ASSUME BpInv, \E t \in 1 .. bpTip : handlePages(t)
    PROVE  BpInv'
<1> USE DEF BpInv
<1>1. PICK t \in 1 .. bpTip : handlePages(t)
    OBVIOUS
<1> DEFINE c == [bpCatch EXCEPT !.seen = t]
<1>2. /\ bpCatch.at = "page" /\ t \in bpCatch.seen .. bpTip /\ bpCatch' = Page(c, t)
      /\ UNCHANGED <<bpTip, bpDb>> /\ UNCHANGED bpFollow
    BY <1>1 DEF handlePages
<1>3. bpCatch \in CatchUps /\ bpCatch.seen \in Nat /\ t \in Nat /\ bpTip \in Nat /\ t <= bpTip /\ t >= bpCatch.seen
    BY <1>2 DEF CatchIs, CatchUps
<1>4. /\ c \in CatchUps /\ c.at = "page" /\ c.seen = t /\ c.from = bpCatch.from /\ c.first = bpCatch.first /\ c.next = bpCatch.next
      /\ c.size = bpCatch.size /\ c.last = bpCatch.last /\ c.todo = bpCatch.todo /\ c.absent = bpCatch.absent
      /\ c.covered = bpCatch.covered
    BY <1>2, <1>3 DEF CatchUps
<1>5. /\ c.absent = FALSE /\ c.todo = << >> /\ c.from >= 1 /\ c.first >= 1 /\ c.next >= 1 /\ c.size >= 1
      /\ c.last = 0 \/ c.last = c.next - 1
      /\ c.last = 0 => c.first <= c.next
    <2>1. bpCatch.absent = FALSE
        BY <1>2, <1>3 DEF CatchIs, CatchUps
    <2> HIDE DEF c
    <2> QED  BY <1>2, <1>4, <2>1 DEF CatchIs
<1>6. \A b \in c.from .. c.next - 1 : b <= bpTip /\ bpDb[b] > 0
    <2> SUFFICES ASSUME NEW b \in c.from .. c.next - 1 PROVE b <= bpTip /\ bpDb[b] > 0
        OBVIOUS
    <2>1. b <= bpTip /\ (bpDb[b] > 0 \/ Contains(bpCatch.todo, b))
        <3> HIDE DEF c
        <3> QED  BY <1>2, <1>4 DEF CatchIs
    <2>2. ~Contains(<< >>, b)
        BY DEF Contains
    <2> QED  BY <1>4, <1>5, <2>1, <2>2
<1>7. /\ c.from \in Nat /\ c.first \in Nat /\ c.next \in Nat /\ c.size \in Nat /\ c.last \in Nat /\ c.page \in Nat /\ c.pages \in Nat
    BY <1>4 DEF CatchUps
<1> HIDE DEF c
<1>8. CASE c.next > t
    <2>1. bpCatch' = [c EXCEPT !.at = "done"]
        BY <1>2, <1>8 DEF Page
    <2>2. /\ bpCatch' \in CatchUps /\ bpCatch'.at = "done" /\ bpCatch'.seen = t /\ bpCatch'.from = c.from /\ bpCatch'.first = c.first
          /\ bpCatch'.next = c.next /\ bpCatch'.last = c.last /\ bpCatch'.todo = << >> /\ bpCatch'.absent = FALSE
          /\ bpCatch'.covered = c.covered
        BY <1>4, <1>5, <2>1 DEF CatchUps
    <2>3. \A b \in bpCatch'.from .. bpCatch'.seen : bpDb[b] > 0
        BY <1>3, <1>6, <1>7, <1>8, <2>2
    <2>4. CatchIs(bpCatch', bpDb, bpTip)
        BY <1>3, <1>5, <2>2, <2>3 DEF CatchIs
    <2> QED  BY <1>2, <1>3, <1>4, <2>2, <2>4, CatchSteps
<1>9. CASE ~(c.next > t) /\ c.next + c.size - 1 > t
    <2> DEFINE first == IF c.last = 0 THEN c.first ELSE c.last
    <2>1. bpCatch' = Request(c, first, t - c.next + 1, 1)
        BY <1>2, <1>9 DEF Page, LoadRest
    <2>2. first \in Nat /\ first >= 1 /\ first <= c.next /\ t - c.next + 1 \in Nat /\ t - c.next + 1 >= 1
        <3>1. c.next <= t /\ t - c.next + 1 \in Nat /\ t - c.next + 1 >= 1
            BY <1>3, <1>7, <1>9
        <3>2. CASE c.last = 0
            BY <1>5, <1>7, <3>1, <3>2
        <3>3. CASE c.last # 0
            <4>1. c.last = c.next - 1 /\ c.last >= 1
                BY <1>5, <1>7, <3>3
            <4> QED  BY <1>7, <3>1, <3>3, <4>1
        <3> QED  BY <3>2, <3>3
    <2> HIDE DEF first
    <2>3. \A b \in c.from .. first - 1 : b <= bpTip /\ bpDb[b] > 0
        BY <1>6, <1>7, <2>2
    <2>4. CatchIs(bpCatch', bpDb, bpTip) /\ bpCatch'.absent = FALSE /\ bpCatch'.seen = c.seen /\ bpCatch'.covered = c.covered
        <3>1. c.seen <= bpTip /\ 1 \in Nat
            BY <1>3, <1>4
        <3>2. c \in CatchUps /\ c.absent = FALSE /\ c.todo = << >> /\ c.from >= 1 /\ bpTip \in Nat /\ bpDb \in Databases
            BY <1>3, <1>4, <1>5
        <3>3. CanAsk(c, bpDb, bpTip, first, t - c.next + 1, 1)
            BY <2>2, <2>3, <3>1, <3>2 DEF CanAsk
        <3>4. Asked(bpCatch', c, bpDb, bpTip)
            <4>1. Asked(Request(c, first, t - c.next + 1, 1), c, bpDb, bpTip)
                BY <3>3, RequestIs
            <4> QED  BY <2>1, <4>1
        <3> QED  BY <3>4 DEF Asked
    <2> QED  BY <1>2, <1>3, <1>4, <2>4, CatchSteps
<1>10. CASE ~(c.next > t) /\ ~(c.next + c.size - 1 > t)
    <2> DEFINE todo == [i \in 1 .. c.size |-> c.next + i - 1]
    <2>1. bpCatch' = [c EXCEPT !.at = "blocks", !.todo = todo, !.next = c.next + c.size, !.page = c.page + 1,
                               !.last = c.next + c.size - 1]
        BY <1>2, <1>10 DEF Page
    <2>2. /\ todo \in Seq(Nat) /\ Len(todo) = c.size /\ \A i \in 1 .. c.size : todo[i] = c.next + i - 1
        <3>1. \A i \in 1 .. c.size : c.next + i - 1 \in Nat
            BY <1>7
        <3>2. todo \in [1 .. c.size -> Nat]
            BY <3>1
        <3>3. DOMAIN todo = 1 .. c.size /\ \A i \in 1 .. c.size : todo[i] = c.next + i - 1
            OBVIOUS
        <3> HIDE DEF todo
        <3>4. todo \in Seq(Nat) /\ Len(todo) = c.size
            BY <1>7, <3>2, <3>3
        <3> QED  BY <3>3, <3>4
    <2> HIDE DEF todo
    <2>3. c.next + c.size \in Nat /\ c.page + 1 \in Nat /\ c.next + c.size - 1 \in Nat /\ c.next + c.size - 1 # 0
        BY <1>5, <1>7
    <2>4. /\ bpCatch' \in CatchUps /\ bpCatch'.at = "blocks" /\ bpCatch'.seen = t /\ bpCatch'.from = c.from /\ bpCatch'.first = c.first
          /\ bpCatch'.next = c.next + c.size /\ bpCatch'.last = c.next + c.size - 1 /\ bpCatch'.todo = todo
          /\ bpCatch'.absent = FALSE /\ bpCatch'.covered = c.covered /\ bpCatch'.size = c.size
        BY <1>4, <1>5, <2>1, <2>2, <2>3 DEF CatchUps
    <2>5. ASSUME NEW b \in c.from .. c.next + c.size - 1 PROVE b <= bpTip /\ (bpDb[b] > 0 \/ Contains(todo, b))
        <3>1. CASE b <= c.next - 1
            BY <1>6, <1>7, <3>1
        <3>2. CASE b >= c.next
            <4>1. b \in Int /\ b - c.next + 1 \in 1 .. c.size /\ c.next + (b - c.next + 1) - 1 = b
                BY <1>7, <3>2
            <4>2. b <= bpTip
                BY <1>3, <1>7, <1>10
            <4>3. todo[b - c.next + 1] = b
                BY <2>2, <4>1
            <4> QED  BY <2>2, <4>1, <4>2, <4>3 DEF Contains
        <3> QED  BY <1>7, <3>1, <3>2
    <2>6. \A i \in 1 .. Len(todo) : todo[i] \in 1 .. bpTip
        <3>0. c.next + c.size - 1 <= bpTip
            BY <1>3, <1>7, <1>10
        <3>1. ASSUME NEW i \in 1 .. c.size PROVE c.next + i - 1 \in 1 .. bpTip
            BY <1>3, <1>5, <1>7, <3>0
        <3> QED  BY <2>2, <3>1
    <2>7. CatchIs(bpCatch', bpDb, bpTip)
        <3>1. bpCatch'.seen <= bpTip /\ bpCatch'.last = bpCatch'.next - 1 /\ bpCatch'.last # 0 /\ bpCatch'.next >= 1
            BY <1>3, <1>5, <1>7, <2>3, <2>4
        <3>2. \A b \in bpCatch'.from .. bpCatch'.next - 1 : b <= bpTip /\ (bpDb[b] > 0 \/ Contains(bpCatch'.todo, b))
            <4> SUFFICES ASSUME NEW b \in bpCatch'.from .. bpCatch'.next - 1
                         PROVE  b <= bpTip /\ (bpDb[b] > 0 \/ Contains(bpCatch'.todo, b))
                OBVIOUS
            <4>1. b \in c.from .. c.next + c.size - 1
                <5>1. bpCatch'.from = c.from /\ bpCatch'.next = c.next + c.size
                    BY <2>4
                <5> QED  BY <1>7, <2>3, <5>1
            <4>2. b <= bpTip /\ (bpDb[b] > 0 \/ Contains(todo, b))
                BY <2>5, <4>1
            <4> QED  BY <2>4, <4>2
        <3> QED  BY <1>5, <2>4, <2>6, <3>1, <3>2 DEF CatchIs
    <2> QED  BY <1>2, <1>3, <1>4, <2>4, <2>7, CatchSteps
<1> QED  BY <1>8, <1>9, <1>10
LEMMA BpNextPage ==
    ASSUME BpInv, NextPage
    PROVE  BpInv'
<1> USE DEF BpInv
<1> DEFINE c == bpCatch
<1>1. /\ c.at = "blocks" /\ c.todo = << >>
      /\ bpCatch' = IF c.page < c.pages THEN [c EXCEPT !.at = "page"]
                    ELSE IF c.last = c.seen THEN [c EXCEPT !.at = "done"]
                    ELSE Request(c, c.last + 1, c.size, c.pages)
      /\ UNCHANGED <<bpTip, bpDb>> /\ UNCHANGED bpFollow
    BY DEF NextPage
<1>2. c \in CatchUps /\ c.last # 0 /\ c.last = c.next - 1 /\ c.from >= 1 /\ c.first >= 1 /\ c.next >= 1 /\ c.size >= 1 /\ c.seen <= bpTip
    BY <1>1 DEF CatchIs
<1>3. c.absent = FALSE
    <2>1. ~c.absent
        BY <1>1 DEF CatchIs
    <2> QED  BY <1>2, <2>1 DEF CatchUps
<1>4. /\ c.last \in Nat /\ c.next \in Nat /\ c.from \in Nat /\ c.size \in Nat /\ c.pages \in Nat /\ c.seen \in Nat /\ bpTip \in Nat
      /\ c.last + 1 \in Nat /\ c.last + 1 >= 1 /\ c.last + 1 = c.next /\ c.seen >= c.seen
    BY <1>2 DEF CatchUps
<1>5. \A b \in c.from .. c.next - 1 : b <= bpTip /\ bpDb[b] > 0
    <2> SUFFICES ASSUME NEW b \in c.from .. c.next - 1 PROVE b <= bpTip /\ bpDb[b] > 0
        OBVIOUS
    <2>1. b <= bpTip /\ (bpDb[b] > 0 \/ Contains(c.todo, b))
        BY <1>1 DEF CatchIs
    <2>2. ~Contains(<< >>, b)
        BY DEF Contains
    <2> QED  BY <1>1, <2>1, <2>2
<1>6. CASE c.page < c.pages \/ c.last = c.seen
    <2>1. PICK a \in {"page", "done"} : bpCatch' = [c EXCEPT !.at = a] /\ (a = "done" => c.last = c.seen)
        BY <1>1, <1>6
    <2>2. /\ bpCatch' \in CatchUps /\ bpCatch'.at = a /\ bpCatch'.seen = c.seen /\ bpCatch'.from = c.from /\ bpCatch'.first = c.first
          /\ bpCatch'.next = c.next /\ bpCatch'.last = c.last /\ bpCatch'.todo = << >> /\ bpCatch'.absent = FALSE
          /\ bpCatch'.covered = c.covered /\ bpCatch'.size = c.size
        BY <1>1, <1>2, <1>3, <2>1 DEF CatchUps
    <2>3. a = "done" => \A b \in c.from .. c.seen : bpDb[b] > 0
        BY <1>2, <1>4, <1>5, <2>1
    <2> HIDE DEF c
    <2>4. CatchIs(bpCatch', bpDb, bpTip)
        <3>1. a = "done" \/ a = "page"
            OBVIOUS
        <3> QED  BY <1>2, <1>5, <2>2, <2>3, <3>1 DEF CatchIs
    <2> QED  BY <1>1, <1>4, <2>2, <2>4, CatchSteps DEF c
<1>7. CASE ~(c.page < c.pages) /\ c.last # c.seen
    <2> DEFINE first == c.last + 1
               next == Request(c, first, c.size, c.pages)
    <2>1. first \in Nat /\ first >= 1 /\ bpCatch' = next
        BY <1>1, <1>4, <1>7
    <2>2. \A b \in c.from .. first - 1 : b <= bpTip /\ bpDb[b] > 0
        BY <1>4, <1>5
    <2>3. CanAsk(c, bpDb, bpTip, first, c.size, c.pages)
        BY <1>1, <1>2, <1>3, <1>4, <2>1, <2>2 DEF CanAsk
    <2>4. Asked(next, c, bpDb, bpTip)
        BY <2>3, RequestIs
    <2> HIDE DEF next
    <2> QED  BY <1>1, <1>4, <2>1, <2>4, CatchSteps DEF Asked
<1> QED  BY <1>6, <1>7
\* The first of the blocks of a page is done.
LEMMA CatchDrops ==
    ASSUME NEW c, NEW d \in Databases, NEW tip \in 1 .. BpMaxTip, BpMaxTip \in Nat, CatchIs(c, d, tip), c.todo # << >>, d[c.todo[1]] > 0
    PROVE  LET n == [c EXCEPT !.todo = Tail(@), !.absent = FALSE]
           IN  CatchIs(n, d, tip) /\ n.absent = FALSE /\ n.seen = c.seen /\ n.covered = c.covered
<1> DEFINE n == [c EXCEPT !.todo = Tail(@), !.absent = FALSE]
<1>1. c \in CatchUps /\ c.todo \in Seq(Nat) /\ c.at = "blocks"
    BY DEF CatchIs, CatchUps
<1>2. Tail(c.todo) \in Seq(Nat) /\ Len(Tail(c.todo)) = Len(c.todo) - 1 /\ \A i \in 1 .. Len(Tail(c.todo)) : Tail(c.todo)[i] = c.todo[i + 1]
    BY <1>1
<1>3. /\ n \in CatchUps /\ n.at = "blocks" /\ n.from = c.from /\ n.first = c.first /\ n.next = c.next /\ n.size = c.size
      /\ n.seen = c.seen /\ n.last = c.last /\ n.todo = Tail(c.todo) /\ n.absent = FALSE /\ n.covered = c.covered
    BY <1>1, <1>2 DEF CatchUps
<1> HIDE DEF n
<1>4. ASSUME NEW b \in c.from .. c.next - 1 PROVE b <= tip /\ (d[b] > 0 \/ Contains(Tail(c.todo), b))
    <2>1. b <= tip /\ (d[b] > 0 \/ Contains(c.todo, b))
        BY <1>1 DEF CatchIs
    <2>2. Contains(c.todo, b) => b = c.todo[1] \/ Contains(Tail(c.todo), b)
        BY <1>1, InTail
    <2> QED  BY <2>1, <2>2
<1>5. ASSUME NEW i \in 1 .. Len(Tail(c.todo)) PROVE Tail(c.todo)[i] \in 1 .. tip
    <2>1. i + 1 \in 1 .. Len(c.todo) /\ Tail(c.todo)[i] = c.todo[i + 1]
        BY <1>1, <1>2
    <2> QED  BY <2>1 DEF CatchIs
<1>6. CatchIs(n, d, tip)
    <2>1. \A b \in n.from .. n.next - 1 : b <= tip /\ (d[b] > 0 \/ Contains(n.todo, b))
        BY <1>3, <1>4
    <2>2. \A i \in 1 .. Len(n.todo) : n.todo[i] \in 1 .. tip
        BY <1>3, <1>5
    <2> QED  BY <1>1, <1>3, <2>1, <2>2 DEF CatchIs
<1> QED  BY <1>3, <1>6 DEF n
LEMMA BpParse ==
    ASSUME BpInv, parseBlock
    PROVE  BpInv'
<1> USE DEF BpInv
<1> DEFINE c == bpCatch
<1>1. /\ c.at = "blocks" /\ c.todo # << >> /\ c.absent = FALSE /\ c \in CatchUps /\ c.todo \in Seq(Nat)
      /\ UNCHANGED <<bpTip, bpDb>> /\ UNCHANGED bpFollow
    BY DEF parseBlock, CatchIs, CatchUps
<1>2. c.seen \in Nat /\ c.seen >= c.seen
    BY <1>1 DEF CatchUps
<1>3. CASE bpDb[c.todo[1]] > 0
    <2> DEFINE n == [c EXCEPT !.todo = Tail(@), !.absent = FALSE]
    <2>1. bpCatch' = [c EXCEPT !.todo = Tail(@)]
        BY <1>3 DEF parseBlock, InDatabase
    <2>2. bpCatch' = n
        BY <1>1, <2>1 DEF CatchUps
    <2>3. CatchIs(n, bpDb, bpTip) /\ n.absent = FALSE /\ n.seen = c.seen /\ n.covered = c.covered
        BY <1>1, <1>3, CatchDrops
    <2> HIDE DEF n
    <2> QED  BY <1>1, <1>2, <2>2, <2>3, CatchSteps
<1>4. CASE ~(bpDb[c.todo[1]] > 0)
    <2>1. bpCatch' = [c EXCEPT !.absent = TRUE]
        BY <1>4 DEF parseBlock, InDatabase
    <2>2. /\ bpCatch' \in CatchUps /\ bpCatch'.at = c.at /\ bpCatch'.from = c.from /\ bpCatch'.first = c.first /\ bpCatch'.next = c.next
          /\ bpCatch'.size = c.size /\ bpCatch'.seen = c.seen /\ bpCatch'.last = c.last /\ bpCatch'.todo = c.todo
          /\ bpCatch'.absent = TRUE /\ bpCatch'.covered = c.covered
        BY <1>1, <2>1 DEF CatchUps
    <2>3. CatchIs(bpCatch', bpDb, bpTip)
        BY <1>1, <2>2 DEF CatchIs
    <2>4. StreamIs(bpCatch', bpDb, bpTip, bpParsing, bpStream, bpSession)
        BY <2>2 DEF StreamIs
    <2>5. c.todo[1] \in 1 .. bpTip
        <3>1. 1 \in 1 .. Len(c.todo)
            BY <1>1
        <3> QED  BY <3>1 DEF CatchIs
    <2>6. bpDb[c.todo[1]] = 0
        <3>1. c.todo[1] \in 1 .. BpMaxTip
            BY <2>5
        <3>2. bpDb[c.todo[1]] \in 0 .. 2
            BY <3>1 DEF Databases
        <3> QED  BY <1>4, <3>2
    <2>7. TwiceIs(bpCatch', bpDb, bpParsing)
        BY <2>2, <2>6 DEF TwiceIs, Stores
    <2> QED  BY <1>1, <2>3, <2>4, <2>7 DEF bpFollow
<1> QED  BY <1>3, <1>4
LEMMA BpStoreParsed ==
    ASSUME BpInv, storeParsed(FALSE)
    PROVE  BpInv'
<1> USE DEF BpInv
<1> DEFINE c == bpCatch
           x == c.todo[1]
           d == OneMore(bpDb, x)
           n == [c EXCEPT !.todo = Tail(@), !.absent = FALSE]
<1>1. c.absent /\ bpDb' = d /\ bpCatch' = n /\ UNCHANGED bpTip /\ UNCHANGED bpFollow
    BY DEF storeParsed, StoreBlock, OneMore
<1>2. c.todo # << >> /\ c \in CatchUps /\ c.todo \in Seq(Nat) /\ c.at = "blocks" /\ bpTip \in Nat /\ c.seen \in Nat
    BY <1>1 DEF CatchIs, CatchUps
<1>3. x \in 1 .. bpTip
    <2>1. 1 \in 1 .. Len(c.todo)
        BY <1>2
    <2> QED  BY <2>1 DEF CatchIs
<1>4. x \in 1 .. BpMaxTip /\ Stores(c, x)
    BY <1>1, <1>3 DEF Stores
<1>5. bpDb[x] <= 1 /\ bpDb[x] \in 0 .. 2 /\ (bpParsing = x => bpDb[x] = 0)
    BY <1>4 DEF TwiceIs, Databases
<1>6. /\ d \in Databases /\ d[x] = bpDb[x] + 1 /\ d[x] > 0
      /\ \A y \in 1 .. BpMaxTip : y # x => d[y] = bpDb[y]
      /\ \A y \in 1 .. BpMaxTip : bpDb[y] > 0 => d[y] > 0
    <2> HIDE DEF x
    <2> QED  BY <1>4, <1>5, OneMoreIs
<1>7. CatchIs(c, d, bpTip)
    <2>1. bpTip <= bpTip
        BY <1>2
    <2> HIDE DEF d
    <2> QED  BY <1>6, <2>1, CatchGrows
<1>8. CatchIs(n, d, bpTip) /\ n.absent = FALSE /\ n.seen = c.seen /\ n.covered = c.covered
    <2> HIDE DEF d
    <2> QED  BY <1>2, <1>6, <1>7, CatchDrops
<1> HIDE DEF d, n
<1>9. StreamIs(n, d, bpTip, bpParsing, bpStream, bpSession)
    <2>1. ASSUME c.covered, NEW b \in c.seen + 1 .. bpTip PROVE d[b] > 0 \/ b = bpParsing \/ Contains(bpStream, b)
        <3>1. bpDb[b] > 0 \/ b = bpParsing \/ Contains(bpStream, b)
            BY <2>1 DEF StreamIs
        <3>2. b \in 1 .. BpMaxTip
            BY <1>2
        <3> QED  BY <1>6, <3>1, <3>2
    <2> QED  BY <1>8, <2>1 DEF StreamIs
<1>10. TwiceIs(n, d, bpParsing)
    <2> SUFFICES ASSUME NEW b \in 1 .. BpMaxTip, bpParsing = b PROVE d[b] <= 1
        BY <1>8 DEF TwiceIs, Stores
    <2>1. CASE b = x
        BY <1>5, <1>6, <2>1
    <2>2. CASE b # x
        BY <1>6, <2>2 DEF TwiceIs
    <2> QED  BY <2>1, <2>2
<1> QED  BY <1>1, <1>6, <1>8, <1>9, <1>10 DEF bpFollow
LEMMA BpStays ==
    ASSUME BpInv, BpNext \/ UNCHANGED bpVars
    PROVE  BpInv'
<1>1. CASE UNCHANGED bpVars
    BY <1>1 DEF bpVars, BpInv
<1>2. CASE BpNext
    <2>1. \/ AddBlock \/ ListenBlock \/ ConnectionLost \/ Unfollow \/ CloseSession \/ EndSession
          \/ \E c, s \in BOOLEAN : Follow(c, s)
          \/ \E f \in BOOLEAN : ListenStore(f)
          \/ storeParsed(TRUE) \/ storeParsed(FALSE)
          \/ \E b \in 1 .. bpTip : CatchUP(b)
          \/ \E b \in 1 .. bpTip : handlePages(b)
          \/ parseBlock \/ NextPage \/ CancelCatchUP
        BY <1>2 DEF BpNext
    <2> QED  BY <2>1, BpAddBlock, BpListen, BpSession, BpEnds, BpPages, BpParse, BpNextPage, BpStoreParsed
<1> QED  BY <1>1, <1>2
LEMMA BpShows ==
    ASSUME BpInv
    PROVE  BpTypeOK /\ CatchUpComplete
<1> USE DEF BpInv
<1>1. bpCatch \in CatchUps /\ bpCatch.seen <= bpTip /\ bpCatch.seen \in Nat /\ bpTip \in Nat
    BY DEF CatchIs, CatchUps
<1>2. BpTypeOK
    <2>1. bpParsing \in 0 .. BpMaxTip
        BY <1>1 DEF StreamIs
    <2> QED  BY <1>1, <2>1 DEF BpTypeOK, Databases, CatchUps
<1>3. CatchUpComplete
    <2> SUFFICES ASSUME bpCatch.at = "done", NEW b \in bpCatch.from .. bpTip
                 PROVE  InDatabase(b) \/ (bpCatch.covered /\ OnTheWay(b)) \/ (~bpCatch.covered /\ b > bpCatch.seen)
        BY DEF CatchUpComplete
    <2>1. bpCatch.from \in Nat
        BY <1>1 DEF CatchUps
    <2>2. CASE b <= bpCatch.seen
        <3>1. b \in bpCatch.from .. bpCatch.seen
            BY <1>1, <2>1, <2>2
        <3> QED  BY <3>1 DEF CatchIs, InDatabase
    <2>3. CASE ~(b <= bpCatch.seen)
        <3>1. b \in bpCatch.seen + 1 .. bpTip /\ b > bpCatch.seen
            BY <1>1, <2>1, <2>3
        <3> QED  BY <3>1 DEF StreamIs, InDatabase, OnTheWay
    <2> QED  BY <2>2, <2>3
<1> QED  BY <1>2, <1>3

-----------------------------------------------------------------------------
(* The personhood contracts.  Of the instances after every instruction:    *)
(* the coins in the accounts, at stake and in the purse, and who signed    *)
(* which list.                                                             *)
CoinSets == UNION {[D -> Nat] : D \in SUBSET PhAccounts}
Lists == PhLists \cup {<< >>}
Games == [stake : Nat, hash : Moves, first : Moves \cup {-1}, second : Moves \cup {-1}, acc1 : PhAccounts \cup {""},
          acc2 : PhAccounts \cup {""}, secret : BOOLEAN, open : BOOLEAN]
Parties == [state : {"none", "init", "scanning", "finalized"}, attendees : Lists, finalizations : Seq(PhOrganizers),
            miners : SUBSET Attendees]
PhStates == [coins : CoinSets, costs : {<< >>} \cup [Kinds -> Nat], made : SUBSET Kinds, game : Games, games : 0 .. PhMaxGames,
             party : Parties, last : [PhOrganizers -> Lists], prizes : Nat, earned : [Attendees -> Nat]]
PartyIs(y, last, earned) ==
    /\ y.state \in {"none", "init"} => y.finalizations = << >>
    /\ \A i \in 1 .. Len(y.finalizations) : last[y.finalizations[i]] = y.attendees
    /\ \A i, j \in 1 .. Len(y.finalizations) : y.finalizations[i] = y.finalizations[j] => i = j
    /\ y.state = "finalized" => \A o \in PhOrganizers : last[o] = y.attendees
    /\ y.state # "finalized" => y.miners = {}
    /\ y.miners \subseteq Range(y.attendees)
    /\ \A a \in Attendees : earned[a] = IF a \in y.miners THEN PhReward ELSE 0
CoinsAre(coins, game, earned, prizes, p, scene) ==
    Total(coins) + Staked(game) + p <= Total(PhStart[scene]) + Total(earned) + prizes
PhOk(s, p, scene) ==
    /\ s \in PhStates /\ p \in Nat /\ PartyIs(s.party, s.last, s.earned)
    /\ CoinsAre(s.coins, s.game, s.earned, s.prizes, p, scene)
PhInv ==
    /\ phLeft \in 0 .. PhMaxInstr /\ phScene \in {"games", "party"}
    /\ PhOk(phState, 0, phScene) /\ PhOk(phWork, phPurse, phScene)

\* The sum of a function to numbers, and what a new value does to it.
Sets(f, a, n) == [x \in DOMAIN f \cup {a} |-> IF x = a THEN n ELSE f[x]]
LEMMA TotalType ==
    ASSUME NEW f, IsFiniteSet(DOMAIN f), \A x \in DOMAIN f : f[x] \in Nat
    PROVE  Total(f) = SumOver(f, DOMAIN f) /\ Total(f) \in Int
<1>1. Total(f) = SumOver(f, DOMAIN f)
    BY MapThenSumIsSum DEF Total
<1>2. \A x \in DOMAIN f : f[x] \in Int
    OBVIOUS
<1>3. SumOver(f, DOMAIN f) \in Int
    BY <1>2, Sums
<1> QED  BY <1>1, <1>3
LEMMA TotalSets ==
    ASSUME NEW f, IsFiniteSet(DOMAIN f), \A x \in DOMAIN f : f[x] \in Nat, NEW a, NEW n \in Nat
    PROVE  Total(Sets(f, a, n)) = Total(f) + n - (IF a \in DOMAIN f THEN f[a] ELSE 0)
<1> DEFINE D == DOMAIN f
           E == D \cup {a}
           R == D \ {a}
           g == Sets(f, a, n)
<1>1. DOMAIN g = E /\ g[a] = n /\ \A x \in R : g[x] = f[x]
    BY DEF Sets
<1>2. \A x \in E : g[x] \in Nat
    BY DEF Sets
<1>3. IsFiniteSet(E) /\ IsFiniteSet(R) /\ E \ {a} = R /\ a \in E
    BY FS_AddElement, FS_RemoveElement
<1> HIDE DEF g
<1>4. Total(g) = SumOver(g, E) /\ Total(f) = SumOver(f, D) /\ Total(f) \in Int
    <2>1. IsFiniteSet(DOMAIN g) /\ \A x \in DOMAIN g : g[x] \in Nat
        BY <1>1, <1>2, <1>3
    <2> QED  BY <1>1, <2>1, TotalType
<1>5. SumOver(g, E) = n + SumOver(g, R) /\ SumOver(g, R) \in Int
    <2>1. \A x \in E : g[x] \in Int
        BY <1>2
    <2> HIDE DEF E, R
    <2> QED  BY <1>1, <1>3, <2>1, Sums
<1>6. SumOver(g, R) = SumOver(f, R)
    <2>1. \A x \in R : g[x] \in Int /\ g[x] = f[x]
        BY <1>1
    <2> HIDE DEF R
    <2> QED  BY <1>3, <2>1, Sums
<1>7. SumOver(f, D) = SumOver(f, R) + IF a \in D THEN f[a] ELSE 0
    <2>1. CASE a \in D
        <3>1. \A x \in D : f[x] \in Int
            OBVIOUS
        <3>2. SumOver(f, D) = f[a] + SumOver(f, R) /\ SumOver(f, R) \in Int
            <4> HIDE DEF D
            <4> QED  BY <2>1, <3>1, Sums DEF R, D
        <3> QED  BY <2>1, <3>1, <3>2
    <2>2. CASE a \notin D
        <3>1. R = D
            BY <2>2
        <3> QED  BY <1>5, <1>6, <2>2, <3>1
    <2> QED  BY <2>1, <2>2
<1>8. (IF a \in D THEN f[a] ELSE 0) \in Nat
    OBVIOUS
<1> HIDE DEF D, E, R
<1> QED  BY <1>4, <1>5, <1>6, <1>7, <1>8 DEF g, D
\* The coins of the accounts.
LEMMA CoinsType ==
    ASSUME NEW f \in CoinSets
    PROVE  /\ IsFiniteSet(DOMAIN f) /\ DOMAIN f \subseteq PhAccounts /\ (\A x \in DOMAIN f : f[x] \in Nat) /\ Total(f) \in Int
           /\ \A a \in PhAccounts, n \in Nat :
                 /\ Sets(f, a, n) \in CoinSets /\ Total(Sets(f, a, n)) \in Int
                 /\ Total(Sets(f, a, n)) = Total(f) + n - (IF a \in DOMAIN f THEN f[a] ELSE 0)
<1>1. PICK D \in SUBSET PhAccounts : f \in [D -> Nat]
    BY DEF CoinSets
<1>2. IsFiniteSet(DOMAIN f) /\ DOMAIN f \subseteq PhAccounts /\ (\A x \in DOMAIN f : f[x] \in Nat)
    <2>1. IsFiniteSet(PhAccounts)
        BY PersonhoodAssumption
    <2>2. IsFiniteSet(D)
        BY <2>1, FS_Subset
    <2> QED  BY <1>1, <2>2
<1>3. ASSUME NEW a \in PhAccounts, NEW n \in Nat
      PROVE  /\ Sets(f, a, n) \in CoinSets /\ Total(Sets(f, a, n)) \in Int
             /\ Total(Sets(f, a, n)) = Total(f) + n - (IF a \in DOMAIN f THEN f[a] ELSE 0)
    <2>1. D \cup {a} \in SUBSET PhAccounts /\ Sets(f, a, n) \in [D \cup {a} -> Nat]
        BY <1>1 DEF Sets
    <2>2. Sets(f, a, n) \in CoinSets
        BY <2>1 DEF CoinSets
    <2>3. IsFiniteSet(D \cup {a}) /\ DOMAIN Sets(f, a, n) = D \cup {a} /\ \A x \in D \cup {a} : Sets(f, a, n)[x] \in Nat
        BY <1>1, <1>2, <2>1, FS_AddElement
    <2>4. Total(Sets(f, a, n)) \in Int
        BY <2>3, TotalType
    <2> QED  BY <1>2, <2>2, <2>4, TotalSets
<1> QED  BY <1>2, <1>3, TotalType
Good(r, scene) == r.ok => PhOk(r.st, r.purse, scene)
LEMMA RefusedGood ==
    \A scene : Good(Refused, scene)
BY DEF Good, Refused
LEMMA ChangedGood ==
    ASSUME NEW s, NEW p, NEW scene, PhOk(s, p, scene)
    PROVE  Good(Changed(s, p), scene)
BY DEF Good, Changed
\* What the numbers of a state are.
LEMMA PhNumbers ==
    ASSUME NEW s \in PhStates, NEW scene \in {"games", "party"}
    PROVE  /\ s.coins \in CoinSets /\ s.game \in Games /\ s.party \in Parties /\ s.last \in [PhOrganizers -> Lists]
           /\ s.prizes \in Nat /\ s.earned \in [Attendees -> Nat]
           /\ Total(s.coins) \in Int /\ Total(s.earned) \in Int /\ Total(PhStart[scene]) \in Int /\ Staked(s.game) \in Nat
<1>1. /\ s.coins \in CoinSets /\ s.game \in Games /\ s.party \in Parties /\ s.last \in [PhOrganizers -> Lists]
      /\ s.prizes \in Nat /\ s.earned \in [Attendees -> Nat]
    BY DEF PhStates
<1>2. Total(s.coins) \in Int
    BY <1>1, CoinsType
<1>3. Total(s.earned) \in Int
    <2>1. IsFiniteSet(Attendees)
        BY PersonhoodAssumption
    <2>2. DOMAIN s.earned = Attendees /\ \A x \in DOMAIN s.earned : s.earned[x] \in Nat
        BY <1>1
    <2> QED  BY <2>1, <2>2, TotalType
<1>4. Total(PhStart[scene]) \in Int
    <2>1. PhStart[scene] \in CoinSets
        BY PersonhoodAssumption DEF CoinSets
    <2> QED  BY <2>1, CoinsType
<1>5. Staked(s.game) \in Nat
    BY <1>1 DEF Staked, Games
<1> QED  BY <1>1, <1>2, <1>3, <1>4, <1>5
\* Coins that leave the purse are lost.
LEMMA SpendsGood ==
    ASSUME NEW s, NEW p, NEW q \in Nat, NEW scene \in {"games", "party"}, PhOk(s, p, scene), q <= p
    PROVE  PhOk(s, q, scene)
<1>1. s \in PhStates /\ p \in Nat
    BY DEF PhOk
<1>2. CoinsAre(s.coins, s.game, s.earned, s.prizes, q, scene)
    <2> QED  BY <1>1, PhNumbers DEF PhOk, CoinsAre
<1> QED  BY <1>2 DEF PhOk
\* The state of the accounts changes by n, the purse with it.
LEMMA PaysGood ==
    ASSUME NEW s, NEW p, NEW q \in Nat, NEW a \in PhAccounts, NEW n \in Nat, NEW scene \in {"games", "party"}, PhOk(s, p, scene),
           n + q <= p + (IF a \in DOMAIN s.coins THEN s.coins[a] ELSE 0)
    PROVE  PhOk(With(s, a, n), q, scene)
<1> DEFINE w == With(s, a, n)
           old == IF a \in DOMAIN s.coins THEN s.coins[a] ELSE 0
<1>1. s \in PhStates /\ p \in Nat
    BY DEF PhOk
<1>2. s.coins \in CoinSets
    BY <1>1, PhNumbers
<1>3. Sets(s.coins, a, n) \in CoinSets /\ Total(Sets(s.coins, a, n)) = Total(s.coins) + n - old /\ old \in Nat
    BY <1>2, CoinsType
<1>4. /\ w \in PhStates /\ w.coins = Sets(s.coins, a, n) /\ w.party = s.party /\ w.last = s.last /\ w.earned = s.earned
      /\ w.game = s.game /\ w.prizes = s.prizes
    <2>1. w = [s EXCEPT !.coins = Sets(s.coins, a, n)]
        BY DEF With, Sets
    <2> HIDE DEF w
    <2> QED  BY <1>1, <1>3, <2>1 DEF PhStates
<1> HIDE DEF w
<1>5. CoinsAre(w.coins, w.game, w.earned, w.prizes, q, scene)
    <2>1. Total(s.coins) + Staked(s.game) + p <= Total(PhStart[scene]) + Total(s.earned) + s.prizes
        BY DEF PhOk, CoinsAre
    <2>2. n + q <= p + old
        OBVIOUS
    <2>3. s.prizes \in Nat /\ Total(s.coins) \in Int /\ Total(s.earned) \in Int /\ Total(PhStart[scene]) \in Int /\ Staked(s.game) \in Nat
        BY <1>1, PhNumbers
    <2>4. Total(w.coins) = Total(s.coins) + n - old
        BY <1>3, <1>4
    <2> HIDE DEF old
    <2>5. Total(w.coins) + Staked(s.game) + q <= Total(PhStart[scene]) + Total(s.earned) + s.prizes
        BY <1>1, <1>3, <2>1, <2>2, <2>3, <2>4
    <2> QED  BY <1>4, <2>5 DEF CoinsAre
<1> QED  BY <1>4, <1>5 DEF PhOk, w
\* The prices and what was bought do not matter to the coins.
LEMMA PricesGood ==
    ASSUME NEW s, NEW p, NEW q \in Nat, NEW scene \in {"games", "party"}, PhOk(s, p, scene), q <= p, NEW t \in PhStates,
           t.coins = s.coins, t.game = s.game, t.party = s.party, t.last = s.last, t.prizes = s.prizes, t.earned = s.earned
    PROVE  PhOk(t, q, scene)
<1>1. PhOk(s, q, scene)
    BY SpendsGood
<1> QED  BY <1>1 DEF PhOk
LEMMA CoinsGood ==
    ASSUME NEW s, NEW p, NEW scene \in {"games", "party"}, PhOk(s, p, scene), NEW a \in PhAccounts, NEW n \in Nat
    PROVE  /\ Good(CoinFetch(s, p, a, n), scene) /\ Good(CoinStore(s, p, a), scene)
           /\ Good(SpawnCoin(s, p, a, n), scene)
<1>1. s \in PhStates /\ p \in Nat /\ s.coins \in CoinSets
    BY PhNumbers DEF PhOk
<1>2. Good(CoinFetch(s, p, a, n), scene)
    <2>1. CASE Exists(s, a) /\ s.coins[a] >= n
        <3>1. a \in DOMAIN s.coins /\ s.coins[a] \in Nat
            BY <1>1, <2>1, CoinsType DEF Exists
        <3> DEFINE m == s.coins[a] - n
        <3>2. m \in Nat /\ p + n \in Nat /\ m + (p + n) <= p + s.coins[a]
            BY <1>1, <2>1, <3>1
        <3> HIDE DEF m
        <3>3. PhOk(With(s, a, m), p + n, scene)
            BY <3>1, <3>2, PaysGood
        <3> QED  BY <2>1, <3>3, ChangedGood DEF CoinFetch, m
    <2>2. CASE ~(Exists(s, a) /\ s.coins[a] >= n)
        BY <2>2, RefusedGood DEF CoinFetch
    <2> QED  BY <2>1, <2>2
<1>3. Good(CoinStore(s, p, a), scene)
    <2>1. CASE Exists(s, a)
        <3>1. a \in DOMAIN s.coins /\ s.coins[a] \in Nat
            BY <1>1, <2>1, CoinsType DEF Exists
        <3> DEFINE m == s.coins[a] + p
        <3>2. m \in Nat /\ m + 0 <= p + s.coins[a]
            BY <1>1, <3>1
        <3> HIDE DEF m
        <3>3. PhOk(With(s, a, m), 0, scene)
            BY <3>1, <3>2, PaysGood
        <3> QED  BY <2>1, <3>3, ChangedGood DEF CoinStore, m
    <2>2. CASE ~Exists(s, a)
        BY <2>2, RefusedGood DEF CoinStore
    <2> QED  BY <2>1, <2>2
<1>4. Good(SpawnCoin(s, p, a, n), scene)
    <2>1. CASE CanPay(s, p, "coin") /\ ~Exists(s, a)
        <3> DEFINE rest == p - s.costs["coin"]
                   put == Min({n, rest})
        <3>1. s.costs["coin"] \in Nat /\ p >= s.costs["coin"]
            BY <1>1, <2>1 DEF CanPay, PhStates, Kinds
        <3>2. rest \in Nat /\ rest <= p
            BY <1>1, <3>1
        <3> HIDE DEF rest
        <3>3. put \in Nat /\ put <= rest
            <4>1. n \in Int /\ rest \in Int
                BY <3>2
            <4>2. put = IF n <= rest THEN n ELSE rest
                BY <4>1, MaxMinOfTwo
            <4> HIDE DEF put
            <4> QED  BY <3>2, <4>2
        <3> HIDE DEF put
        <3>4. rest - put \in Nat /\ put + (rest - put) <= p + 0
            BY <1>1, <3>2, <3>3
        <3>5. a \notin DOMAIN s.coins
            BY <2>1 DEF Exists
        <3>6. PhOk(With(s, a, put), rest - put, scene)
            BY <3>3, <3>4, <3>5, PaysGood
        <3>7. SpawnCoin(s, p, a, n) = Changed(With(s, a, put), rest - put)
            BY <2>1 DEF SpawnCoin, getCoins, rest, put
        <3> QED  BY <3>6, <3>7, ChangedGood
    <2>2. CASE ~(CanPay(s, p, "coin") /\ ~Exists(s, a))
        BY <2>2, RefusedGood DEF SpawnCoin
    <2> QED  BY <2>1, <2>2
<1> QED  BY <1>2, <1>3, <1>4
LEMMA CostsType ==
    ASSUME NEW s \in PhStates, NEW p \in Nat, NEW k \in Kinds, CanPay(s, p, k)
    PROVE  getCoins(s, p, k) \in Nat /\ getCoins(s, p, k) <= p
<1>1. s.costs[k] \in Nat /\ p >= s.costs[k]
    BY DEF CanPay, PhStates
<1> QED  BY <1>1 DEF getCoins
LEMMA SpawnerGood ==
    ASSUME NEW s, NEW p, NEW scene \in {"games", "party"}, PhOk(s, p, scene), NEW v \in Nat, NEW ks, NEW k \in Kinds, NEW allowed
    PROVE  /\ Good(SpawnSpawner(s, p, v), scene) /\ Good(UpdateCosts(s, p, ks, v), scene) /\ Good(DeleteSpawner(s, p), scene)
           /\ Good(SpawnOther(s, p, k, allowed), scene)
<1>1. s \in PhStates /\ p \in Nat /\ p <= p
    BY DEF PhOk
<1>2. ASSUME NEW c \in {<< >>} \cup [Kinds -> Nat] PROVE Good(Changed([s EXCEPT !.costs = c], p), scene)
    <2> DEFINE t == [s EXCEPT !.costs = c]
    <2>1. /\ t \in PhStates /\ t.coins = s.coins /\ t.game = s.game /\ t.party = s.party /\ t.last = s.last
          /\ t.prizes = s.prizes /\ t.earned = s.earned
        BY <1>1 DEF PhStates
    <2> HIDE DEF t
    <2>2. PhOk(t, p, scene)
        BY <1>1, <2>1, PricesGood
    <2> QED  BY <2>2, ChangedGood DEF t
<1>3. ASSUME NEW q \in Nat, q <= p, NEW m \in SUBSET Kinds PROVE Good(Changed([s EXCEPT !.made = m], q), scene)
    <2> DEFINE t == [s EXCEPT !.made = m]
    <2>1. /\ t \in PhStates /\ t.coins = s.coins /\ t.game = s.game /\ t.party = s.party /\ t.last = s.last
          /\ t.prizes = s.prizes /\ t.earned = s.earned
        BY <1>1 DEF PhStates
    <2> HIDE DEF t
    <2>2. PhOk(t, q, scene)
        BY <1>3, <2>1, PricesGood
    <2> QED  BY <2>2, ChangedGood DEF t
<1>4. Good(SpawnSpawner(s, p, v), scene)
    <2>1. [x \in Kinds |-> v] \in {<< >>} \cup [Kinds -> Nat]
        OBVIOUS
    <2> QED  BY <1>2, <2>1, RefusedGood DEF SpawnSpawner
<1>5. Good(UpdateCosts(s, p, ks, v), scene)
    <2>1. CASE s.costs # << >>
        <3> DEFINE c == [x \in Kinds |-> IF x \in ks THEN v ELSE s.costs[x]]
        <3>1. s.costs \in [Kinds -> Nat]
            BY <1>1, <2>1 DEF PhStates
        <3>2. c \in {<< >>} \cup [Kinds -> Nat]
            BY <3>1
        <3>3. UpdateCosts(s, p, ks, v) = Changed([s EXCEPT !.costs = c], p)
            BY <2>1 DEF UpdateCosts
        <3> HIDE DEF c
        <3> QED  BY <1>2, <3>2, <3>3
    <2>2. CASE s.costs = << >>
        BY <2>2, RefusedGood DEF UpdateCosts
    <2> QED  BY <2>1, <2>2
<1>6. Good(DeleteSpawner(s, p), scene)
    <2>1. << >> \in {<< >>} \cup [Kinds -> Nat]
        OBVIOUS
    <2> QED  BY <1>2, <2>1, RefusedGood DEF DeleteSpawner
<1>7. Good(SpawnOther(s, p, k, allowed), scene)
    <2>1. CASE CanPay(s, p, k) /\ k \notin s.made /\ (k = "darc" => allowed)
        <3>1. getCoins(s, p, k) \in Nat /\ getCoins(s, p, k) <= p
            BY <1>1, <2>1, CostsType
        <3>2. s.made \cup {k} \in SUBSET Kinds
            BY <1>1 DEF PhStates
        <3> QED  BY <1>3, <2>1, <3>1, <3>2 DEF SpawnOther
    <2>2. CASE ~(CanPay(s, p, k) /\ k \notin s.made /\ (k = "darc" => allowed))
        BY <2>2, RefusedGood DEF SpawnOther
    <2> QED  BY <2>1, <2>2
<1> QED  BY <1>4, <1>5, <1>6, <1>7
LEMMA CredentialGood ==
    ASSUME NEW s, NEW p, NEW scene \in {"games", "party"}, PhOk(s, p, scene)
    PROVE  /\ Good(UpdateCredential(s, p), scene) /\ Good(DeleteCredential(s, p), scene) /\ Good(RecoverCredential(s, p), scene)
<1>1. s \in PhStates /\ p \in Nat /\ p <= p
    BY DEF PhOk
<1>2. Good(UpdateCredential(s, p), scene) /\ Good(RecoverCredential(s, p), scene)
    BY ChangedGood, RefusedGood DEF UpdateCredential, RecoverCredential
<1>3. Good(DeleteCredential(s, p), scene)
    <2> DEFINE t == [s EXCEPT !.made = @ \ {"credential"}]
    <2>1. /\ t \in PhStates /\ t.coins = s.coins /\ t.game = s.game /\ t.party = s.party /\ t.last = s.last
          /\ t.prizes = s.prizes /\ t.earned = s.earned
        BY <1>1 DEF PhStates
    <2>2. DeleteCredential(s, p) = IF "credential" \in s.made THEN Changed(t, p) ELSE Refused
        BY DEF DeleteCredential
    <2> HIDE DEF t
    <2>3. PhOk(t, p, scene)
        BY <1>1, <2>1, PricesGood
    <2> QED  BY <2>2, <2>3, ChangedGood, RefusedGood
<1> QED  BY <1>2, <1>3
\* A game that is changed: its stake is paid from the purse, or back to an account.
GameTo(s, g, k) == [s EXCEPT !.game = g, !.games = k]
LEMMA GameGood ==
    ASSUME NEW s, NEW p, NEW q \in Nat, NEW scene \in {"games", "party"}, PhOk(s, p, scene), NEW g \in Games, NEW k \in 0 .. PhMaxGames,
           Staked(g) + q <= Staked(s.game) + p
    PROVE  PhOk(GameTo(s, g, k), q, scene)
<1> DEFINE t == GameTo(s, g, k)
<1>1. s \in PhStates /\ p \in Nat
    BY DEF PhOk
<1>2. /\ t \in PhStates /\ t.coins = s.coins /\ t.game = g /\ t.party = s.party /\ t.last = s.last
      /\ t.prizes = s.prizes /\ t.earned = s.earned
    BY <1>1 DEF PhStates, GameTo
<1> HIDE DEF t
<1>3. CoinsAre(t.coins, t.game, t.earned, t.prizes, q, scene)
    <2>1. Total(s.coins) + Staked(s.game) + p <= Total(PhStart[scene]) + Total(s.earned) + s.prizes
        BY DEF PhOk, CoinsAre
    <2>2. s.prizes \in Nat /\ Total(s.coins) \in Int /\ Total(s.earned) \in Int /\ Total(PhStart[scene]) \in Int /\ Staked(s.game) \in Nat
        BY <1>1, PhNumbers
    <2>3. Staked(g) \in Nat
        BY DEF Staked, Games
    <2>4. Total(s.coins) + Staked(g) + q <= Total(PhStart[scene]) + Total(s.earned) + s.prizes
        BY <1>1, <2>1, <2>2, <2>3
    <2> QED  BY <1>2, <2>4 DEF CoinsAre
<1> QED  BY <1>2, <1>3 DEF PhOk, t
LEMMA NoGameIs ==
    /\ NoGame \in Games /\ Staked(NoGame) = 0 /\ NoGame.first = -1
<1>1. NoGame \in Games /\ NoGame.first = -1
    BY DEF NoGame, Games, Moves
<1>2. NoGame.open = FALSE
    BY DEF NoGame
<1> QED  BY <1>1, <1>2 DEF Staked
LEMMA SpawnRoPaSciGood ==
    ASSUME NEW s, NEW p, NEW scene \in {"games", "party"}, PhOk(s, p, scene), NEW move \in Moves, NEW acc \in PhAccounts,
           NEW secret \in BOOLEAN, s.games < PhMaxGames
    PROVE  Good(SpawnRoPaSci(s, p, move, acc, secret), scene)
<1>1. s \in PhStates /\ p \in Nat /\ s.game \in Games /\ s.games \in 0 .. PhMaxGames
    BY DEF PhOk, PhStates
<1> DEFINE c == getCoins(s, p, "ropasci")
<1>2. CASE CanPay(s, p, "ropasci") /\ c > 0 /\ ~Playing(s)
    <2> DEFINE a1 == IF secret THEN acc ELSE ""
               g == [NoGame EXCEPT !.open = TRUE, !.stake = c, !.hash = move, !.secret = secret, !.acc1 = a1]
               k == s.games + 1
    <2>1. "ropasci" \in Kinds /\ k \in 0 .. PhMaxGames /\ a1 \in PhAccounts \cup {""}
        <3>1. PhMaxGames \in Nat
            BY PersonhoodAssumption
        <3>2. k \in 0 .. PhMaxGames
            BY <1>1, <3>1
        <3> QED  BY <3>2 DEF Kinds
    <2>2. c \in Nat /\ c <= p
        BY <1>1, <1>2, <2>1, CostsType
    <2>3. SpawnRoPaSci(s, p, move, acc, secret) = Changed(GameTo(s, g, k), 0)
        <3>1. [s EXCEPT !.games = @ + 1, !.game = g] = GameTo(s, g, k)
            <4> HIDE DEF g
            <4> QED  BY <1>1 DEF PhStates, GameTo
        <3>2. SpawnRoPaSci(s, p, move, acc, secret) = Changed([s EXCEPT !.games = @ + 1, !.game = g], 0)
            BY <1>2 DEF SpawnRoPaSci
        <3> QED  BY <3>1, <3>2
    <2> HIDE DEF c, a1, k
    <2>4. g \in Games /\ g.stake = c
        BY <2>1, <2>2, NoGameIs DEF Games
    <2>5. Staked(g) <= c /\ Staked(g) \in Nat
        <3> HIDE DEF g
        <3> QED  BY <2>2, <2>4 DEF Staked
    <2> HIDE DEF g
    <2>6. Staked(s.game) = 0
        BY <1>2 DEF Staked, Playing
    <2>7. Staked(g) + 0 <= Staked(s.game) + p
        BY <1>1, <2>2, <2>5, <2>6
    <2>8. PhOk(GameTo(s, g, k), 0, scene)
        <3>1. 0 \in Nat
            OBVIOUS
        <3> QED  BY <2>1, <2>4, <2>7, <3>1, GameGood
    <2> QED  BY <2>3, <2>8, ChangedGood
<1>3. CASE ~(CanPay(s, p, "ropasci") /\ c > 0 /\ ~Playing(s))
    BY <1>3, RefusedGood DEF SpawnRoPaSci
<1> QED  BY <1>2, <1>3
LEMMA SecondGood ==
    ASSUME NEW s, NEW p, NEW scene \in {"games", "party"}, PhOk(s, p, scene), NEW move \in Moves, NEW acc \in PhAccounts
    PROVE  Good(Second(s, p, move, acc), scene) /\ Good(DeleteRoPaSci(s, p), scene)
<1>1. s \in PhStates /\ p \in Nat /\ s.game \in Games /\ s.games \in 0 .. PhMaxGames /\ Staked(s.game) \in Nat
    BY PhNumbers DEF PhOk, PhStates
<1>2. ASSUME NEW g \in Games, Staked(g) <= Staked(s.game), Staked(g) \in Nat PROVE Good(Changed([s EXCEPT !.game = g], p), scene)
    <2> DEFINE k == s.games
    <2>1. [s EXCEPT !.game = g] = GameTo(s, g, k)
        BY <1>1 DEF PhStates, GameTo
    <2>2. Staked(g) + p <= Staked(s.game) + p
        BY <1>1, <1>2
    <2>3. k \in 0 .. PhMaxGames
        BY <1>1
    <2> HIDE DEF k
    <2>4. PhOk(GameTo(s, g, k), p, scene)
        BY <1>1, <2>2, <2>3, GameGood
    <2> QED  BY <2>1, <2>4, ChangedGood
<1>3. Good(Second(s, p, move, acc), scene)
    <2> DEFINE g == [s.game EXCEPT !.second = move, !.acc2 = acc]
    <2>1. g \in Games /\ g.open = s.game.open /\ g.first = s.game.first /\ g.stake = s.game.stake
        BY <1>1 DEF Games
    <2>2. [s EXCEPT !.game.second = move, !.game.acc2 = acc] = [s EXCEPT !.game = g]
        BY <1>1 DEF PhStates, Games
    <2> HIDE DEF g
    <2>3. Staked(g) = Staked(s.game)
        BY <2>1 DEF Staked
    <2>4. Good(Changed([s EXCEPT !.game = g], p), scene)
        BY <1>1, <1>2, <2>1, <2>3
    <2> QED  BY <2>2, <2>4, RefusedGood DEF Second
<1>4. Good(DeleteRoPaSci(s, p), scene)
    <2>1. Good(Changed([s EXCEPT !.game = NoGame], p), scene)
        BY <1>1, <1>2, NoGameIs
    <2> QED  BY <2>1, RefusedGood DEF DeleteRoPaSci
<1> QED  BY <1>3, <1>4
\* The winner gets the stake and one more, which is counted as a prize.
LEMMA ConfirmGood ==
    ASSUME NEW s, NEW p, NEW scene \in {"games", "party"}, PhOk(s, p, scene), NEW move \in Moves, NEW acc \in PhAccounts
    PROVE  Good(Confirm(s, p, move, acc), scene)
<1> DEFINE w == Winner(s.game, acc)
           g == [s.game EXCEPT !.first = move]
           stake == s.game.stake
<1>1. s \in PhStates /\ p \in Nat /\ s.game \in Games /\ s.coins \in CoinSets /\ stake \in Nat
    BY PhNumbers DEF PhOk, Games
<1>2. g \in Games /\ g.first = move /\ g.stake = s.game.stake
    BY <1>1 DEF Games
<1>3. Staked(g) = 0
    <2>1. ~(move < 0)
        BY DEF Moves
    <2> HIDE DEF g
    <2> QED  BY <1>2, <2>1 DEF Staked
<1>4. CASE ~Playing(s) \/ move # s.game.hash \/ (~s.game.secret /\ ~Exists(s, acc))
    BY <1>4, RefusedGood DEF Confirm
<1>5. CASE Playing(s) /\ w = "nobody" /\ ~(~Playing(s) \/ move # s.game.hash \/ (~s.game.secret /\ ~Exists(s, acc)))
    <2>1. Confirm(s, p, move, acc) = Changed([s EXCEPT !.game.first = move], p)
        BY <1>5 DEF Confirm
    <2>2. [s EXCEPT !.game.first = move] = GameTo(s, g, s.games)
        BY <1>1 DEF PhStates, Games, GameTo
    <2>3. Staked(g) + p <= Staked(s.game) + p /\ s.games \in 0 .. PhMaxGames
        <3>1. Staked(s.game) \in Nat
            BY <1>1, PhNumbers
        <3> QED  BY <1>1, <1>3, <3>1 DEF PhStates
    <2>4. PhOk(GameTo(s, g, s.games), p, scene)
        <3> HIDE DEF g
        <3> QED  BY <1>1, <1>2, <2>3, GameGood
    <2> QED  BY <2>1, <2>2, <2>4, ChangedGood
<1>6. CASE Playing(s) /\ w # "nobody" /\ ~(~Playing(s) \/ move # s.game.hash \/ (~s.game.secret /\ ~Exists(s, acc)))
    <2>1. CASE ~Exists(s, w)
        BY <1>6, <2>1, RefusedGood DEF Confirm
    <2>2. CASE Exists(s, w)
        <3> HIDE DEF w
        <3> DEFINE n == s.coins[w] + 2 * stake
                   c == Sets(s.coins, w, n)
                   t == [With(s, w, n) EXCEPT !.game.first = move, !.prizes = @ + stake]
        <3>1. Confirm(s, p, move, acc) = Changed(t, p)
            BY <1>6, <2>2 DEF Confirm, w
        <3>2. w \in DOMAIN s.coins /\ w \in PhAccounts /\ s.coins[w] \in Nat
            BY <1>1, <2>2, CoinsType DEF Exists
        <3>3. n \in Nat
            BY <1>1, <3>2
        <3>4. c \in CoinSets /\ Total(c) = Total(s.coins) + n - s.coins[w] /\ Total(s.coins) \in Int
            <4> HIDE DEF n
            <4> QED  BY <1>1, <3>2, <3>3, CoinsType
        <3>5. With(s, w, n) = [s EXCEPT !.coins = c]
            BY DEF With, Sets
        <3>6. /\ t \in PhStates /\ t.coins = c /\ t.game = g /\ t.party = s.party /\ t.last = s.last
              /\ t.prizes = s.prizes + stake /\ t.earned = s.earned
            <4>1. t = [s EXCEPT !.coins = c, !.game = g, !.prizes = s.prizes + stake]
                <5> HIDE DEF c, n
                <5> QED  BY <1>1, <3>5 DEF PhStates, Games
            <4>2. s.prizes + stake \in Nat
                BY <1>1 DEF PhStates
            <4> HIDE DEF t, c, g, stake
            <4> QED  BY <1>1, <1>2, <3>4, <4>1, <4>2 DEF PhStates
        <3>7. Staked(s.game) = stake
            BY <1>6 DEF Playing, Staked
        <3>8. CoinsAre(t.coins, t.game, t.earned, t.prizes, p, scene)
            <4>1. Total(s.coins) + stake + p <= Total(PhStart[scene]) + Total(s.earned) + s.prizes
                BY <3>7 DEF PhOk, CoinsAre
            <4>2. s.prizes \in Nat /\ Total(s.earned) \in Int /\ Total(PhStart[scene]) \in Int
                BY <1>1, PhNumbers
            <4>3. Total(c) = Total(s.coins) + 2 * stake
                BY <1>1, <3>2, <3>4
            <4> HIDE DEF c, stake, t, g
            <4>4. Total(c) + 0 + p <= Total(PhStart[scene]) + Total(s.earned) + (s.prizes + stake)
                BY <1>1, <3>4, <4>1, <4>2, <4>3
            <4> QED  BY <1>3, <3>6, <4>4 DEF CoinsAre
        <3>9. PhOk(t, p, scene)
            <4> HIDE DEF t
            <4> QED  BY <1>1, <3>6, <3>8 DEF PhOk
        <3> QED  BY <3>1, <3>9, ChangedGood
    <2> QED  BY <2>1, <2>2
<1> QED  BY <1>4, <1>5, <1>6
\* A party that is changed leaves the coins alone.
PartyTo(s, y, l) == [s EXCEPT !.party = y, !.last = l]
LEMMA PartyGood ==
    ASSUME NEW s, NEW p, NEW q \in Nat, NEW scene \in {"games", "party"}, PhOk(s, p, scene), q <= p,
           NEW y \in Parties, NEW l \in [PhOrganizers -> Lists], PartyIs(y, l, s.earned)
    PROVE  PhOk(PartyTo(s, y, l), q, scene)
<1> DEFINE t == PartyTo(s, y, l)
<1>1. s \in PhStates /\ p \in Nat /\ PhOk(s, q, scene)
    BY SpendsGood DEF PhOk
<1>2. /\ t \in PhStates /\ t.coins = s.coins /\ t.game = s.game /\ t.party = y /\ t.last = l
      /\ t.prizes = s.prizes /\ t.earned = s.earned
    BY <1>1 DEF PhStates, PartyTo
<1> HIDE DEF t
<1> QED  BY <1>1, <1>2 DEF PhOk, t
LEMMA StageGood ==
    ASSUME NEW s, NEW p, NEW scene \in {"games", "party"}, PhOk(s, p, scene)
    PROVE  Good(SpawnParty(s, p), scene) /\ Good(Barrier(s, p), scene)
<1>1. s \in PhStates /\ p \in Nat /\ p <= p /\ s.party \in Parties /\ s.last \in [PhOrganizers -> Lists]
      /\ PartyIs(s.party, s.last, s.earned)
    BY DEF PhOk, PhStates
<1>2. ASSUME NEW st \in {"init", "scanning"}, s.party.state \in {"none", "init"}, NEW q \in Nat, q <= p
      PROVE  Good(Changed([s EXCEPT !.party.state = st], q), scene)
    <2> DEFINE y == [s.party EXCEPT !.state = st]
    <2>1. /\ y \in Parties /\ y.state = st /\ y.attendees = s.party.attendees /\ y.finalizations = s.party.finalizations
          /\ y.miners = s.party.miners
        BY <1>1 DEF Parties
    <2>2. [s EXCEPT !.party.state = st] = PartyTo(s, y, s.last)
        BY <1>1 DEF PhStates, PartyTo
    <2> HIDE DEF y
    <2>3. PartyIs(y, s.last, s.earned)
        BY <1>1, <1>2, <2>1 DEF PartyIs
    <2>4. PhOk(PartyTo(s, y, s.last), q, scene)
        BY <1>1, <1>2, <2>1, <2>3, PartyGood
    <2> QED  BY <2>2, <2>4, ChangedGood
<1>3. Good(SpawnParty(s, p), scene)
    <2>1. CASE CanPay(s, p, "popParty") /\ s.party.state = "none"
        <3>1. "popParty" \in Kinds
            BY DEF Kinds
        <3>2. getCoins(s, p, "popParty") \in Nat /\ getCoins(s, p, "popParty") <= p
            BY <1>1, <2>1, <3>1, CostsType
        <3> QED  BY <1>2, <2>1, <3>2 DEF SpawnParty
    <2>2. CASE ~(CanPay(s, p, "popParty") /\ s.party.state = "none")
        BY <2>2, RefusedGood DEF SpawnParty
    <2> QED  BY <2>1, <2>2
<1>4. Good(Barrier(s, p), scene)
    BY <1>1, <1>2, RefusedGood DEF Barrier
<1> QED  BY <1>3, <1>4
\* Signers that differ and are as many as the organizers are all of them.
LEMMA AllSigned ==
    ASSUME NEW f \in Seq(PhOrganizers), Len(f) = Cardinality(PhOrganizers),
           \A i, j \in 1 .. Len(f) : f[i] = f[j] => i = j
    PROVE  \A o \in PhOrganizers : \E i \in 1 .. Len(f) : f[i] = o
<1> DEFINE D == 1 .. Len(f)
           S == {f[i] : i \in D}
<1>1. Len(f) \in Nat /\ D = DOMAIN f /\ S \subseteq PhOrganizers /\ IsFiniteSet(PhOrganizers)
    BY PersonhoodAssumption
<1>3. f \in Bijection(D, S)
    <2>1. f \in [D -> S]
        BY <1>1
    <2>2. \A a, b \in D : f[a] = f[b] => a = b
        OBVIOUS
    <2>3. \A t \in S : \E x \in D : f[x] = t
        OBVIOUS
    <2> HIDE DEF D, S
    <2> QED  BY <2>1, <2>2, <2>3 DEF Bijection, Injection, Surjection, IsInjective
<1>4. Cardinality(S) = Cardinality(PhOrganizers)
    <2>1. ExistsBijection(D, S)
        BY <1>3 DEF ExistsBijection
    <2> HIDE DEF S
    <2> QED  BY <1>1, <2>1, FS_CountingElements
<1>5. S = PhOrganizers
    <2> HIDE DEF S
    <2> QED  BY <1>1, <1>4, FS_Subset
<1> QED  BY <1>5
LEMMA FinalizeGood ==
    ASSUME NEW s, NEW p, NEW scene \in {"games", "party"}, PhOk(s, p, scene), NEW org \in PhOrganizers, NEW list \in PhLists
    PROVE  Good(Finalize(s, p, org, list), scene)
<1> DEFINE old == s.party
           fs == old.finalizations
           again == Contains(fs, org)
           same == old.attendees = list
           fins == IF fs # << >> /\ same /\ ~again THEN Append(fs, org) ELSE <<org>>
           st == IF Len(fins) = Cardinality(PhOrganizers) THEN "finalized" ELSE old.state
           y == [old EXCEPT !.attendees = list, !.finalizations = fins, !.state = st]
           l == [s.last EXCEPT ![org] = list]
<1>1. s \in PhStates /\ p \in Nat /\ p <= p /\ old \in Parties /\ s.last \in [PhOrganizers -> Lists]
      /\ PartyIs(old, s.last, s.earned) /\ fs \in Seq(PhOrganizers)
    BY DEF PhOk, PhStates, Parties
<1>2. CASE s.party.state # "scanning"
    BY <1>2, RefusedGood DEF Finalize
<1>3. CASE s.party.state = "scanning"
    <2>1. Finalize(s, p, org, list) = Changed(PartyTo(s, y, l), p)
        <3>1. finalize(old, org, list) = y
            BY DEF finalize
        <3>2. [s EXCEPT !.party = finalize(@, org, list), !.last[org] = list] = PartyTo(s, y, l)
            <4> HIDE DEF y
            <4> QED  BY <1>1, <3>1 DEF PhStates, PartyTo
        <3> QED  BY <1>3, <3>2 DEF Finalize
    <2>2. l \in [PhOrganizers -> Lists] /\ l[org] = list /\ \A o \in PhOrganizers : o # org => l[o] = s.last[o]
        BY <1>1 DEF Lists
    <2>3. /\ fins \in Seq(PhOrganizers)
          /\ \A i \in 1 .. Len(fins) : l[fins[i]] = list
          /\ \A i, j \in 1 .. Len(fins) : fins[i] = fins[j] => i = j
        <3> HIDE DEF l
        <3>1. CASE fs # << >> /\ same /\ ~again
            <4>1. fins = Append(fs, org) /\ Len(fins) = Len(fs) + 1 /\ fins[Len(fs) + 1] = org
                  /\ \A i \in 1 .. Len(fs) : fins[i] = fs[i] /\ fs[i] \in PhOrganizers
                BY <1>1, <3>1
            <4>2. fins \in Seq(PhOrganizers)
                BY <1>1, <3>1
            <4>3. \A i \in 1 .. Len(fs) : fs[i] # org /\ s.last[fs[i]] = list
                BY <1>1, <3>1 DEF Contains, PartyIs
            <4>4. \A i, j \in 1 .. Len(fs) : fs[i] = fs[j] => i = j
                BY <1>1 DEF PartyIs
            <4>5. \A i \in 1 .. Len(fins) : i \in 1 .. Len(fs) \/ i = Len(fs) + 1
                BY <1>1, <4>1
            <4> HIDE DEF fins, fs
            <4>6. \A i \in 1 .. Len(fins) : l[fins[i]] = list
                BY <2>2, <4>1, <4>3, <4>5
            <4>7. \A i, j \in 1 .. Len(fins) : fins[i] = fins[j] => i = j
                BY <4>1, <4>3, <4>4, <4>5
            <4> QED  BY <4>2, <4>6, <4>7
        <3>2. CASE ~(fs # << >> /\ same /\ ~again)
            <4>1. fins = <<org>>
                BY <3>2
            <4> HIDE DEF fins
            <4>2. fins \in Seq(PhOrganizers) /\ Len(fins) = 1 /\ fins[1] = org
                BY <4>1
            <4> QED  BY <2>2, <4>2
        <3> QED  BY <3>1, <3>2
    <2> HIDE DEF fins, l
    <2>4. st \in {"scanning", "finalized"} /\ list \in Lists
        BY <1>3 DEF Lists
    <2>5. /\ y \in Parties /\ y.state = st /\ y.attendees = list /\ y.finalizations = fins /\ y.miners = old.miners
        <3> HIDE DEF st
        <3> QED  BY <1>1, <2>3, <2>4 DEF Parties
    <2>6. st = "finalized" => \A o \in PhOrganizers : l[o] = list
        <3> SUFFICES ASSUME st = "finalized", NEW o \in PhOrganizers PROVE l[o] = list
            OBVIOUS
        <3>1. Len(fins) = Cardinality(PhOrganizers)
            BY <1>3
        <3>2. PICK i \in 1 .. Len(fins) : fins[i] = o
            BY <2>3, <3>1, AllSigned
        <3> QED  BY <2>3, <3>2
    <2>7. old.miners = {} /\ \A a \in Attendees : s.earned[a] = 0
        BY <1>1, <1>3 DEF PartyIs
    <2> HIDE DEF y, st
    <2>8. PartyIs(y, l, s.earned)
        BY <2>3, <2>4, <2>5, <2>6, <2>7 DEF PartyIs
    <2>9. PhOk(PartyTo(s, y, l), p, scene)
        BY <1>1, <2>2, <2>5, <2>8, PartyGood
    <2> QED  BY <2>1, <2>9, ChangedGood
<1> QED  BY <1>2, <1>3
LEMMA DeleteGameGood ==
    ASSUME NEW s, NEW p, NEW scene \in {"games", "party"}, PhOk(s, p, scene)
    PROVE  Good(DeleteRoPaSci(s, p), scene)
<1>1. s \in PhStates /\ p \in Nat /\ s.games \in 0 .. PhMaxGames /\ Staked(s.game) \in Nat
    BY PhNumbers DEF PhOk, PhStates
<1>2. [s EXCEPT !.game = NoGame] = GameTo(s, NoGame, s.games)
    BY <1>1 DEF PhStates, GameTo
<1>3. Staked(NoGame) + p <= Staked(s.game) + p
    BY <1>1, NoGameIs
<1>4. PhOk(GameTo(s, NoGame, s.games), p, scene)
    BY <1>1, <1>3, NoGameIs, GameGood
<1> QED  BY <1>2, <1>4, ChangedGood, RefusedGood DEF DeleteRoPaSci
\* The sum of nothing but zeros.
LEMMA ZeroTotal ==
    ASSUME NEW f, IsFiniteSet(DOMAIN f), \A x \in DOMAIN f : f[x] = 0
    PROVE  Total(f) = 0
<1> DEFINE D == DOMAIN f
           g == CHOOSE h : IsSum(h, D, f)
           C == {s \in SUBSET D : g[s] = 0}
<1>1. IsSum(g, D, f) /\ SumOver(f, D) = g[D]
    <2>1. \A x \in D : f[x] \in Int
        OBVIOUS
    <2> HIDE DEF D
    <2> QED  BY <2>1, SumChosen, Zenon DEF SumOver, D
<1> HIDE DEF g
<1>2. \A s \in SUBSET D : g[s] = IF s = {} THEN 0 ELSE f[Pick(s)] + g[s \ {Pick(s)}]
    BY <1>1 DEF IsSum
<1>3. {} \in C
    BY <1>2
<1>4. ASSUME NEW s \in SUBSET D, s # {}, s \ {Pick(s)} \in C PROVE s \in C
    <2>1. Pick(s) \in s
        BY <1>4, PickRemoves
    <2>2. f[Pick(s)] = 0 /\ g[s \ {Pick(s)}] = 0
        BY <1>4, <2>1
    <2>3. g[s] = f[Pick(s)] + g[s \ {Pick(s)}]
        BY <1>2, <1>4
    <2> QED  BY <2>2, <2>3
<1>5. D \in C
    <2> HIDE DEF C
    <2> QED  BY <1>3, <1>4, SetSteps
<1>6. Total(f) = SumOver(f, D)
    BY MapThenSumIsSum DEF Total
<1> QED  BY <1>1, <1>5, <1>6
LEMMA MineGood ==
    ASSUME NEW s, NEW p, NEW scene \in {"games", "party"}, PhOk(s, p, scene), NEW att \in Attendees, NEW acc \in PhAccounts
    PROVE  Good(Mine(s, p, att, acc), scene)
<1> DEFINE may == s.party.state = "finalized" /\ att \in Range(s.party.attendees) /\ att \notin s.party.miners
<1>1. s \in PhStates /\ p \in Nat /\ s.party \in Parties /\ s.coins \in CoinSets /\ s.earned \in [Attendees -> Nat]
      /\ PartyIs(s.party, s.last, s.earned) /\ PhReward \in Nat
    BY PersonhoodAssumption DEF PhOk, PhStates
<1>2. CASE ~may
    BY <1>2, RefusedGood DEF Mine
<1>3. CASE may
    <2> DEFINE old == IF Exists(s, acc) THEN s.coins[acc] ELSE 0
               n == old + PhReward
               c == Sets(s.coins, acc, n)
               y == [s.party EXCEPT !.miners = @ \cup {att}]
               e == [s.earned EXCEPT ![att] = @ + PhReward]
               t == [With(s, acc, n) EXCEPT !.party.miners = @ \cup {att}, !.earned[att] = @ + PhReward]
    <2>1. Mine(s, p, att, acc) = Changed(t, p)
        BY <1>3 DEF Mine
    <2>2. old \in Nat /\ n \in Nat /\ old = IF acc \in DOMAIN s.coins THEN s.coins[acc] ELSE 0
        BY <1>1, CoinsType DEF Exists
    <2>3. c \in CoinSets /\ Total(c) = Total(s.coins) + PhReward /\ Total(s.coins) \in Int
        <3>1. c \in CoinSets /\ Total(c) = Total(s.coins) + n - old /\ Total(s.coins) \in Int
            <4>1. n \in Nat /\ old = IF acc \in DOMAIN s.coins THEN s.coins[acc] ELSE 0
                BY <2>2
            <4> HIDE DEF n, old
            <4> QED  BY <1>1, <4>1, CoinsType
        <3> HIDE DEF c, old
        <3> QED  BY <1>1, <2>2, <3>1
    <2>4. /\ y \in Parties /\ y.state = s.party.state /\ y.attendees = s.party.attendees /\ y.finalizations = s.party.finalizations
          /\ y.miners = s.party.miners \cup {att}
        BY <1>1 DEF Parties
    <2>5. /\ e \in [Attendees -> Nat] /\ e[att] = s.earned[att] + PhReward
          /\ \A a \in Attendees : a # att => e[a] = s.earned[a]
        BY <1>1
    <2>6. Total(e) = Total(s.earned) + PhReward /\ Total(s.earned) \in Int
        <3>1. IsFiniteSet(Attendees) /\ DOMAIN s.earned = Attendees /\ \A x \in DOMAIN s.earned : s.earned[x] \in Nat
            BY <1>1, PersonhoodAssumption
        <3> DEFINE m == s.earned[att] + PhReward
        <3>2. m \in Nat /\ s.earned[att] \in Nat
            BY <1>1
        <3>3. e = Sets(s.earned, att, m)
            BY <1>1 DEF Sets
        <3>4. Total(Sets(s.earned, att, m)) = Total(s.earned) + m - s.earned[att] /\ Total(s.earned) \in Int
            <4> HIDE DEF m
            <4> QED  BY <3>1, <3>2, TotalSets, TotalType
        <3> HIDE DEF e
        <3> QED  BY <1>1, <3>2, <3>3, <3>4
    <2>7. /\ t \in PhStates /\ t.coins = c /\ t.game = s.game /\ t.party = y /\ t.last = s.last
          /\ t.prizes = s.prizes /\ t.earned = e
        <3>1. With(s, acc, n) = [s EXCEPT !.coins = c]
            BY DEF With, Sets
        <3> HIDE DEF c, n
        <3>2. t = [s EXCEPT !.coins = c, !.party = y, !.earned = e]
            BY <1>1, <3>1 DEF PhStates
        <3> HIDE DEF t, y, e
        <3> QED  BY <1>1, <2>3, <2>4, <2>5, <3>2 DEF PhStates
    <2> HIDE DEF c, y, e, t, n, old
    <2>8. PartyIs(y, s.last, e)
        <3>1. \A a \in Attendees : e[a] = IF a \in y.miners THEN PhReward ELSE 0
            <4>1. s.earned[att] = 0
                BY <1>1, <1>3 DEF PartyIs
            <4>2. e[att] = PhReward
                BY <1>1, <2>5, <4>1
            <4> QED  BY <1>1, <2>4, <2>5, <4>2 DEF PartyIs
        <3>2. y.miners \subseteq Range(y.attendees) /\ y.state = "finalized"
            BY <1>1, <1>3, <2>4 DEF PartyIs
        <3> QED  BY <1>1, <2>4, <3>1, <3>2 DEF PartyIs
    <2>9. CoinsAre(c, s.game, e, s.prizes, p, scene)
        <3>1. Total(s.coins) + Staked(s.game) + p <= Total(PhStart[scene]) + Total(s.earned) + s.prizes
            BY DEF PhOk, CoinsAre
        <3>2. s.prizes \in Nat /\ Total(PhStart[scene]) \in Int /\ Staked(s.game) \in Nat
            BY <1>1, PhNumbers
        <3>3. Total(c) + Staked(s.game) + p <= Total(PhStart[scene]) + Total(e) + s.prizes
            BY <1>1, <2>3, <2>6, <3>1, <3>2
        <3> QED  BY <3>3 DEF CoinsAre
    <2>10. PhOk(t, p, scene)
        BY <1>1, <2>7, <2>8, <2>9 DEF PhOk
    <2> QED  BY <2>1, <2>10, ChangedGood
<1> QED  BY <1>2, <1>3
LEMMA InstructionStays ==
    ASSUME PhInv, NEW r, Good(r, phScene), Instruction(r)
    PROVE  PhInv'
<1>1. phScene' = phScene /\ phState' = phState /\ phLeft > 0 /\ PhMaxInstr \in Nat
    BY PersonhoodAssumption DEF Instruction
<1>2. CASE r.ok
    <2>1. phWork' = r.st /\ phPurse' = r.purse /\ phLeft' = phLeft - 1 /\ PhOk(r.st, r.purse, phScene)
        BY <1>2 DEF Instruction, Good
    <2>2. phLeft' \in 0 .. PhMaxInstr
        BY <1>1, <2>1 DEF PhInv
    <2> QED  BY <1>1, <2>1, <2>2 DEF PhInv
<1>3. CASE ~r.ok
    <2>1. phWork' = phState /\ phPurse' = 0 /\ phLeft' = 0
        BY <1>3 DEF Instruction
    <2> QED  BY <1>1, <2>1 DEF PhInv
<1> QED  BY <1>2, <1>3
LEMMA PhStays ==
    ASSUME PhInv, PhNext \/ UNCHANGED phVars
    PROVE  PhInv'
<1>1. PhOk(phWork, phPurse, phScene) /\ phScene \in {"games", "party"} /\ PhMaxInstr \in Nat
    BY PersonhoodAssumption DEF PhInv
<1>2. CASE UNCHANGED phVars
    BY <1>2 DEF phVars, PhInv
<1>3. CASE PhBegin
    <2>1. phLeft' = PhMaxInstr /\ phPurse' = 0 /\ phWork = phState /\ UNCHANGED <<phState, phWork, phScene>>
        BY <1>3 DEF PhBegin
    <2> QED  BY <1>1, <2>1 DEF PhInv
<1>4. CASE PhEnd
    <2>1. phState' = phWork /\ phPurse' = 0 /\ phLeft' = 0 /\ UNCHANGED <<phWork, phScene>>
        BY <1>4 DEF PhEnd
    <2>2. PhOk(phWork, 0, phScene)
        <3>1. 0 \in Nat /\ 0 <= phPurse
            BY <1>1 DEF PhOk
        <3> QED  BY <1>1, <3>1, SpendsGood
    <2> QED  BY <1>1, <2>1, <2>2 DEF PhInv
<1>5. CASE DoCoins
    <2>1. PICK a \in PhAccounts, n \in Amounts :
              Instruction(CoinFetch(phWork, phPurse, a, n)) \/ Instruction(CoinStore(phWork, phPurse, a))
        BY <1>5 DEF DoCoins
    <2>2. n \in Nat
        BY DEF Amounts
    <2>3. Good(CoinFetch(phWork, phPurse, a, n), phScene) /\ Good(CoinStore(phWork, phPurse, a), phScene)
        BY <1>1, <2>2, CoinsGood
    <2> QED  BY <2>1, <2>3, InstructionStays
<1>6. CASE DoSpawner
    <2>1. \A v \in PhCosts \cup PhNewCosts : v \in Nat
        BY PersonhoodAssumption
    <2>2. "coin" \in Kinds
        BY DEF Kinds
    <2>3. \A v \in PhCosts \cup PhNewCosts : \A ks : Good(SpawnSpawner(phWork, phPurse, v), phScene)
                                                     /\ Good(UpdateCosts(phWork, phPurse, ks, v), phScene)
        BY <1>1, <2>1, <2>2, SpawnerGood
    <2> QED  BY <1>6, <2>3, InstructionStays DEF DoSpawner
<1>7. CASE DoDelete
    <2>1. Good(DeleteSpawner(phWork, phPurse), phScene)
        <3>1. 0 \in Nat /\ "coin" \in Kinds
            BY DEF Kinds
        <3> QED  BY <1>1, <3>1, SpawnerGood
    <2>2. Good(DeleteCredential(phWork, phPurse), phScene)
        BY <1>1, CredentialGood
    <2>3. Good(DeleteRoPaSci(phWork, phPurse), phScene)
        BY <1>1, DeleteGameGood
    <2> QED  BY <1>7, <2>1, <2>2, <2>3, InstructionStays DEF DoDelete
<1>8. CASE DoBuy
    <2>1. ASSUME NEW k \in PhGoods, NEW b \in BOOLEAN PROVE Good(SpawnOther(phWork, phPurse, k, b), phScene)
        <3>1. k \in Kinds /\ 0 \in Nat
            BY PersonhoodAssumption DEF Kinds
        <3> QED  BY <1>1, <3>1, SpawnerGood
    <2>2. ASSUME NEW a \in PhAccounts, NEW n \in Amounts PROVE Good(SpawnCoin(phWork, phPurse, a, n), phScene)
        <3>1. n \in Nat
            BY DEF Amounts
        <3> QED  BY <1>1, <3>1, CoinsGood
    <2> QED  BY <1>8, <2>1, <2>2, InstructionStays DEF DoBuy
<1>9. CASE DoCredential
    BY <1>1, <1>9, CredentialGood, InstructionStays DEF DoCredential
<1>10. CASE DoGame
    <2>1. PICK move \in Moves, a \in PhAccounts :
              \/ \E b \in BOOLEAN : phWork.games < PhMaxGames /\ Instruction(SpawnRoPaSci(phWork, phPurse, move, a, b))
              \/ Instruction(Second(phWork, phPurse, move, a))
              \/ Instruction(Confirm(phWork, phPurse, move, a))
        BY <1>10 DEF DoGame
    <2>2. Good(Second(phWork, phPurse, move, a), phScene) /\ Good(Confirm(phWork, phPurse, move, a), phScene)
        BY <1>1, SecondGood, ConfirmGood
    <2>3. \A b \in BOOLEAN : phWork.games < PhMaxGames => Good(SpawnRoPaSci(phWork, phPurse, move, a, b), phScene)
        BY <1>1, SpawnRoPaSciGood
    <2> QED  BY <2>1, <2>2, <2>3, InstructionStays
<1>11. CASE DoParty
    <2>1. Good(SpawnParty(phWork, phPurse), phScene) /\ Good(Barrier(phWork, phPurse), phScene)
        BY <1>1, StageGood
    <2>2. \A o \in PhOrganizers, l \in PhLists : Good(Finalize(phWork, phPurse, o, l), phScene)
        BY <1>1, FinalizeGood
    <2>3. \A x \in Attendees, a \in PhAccounts : Good(Mine(phWork, phPurse, x, a), phScene)
        BY <1>1, MineGood
    <2> QED  BY <1>11, <2>1, <2>2, <2>3, InstructionStays DEF DoParty
<1> QED  BY <1>2, <1>3, <1>4, <1>5, <1>6, <1>7, <1>8, <1>9, <1>10, <1>11 DEF PhNext
LEMMA PhBegins ==
    ASSUME PhInit
    PROVE  PhInv
<1>1. phScene \in {"games", "party"} /\ phWork = phState /\ phPurse = 0 /\ phLeft = 0 /\ PhMaxInstr \in Nat
    BY PersonhoodAssumption DEF PhInit
<1>2. PhStart[phScene] \in CoinSets
    BY <1>1, PersonhoodAssumption DEF CoinSets
<1>3. NoParty \in Parties /\ NoParty.state = "none" /\ NoParty.finalizations = << >> /\ NoParty.miners = {} /\ NoParty.attendees = << >>
    <2>1. << >> \in Seq(PhOrganizers) /\ << >> \in Lists /\ {} \in SUBSET Attendees
        BY DEF Lists
    <2> QED  BY <2>1 DEF NoParty, Parties
<1> DEFINE e == [a \in Attendees |-> 0]
           l == [o \in PhOrganizers |-> << >>]
<1>4. e \in [Attendees -> Nat] /\ l \in [PhOrganizers -> Lists] /\ \A a \in Attendees : e[a] = 0
    BY DEF Lists
<1>5. /\ phState.coins = PhStart[phScene] /\ phState.costs = << >> /\ phState.made = {} /\ phState.game = NoGame /\ phState.games = 0
      /\ phState.party = NoParty /\ phState.last = l /\ phState.prizes = 0 /\ phState.earned = e
    BY DEF PhInit
<1>6. phState \in PhStates
    <2>1. phState = [coins |-> PhStart[phScene], costs |-> << >>, made |-> {}, game |-> NoGame, games |-> 0, party |-> NoParty,
                     last |-> l, prizes |-> 0, earned |-> e]
        BY DEF PhInit
    <2>2. 0 \in 0 .. PhMaxGames
        BY PersonhoodAssumption
    <2> HIDE DEF e, l
    <2> QED  BY <1>2, <1>3, <1>4, <2>1, <2>2, NoGameIs DEF PhStates
<1>7. PartyIs(NoParty, l, e)
    <2> HIDE DEF e, l
    <2> QED  BY <1>3, <1>4 DEF PartyIs
<1>8. Total(e) = 0
    <2>1. IsFiniteSet(Attendees) /\ DOMAIN e = Attendees
        BY PersonhoodAssumption
    <2> HIDE DEF e
    <2> QED  BY <1>4, <2>1, ZeroTotal
<1>9. CoinsAre(phState.coins, phState.game, phState.earned, phState.prizes, 0, phScene)
    <2>1. Total(PhStart[phScene]) \in Int
        BY <1>2, CoinsType
    <2> HIDE DEF e, l
    <2> QED  BY <1>5, <1>8, <2>1, NoGameIs DEF CoinsAre
<1>10. PhOk(phState, 0, phScene)
    BY <1>5, <1>6, <1>7, <1>9 DEF PhOk
<1> QED  BY <1>1, <1>10 DEF PhInv
LEMMA PhShows ==
    ASSUME PhInv
    PROVE  PhTypeOK /\ PersonhoodRight
<1>1. PhOk(phState, 0, phScene) /\ PhOk(phWork, phPurse, phScene) /\ phLeft \in 0 .. PhMaxInstr /\ phScene \in {"games", "party"}
    BY DEF PhInv
<1>2. PhTypeOK
    <2>1. ASSUME NEW s, s \in PhStates
          PROVE  /\ DOMAIN s.coins \subseteq PhAccounts /\ s.made \subseteq Kinds /\ s.games \in 0 .. PhMaxGames
                 /\ s.game.first \in Moves \cup {-1} /\ s.game.second \in Moves \cup {-1} /\ s.game.stake \in Nat
                 /\ s.party.state \in {"none", "init", "scanning", "finalized"} /\ s.party.miners \subseteq Attendees
        <3>1. s.coins \in CoinSets /\ s.made \subseteq Kinds /\ s.games \in 0 .. PhMaxGames /\ s.game \in Games /\ s.party \in Parties
            BY <2>1 DEF PhStates
        <3>2. DOMAIN s.coins \subseteq PhAccounts
            BY <3>1, CoinsType
        <3> QED  BY <3>1, <3>2 DEF Games, Parties
    <2> QED  BY <1>1, <2>1 DEF PhTypeOK, PhOk
<1>3. PartyAgreed
    BY <1>1 DEF PartyAgreed, PhOk, PartyIs
<1>4. CoinsExplained
    <2>1. \A a \in Attendees : phState.earned[a] <= IF a \in Range(phState.party.attendees) THEN PhReward ELSE 0
        <3> SUFFICES ASSUME NEW a \in Attendees PROVE phState.earned[a] <= IF a \in Range(phState.party.attendees) THEN PhReward ELSE 0
            OBVIOUS
        <3>1. phState.earned[a] = IF a \in phState.party.miners THEN PhReward ELSE 0
            BY <1>1 DEF PhOk, PartyIs
        <3>2. a \in phState.party.miners => a \in Range(phState.party.attendees)
            BY <1>1 DEF PhOk, PartyIs
        <3> QED  BY <3>1, <3>2, PersonhoodAssumption
    <2>2. Total(phState.coins) + Staked(phState.game) <= Total(PhStart[phScene]) + Total(phState.earned) + phState.prizes
        <3>1. Total(phState.coins) + Staked(phState.game) + 0 <= Total(PhStart[phScene]) + Total(phState.earned) + phState.prizes
            BY <1>1 DEF PhOk, CoinsAre
        <3>2. phState \in PhStates
            BY <1>1 DEF PhOk
        <3> QED  BY <1>1, <3>1, <3>2, PhNumbers
    <2> QED  BY <2>1, <2>2 DEF CoinsExplained
<1> QED  BY <1>2, <1>3, <1>4 DEF PersonhoodRight

-----------------------------------------------------------------------------
(* The event log.  Every event is in one bucket, which covers its time;    *)
(* the search goes through the buckets that cover a part of the range.     *)
Distinct(s) == \A i, j \in 1 .. Len(s) : s[i] = s[j] => i = j
LEMMA CatHas ==
    ASSUME NEW T, NEW s \in Seq(T), NEW t \in Seq(T), NEW y
    PROVE  Contains(s \o t, y) <=> Contains(s, y) \/ Contains(t, y)
<1>1. /\ Len(s \o t) = Len(s) + Len(t) /\ Len(s) \in Nat /\ Len(t) \in Nat
      /\ \A i \in 1 .. Len(s) : (s \o t)[i] = s[i]
      /\ \A i \in 1 .. Len(t) : (s \o t)[Len(s) + i] = t[i]
    OBVIOUS
<1>2. ASSUME NEW i \in 1 .. Len(s \o t), (s \o t)[i] = y PROVE Contains(s, y) \/ Contains(t, y)
    <2>1. CASE i <= Len(s)
        <3>1. i \in 1 .. Len(s)
            BY <1>1, <2>1
        <3> QED  BY <1>1, <1>2, <3>1 DEF Contains
    <2>2. CASE ~(i <= Len(s))
        <3>1. i - Len(s) \in 1 .. Len(t) /\ Len(s) + (i - Len(s)) = i
            BY <1>1, <2>2
        <3>2. t[i - Len(s)] = y
            BY <1>1, <1>2, <3>1
        <3> QED  BY <3>1, <3>2 DEF Contains
    <2> QED  BY <2>1, <2>2
<1>3. ASSUME NEW i \in 1 .. Len(s), s[i] = y PROVE Contains(s \o t, y)
    <2>1. i \in 1 .. Len(s \o t) /\ (s \o t)[i] = y
        BY <1>1, <1>3
    <2> QED  BY <2>1 DEF Contains
<1>4. ASSUME NEW i \in 1 .. Len(t), t[i] = y PROVE Contains(s \o t, y)
    <2>1. Len(s) + i \in 1 .. Len(s \o t) /\ (s \o t)[Len(s) + i] = y
        BY <1>1, <1>4
    <2> QED  BY <2>1 DEF Contains
<1> QED  BY <1>2, <1>3, <1>4 DEF Contains
LEMMA CatDistinct ==
    ASSUME NEW T, NEW s \in Seq(T), NEW t \in Seq(T), Distinct(s), Distinct(t), \A y : ~(Contains(s, y) /\ Contains(t, y))
    PROVE  Distinct(s \o t)
<1>1. /\ Len(s \o t) = Len(s) + Len(t) /\ Len(s) \in Nat /\ Len(t) \in Nat
      /\ \A i \in 1 .. Len(s) : (s \o t)[i] = s[i]
      /\ \A i \in 1 .. Len(t) : (s \o t)[Len(s) + i] = t[i]
    OBVIOUS
<1>2. \A i \in 1 .. Len(s) + Len(t) : i \in 1 .. Len(s) \/ (i - Len(s) \in 1 .. Len(t) /\ Len(s) + (i - Len(s)) = i)
    BY <1>1
<1>3. \A i \in 1 .. Len(s), j \in 1 .. Len(t) : s[i] # t[j]
    BY DEF Contains
<1> SUFFICES ASSUME NEW i \in 1 .. Len(s) + Len(t), NEW j \in 1 .. Len(s) + Len(t), (s \o t)[i] = (s \o t)[j] PROVE i = j
    BY <1>1 DEF Distinct
<1>4. CASE i \in 1 .. Len(s) /\ j \in 1 .. Len(s)
    BY <1>1, <1>4 DEF Distinct
<1>5. CASE i \in 1 .. Len(s) /\ j \notin 1 .. Len(s)
    <2>1. (s \o t)[i] = s[i] /\ (s \o t)[j] = t[j - Len(s)] /\ j - Len(s) \in 1 .. Len(t)
        BY <1>1, <1>2, <1>5
    <2> QED  BY <1>3, <1>5, <2>1
<1>6. CASE i \notin 1 .. Len(s) /\ j \in 1 .. Len(s)
    <2>1. (s \o t)[j] = s[j] /\ (s \o t)[i] = t[i - Len(s)] /\ i - Len(s) \in 1 .. Len(t)
        BY <1>1, <1>2, <1>6
    <2> QED  BY <1>3, <1>6, <2>1
<1>7. CASE i \notin 1 .. Len(s) /\ j \notin 1 .. Len(s)
    <2>1. /\ (s \o t)[j] = t[j - Len(s)] /\ j - Len(s) \in 1 .. Len(t)
          /\ (s \o t)[i] = t[i - Len(s)] /\ i - Len(s) \in 1 .. Len(t)
        BY <1>1, <1>2, <1>7
    <2>2. i - Len(s) = j - Len(s)
        BY <2>1 DEF Distinct
    <2> QED  BY <1>1, <2>2
<1> QED  BY <1>4, <1>5, <1>6, <1>7
LEMMA AppendHas ==
    ASSUME NEW T, NEW s \in Seq(T), NEW x \in T
    PROVE  /\ \A y : Contains(Append(s, x), y) <=> Contains(s, y) \/ y = x
           /\ Distinct(s) /\ ~Contains(s, x) => Distinct(Append(s, x))
<1> DEFINE t == Append(s, x)
<1>1. Len(t) = Len(s) + 1 /\ Len(s) \in Nat /\ t[Len(s) + 1] = x /\ \A i \in 1 .. Len(s) : t[i] = s[i]
    OBVIOUS
<1> HIDE DEF t
<1>2. \A i \in 1 .. Len(t) : i \in 1 .. Len(s) \/ i = Len(s) + 1
    BY <1>1
<1>3. 1 .. Len(s) \subseteq 1 .. Len(t) /\ Len(s) + 1 \in 1 .. Len(t)
    BY <1>1
<1>4. \A y : Contains(t, y) <=> Contains(s, y) \/ y = x
    BY <1>1, <1>2, <1>3 DEF Contains
<1>5. Distinct(s) /\ ~Contains(s, x) => Distinct(t)
    BY <1>1, <1>2, <1>3 DEF Contains, Distinct
<1> QED  BY <1>4, <1>5 DEF t
LEMMA OneHas ==
    ASSUME NEW x \in Nat
    PROVE  <<x>> \in Seq(Nat) /\ Distinct(<<x>>) /\ \A y : Contains(<<x>>, y) <=> y = x
<1>1. <<x>> \in Seq(Nat) /\ Len(<<x>>) = 1 /\ <<x>>[1] = x
    OBVIOUS
<1> DEFINE s == <<x>>
<1> HIDE DEF s
<1>2. Distinct(s) /\ \A y : Contains(s, y) <=> y = x
    BY <1>1 DEF Distinct, Contains, s
<1> QED  BY <1>1, <1>2 DEF s

Events == [when : Nat, topic : ElTopics]
TimeBuckets == [start : Nat, refs : Seq(Nat)]
\* What a bucket i may refer to.
Covers(B, E, i, x) ==
    /\ x \in 1 .. Len(E) /\ B[i].start <= E[x].when
    /\ i < Len(B) => E[x].when < B[i + 1].start
    /\ i = Len(B) => E[x].when <= B[i].start + ElMaxAge
LogIs(B, E) ==
    /\ B \in Seq(TimeBuckets) /\ E \in Seq(Events)
    /\ B = << >> => E = << >>
    /\ B # << >> => Len(B) >= 2 /\ B[1].start = 0
    /\ \A i, j \in 1 .. Len(B) : i <= j => B[i].start <= B[j].start
    /\ \A x \in 1 .. Len(E) : \E i \in 1 .. Len(B) : Contains(B[i].refs, x)
    /\ \A i \in 1 .. Len(B) : Distinct(B[i].refs)
    /\ \A i, j \in 1 .. Len(B) : \A x : Contains(B[i].refs, x) /\ Contains(B[j].refs, x) => i = j
    /\ \A i \in 1 .. Len(B) : \A x : Contains(B[i].refs, x) => Covers(B, E, i, x)
LEMMA LogBegins ==
    LogIs(<< >>, << >>)
BY DEF LogIs
\* The bucket that is found starts before the event, the next one after it.
LEMMA FindsBucket ==
    ASSUME LogIs(elBuckets, elEvents), elBuckets # << >>, NEW when \in Nat
    PROVE  /\ FindBucket(when) \in 1 .. Len(elBuckets) /\ elBuckets[FindBucket(when)].start <= when
           /\ \A i \in 1 .. Len(elBuckets) : i > FindBucket(when) => when < elBuckets[i].start
<1> DEFINE S == {1} \union {i \in DOMAIN elBuckets : elBuckets[i].start <= when}
<1>1. /\ elBuckets \in Seq(TimeBuckets) /\ DOMAIN elBuckets = 1 .. Len(elBuckets) /\ Len(elBuckets) \in Nat /\ Len(elBuckets) >= 2
      /\ elBuckets[1].start = 0
    BY DEF LogIs
<1>2. \A i \in 1 .. Len(elBuckets) : elBuckets[i].start \in Nat
    <2>1. \A i \in 1 .. Len(elBuckets) : elBuckets[i] \in TimeBuckets
        BY <1>1
    <2> QED  BY <2>1 DEF TimeBuckets
<1>3. S \in SUBSET Nat /\ S # {} /\ \A x \in S : x <= Len(elBuckets)
    BY <1>1
<1>4. Max(S) \in S /\ \A y \in S : y <= Max(S)
    <2> HIDE DEF S
    <2> QED  BY <1>1, <1>3, MaxNat
<1>5. FindBucket(when) = Max(S)
    BY DEF FindBucket
<1> DEFINE b == FindBucket(when)
<1>6. b \in S /\ \A y \in S : y <= b
    <2> HIDE DEF S
    <2> QED  BY <1>4, <1>5
<1> HIDE DEF b
<1>7. b \in 1 .. Len(elBuckets) /\ elBuckets[b].start <= when
    BY <1>1, <1>6
<1>8. ASSUME NEW i \in 1 .. Len(elBuckets), i > b PROVE when < elBuckets[i].start
    <2>1. i \notin S
        <3> HIDE DEF S
        <3> QED  BY <1>3, <1>6, <1>7, <1>8
    <2>2. ~(elBuckets[i].start <= when)
        BY <1>1, <2>1
    <2> QED  BY <1>2, <2>2
<1> QED  BY <1>7, <1>8 DEF b
LEMMA LogStays ==
    ASSUME LogIs(elBuckets, elEvents), NEW when \in Nat, NEW topic \in ElTopics,
           NEW E, E = Append(elEvents, [when |-> when, topic |-> topic])
    PROVE  LogIs(Buckets(when, Len(elEvents) + 1), E)
<1> DEFINE e == Len(elEvents) + 1
           b == FindBucket(when)
           B == elBuckets
           C == Buckets(when, e)
           ev == [when |-> when, topic |-> topic]
           new == [start |-> when, refs |-> <<e>>]
<1>1. /\ elEvents \in Seq(Events) /\ B \in Seq(TimeBuckets) /\ Len(elEvents) \in Nat /\ Len(B) \in Nat /\ e \in Nat /\ ElMaxAge \in Nat
    BY EventLogAssumption DEF LogIs
<1>2. /\ E \in Seq(Events) /\ Len(E) = e /\ E[e] = ev /\ E[e].when = when /\ \A x \in 1 .. Len(elEvents) : E[x] = elEvents[x]
    <2>1. ev \in Events /\ ev.when = when
        BY DEF Events
    <2> HIDE DEF ev
    <2> QED  BY <1>1, <2>1 DEF ev
<1>3. new \in TimeBuckets /\ new.start = when /\ Distinct(new.refs) /\ \A x : Contains(new.refs, x) <=> x = e
    <2>1. <<e>> \in Seq(Nat) /\ Distinct(<<e>>) /\ \A y : Contains(<<e>>, y) <=> y = e
        <3> HIDE DEF e
        <3> QED  BY <1>1, OneHas
    <2> DEFINE one == <<e>>
    <2> HIDE DEF one
    <2>2. new = [start |-> when, refs |-> one]
        BY DEF one
    <2>3. one \in Seq(Nat) /\ Distinct(one) /\ \A y : Contains(one, y) <=> y = e
        BY <2>1 DEF one
    <2> HIDE DEF new
    <2> QED  BY <2>2, <2>3 DEF TimeBuckets
<1>4. \A x : x \in 1 .. e <=> x \in 1 .. Len(elEvents) \/ x = e
    BY <1>1
<1>5. \A i \in 1 .. Len(B) : /\ B[i] \in TimeBuckets /\ B[i].start \in Nat /\ B[i].refs \in Seq(Nat)
    <2>1. \A i \in 1 .. Len(B) : B[i] \in TimeBuckets
        BY <1>1
    <2> QED  BY <2>1 DEF TimeBuckets
<1>6. \A x \in 1 .. e : E[x].when \in Nat
    <2>1. \A x \in 1 .. e : E[x] \in Events
        BY <1>2
    <2> QED  BY <2>1 DEF Events
<1>7. ~ \E i \in 1 .. Len(B) : Contains(B[i].refs, e)
    <2> SUFFICES ASSUME NEW i \in 1 .. Len(B), Contains(B[i].refs, e) PROVE FALSE
        OBVIOUS
    <2>1. e \in 1 .. Len(elEvents)
        BY DEF LogIs, Covers
    <2> QED  BY <1>1, <2>1
<1> HIDE DEF e, ev, new
<1>8. CASE B = << >>
    <2> DEFINE first == [start |-> 0, refs |-> << >>]
    <2>1. C = <<first, new>>
        BY <1>8 DEF Buckets, NewBucket, new
    <2>2. first \in TimeBuckets /\ first.start = 0 /\ first.refs = << >>
        BY DEF TimeBuckets
    <2> HIDE DEF first, C
    <2>3. C \in Seq(TimeBuckets) /\ Len(C) = 2 /\ C[1] = first /\ C[2] = new
        BY <1>3, <2>1, <2>2
    <2>4. \A i : i \in 1 .. Len(C) <=> i = 1 \/ i = 2
        BY <2>3
    <2>5. Len(elEvents) = 0 /\ e = 1
        BY <1>1, <1>8 DEF LogIs, e
    <2>6. ~ \E x : Contains(C[1].refs, x)
        BY <2>2, <2>3 DEF Contains
    <2>7. Distinct(C[1].refs)
        BY <2>2, <2>3 DEF Distinct
    <2>8. \A x : Contains(C[2].refs, x) => Covers(C, E, 2, x)
        BY <1>1, <1>2, <1>3, <2>3, <2>5 DEF Covers
    <2>9. \A i, j \in 1 .. Len(C) : i <= j => C[i].start <= C[j].start
        BY <1>3, <2>2, <2>3, <2>4
    <2>10. \A x \in 1 .. Len(E) : \E i \in 1 .. Len(C) : Contains(C[i].refs, x)
        BY <1>2, <1>3, <2>3, <2>4, <2>5
    <2>11. \A i \in 1 .. Len(C) : Distinct(C[i].refs)
        BY <1>3, <2>3, <2>4, <2>7
    <2>12. \A i, j \in 1 .. Len(C) : \A x : Contains(C[i].refs, x) /\ Contains(C[j].refs, x) => i = j
        BY <2>4, <2>6
    <2>13. \A i \in 1 .. Len(C) : \A x : Contains(C[i].refs, x) => Covers(C, E, i, x)
        BY <2>4, <2>6, <2>8
    <2>14. C # << >> /\ Len(C) >= 2 /\ C[1].start = 0
        <3>1. Len(C) # 0 /\ Len(C) >= 2
            BY <2>3
        <3>2. C[1].start = 0
            BY <2>2, <2>3, Zenon
        <3> QED  BY <3>1, <3>2
    <2> QED  BY <1>2, <2>3, <2>9, <2>10, <2>11, <2>12, <2>13, <2>14 DEF LogIs, C, e
<1>9. CASE B # << >>
    <2>1. /\ b \in 1 .. Len(B) /\ B[b].start <= when /\ \A i \in 1 .. Len(B) : i > b => when < B[i].start
        BY <1>9, FindsBucket
    <2> HIDE DEF b
    <2>2. Len(B) >= 2 /\ B[1].start = 0 /\ b \in Nat
        BY <1>9, <2>1 DEF LogIs
    <2>3. ASSUME NEW x \in 1 .. Len(elEvents) PROVE E[x].when = elEvents[x].when /\ x \in 1 .. Len(E) /\ x # e
        BY <1>1, <1>2, <2>3 DEF e
    <2>4. CASE TooOld(b, when)
        <3>1. C = Append(B, new) /\ b = Len(B) /\ when - B[b].start > ElMaxAge
            BY <1>9, <2>4 DEF Buckets, NewBucket, new, TooOld, b
        <3> HIDE DEF C
        <3>2. /\ C \in Seq(TimeBuckets) /\ Len(C) = Len(B) + 1 /\ C[Len(B) + 1] = new /\ \A i \in 1 .. Len(B) : C[i] = B[i]
            BY <1>1, <1>3, <3>1
        <3>3. \A i : i \in 1 .. Len(C) <=> i \in 1 .. Len(B) \/ i = Len(B) + 1
            BY <1>1, <3>2
        <3>4. \A i \in 1 .. Len(B) : B[i].start <= B[b].start
            <4>1. \A i \in 1 .. Len(B) : i <= b
                BY <3>1
            <4> QED  BY <2>1, <4>1 DEF LogIs
        <3>5. B[b].start \in Nat /\ B[b].start + ElMaxAge < when /\ \A i \in 1 .. Len(B) : B[i].start < when
            BY <1>1, <1>5, <2>1, <3>1, <3>4
        <3>6. \A i, j \in 1 .. Len(C) : i <= j => C[i].start <= C[j].start
            <4> SUFFICES ASSUME NEW i \in 1 .. Len(C), NEW j \in 1 .. Len(C), i <= j PROVE C[i].start <= C[j].start
                OBVIOUS
            <4>1. CASE j \in 1 .. Len(B)
                <5>1. i \in 1 .. Len(B)
                    BY <1>1, <3>2, <4>1
                <5> QED  BY <3>2, <4>1, <5>1 DEF LogIs
            <4>2. CASE j = Len(B) + 1 /\ i \in 1 .. Len(B)
                BY <1>3, <1>5, <3>2, <3>5, <4>2
            <4>3. CASE j = Len(B) + 1 /\ i = Len(B) + 1
                BY <1>3, <3>2, <4>3
            <4> QED  BY <3>3, <4>1, <4>2, <4>3
        <3>7. \A x \in 1 .. Len(E) : \E i \in 1 .. Len(C) : Contains(C[i].refs, x)
            <4> SUFFICES ASSUME NEW x \in 1 .. Len(E) PROVE \E i \in 1 .. Len(C) : Contains(C[i].refs, x)
                OBVIOUS
            <4>1. CASE x = e
                BY <1>3, <3>2, <3>3, <4>1
            <4>2. CASE x \in 1 .. Len(elEvents)
                <5>1. PICK i \in 1 .. Len(B) : Contains(B[i].refs, x)
                    BY <4>2 DEF LogIs
                <5> QED  BY <3>2, <3>3, <5>1
            <4> QED  BY <1>2, <1>4, <4>1, <4>2
        <3>8. \A i \in 1 .. Len(C) : Distinct(C[i].refs)
            BY <1>3, <3>2, <3>3 DEF LogIs
        <3>9. \A i, j \in 1 .. Len(C) : \A x : Contains(C[i].refs, x) /\ Contains(C[j].refs, x) => i = j
            <4> SUFFICES ASSUME NEW i \in 1 .. Len(C), NEW j \in 1 .. Len(C), NEW x, Contains(C[i].refs, x), Contains(C[j].refs, x)
                         PROVE  i = j
                OBVIOUS
            <4>1. \A k \in 1 .. Len(C) : Contains(C[k].refs, x) => (k = Len(B) + 1 /\ x = e) \/ (k \in 1 .. Len(B) /\ Contains(B[k].refs, x) /\ x # e)
                BY <1>3, <1>7, <3>2, <3>3
            <4> QED  BY <4>1 DEF LogIs
        <3>10. ASSUME NEW i \in 1 .. Len(C), NEW x, Contains(C[i].refs, x) PROVE Covers(C, E, i, x)
            <4>1. CASE i = Len(B) + 1
                <5>1. x = e /\ C[i].start = when /\ ~(i < Len(C)) /\ E[x].when = when /\ x \in 1 .. Len(E)
                    BY <1>1, <1>2, <1>3, <1>4, <3>2, <3>10, <4>1
                <5> QED  BY <1>1, <5>1 DEF Covers
            <4>2. CASE i \in 1 .. Len(B)
                <5>1. C[i] = B[i] /\ Covers(B, elEvents, i, x)
                    BY <3>2, <3>10, <4>2 DEF LogIs
                <5>2. x \in 1 .. Len(elEvents)
                    BY <5>1 DEF Covers
                <5>3. E[x].when = elEvents[x].when /\ x \in 1 .. Len(E) /\ E[x].when \in Nat
                    BY <1>2, <1>6, <2>3, <5>2
                <5>4. i < Len(C) /\ i # Len(C) /\ i + 1 \in 1 .. Len(C)
                    BY <1>1, <3>2, <4>2
                <5>5. E[x].when < C[i + 1].start
                    <6>1. CASE i < Len(B)
                        <7>1. C[i + 1] = B[i + 1]
                            BY <1>1, <3>2, <4>2, <6>1
                        <7> QED  BY <5>1, <5>3, <6>1, <7>1 DEF Covers
                    <6>2. CASE i = Len(B)
                        <7>1. C[i + 1].start = when /\ i = b
                            BY <1>3, <3>1, <3>2, <6>2
                        <7>2. E[x].when <= B[b].start + ElMaxAge
                            BY <3>1, <5>1, <5>3, <6>2 DEF Covers
                        <7> QED  BY <1>1, <3>5, <5>3, <7>1, <7>2
                    <6>3. i < Len(B) \/ i = Len(B)
                        BY <1>1, <4>2
                    <6> QED  BY <6>1, <6>2, <6>3
                <5>6. C[i].start <= E[x].when
                    BY <5>1, <5>3 DEF Covers
                <5> QED  BY <5>3, <5>4, <5>5, <5>6 DEF Covers
            <4> QED  BY <3>3, <4>1, <4>2
        <3>11. C # << >> /\ Len(C) >= 2 /\ C[1].start = 0
            <4>1. 1 \in 1 .. Len(B)
                BY <1>1, <2>2
            <4> QED  BY <1>1, <2>2, <3>2, <4>1
        <3> QED  BY <1>2, <3>2, <3>6, <3>7, <3>8, <3>9, <3>10, <3>11 DEF LogIs, C, e
    <2>5. CASE ~TooOld(b, when)
        <3> DEFINE r == Append(B[b].refs, e)
        <3>1. C = [B EXCEPT ![b].refs = r]
            BY <1>9, <2>5 DEF Buckets, b
        <3>2. /\ r \in Seq(Nat) /\ Distinct(r) /\ \A y : Contains(r, y) <=> Contains(B[b].refs, y) \/ y = e
            <4>1. B[b].refs \in Seq(Nat) /\ Distinct(B[b].refs) /\ ~Contains(B[b].refs, e)
                BY <1>5, <1>7, <2>1 DEF LogIs
            <4> DEFINE f == B[b].refs
            <4> HIDE DEF f
            <4>2. f \in Seq(Nat) /\ Distinct(f) /\ ~Contains(f, e) /\ r = Append(f, e)
                BY <4>1 DEF f
            <4> HIDE DEF r
            <4>3. r \in Seq(Nat) /\ Distinct(r) /\ \A y : Contains(r, y) <=> Contains(f, y) \/ y = e
                BY <1>1, <4>2, AppendHas
            <4> QED  BY <4>3 DEF f
        <3> HIDE DEF r, C
        <3>3. /\ Len(C) = Len(B) /\ C \in Seq(TimeBuckets)
              /\ \A i \in 1 .. Len(B) : C[i].start = B[i].start /\ C[i].refs = IF i = b THEN r ELSE B[i].refs
            <4>1. [B[b] EXCEPT !.refs = r] \in TimeBuckets
                BY <1>5, <2>1, <3>2 DEF TimeBuckets
            <4>2. C = [B EXCEPT ![b] = [B[b] EXCEPT !.refs = r]]
                BY <3>1
            <4>3. Len(C) = Len(B) /\ C \in Seq(TimeBuckets)
                BY <1>1, <2>1, <4>1, <4>2
            <4>4. \A i \in 1 .. Len(B) : C[i] = IF i = b THEN [B[b] EXCEPT !.refs = r] ELSE B[i]
                BY <1>1, <2>1, <4>2
            <4>5. [B[b] EXCEPT !.refs = r].start = B[b].start /\ [B[b] EXCEPT !.refs = r].refs = r
                BY <1>5, <2>1 DEF TimeBuckets
            <4> QED  BY <4>3, <4>4, <4>5
        <3>4. \A i \in 1 .. Len(B) : \A x : Contains(C[i].refs, x) <=> Contains(B[i].refs, x) \/ (i = b /\ x = e)
            BY <3>2, <3>3
        <3>5. \A i, j \in 1 .. Len(C) : i <= j => C[i].start <= C[j].start
            BY <3>3 DEF LogIs
        <3>6. \A x \in 1 .. Len(E) : \E i \in 1 .. Len(C) : Contains(C[i].refs, x)
            <4> SUFFICES ASSUME NEW x \in 1 .. Len(E) PROVE \E i \in 1 .. Len(C) : Contains(C[i].refs, x)
                OBVIOUS
            <4>1. CASE x = e
                BY <2>1, <3>3, <3>4, <4>1
            <4>2. CASE x \in 1 .. Len(elEvents)
                <5>1. PICK i \in 1 .. Len(B) : Contains(B[i].refs, x)
                    BY <4>2 DEF LogIs
                <5> QED  BY <3>3, <3>4, <5>1
            <4> QED  BY <1>2, <1>4, <4>1, <4>2
        <3>7. \A i \in 1 .. Len(C) : Distinct(C[i].refs)
            BY <3>2, <3>3 DEF LogIs
        <3>8. \A i, j \in 1 .. Len(C) : \A x : Contains(C[i].refs, x) /\ Contains(C[j].refs, x) => i = j
            <4> SUFFICES ASSUME NEW i \in 1 .. Len(C), NEW j \in 1 .. Len(C), NEW x, Contains(C[i].refs, x), Contains(C[j].refs, x)
                         PROVE  i = j
                OBVIOUS
            <4>1. \A k \in 1 .. Len(C) : Contains(C[k].refs, x) => k \in 1 .. Len(B) /\ ((k = b /\ x = e) \/ (Contains(B[k].refs, x) /\ x # e))
                BY <1>7, <3>3, <3>4
            <4> QED  BY <4>1 DEF LogIs
        <3>9. ASSUME NEW i \in 1 .. Len(C), NEW x, Contains(C[i].refs, x) PROVE Covers(C, E, i, x)
            <4>1. i < Len(B) => i + 1 \in 1 .. Len(B)
                BY <1>1, <3>3
            <4>2. CASE x = e
                <5>1. i = b
                    BY <1>7, <3>3, <3>4, <3>9, <4>2
                <5>2. E[x].when = when /\ x \in 1 .. Len(E) /\ C[i].start <= when
                    BY <1>2, <1>4, <2>1, <3>3, <4>2, <5>1
                <5>3. i < Len(C) => when < C[i + 1].start
                    <6> SUFFICES ASSUME i < Len(C) PROVE when < C[i + 1].start
                        OBVIOUS
                    <6>1. i + 1 \in 1 .. Len(B) /\ i + 1 > b
                        BY <2>2, <3>3, <4>1, <5>1
                    <6> QED  BY <2>1, <3>3, <6>1
                <5>4. i = Len(C) => when <= C[i].start + ElMaxAge
                    <6> SUFFICES ASSUME i = Len(C) PROVE when <= C[i].start + ElMaxAge
                        OBVIOUS
                    <6>1. ~(when - B[b].start > ElMaxAge)
                        BY <2>5, <3>3, <5>1 DEF TooOld
                    <6>2. C[i].start = B[b].start /\ B[b].start \in Nat
                        BY <1>5, <2>1, <3>3, <5>1
                    <6> QED  BY <1>1, <6>1, <6>2
                <5> QED  BY <5>2, <5>3, <5>4 DEF Covers
            <4>3. CASE x # e
                <5>1. Covers(B, elEvents, i, x)
                    BY <3>3, <3>4, <3>9, <4>3 DEF LogIs
                <5>2. x \in 1 .. Len(elEvents)
                    BY <5>1 DEF Covers
                <5>3. E[x].when = elEvents[x].when /\ x \in 1 .. Len(E)
                    BY <2>3, <5>2
                <5> QED  BY <3>3, <4>1, <5>1, <5>3 DEF Covers
            <4> QED  BY <4>2, <4>3
        <3>10. C # << >> /\ Len(C) >= 2 /\ C[1].start = 0
            <4>1. 1 \in 1 .. Len(B)
                BY <1>1, <2>2
            <4> QED  BY <1>1, <2>2, <3>3, <4>1
        <3> QED  BY <1>2, <3>3, <3>5, <3>6, <3>7, <3>8, <3>9, <3>10 DEF LogIs, C, e
    <2> QED  BY <2>4, <2>5
<1> QED  BY <1>8, <1>9
\* The references of some buckets, in the order of the buckets.
LEMMA RefsAre ==
    ASSUME LogIs(elBuckets, elEvents), NEW range
    PROVE  /\ RefsIn(range) \in Seq(Nat) /\ Distinct(RefsIn(range))
           /\ \A x : Contains(RefsIn(range), x) <=> \E i \in 1 .. Len(elBuckets) : i \in range /\ Contains(elBuckets[i].refs, x)
<1> DEFINE n == Len(elBuckets)
           V == Seq(Nat)
           step(r, i) == IF i \in range THEN r \o elBuckets[i].refs ELSE r
           Is(a) == a = [i \in 0 .. n |-> IF i = 0 THEN << >> ELSE step(a[i - 1], i)]
           upto == CHOOSE a : Is(a)
           F == [i \in 1 .. n |-> [r \in V |-> step(r, i)]]
<1>1. n \in Nat /\ << >> \in V /\ elBuckets \in Seq(TimeBuckets)
    BY DEF LogIs
<1>2. \A i \in 1 .. n : elBuckets[i].refs \in V /\ Distinct(elBuckets[i].refs)
    <2>1. \A i \in 1 .. n : elBuckets[i] \in TimeBuckets
        BY <1>1
    <2> QED  BY <2>1 DEF TimeBuckets, LogIs
<1>3. F \in [1 .. n -> [V -> V]]
    <2>1. \A i \in 1 .. n, r \in V : step(r, i) \in V
        BY <1>2
    <2> HIDE DEF step
    <2> QED  BY <2>1
<1>4. RefsIn(range) = upto[n]
    BY DEF RefsIn
<1> HIDE DEF step
<1>5. \E a : Is(a)
    <2>1. PICK a : IsRecursion(a, n, V, << >>, F)
        <3> HIDE DEF F, n, V
        <3> QED  BY <1>1, <1>3, RecursionExists, Zenon
    <2>2. a \in [0 .. n -> V] /\ a[0] = << >> /\ \A i \in 1 .. n : a[i] = F[i][a[i - 1]]
        BY <2>1 DEF IsRecursion
    <2>3. \A i \in 1 .. n : a[i - 1] \in V
        <3> HIDE DEF n, F, V
        <3> QED  BY <1>1, <2>2
    <2>4. \A i \in 1 .. n : F[i][a[i - 1]] = step(a[i - 1], i)
        <3> HIDE DEF n, V
        <3> QED  BY <2>3
    <2>5. Is(a)
        <3> HIDE DEF F, n, V
        <3> QED  BY <1>1, <2>2, <2>4
    <2> QED  BY <2>5
<1>6. Is(upto)
    <2> HIDE DEF Is
    <2> QED  BY <1>5, Zenon
<1>7. upto[0] = << >> /\ \A i \in 1 .. n : upto[i] = step(upto[i - 1], i)
    <2> HIDE DEF upto, n
    <2> QED  BY <1>1, <1>6
<1> HIDE DEF upto, n, F
<1> DEFINE Has(i, x) == \E j \in 1 .. i : j \in range /\ Contains(elBuckets[j].refs, x)
           P(i) == upto[i] \in V /\ Distinct(upto[i]) /\ \A x : Contains(upto[i], x) <=> Has(i, x)
           S == {i \in Nat : i <= n => P(i)}
<1>8. 0 \in S
    <2>1. << >> \in V /\ Distinct(<< >>) /\ \A x : ~Contains(<< >>, x) /\ ~Has(0, x)
        BY DEF Distinct, Contains
    <2> QED  BY <1>7, <2>1
<1>9. ASSUME NEW k \in Nat, k \in S PROVE k + 1 \in S
    <2> SUFFICES ASSUME k + 1 <= n PROVE P(k + 1)
        OBVIOUS
    <2> DEFINE u == upto[k]
               t == elBuckets[k + 1].refs
    <2>1. k + 1 \in 1 .. n /\ (k + 1) - 1 = k /\ k <= n
        BY <1>1
    <2>2. upto[k + 1] = step(u, k + 1) /\ u \in V /\ Distinct(u) /\ \A x : Contains(u, x) <=> Has(k, x)
        BY <1>7, <1>9, <2>1
    <2>3. \A x : Has(k + 1, x) <=> Has(k, x) \/ (k + 1 \in range /\ Contains(t, x))
        <3>1. \A j : j \in 1 .. k + 1 <=> j \in 1 .. k \/ j = k + 1
            OBVIOUS
        <3> QED  BY <3>1
    <2>4. CASE k + 1 \notin range
        <3>1. upto[k + 1] = u
            BY <2>2, <2>4 DEF step
        <3> HIDE DEF Has
        <3> QED  BY <2>2, <2>3, <2>4, <3>1
    <2>5. CASE k + 1 \in range
        <3>1. upto[k + 1] = u \o t /\ t \in V /\ Distinct(t)
            BY <1>2, <2>1, <2>2, <2>5 DEF step
        <3>2. ASSUME NEW y, Contains(u, y), Contains(t, y) PROVE FALSE
            <4>1. PICK j \in 1 .. k : j \in range /\ Contains(elBuckets[j].refs, y)
                BY <2>2, <3>2
            <4>2. j \in 1 .. n /\ j # k + 1
                BY <1>1, <2>1
            <4>3. \A i1, i2 \in 1 .. Len(elBuckets) : \A x : Contains(elBuckets[i1].refs, x) /\ Contains(elBuckets[i2].refs, x) => i1 = i2
                BY DEF LogIs
            <4> QED  BY <2>1, <3>2, <4>1, <4>2, <4>3 DEF n
        <3> HIDE DEF Has, u, t, V
        <3>3. \A x : Contains(u \o t, x) <=> Contains(u, x) \/ Contains(t, x)
            BY <2>2, <3>1, CatHas DEF V
        <3>4. Distinct(u \o t)
            BY <2>2, <3>1, <3>2, CatDistinct DEF V
        <3>5. u \o t \in V
            BY <2>2, <3>1 DEF V
        <3> QED  BY <2>2, <2>3, <2>5, <3>1, <3>3, <3>4, <3>5
    <2> QED  BY <2>4, <2>5
<1>10. P(n)
    <2> HIDE DEF P
    <2>1. \A i \in Nat : i \in S
        <3> HIDE DEF S
        <3> QED  BY <1>8, <1>9, NatSteps
    <2> QED  BY <1>1, <2>1
<1> QED  BY <1>4, <1>10 DEF n
\* What the loop over the references answers.
Answers(f, refs, from, to, topic) ==
    /\ f \in Seq(Nat) /\ Distinct(f)
    /\ \A x : Contains(f, x) => Contains(refs, x) /\ Matches(x, from, to, topic)
    /\ Len(f) < ElSearchMax => \A x : Contains(refs, x) /\ Matches(x, from, to, topic) => Contains(f, x)
LEMMA SearchAnswers ==
    ASSUME LogIs(elBuckets, elEvents), NEW from, NEW to, NEW topic
    PROVE  Answers(Search(from, to, topic), RefsIn(InRange(from, to)), from, to, topic)
<1> DEFINE refs == RefsIn(InRange(from, to))
           n == Len(refs)
           V == Seq(Nat)
           step(r, k) == IF Len(r) < ElSearchMax /\ Matches(refs[k], from, to, topic) THEN Append(r, refs[k]) ELSE r
           Is(a) == a = [k \in 0 .. n |-> IF k = 0 THEN << >> ELSE step(a[k - 1], k)]
           found == CHOOSE a : Is(a)
           F == [k \in 1 .. n |-> [r \in V |-> step(r, k)]]
<1>1. refs \in V /\ Distinct(refs)
    BY RefsAre
<1>2. Search(from, to, topic) = found[n]
    BY DEF Search
<1> HIDE DEF refs
<1>3. n \in Nat /\ << >> \in V /\ \A k \in 1 .. n : refs[k] \in Nat
    BY <1>1
<1>4. F \in [1 .. n -> [V -> V]]
    <2>1. \A k \in 1 .. n, r \in V : step(r, k) \in V
        BY <1>3
    <2> HIDE DEF step
    <2> QED  BY <2>1
<1> HIDE DEF step
<1>5. \E a : Is(a)
    <2>1. PICK a : IsRecursion(a, n, V, << >>, F)
        <3> HIDE DEF F, n, V
        <3> QED  BY <1>3, <1>4, RecursionExists, Zenon
    <2>2. a \in [0 .. n -> V] /\ a[0] = << >> /\ \A i \in 1 .. n : a[i] = F[i][a[i - 1]]
        BY <2>1 DEF IsRecursion
    <2>3. \A i \in 1 .. n : a[i - 1] \in V
        <3> HIDE DEF n, F, V
        <3> QED  BY <1>3, <2>2
    <2>4. \A i \in 1 .. n : F[i][a[i - 1]] = step(a[i - 1], i)
        <3> HIDE DEF n, V
        <3> QED  BY <2>3
    <2>5. Is(a)
        <3> HIDE DEF F, n, V
        <3> QED  BY <1>3, <2>2, <2>4
    <2> QED  BY <2>5
<1>6. Is(found)
    <2> HIDE DEF Is
    <2> QED  BY <1>5, Zenon
<1>7. found[0] = << >> /\ \A i \in 1 .. n : found[i] = step(found[i - 1], i)
    <2> HIDE DEF found, n
    <2> QED  BY <1>3, <1>6
<1> HIDE DEF found, F
<1> DEFINE ok(x) == Matches(x, from, to, topic)
           P(k) == /\ found[k] \in V /\ Distinct(found[k])
                   /\ \A x : Contains(found[k], x) => ok(x) /\ \E j \in 1 .. k : refs[j] = x
                   /\ Len(found[k]) < ElSearchMax => \A j \in 1 .. k : ok(refs[j]) => Contains(found[k], refs[j])
           S == {k \in Nat : k <= n => P(k)}
<1>8. 0 \in S
    <2>1. << >> \in V /\ Distinct(<< >>) /\ \A x : ~Contains(<< >>, x)
        BY DEF Distinct, Contains
    <2>2. ~ \E j : j \in 1 .. 0
        OBVIOUS
    <2> HIDE DEF ok
    <2> QED  BY <1>7, <2>1, <2>2
<1>9. ASSUME NEW k \in Nat, k \in S PROVE k + 1 \in S
    <2> SUFFICES ASSUME k + 1 <= n PROVE P(k + 1)
        OBVIOUS
    <2> DEFINE f == found[k]
               x == refs[k + 1]
    <2>1. k + 1 \in 1 .. n /\ (k + 1) - 1 = k /\ k <= n /\ \A j : j \in 1 .. k + 1 <=> j \in 1 .. k \/ j = k + 1
        BY <1>3
    <2>2. /\ found[k + 1] = step(f, k + 1) /\ f \in V /\ Distinct(f) /\ Len(f) \in Nat
          /\ \A y : Contains(f, y) => ok(y) /\ \E j \in 1 .. k : refs[j] = y
          /\ Len(f) < ElSearchMax => \A j \in 1 .. k : ok(refs[j]) => Contains(f, refs[j])
        BY <1>7, <1>9, <2>1
    <2>3. ElSearchMax \in Nat
        BY EventLogAssumption
    <2>4. CASE Len(f) < ElSearchMax /\ ok(x)
        <3>1. found[k + 1] = Append(f, x) /\ x \in Nat
            BY <1>3, <2>1, <2>2, <2>4 DEF step
        <3>2. ~Contains(f, x)
            <4> SUFFICES ASSUME Contains(f, x) PROVE FALSE
                OBVIOUS
            <4>1. PICK j \in 1 .. k : refs[j] = x
                BY <2>2
            <4>2. j \in 1 .. n /\ j # k + 1
                BY <2>1, <1>3
            <4> QED  BY <1>1, <2>1, <4>1, <4>2 DEF Distinct
        <3> HIDE DEF f, x, ok, n
        <3>3. /\ \A y : Contains(Append(f, x), y) <=> Contains(f, y) \/ y = x
              /\ Distinct(Append(f, x)) /\ Append(f, x) \in V /\ Len(Append(f, x)) = Len(f) + 1
            BY <2>2, <3>1, <3>2, AppendHas
        <3> DEFINE g == found[k + 1]
        <3>4. g = Append(f, x)
            BY <3>1
        <3> HIDE DEF g
        <3>5. g \in V /\ Distinct(g)
            BY <3>3, <3>4
        <3>6. \A y : Contains(g, y) => ok(y) /\ \E j \in 1 .. k + 1 : refs[j] = y
            <4>1. refs[k + 1] = x /\ k + 1 \in 1 .. k + 1
                BY <2>1 DEF x
            <4> QED  BY <2>1, <2>2, <2>4, <3>3, <3>4, <4>1
        <3>7. \A j \in 1 .. k + 1 : ok(refs[j]) => Contains(g, refs[j])
            <4>1. refs[k + 1] = x
                BY DEF x
            <4> QED  BY <2>1, <2>2, <2>4, <3>3, <3>4, <4>1
        <3> QED  BY <3>5, <3>6, <3>7 DEF g
    <2>5. CASE ~(Len(f) < ElSearchMax /\ ok(x))
        <3>1. found[k + 1] = f
            BY <2>2, <2>5 DEF step
        <3>2. refs[k + 1] = x
            OBVIOUS
        <3> HIDE DEF f, x, ok
        <3> QED  BY <2>1, <2>2, <2>5, <3>1, <3>2
    <2> QED  BY <2>4, <2>5
<1>10. P(n)
    <2> HIDE DEF P
    <2>1. \A i \in Nat : i \in S
        <3> HIDE DEF S
        <3> QED  BY <1>8, <1>9, NatSteps
    <2> QED  BY <1>3, <2>1
<1>11. \A x : Contains(refs, x) <=> \E j \in 1 .. n : refs[j] = x
    BY DEF Contains
<1> HIDE DEF ok
<1>12. Answers(found[n], refs, from, to, topic)
    <2> HIDE DEF n
    <2> QED  BY <1>10, <1>11 DEF Answers, ok
<1> QED  BY <1>2, <1>12 DEF refs
LEMMA SearchesRight ==
    ASSUME LogIs(elBuckets, elEvents), elNow \in Nat
    PROVE  SearchFinds
<1> SUFFICES ASSUME NEW from \in 0 .. elNow, NEW to \in 0 .. ElMaxNow + ElMaxAge + 1, NEW topic
             PROVE  LET found == Search(from, to, topic)
                        wanted == Wanted(from, to, topic)
                    IN  /\ ToSet(found) \subseteq wanted /\ IsInjective(found)
                        /\ Len(found) < ElSearchMax => ToSet(found) = wanted
    BY DEF SearchFinds
<1> DEFINE found == Search(from, to, topic)
           range == InRange(from, to)
           refs == RefsIn(range)
           B == elBuckets
           n == Len(B)
<1>1. Answers(found, refs, from, to, topic)
    BY SearchAnswers
<1>2. /\ B \in Seq(TimeBuckets) /\ elEvents \in Seq(Events) /\ n \in Nat /\ from \in Nat /\ to \in Nat /\ ElMaxAge \in Nat
      /\ DOMAIN elEvents = 1 .. Len(elEvents) /\ DOMAIN B = 1 .. n
    <2>1. ElMaxNow \in Nat /\ ElMaxAge \in Nat
        BY EventLogAssumption
    <2> QED  BY <2>1 DEF LogIs
<1>3. /\ \A i \in 1 .. n : B[i].start \in Nat
      /\ \A x \in 1 .. Len(elEvents) : elEvents[x].when \in Nat
    <2>1. (\A i \in 1 .. n : B[i] \in TimeBuckets) /\ (\A x \in 1 .. Len(elEvents) : elEvents[x] \in Events)
        BY <1>2
    <2> QED  BY <2>1 DEF TimeBuckets, Events
<1>4. \A x : Contains(refs, x) => x \in 1 .. Len(elEvents)
    <2> SUFFICES ASSUME NEW x, Contains(refs, x) PROVE x \in 1 .. Len(elEvents)
        OBVIOUS
    <2>1. PICK i \in 1 .. n : Contains(B[i].refs, x)
        <3> HIDE DEF range
        <3> QED  BY RefsAre
    <2> QED  BY <2>1 DEF LogIs, Covers
<1>5. ASSUME NEW x \in 1 .. Len(elEvents), Matches(x, from, to, topic) PROVE Contains(refs, x)
    <2>1. PICK i \in 1 .. n : Contains(B[i].refs, x)
        BY DEF LogIs
    <2>2. Covers(B, elEvents, i, x)
        BY <2>1 DEF LogIs
    <2> DEFINE w == elEvents[x].when
    <2>3. w \in Nat /\ from <= w /\ w < to
        BY <1>3, <1>5 DEF Matches
    <2>4. B[i].start <= w /\ B[i].start \in Nat
        BY <1>3, <2>2 DEF Covers
    <2> HIDE DEF w
    <2>5. to >= B[i].start
        BY <1>2, <2>3, <2>4
    <2>6. ASSUME NEW j \in i .. n PROVE from <= BucketEnd(j)
        <3>1. CASE j = n
            BY <3>1 DEF BucketEnd
        <3>2. CASE j # n
            <4>1. j \in 1 .. n /\ j < n /\ i < n /\ i + 1 <= j + 1 /\ i + 1 \in 1 .. n /\ j + 1 \in 1 .. n
                <5>1. i \in Nat /\ j \in Nat /\ 1 <= i /\ i <= j /\ j <= n /\ n \in Nat
                    BY <1>2
                <5> HIDE DEF n
                <5> QED  BY <3>2, <5>1
            <4>2. w < B[i + 1].start
                BY <2>2, <4>1 DEF Covers, w
            <4>3. B[i + 1].start <= B[j + 1].start
                BY <4>1 DEF LogIs
            <4>4. B[i + 1].start \in Nat /\ B[j + 1].start \in Nat
                BY <1>3, <4>1
            <4>5. BucketEnd(j) = B[j + 1].start
                BY <3>2 DEF BucketEnd
            <4> QED  BY <1>2, <2>3, <4>2, <4>3, <4>4, <4>5
        <3> QED  BY <3>1, <3>2
    <2>7. i \in range
        BY <1>2, <2>5, <2>6 DEF InRange
    <2> HIDE DEF range
    <2> QED  BY <2>1, <2>7, RefsAre
<1> HIDE DEF found, refs
<1>6. found \in Seq(Nat) /\ DOMAIN found = 1 .. Len(found)
    BY <1>1 DEF Answers
<1>7. \A x : x \in ToSet(found) <=> Contains(found, x)
    BY <1>6 DEF ToSet, Contains
<1>8. \A x : x \in Wanted(from, to, topic) <=> x \in 1 .. Len(elEvents) /\ Matches(x, from, to, topic)
    BY <1>2 DEF Wanted
<1>9. ToSet(found) \subseteq Wanted(from, to, topic)
    BY <1>1, <1>4, <1>7, <1>8 DEF Answers
<1>10. IsInjective(found)
    BY <1>1, <1>6 DEF IsInjective, Answers, Distinct
<1>11. Len(found) < ElSearchMax => \A x \in Wanted(from, to, topic) : x \in ToSet(found)
    BY <1>1, <1>5, <1>7, <1>8 DEF Answers
<1> QED  BY <1>9, <1>10, <1>11 DEF found

(* The stream: the buffer ends with the latest event, and what was seen    *)
(* goes on with it once the two are linked.                                *)
StreamOf(E, from, sub, buf, latest, link, seen) ==
    /\ from \in 0 .. Len(E) /\ latest \in 0 .. Len(E) /\ sub \in BOOLEAN /\ link \in BOOLEAN
    /\ buf \in Seq(Nat) /\ seen \in Seq(Nat)
    /\ ~sub => buf = << >>
    /\ \A i \in 1 .. Len(buf) : buf[i] = Len(E) - Len(buf) + i
    /\ latest = 0 => seen = << >> /\ ~link
    /\ latest # 0 => from >= 1
    /\ latest # 0 /\ ~link => Len(seen) = latest - from + 1
    /\ link => sub /\ from + Len(seen) - 1 = Len(E) - Len(buf)
    /\ \A i \in 1 .. Len(seen) : seen[i] = from + i - 1
ElInv ==
    /\ elNow \in 0 .. ElMaxNow /\ Len(elEvents) <= ElMaxEvents /\ LogIs(elBuckets, elEvents)
    /\ StreamOf(elEvents, stFrom, stSub, stBuf, stLatest, stLink, stSeen)
LEMMA ElBegins ==
    ASSUME ElInit
    PROVE  ElInv
<1>1. StreamOf(<< >>, 0, FALSE, << >>, 0, FALSE, << >>)
    BY DEF StreamOf
<1>2. Len(<< >>) <= ElMaxEvents /\ 0 \in 0 .. ElMaxNow
    BY EventLogAssumption
<1> QED  BY <1>1, <1>2, LogBegins, Zenon DEF ElInit, ElInv
LEMMA ElLogs ==
    ASSUME ElInv, NEW when \in Nat, NEW topic \in ElTopics, Log(when, topic)
    PROVE  ElInv'
<1> DEFINE e == Len(elEvents) + 1
           ev == [when |-> when, topic |-> topic]
<1>1. /\ e <= ElMaxEvents /\ elEvents' = Append(elEvents, ev) /\ elBuckets' = Buckets(when, e)
      /\ stBuf' = IF stSub THEN Append(stBuf, e) ELSE stBuf
      /\ UNCHANGED <<elNow, stFrom, stSub, stLatest, stLink, stSeen>>
    BY DEF Log
<1>2. elEvents \in Seq(Events) /\ Len(elEvents) \in Nat /\ e \in Nat
    BY DEF ElInv, LogIs
<1>3. LogIs(elBuckets', elEvents')
    BY <1>1, LogStays DEF ElInv
<1>4. Len(elEvents') = Len(elEvents) + 1
    <2>1. ev \in Events
        BY DEF Events
    <2> HIDE DEF ev
    <2> QED  BY <1>1, <1>2, <2>1
<1>5. StreamOf(elEvents', stFrom, stSub, stBuf', stLatest, stLink, stSeen)
    <2> DEFINE L == Len(elEvents)
    <2>1. /\ stFrom \in 0 .. L /\ stLatest \in 0 .. L /\ stSub \in BOOLEAN /\ stLink \in BOOLEAN
          /\ stBuf \in Seq(Nat) /\ stSeen \in Seq(Nat) /\ (~stSub => stBuf = << >>)
          /\ \A i \in 1 .. Len(stBuf) : stBuf[i] = L - Len(stBuf) + i
          /\ stLink => stSub /\ stFrom + Len(stSeen) - 1 = L - Len(stBuf)
        BY DEF ElInv, StreamOf
    <2>2. stFrom \in 0 .. L + 1 /\ stLatest \in 0 .. L + 1 /\ Len(stBuf) \in Nat /\ L \in Nat /\ Len(stSeen) \in Nat
        BY <1>2, <2>1
    <2>3. CASE ~stSub
        <3>1. stBuf' = stBuf /\ stBuf = << >> /\ Len(stBuf) = 0 /\ ~stLink
            BY <1>1, <2>1, <2>3
        <3> QED  BY <1>4, <2>1, <2>2, <2>3, <3>1 DEF StreamOf, ElInv
    <2>4. CASE stSub
        <3>1. stBuf' = Append(stBuf, e)
            BY <1>1, <2>4
        <3>2. /\ stBuf' \in Seq(Nat) /\ Len(stBuf') = Len(stBuf) + 1 /\ stBuf'[Len(stBuf) + 1] = L + 1
              /\ \A i \in 1 .. Len(stBuf) : stBuf'[i] = stBuf[i]
            <4> HIDE DEF e
            <4>1. e = L + 1
                BY DEF e
            <4> QED  BY <1>2, <2>1, <3>1, <4>1
        <3>3. ASSUME NEW i \in 1 .. Len(stBuf') PROVE stBuf'[i] = Len(elEvents') - Len(stBuf') + i
            <4>1. CASE i = Len(stBuf) + 1
                BY <1>4, <2>2, <3>2, <4>1
            <4>2. CASE i # Len(stBuf) + 1
                <5>1. i \in 1 .. Len(stBuf)
                    BY <2>2, <3>2, <4>2
                <5>2. stBuf'[i] = L - Len(stBuf) + i
                    BY <2>1, <3>2, <5>1
                <5> QED  BY <1>4, <2>2, <3>2, <5>1, <5>2
            <4> QED  BY <4>1, <4>2
        <3>4. stLink => stFrom + Len(stSeen) - 1 = Len(elEvents') - Len(stBuf')
            BY <1>4, <2>1, <2>2, <3>2
        <3>5. stFrom \in 0 .. Len(elEvents') /\ stLatest \in 0 .. Len(elEvents')
            BY <1>4, <2>2
        <3> QED  BY <2>4, <3>2, <3>3, <3>4, <3>5 DEF StreamOf, ElInv
    <2> QED  BY <2>1, <2>3, <2>4
<1> QED  BY <1>1, <1>3, <1>4, <1>5 DEF ElInv
LEMMA ElStreams ==
    ASSUME ElInv, Subscribe \/ GetUpdateChain \/ ReadStream \/ \E b \in DOMAIN elEvents : StreamEventsFrom(b)
    PROVE  ElInv'
<1> DEFINE L == Len(elEvents)
<1>0. elEvents \in Seq(Events) /\ DOMAIN elEvents = 1 .. L /\ L \in Nat
    BY DEF ElInv, LogIs
<1>1. /\ stFrom \in 0 .. L /\ stLatest \in 0 .. L /\ stSub \in BOOLEAN /\ stLink \in BOOLEAN
      /\ stBuf \in Seq(Nat) /\ stSeen \in Seq(Nat) /\ (~stSub => stBuf = << >>)
      /\ \A i \in 1 .. Len(stBuf) : stBuf[i] = L - Len(stBuf) + i
      /\ stLatest = 0 => stSeen = << >> /\ ~stLink
      /\ stLatest # 0 => stFrom >= 1
      /\ stLatest # 0 /\ ~stLink => Len(stSeen) = stLatest - stFrom + 1
      /\ stLink => stSub /\ stFrom + Len(stSeen) - 1 = L - Len(stBuf)
      /\ \A i \in 1 .. Len(stSeen) : stSeen[i] = stFrom + i - 1
    BY DEF ElInv, StreamOf
<1>2. SUFFICES ASSUME UNCHANGED elLog PROVE StreamOf(elEvents, stFrom', stSub', stBuf', stLatest', stLink', stSeen')
    <2>1. UNCHANGED elLog
        BY DEF Subscribe, GetUpdateChain, ReadStream, StreamEventsFrom
    <2> QED  BY <2>1 DEF elLog, ElInv
<1>3. CASE \E b \in DOMAIN elEvents : StreamEventsFrom(b)
    <2>1. /\ stFrom = 0 /\ stFrom' \in 1 .. L /\ UNCHANGED <<stSub, stBuf, stLatest, stLink, stSeen>>
        BY <1>0, <1>3 DEF StreamEventsFrom
    <2>2. stLatest = 0 /\ stSeen = << >> /\ ~stLink
        BY <1>1, <2>1
    <2> QED  BY <1>0, <1>1, <2>1, <2>2 DEF StreamOf
<1>4. CASE Subscribe
    <2>1. ~stSub /\ stSub' = TRUE /\ UNCHANGED <<stFrom, stBuf, stLatest, stLink, stSeen>>
        BY <1>4 DEF Subscribe
    <2> QED  BY <1>1, <2>1 DEF StreamOf
<1>5. CASE GetUpdateChain
    <2> DEFINE s == [i \in 1 .. L - stFrom + 1 |-> stFrom + i - 1]
    <2>1. stFrom # 0 /\ stLatest = 0 /\ stLatest' = L /\ stSeen' = s /\ UNCHANGED <<stFrom, stSub, stBuf, stLink>>
        BY <1>5 DEF GetUpdateChain
    <2>2. L - stFrom + 1 \in Nat /\ stFrom \in Nat
        BY <1>0, <1>1
    <2>3. s \in Seq(Nat) /\ Len(s) = L - stFrom + 1 /\ \A i \in 1 .. L - stFrom + 1 : s[i] = stFrom + i - 1
        <3>1. \A i \in 1 .. L - stFrom + 1 : stFrom + i - 1 \in Nat
            BY <2>2
        <3>2. s \in [1 .. L - stFrom + 1 -> Nat] /\ DOMAIN s = 1 .. L - stFrom + 1
            BY <3>1
        <3>3. \A i \in 1 .. L - stFrom + 1 : s[i] = stFrom + i - 1
            OBVIOUS
        <3> HIDE DEF s
        <3> DEFINE m == L - stFrom + 1
        <3>4. m \in Nat /\ s \in [1 .. m -> Nat] /\ DOMAIN s = 1 .. m
            BY <2>2, <3>2
        <3> HIDE DEF m
        <3>5. s \in Seq(Nat) /\ Len(s) = m
            BY <3>4
        <3> QED  BY <3>3, <3>5 DEF m
    <2> HIDE DEF s
    <2>4. stLatest' # 0 /\ stLatest' \in 0 .. L /\ stFrom >= 1 /\ ~stLink
        BY <1>0, <1>1, <2>1
    <2> QED  BY <1>1, <2>1, <2>3, <2>4 DEF StreamOf
<1>6. CASE ReadStream
    <2> DEFINE h == stBuf[1]
    <2>1. /\ stLatest # 0 /\ stBuf # << >> /\ stBuf' = Tail(stBuf) /\ stLink' = (stLink \/ h - 1 = stLatest)
          /\ stSeen' = IF stLink' THEN Append(stSeen, h) ELSE stSeen
          /\ UNCHANGED <<stFrom, stSub, stLatest>>
        BY <1>6 DEF ReadStream, FollowsLatest
    <2>2. /\ Len(stBuf) \in Nat /\ Len(stBuf) >= 1 /\ Tail(stBuf) \in Seq(Nat) /\ Len(Tail(stBuf)) = Len(stBuf) - 1
          /\ \A i \in 1 .. Len(stBuf) - 1 : Tail(stBuf)[i] = stBuf[i + 1]
        BY <1>1, <2>1
    <2>3. h = L - Len(stBuf) + 1 /\ h \in Nat
        BY <1>1, <2>2
    <2> HIDE DEF h
    <2>4. ASSUME NEW i \in 1 .. Len(Tail(stBuf)) PROVE Tail(stBuf)[i] = L - Len(Tail(stBuf)) + i
        <3>1. i \in 1 .. Len(stBuf) - 1 /\ i + 1 \in 1 .. Len(stBuf)
            BY <2>2
        <3>2. Tail(stBuf)[i] = L - Len(stBuf) + (i + 1)
            BY <1>1, <2>2, <3>1
        <3> QED  BY <1>0, <2>2, <3>1, <3>2
    <2>5. stSub
        BY <1>1, <2>1
    <2>6. CASE stLink'
        <3>1. stSeen' = Append(stSeen, h) /\ (stLink \/ h - 1 = stLatest)
            BY <2>1, <2>6
        <3>2. /\ stSeen' \in Seq(Nat) /\ Len(stSeen') = Len(stSeen) + 1 /\ stSeen'[Len(stSeen) + 1] = h
              /\ \A i \in 1 .. Len(stSeen) : stSeen'[i] = stSeen[i]
            BY <1>1, <2>3, <3>1
        <3>3. stFrom + Len(stSeen) = h /\ Len(stSeen) \in Nat /\ stFrom \in Nat
            <4>1. stFrom \in Nat /\ stLatest \in Nat /\ Len(stSeen) \in Nat
                BY <1>1
            <4>2. CASE stLink
                BY <1>0, <1>1, <2>2, <2>3, <4>1, <4>2
            <4>3. CASE ~stLink
                <5>1. Len(stSeen) = stLatest - stFrom + 1 /\ h - 1 = stLatest
                    BY <1>1, <2>1, <3>1, <4>3
                <5> QED  BY <2>3, <4>1, <5>1
            <4> QED  BY <4>1, <4>2, <4>3
        <3>4. ASSUME NEW i \in 1 .. Len(stSeen') PROVE stSeen'[i] = stFrom + i - 1
            <4>1. CASE i = Len(stSeen) + 1
                BY <3>2, <3>3, <4>1
            <4>2. CASE i # Len(stSeen) + 1
                <5>1. i \in 1 .. Len(stSeen)
                    BY <3>2, <3>3, <4>2
                <5> QED  BY <1>1, <3>2, <5>1
            <4> QED  BY <4>1, <4>2
        <3>5. stFrom + Len(stSeen') - 1 = L - Len(Tail(stBuf))
            BY <1>0, <2>2, <2>3, <3>2, <3>3
        <3> QED  BY <1>1, <2>1, <2>2, <2>4, <2>5, <2>6, <3>2, <3>4, <3>5 DEF StreamOf
    <2>7. CASE ~stLink'
        <3>1. stSeen' = stSeen /\ ~stLink
            BY <2>1, <2>7
        <3>2. stLink' \in BOOLEAN
            BY <2>1
        <3> QED  BY <1>1, <2>1, <2>2, <2>4, <2>5, <2>7, <3>1, <3>2 DEF StreamOf
    <2> QED  BY <2>6, <2>7
<1> QED  BY <1>3, <1>4, <1>5, <1>6
LEMMA ElStays ==
    ASSUME ElInv, ElNext \/ UNCHANGED elVars
    PROVE  ElInv'
<1>1. CASE UNCHANGED elVars
    BY <1>1 DEF elVars, ElInv
<1>2. CASE \E w \in 0 .. ElMaxNow + ElMaxAge, t \in ElTopics : Log(w, t)
    <2>1. PICK w \in 0 .. ElMaxNow + ElMaxAge, t \in ElTopics : Log(w, t)
        BY <1>2
    <2>2. w \in Nat
        BY EventLogAssumption
    <2> QED  BY <2>1, <2>2, ElLogs
<1>3. CASE Clock
    <2>1. elNow' \in 0 .. ElMaxNow
        BY <1>3, EventLogAssumption DEF Clock, ElInv
    <2> QED  BY <1>3, <2>1 DEF Clock, stVars, ElInv
<1> QED  BY <1>1, <1>2, <1>3, ElStreams DEF ElNext
LEMMA ElShows ==
    ASSUME ElInv
    PROVE  ElTypeOK /\ LogServed
<1>1. elBuckets \in Seq(TimeBuckets) /\ elEvents \in Seq(Events) /\ DOMAIN elEvents = 1 .. Len(elEvents) /\ DOMAIN elBuckets = 1 .. Len(elBuckets)
    BY DEF ElInv, LogIs
<1>2. ASSUME NEW i \in DOMAIN elBuckets, NEW k \in DOMAIN elBuckets[i].refs PROVE elBuckets[i].refs[k] \in DOMAIN elEvents
    <2>1. elBuckets[i].refs \in Seq(Nat)
        <3>1. elBuckets[i] \in TimeBuckets
            BY <1>1
        <3> QED  BY <3>1 DEF TimeBuckets
    <2>2. Contains(elBuckets[i].refs, elBuckets[i].refs[k])
        BY <2>1 DEF Contains
    <2> QED  BY <1>1, <2>2 DEF ElInv, LogIs, Covers
<1>3. ElTypeOK
    BY <1>2 DEF ElTypeOK, ElInv, StreamOf
<1>4. SearchFinds
    <2>1. elNow \in Nat
        BY EventLogAssumption DEF ElInv
    <2> QED  BY <2>1, SearchesRight DEF ElInv
<1>5. StreamInOrder
    <2>1. stSeen \in Seq(Nat) /\ \A i \in 1 .. Len(stSeen) : stSeen[i] = stFrom + i - 1
        BY DEF ElInv, StreamOf
    <2>2. DOMAIN stSeen = 1 .. Len(stSeen)
        BY <2>1
    <2> QED  BY <2>1, <2>2 DEF StreamInOrder
<1> QED  BY <1>3, <1>4, <1>5 DEF LogServed

-----------------------------------------------------------------------------
(* Proofs for clients.  The chain and what a node has of it have their     *)
(* types; a client that waits has heard only of states at least as new as  *)
(* the newest one it knows of, and of none when it starts a pass.          *)
Waits == [on : {TRUE}, node : 1 .. Len(PNodes), sb : Nat, index : Nat, heard : SUBSET PNodeSet, done : BOOLEAN]
WaitIs(w, trie) ==
    \/ w = NotWaiting
    \/ /\ w \in Waits /\ \A n \in w.heard : trie[n] >= w.sb
       /\ ~w.done /\ w.node = 1 => w.heard = {}
       /\ w.done => w.sb >= w.index
ChainIs ==
    /\ pRoster \in Seq(PRosters) /\ Len(pRoster) >= 1
    /\ pHas \in [PNodeSet -> SUBSET (0 .. PTip)] /\ pLinks \in [PNodeSet -> SUBSET ChainLinks]
    /\ pTrie \in [PNodeSet -> 0 .. PTip]
PInv == ChainIs /\ pLatest \in NoIndex .. PTip /\ WaitIs(pWait, pTrie)

\* The links of a proof and the walk that collects them.
ProofLinks == [from : NoIndex .. PTip, to : 0 .. PTip, roster : PRosters \union {NoRoster},
               signer : PRosters \union {NoRoster}]
Walks == [ok : BOOLEAN, at : 0 .. PTip, links : Seq(ProofLinks)]
Leads(links, id, at) ==
    /\ links \in Seq(ProofLinks) /\ Len(links) >= 1
    /\ links[1].to = id /\ links[Len(links)].to = at
    /\ \A k \in 2 .. Len(links) : links[k] = NewForwardLink(links[k - 1].to, links[k].to)

LEMMA ChainTypes ==
    ASSUME ChainIs
    PROVE  /\ PTip \in Nat /\ DOMAIN pRoster = 1 .. Len(pRoster)
           /\ \A i \in 0 .. PTip : RosterOf(i) \in PRosters /\ RosterOf(i) # NoRoster
<1>1. PTip \in Nat /\ \A i \in 0 .. PTip : i + 1 \in 1 .. Len(pRoster)
    BY DEF ChainIs, PTip
<1>2. \A i \in 0 .. PTip : RosterOf(i) \in PRosters
    BY <1>1 DEF ChainIs, RosterOf
<1> QED  BY <1>1, <1>2, ClientProofsAssumption DEF ChainIs
LEMMA LinkTypes ==
    ASSUME ChainIs, NEW a \in 0 .. PTip, NEW b \in 0 .. PTip
    PROVE  /\ NewForwardLink(a, b) \in ProofLinks /\ SyntheticLink(a) \in ProofLinks
           /\ NewForwardLink(a, b).from = a /\ NewForwardLink(a, b).to = b /\ SyntheticLink(a).to = a
           /\ NewForwardLink(a, b).signer = RosterOf(a) /\ NewForwardLink(a, b).roster = NewRosterOf(a, b)
<1>1. RosterOf(a) \in PRosters /\ RosterOf(b) \in PRosters /\ PTip \in Nat
    BY ChainTypes
<1>2. NewRosterOf(a, b) \in PRosters \union {NoRoster}
    BY <1>1 DEF NewRosterOf
<1>3. a \in NoIndex .. PTip /\ NoIndex \in NoIndex .. PTip
    BY <1>1 DEF NoIndex
<1> QED  BY <1>1, <1>2, <1>3 DEF NewForwardLink, SyntheticLink, ProofLinks
LEMMA SpansFit ==
    ASSUME ChainIs, NEW n \in PNodeSet, NEW i \in 0 .. PTip, Fitting(n, i) # {}
    PROVE  /\ Max(Fitting(n, i)) \in Nat \ {0}
           /\ i + Max(Fitting(n, i)) \in 0 .. PTip /\ i + Max(Fitting(n, i)) <= pTrie[n]
<1>1. PTip \in Nat /\ pTrie[n] \in 0 .. PTip
    BY ChainTypes DEF ChainIs
<1>2. Fitting(n, i) \in SUBSET Nat /\ \A k \in Fitting(n, i) : k \in Nat \ {0} /\ i + k <= pTrie[n]
    BY ClientProofsAssumption DEF Fitting, LinksFrom
<1>3. \A k \in Fitting(n, i) : k <= PTip
    BY <1>1, <1>2
<1>4. Max(Fitting(n, i)) \in Fitting(n, i)
    BY <1>1, <1>2, <1>3, MaxNat
<1>5. Max(Fitting(n, i)) \in Nat \ {0} /\ i + Max(Fitting(n, i)) <= pTrie[n]
    BY <1>2, <1>4
<1> QED  BY <1>1, <1>5

\* One round of the walk.
LEMMA FollowType ==
    ASSUME ChainIs, NEW n \in PNodeSet, NEW w \in Walks
    PROVE  FollowLink(n, w) \in Walks
<1>1. w.ok \in BOOLEAN /\ w.at \in 0 .. PTip /\ w.links \in Seq(ProofLinks) /\ w = [ok |-> w.ok, at |-> w.at, links |-> w.links]
    BY DEF Walks
<1>2. [w EXCEPT !.ok = FALSE] \in Walks
    BY DEF Walks
<1>3. ASSUME Fitting(n, w.at) # {}, NEW to, to = w.at + Max(Fitting(n, w.at))
      PROVE  [w EXCEPT !.at = to, !.links = Append(@, NewForwardLink(w.at, to))] \in Walks
    <2>1. to \in 0 .. PTip
        BY <1>1, <1>3, SpansFit
    <2>2. NewForwardLink(w.at, to) \in ProofLinks
        BY <1>1, <2>1, LinkTypes
    <2>3. Append(w.links, NewForwardLink(w.at, to)) \in Seq(ProofLinks)
        BY <1>1, <2>2
    <2> QED  BY <1>1, <2>1, <2>3 DEF Walks
<1> QED  BY <1>2, <1>3 DEF FollowLink
LEMMA FollowLeads ==
    ASSUME ChainIs, NEW n \in PNodeSet, NEW w \in Walks, NEW id \in 0 .. PTip, Leads(w.links, id, w.at), id <= w.at
    PROVE  /\ Leads(FollowLink(n, w).links, id, FollowLink(n, w).at) /\ id <= FollowLink(n, w).at
           /\ w.ok /\ Complete(n) /\ w.at <= pTrie[n] =>
                 /\ FollowLink(n, w).ok /\ FollowLink(n, w).at <= pTrie[n]
                 /\ w.at < pTrie[n] => FollowLink(n, w).at > w.at
<1> DEFINE r == FollowLink(n, w)
<1>1. w.ok \in BOOLEAN /\ w.at \in 0 .. PTip /\ w.links \in Seq(ProofLinks) /\ PTip \in Nat /\ pTrie[n] \in 0 .. PTip
    BY ChainTypes DEF Walks, ChainIs
<1>2. CASE ~w.ok \/ LinksFrom(n, w.at) = {} \/ w.at >= pTrie[n]
    <2>1. r = w
        BY <1>2 DEF FollowLink
    <2>2. ASSUME Complete(n), w.at < pTrie[n] PROVE LinksFrom(n, w.at) # {}
        <3>1. <<w.at, 1>> \in pLinks[n]
            BY <1>1, <2>2 DEF Complete
        <3> QED  BY <3>1, ClientProofsAssumption DEF LinksFrom
    <2> QED  BY <1>1, <1>2, <2>1, <2>2
<1>3. CASE ~(~w.ok \/ LinksFrom(n, w.at) = {} \/ w.at >= pTrie[n]) /\ Fitting(n, w.at) = {}
    <2>1. r = [w EXCEPT !.ok = FALSE]
        BY <1>3 DEF FollowLink
    <2>2. r.at = w.at /\ r.links = w.links
        BY <2>1 DEF Walks
    <2>3. ~Complete(n)
        <3>1. SUFFICES ASSUME Complete(n) PROVE FALSE
            OBVIOUS
        <3>2. w.at \in 0 .. pTrie[n] /\ w.at + 1 \in 0 .. pTrie[n] /\ w.at < pTrie[n] /\ w.at + 1 <= pTrie[n]
            BY <1>1, <1>3
        <3>3. <<w.at, 1>> \in pLinks[n] /\ w.at + 1 \in pHas[n]
            <4> DEFINE j == w.at + 1
            <4>1. j \in pHas[n]
                <5> HIDE DEF j
                <5> QED  BY <3>1, <3>2 DEF Complete, j
            <4> QED  BY <3>1, <3>2, <4>1 DEF Complete
        <3>4. 1 \in Fitting(n, w.at)
            BY <3>2, <3>3, ClientProofsAssumption DEF Fitting, LinksFrom
        <3> QED  BY <1>3, <3>4
    <2> QED  BY <2>2, <2>3
<1>4. CASE ~(~w.ok \/ LinksFrom(n, w.at) = {} \/ w.at >= pTrie[n]) /\ Fitting(n, w.at) # {}
    <2> DEFINE to == w.at + Max(Fitting(n, w.at))
               l == NewForwardLink(w.at, to)
    <2>1. r = [w EXCEPT !.at = to, !.links = Append(@, l)]
        BY <1>4 DEF FollowLink
    <2>2. Max(Fitting(n, w.at)) \in Nat \ {0} /\ to \in 0 .. PTip /\ to <= pTrie[n]
        BY <1>1, <1>4, SpansFit
    <2>3. to > w.at
        BY <1>1, <2>2
    <2> HIDE DEF to
    <2>4. l \in ProofLinks /\ l.to = to
        BY <1>1, <2>2, LinkTypes
    <2> HIDE DEF l
    <2>5. r.ok = w.ok /\ r.at = to /\ r.links = Append(w.links, l)
        BY <2>1 DEF Walks
    <2>6. Leads(Append(w.links, l), id, to)
        <3> DEFINE m == Append(w.links, l)
        <3>1. m \in Seq(ProofLinks) /\ Len(m) = Len(w.links) + 1 /\ m[Len(m)] = l /\ \A k \in 1 .. Len(w.links) : m[k] = w.links[k]
            BY <1>1, <2>4
        <3> HIDE DEF m
        <3>2. Len(w.links) \in Nat /\ Len(w.links) >= 1 /\ w.links[1].to = id /\ w.links[Len(w.links)].to = w.at
            BY <1>1 DEF Leads
        <3>3. ASSUME NEW k \in 2 .. Len(m) PROVE m[k] = NewForwardLink(m[k - 1].to, m[k].to)
            <4>1. CASE k = Len(m)
                <5>1. k - 1 = Len(w.links) /\ m[k - 1] = w.links[Len(w.links)] /\ m[k] = l
                    BY <3>1, <3>2, <4>1
                <5> QED  BY <2>4, <3>2, <5>1 DEF l
            <4>2. CASE k # Len(m)
                <5>1. k \in 2 .. Len(w.links) /\ k - 1 \in 1 .. Len(w.links) /\ k \in 1 .. Len(w.links)
                    BY <3>1, <3>2, <4>2
                <5> QED  BY <3>1, <5>1 DEF Leads
            <4> QED  BY <4>1, <4>2
        <3>4. m[1].to = id /\ m[Len(m)].to = to /\ Len(m) >= 1
            BY <2>4, <3>1, <3>2
        <3> QED  BY <3>1, <3>3, <3>4 DEF Leads, m
    <2> QED  BY <1>1, <2>2, <2>3, <2>5, <2>6
<1> QED  BY <1>2, <1>3, <1>4

\* What NewProof answers.
LEMMA ProofAnswers ==
    ASSUME ChainIs, NEW n \in PNodeSet, NEW id
    PROVE  LET p == NewProof(n, id)
           IN  /\ p.ok => /\ id \in 0 .. PTip /\ p.latest = pTrie[n] /\ p.root = pTrie[n]
                          /\ id <= p.latest /\ Leads(p.links, id, p.latest)
               /\ Complete(n) /\ id \in 0 .. pTrie[n] => p.ok
<1>1. CASE id \notin pHas[n]
    <2>1. NewProof(n, id) = NoProof /\ ~NoProof.ok
        BY <1>1 DEF NewProof, NoProof
    <2>2. Complete(n) => id \notin 0 .. pTrie[n]
        BY <1>1 DEF Complete
    <2> QED  BY <2>1, <2>2
<1>2. CASE id \in pHas[n]
    <2> DEFINE t == PTip
               V == Walks
               first == [ok |-> TRUE, at |-> id, links |-> <<SyntheticLink(id)>>]
               Is(a) == a = [k \in 0 .. t |-> IF k = 0 THEN first ELSE FollowLink(n, a[k - 1])]
               after == CHOOSE a : Is(a)
               F == [k \in 1 .. t |-> [w \in V |-> FollowLink(n, w)]]
    <2>1. t \in Nat /\ id \in 0 .. PTip /\ pTrie[n] \in 0 .. PTip
        BY <1>2, ChainTypes DEF ChainIs
    <2>2. first \in V /\ Leads(first.links, id, first.at)
        <3>1. SyntheticLink(id) \in ProofLinks /\ SyntheticLink(id).to = id
            BY <2>1, LinkTypes
        <3>2. <<SyntheticLink(id)>> \in Seq(ProofLinks) /\ Len(<<SyntheticLink(id)>>) = 1 /\ <<SyntheticLink(id)>>[1] = SyntheticLink(id)
            BY <3>1
        <3>3. first.links = <<SyntheticLink(id)>> /\ first.at = id /\ first.ok = TRUE /\ first \in Walks
            BY <2>1, <3>2 DEF Walks
        <3>4. \A k \in 2 .. 1 : FALSE
            OBVIOUS
        <3> HIDE DEF first
        <3> QED  BY <3>1, <3>2, <3>3, <3>4 DEF Leads
    <2>3. F \in [1 .. t -> [V -> V]]
        <3>1. \A w \in V : FollowLink(n, w) \in V
            BY FollowType
        <3> QED  BY <3>1
    <2>4. NewProof(n, id) = IF id \notin pHas[n] \/ ~after[t].ok \/ after[t].at # pTrie[n] THEN NoProof
                            ELSE [ok |-> TRUE, links |-> after[t].links, latest |-> after[t].at, root |-> pTrie[n]]
        BY DEF NewProof
    <2>5. first.ok = TRUE /\ first.at = id
        OBVIOUS
    <2> HIDE DEF first
    <2>6. \E a : Is(a)
        <3>1. PICK a : IsRecursion(a, t, V, first, F)
            <4> HIDE DEF F, t, V
            <4> QED  BY <2>1, <2>2, <2>3, RecursionExists, Zenon
        <3>2. a \in [0 .. t -> V] /\ a[0] = first /\ \A k \in 1 .. t : a[k] = F[k][a[k - 1]]
            BY <3>1 DEF IsRecursion
        <3>3. \A k \in 1 .. t : a[k - 1] \in V
            <4> HIDE DEF t, F, V
            <4> QED  BY <2>1, <3>2
        <3>4. \A k \in 1 .. t : F[k][a[k - 1]] = FollowLink(n, a[k - 1])
            <4> HIDE DEF t, V
            <4> QED  BY <3>3
        <3>5. Is(a)
            <4> HIDE DEF F, t, V
            <4> QED  BY <2>1, <3>2, <3>4
        <3> QED  BY <3>5
    <2>7. Is(after)
        <3> HIDE DEF Is
        <3> QED  BY <2>6, Zenon
    <2>8. after[0] = first /\ \A k \in 1 .. t : after[k] = FollowLink(n, after[k - 1])
        <3> HIDE DEF after, t
        <3> QED  BY <2>1, <2>7
    <2> HIDE DEF after, F
    <2> DEFINE P(k) == /\ after[k] \in Walks /\ Leads(after[k].links, id, after[k].at) /\ id <= after[k].at
                       /\ Complete(n) /\ id \in 0 .. pTrie[n] =>
                             /\ after[k].ok /\ after[k].at <= pTrie[n]
                             /\ after[k].at >= pTrie[n] \/ after[k].at >= id + k
               S == {k \in Nat : k <= t => P(k)}
    <2>9. 0 \in S
        BY <2>1, <2>2, <2>5, <2>8
    <2>10. ASSUME NEW k \in Nat, k \in S PROVE k + 1 \in S
        <3> SUFFICES ASSUME k + 1 <= t PROVE P(k + 1)
            OBVIOUS
        <3> DEFINE w == after[k]
                   r == FollowLink(n, w)
        <3>1. k + 1 \in 1 .. t /\ (k + 1) - 1 = k /\ k <= t
            BY <2>1
        <3>2. after[k + 1] = r /\ P(k)
            BY <2>8, <2>10, <3>1
        <3>3. w \in Walks /\ Leads(w.links, id, w.at) /\ id <= w.at
            BY <3>2
        <3>4. r \in Walks
            BY <3>3, FollowType
        <3> HIDE DEF w
        <3>5. /\ Leads(r.links, id, r.at) /\ id <= r.at
              /\ w.ok /\ Complete(n) /\ w.at <= pTrie[n] => r.ok /\ r.at <= pTrie[n] /\ (w.at < pTrie[n] => r.at > w.at)
            BY <2>1, <3>3, FollowLeads
        <3> HIDE DEF r
        <3>6. ASSUME Complete(n), id \in 0 .. pTrie[n]
              PROVE  r.ok /\ r.at <= pTrie[n] /\ (r.at >= pTrie[n] \/ r.at >= id + (k + 1))
            <4>1. w.ok /\ w.at <= pTrie[n] /\ (w.at >= pTrie[n] \/ w.at >= id + k)
                BY <3>2, <3>6 DEF w
            <4>2. r.ok /\ r.at <= pTrie[n] /\ (w.at < pTrie[n] => r.at > w.at)
                BY <3>5, <3>6, <4>1
            <4>3. w.at \in Nat /\ r.at \in Nat /\ id \in Nat /\ pTrie[n] \in Nat
                BY <2>1, <3>3, <3>4 DEF Walks
            <4>4. w.at >= pTrie[n] => r = w
                BY DEF r, FollowLink
            <4> QED  BY <4>1, <4>2, <4>3, <4>4
        <3> QED  BY <3>2, <3>4, <3>5, <3>6
    <2>11. P(t)
        <3> HIDE DEF P
        <3>1. \A k \in Nat : k \in S
            <4> HIDE DEF S
            <4> QED  BY <2>9, <2>10, NatSteps
        <3> QED  BY <2>1, <3>1
    <2> DEFINE e == after[t]
    <2>12. e \in Walks /\ Leads(e.links, id, e.at) /\ id <= e.at
           /\ (Complete(n) /\ id \in 0 .. pTrie[n] => e.ok /\ e.at <= pTrie[n] /\ (e.at >= pTrie[n] \/ e.at >= id + t))
        BY <2>11
    <2> HIDE DEF e, t
    <2>13. NewProof(n, id) = IF ~e.ok \/ e.at # pTrie[n] THEN NoProof
                             ELSE [ok |-> TRUE, links |-> e.links, latest |-> e.at, root |-> pTrie[n]]
        BY <1>2, <2>4 DEF e
    <2>14. ASSUME Complete(n), id \in 0 .. pTrie[n] PROVE e.ok /\ e.at = pTrie[n]
        <3>1. e.at \in Nat /\ id \in Nat /\ pTrie[n] \in Nat /\ pTrie[n] <= t /\ t \in Nat
            BY <2>1, <2>12 DEF Walks, t
        <3> QED  BY <2>12, <2>14, <3>1
    <2>15. CASE ~e.ok \/ e.at # pTrie[n]
        BY <2>13, <2>14, <2>15 DEF NoProof
    <2>16. CASE e.ok /\ e.at = pTrie[n]
        BY <2>1, <2>12, <2>13, <2>16
    <2> QED  BY <2>15, <2>16
<1> QED  BY <1>1, <1>2

\* Links that lead on from a block verify from there.
LEMMA LinksVerify ==
    ASSUME ChainIs, NEW p, NEW id \in 0 .. PTip, Leads(p.links, id, p.latest), p.root = p.latest
    PROVE  VerifyFromBlock(p, id)
<1> DEFINE n == Len(p.links) - 1
           V == [ok : BOOLEAN, id : 0 .. PTip, roster : PRosters]
           first == [ok |-> TRUE, id |-> id, roster |-> RosterOf(id)]
           step(st, k) == VerifyLink(st, p.links[k + 1])
           Is(a) == a = [k \in 0 .. n |-> IF k = 0 THEN first ELSE step(a[k - 1], k)]
           after == CHOOSE a : Is(a)
           F == [k \in 1 .. n |-> [st \in V |-> step(st, k)]]
<1>1. n \in Nat /\ PTip \in Nat /\ p.links \in Seq(ProofLinks) /\ p.links # << >>
    BY ChainTypes DEF Leads
<1>2. first \in V
    BY ChainTypes
<1>3. \A k \in 1 .. n : p.links[k + 1] \in ProofLinks /\ p.links[k] \in ProofLinks
    BY <1>1
<1>4. F \in [1 .. n -> [V -> V]]
    <2>1. ASSUME NEW k \in 1 .. n, NEW st \in V PROVE VerifyLink(st, p.links[k + 1]) \in V
        <3> DEFINE l == p.links[k + 1]
        <3>1. l.to \in 0 .. PTip /\ l.roster \in PRosters \union {NoRoster}
            BY <1>3 DEF ProofLinks
        <3>2. [st EXCEPT !.ok = FALSE] \in V
            OBVIOUS
        <3>3. (IF l.roster = NoRoster THEN st.roster ELSE l.roster) \in PRosters
            BY <3>1
        <3>4. [ok |-> TRUE, id |-> l.to, roster |-> IF l.roster = NoRoster THEN st.roster ELSE l.roster] \in V
            BY <3>1, <3>3
        <3> QED  BY <3>2, <3>4 DEF VerifyLink
    <2> HIDE DEF V, n, step
    <2>2. \A k \in 1 .. n, st \in V : step(st, k) \in V
        BY <2>1 DEF step
    <2> QED  BY <2>2
<1>5. VerifyFromBlock(p, id) <=> p.root = p.latest /\ p.links # << >> /\ after[n].ok /\ after[n].id = p.latest
    BY DEF VerifyFromBlock, Verify, VerifyInclusionProof
<1>6. first.ok = TRUE /\ first.id = id /\ first.roster = RosterOf(id)
    OBVIOUS
<1> HIDE DEF first, step
<1>7. \E a : Is(a)
    <2>1. PICK a : IsRecursion(a, n, V, first, F)
        <3> HIDE DEF F, n, V
        <3> QED  BY <1>1, <1>2, <1>4, RecursionExists, Zenon
    <2>2. a \in [0 .. n -> V] /\ a[0] = first /\ \A k \in 1 .. n : a[k] = F[k][a[k - 1]]
        BY <2>1 DEF IsRecursion
    <2>3. \A k \in 1 .. n : a[k - 1] \in V
        <3> HIDE DEF n, F, V
        <3> QED  BY <1>1, <2>2
    <2>4. \A k \in 1 .. n : F[k][a[k - 1]] = step(a[k - 1], k)
        <3> HIDE DEF n, V
        <3> QED  BY <2>3
    <2>5. Is(a)
        <3> HIDE DEF F, n, V
        <3> QED  BY <1>1, <2>2, <2>4
    <2> QED  BY <2>5
<1>8. Is(after)
    <2> HIDE DEF Is
    <2> QED  BY <1>7, Zenon
<1>9. after[0] = first /\ \A k \in 1 .. n : after[k] = step(after[k - 1], k)
    <2> HIDE DEF after, n
    <2> QED  BY <1>1, <1>8
<1> HIDE DEF after, F
<1> DEFINE P(k) == after[k].ok /\ after[k].id = p.links[k + 1].to /\ after[k].roster = RosterOf(p.links[k + 1].to)
           S == {k \in Nat : k <= n => P(k)}
<1>10. 0 \in S
    <2>1. p.links[1].to = id
        BY DEF Leads
    <2> QED  BY <1>6, <1>9, <2>1
<1>11. ASSUME NEW k \in Nat, k \in S PROVE k + 1 \in S
    <2> SUFFICES ASSUME k + 1 <= n PROVE P(k + 1)
        OBVIOUS
    <2> DEFINE st == after[k]
               a == p.links[k + 1].to
               b == p.links[(k + 1) + 1].to
               l == p.links[(k + 1) + 1]
    <2>1. k + 1 \in 1 .. n /\ (k + 1) - 1 = k /\ k <= n /\ (k + 1) + 1 \in 2 .. Len(p.links) /\ ((k + 1) + 1) - 1 = k + 1
        BY <1>1
    <2>2. after[k + 1] = VerifyLink(st, l) /\ P(k)
        BY <1>9, <1>11, <2>1 DEF step
    <2>3. a \in 0 .. PTip /\ b \in 0 .. PTip
        BY <1>3, <2>1 DEF ProofLinks
    <2>4. l = NewForwardLink(a, b)
        BY <2>1 DEF Leads
    <2>5. st.ok /\ st.id = a /\ st.roster = RosterOf(a)
        BY <2>2
    <2> HIDE DEF l, a, b, st
    <2>6. l.from = a /\ l.to = b /\ l.signer = RosterOf(a) /\ l.roster = NewRosterOf(a, b)
        BY <2>3, <2>4, LinkTypes
    <2>7. VerifyLink(st, l) = [ok |-> TRUE, id |-> b, roster |-> IF l.roster = NoRoster THEN st.roster ELSE l.roster]
        BY <2>5, <2>6 DEF VerifyLink
    <2>8. (IF l.roster = NoRoster THEN st.roster ELSE l.roster) = RosterOf(b)
        BY <2>3, <2>5, <2>6, ChainTypes DEF NewRosterOf
    <2>9. VerifyLink(st, l).ok /\ VerifyLink(st, l).id = b /\ VerifyLink(st, l).roster = RosterOf(b)
        BY <2>7, <2>8
    <2> QED  BY <2>2, <2>9 DEF b
<1>12. P(n)
    <2> HIDE DEF P
    <2>1. \A k \in Nat : k \in S
        <3> HIDE DEF S
        <3> QED  BY <1>10, <1>11, NatSteps
    <2> QED  BY <1>1, <2>1
<1>13. p.links[n + 1].to = p.latest
    BY <1>1 DEF Leads
<1> QED  BY <1>1, <1>5, <1>12, <1>13

\* The nodes.
LEMMA NodesOf ==
    /\ \A k \in 1 .. Len(PNodes) : PNodes[k] \in PNodeSet
    /\ PLeader \in PNodeSet /\ Len(PNodes) \in Nat /\ Len(PNodes) >= 1
<1>1. Len(PNodes) \in Nat /\ DOMAIN PNodes = 1 .. Len(PNodes) /\ Len(PNodes) >= 1
    BY ClientProofsAssumption
<1>2. \A k \in 1 .. Len(PNodes) : PNodes[k] \in PNodeSet
    BY <1>1 DEF PNodeSet, ToSet
<1> QED  BY <1>1, <1>2 DEF PLeader
LEMMA TriesGrow ==
    ASSUME WaitIs(pWait, pTrie), NEW trie, pTrie \in [PNodeSet -> Nat], trie \in [PNodeSet -> Nat],
           \A n \in PNodeSet : trie[n] >= pTrie[n]
    PROVE  WaitIs(pWait, trie)
<1>1. CASE pWait = NotWaiting
    BY <1>1 DEF WaitIs
<1>2. CASE pWait # NotWaiting
    <2>1. pWait \in Waits /\ (\A n \in pWait.heard : pTrie[n] >= pWait.sb)
        BY <1>2 DEF WaitIs
    <2>2. pWait.heard \subseteq PNodeSet /\ pWait.sb \in Nat
        BY <2>1 DEF Waits
    <2>3. ASSUME NEW n \in pWait.heard PROVE trie[n] >= pWait.sb
        <3>1. pTrie[n] \in Nat /\ trie[n] \in Nat /\ trie[n] >= pTrie[n] /\ pTrie[n] >= pWait.sb
            BY <2>1, <2>2
        <3> QED  BY <2>2, <3>1
    <2> QED  BY <1>2, <2>3 DEF WaitIs
<1> QED  BY <1>1, <1>2
LEMMA PBegins ==
    ASSUME PInit
    PROVE  PInv
<1> DEFINE r == CHOOSE r \in PRosters : TRUE
<1>1. r \in PRosters
    BY ClientProofsAssumption
<1> HIDE DEF r
<1>2. pRoster \in Seq(PRosters) /\ Len(pRoster) = 1 /\ PTip = 0
    BY <1>1 DEF PInit, PTip, r
<1>3. pHas \in [PNodeSet -> SUBSET (0 .. PTip)] /\ pLinks \in [PNodeSet -> SUBSET ChainLinks] /\ pTrie \in [PNodeSet -> 0 .. PTip]
    BY <1>2 DEF PInit
<1>4. pLatest \in NoIndex .. PTip /\ WaitIs(pWait, pTrie)
    BY <1>2 DEF PInit, NoIndex, WaitIs
<1> QED  BY <1>2, <1>3, <1>4 DEF PInv, ChainIs
LEMMA PNewBlock ==
    ASSUME PInv, NEW r \in PRosters, NewSkipBlock(r)
    PROVE  PInv'
<1>1. ChainIs /\ PTip \in Nat /\ pLatest \in NoIndex .. PTip /\ WaitIs(pWait, pTrie)
    BY ChainTypes DEF PInv
<1>2. pRoster' = Append(pRoster, r) /\ UNCHANGED <<pTrie, pLatest, pWait>>
    BY DEF NewSkipBlock, pClientVars
<1>3. pRoster' \in Seq(PRosters) /\ Len(pRoster') >= 1 /\ PTip' = PTip + 1
    BY <1>1, <1>2 DEF ChainIs, PTip
<1>4. 0 .. PTip \subseteq 0 .. PTip' /\ PTip + 1 \in 0 .. PTip' /\ NoIndex .. PTip \subseteq NoIndex .. PTip' /\ PTip % 1 = 0
    BY <1>1, <1>3 DEF NoIndex
<1>5. ChainLinks \subseteq ChainLinks' /\ <<PTip, 1>> \in ChainLinks'
    <2>1. ASSUME NEW l \in ChainLinks PROVE l \in ChainLinks'
        <3>1. l \in (0 .. PTip) \X PSpans /\ l[1] % l[2] = 0 /\ l[1] + l[2] <= PTip
            BY DEF ChainLinks
        <3>2. PICK i \in 0 .. PTip, k \in PSpans : l = <<i, k>>
            BY <3>1
        <3>3. i \in 0 .. PTip' /\ k \in Nat /\ l[1] = i /\ l[2] = k
            BY <1>4, <3>2, ClientProofsAssumption
        <3>4. i + k <= PTip'
            BY <1>1, <1>3, <3>1, <3>3
        <3> QED  BY <3>1, <3>2, <3>3, <3>4 DEF ChainLinks
    <2>2. <<PTip, 1>> \in (0 .. PTip') \X PSpans /\ PTip + 1 <= PTip'
        BY <1>1, <1>3, ClientProofsAssumption
    <2> QED  BY <1>4, <2>1, <2>2 DEF ChainLinks
<1>6. pHas' \in [PNodeSet -> SUBSET (0 .. PTip')]
    <2>1. pHas' = [pHas EXCEPT ![PLeader] = @ \union {PTip + 1}] /\ pHas \in [PNodeSet -> SUBSET (0 .. PTip)]
        BY <1>1 DEF NewSkipBlock, ChainIs
    <2> QED  BY <1>4, <2>1
<1>7. pLinks' \in [PNodeSet -> SUBSET ChainLinks']
    <2>1. pLinks' = [pLinks EXCEPT ![PLeader] = @ \union {<<PTip, 1>>}] /\ pLinks \in [PNodeSet -> SUBSET ChainLinks]
        BY <1>1 DEF NewSkipBlock, ChainIs
    <2> DEFINE A == ChainLinks
               B == ChainLinks'
    <2> HIDE DEF A, B
    <2>2. A \subseteq B /\ <<PTip, 1>> \in B /\ pLinks \in [PNodeSet -> SUBSET A]
        BY <1>5, <2>1 DEF A, B
    <2>3. pLinks' \in [PNodeSet -> SUBSET B]
        BY <2>1, <2>2
    <2> QED  BY <2>3 DEF B
<1>8. pTrie' \in [PNodeSet -> 0 .. PTip'] /\ pLatest' \in NoIndex .. PTip'
    BY <1>1, <1>2, <1>4 DEF ChainIs
<1>9. WaitIs(pWait, pTrie)'
    BY <1>1, <1>2 DEF WaitIs
<1> QED  BY <1>3, <1>6, <1>7, <1>8, <1>9 DEF PInv, ChainIs
LEMMA PStoresLink ==
    ASSUME PInv, NEW n \in PNodeSet, NEW l \in ChainLinks, NEW b \in BOOLEAN, StoreLink(n, l, b)
    PROVE  PInv'
<1>1. ChainIs /\ PTip \in Nat /\ pLatest \in NoIndex .. PTip /\ WaitIs(pWait, pTrie)
    BY ChainTypes DEF PInv
<1>2. UNCHANGED <<pRoster, pTrie, pLatest, pWait>> /\ PTip' = PTip /\ ChainLinks' = ChainLinks
    BY DEF StoreLink, pClientVars, PTip, ChainLinks
<1>3. l[1] + l[2] \in 0 .. PTip
    <2>1. l \in (0 .. PTip) \X PSpans /\ l[1] + l[2] <= PTip
        BY DEF ChainLinks
    <2>2. PICK i \in 0 .. PTip, k \in PSpans : l = <<i, k>>
        BY <2>1
    <2>3. i \in Nat /\ k \in Nat /\ l[1] = i /\ l[2] = k
        BY <2>2, ClientProofsAssumption
    <2> QED  BY <1>1, <2>1, <2>3
<1>4. pHas' \in [PNodeSet -> SUBSET (0 .. PTip)]
    <2>1. pHas' = [pHas EXCEPT ![n] = IF b THEN @ \union {l[1] + l[2]} ELSE @] /\ pHas \in [PNodeSet -> SUBSET (0 .. PTip)]
        BY <1>1 DEF StoreLink, ChainIs
    <2> QED  BY <1>3, <2>1
<1>5. pLinks' \in [PNodeSet -> SUBSET ChainLinks]
    <2>1. pLinks' = [pLinks EXCEPT ![n] = @ \union {l}] /\ pLinks \in [PNodeSet -> SUBSET ChainLinks]
        BY <1>1 DEF StoreLink, ChainIs
    <2> QED  BY <2>1
<1>6. ChainIs'
    BY <1>1, <1>2, <1>4, <1>5 DEF ChainIs
<1>7. pLatest' \in NoIndex .. PTip' /\ WaitIs(pWait, pTrie)'
    BY <1>1, <1>2 DEF WaitIs
<1> QED  BY <1>6, <1>7 DEF PInv
LEMMA PTrieGoesOn ==
    ASSUME PInv, NEW n \in PNodeSet, UpdateTrie(n) \/ \E m \in PNodeSet : DownloadState(n, m)
    PROVE  PInv'
<1>1. ChainIs /\ PTip \in Nat /\ pLatest \in NoIndex .. PTip /\ WaitIs(pWait, pTrie) /\ pTrie \in [PNodeSet -> 0 .. PTip]
    BY ChainTypes DEF PInv, ChainIs
<1>2. UNCHANGED <<pRoster, pHas, pLinks, pLatest, pWait>> /\ PTip' = PTip /\ ChainLinks' = ChainLinks
    BY DEF UpdateTrie, DownloadState, pClientVars, PTip, ChainLinks
<1>3. \E i \in 0 .. PTip : i >= pTrie[n] /\ pTrie' = [pTrie EXCEPT ![n] = i]
    <2>1. CASE UpdateTrie(n)
        <3>1. pTrie[n] + 1 \in pHas[n] /\ pTrie' = [pTrie EXCEPT ![n] = @ + 1]
            BY <2>1 DEF UpdateTrie
        <3>2. pTrie[n] + 1 \in 0 .. PTip /\ pTrie[n] + 1 >= pTrie[n]
            BY <1>1, <3>1 DEF ChainIs
        <3> QED  BY <3>1, <3>2
    <2>2. CASE \E m \in PNodeSet : DownloadState(n, m)
        <3>1. PICK m \in PNodeSet : pTrie[m] > pTrie[n] /\ pTrie' = [pTrie EXCEPT ![n] = pTrie[m]]
            BY <2>2 DEF DownloadState
        <3>2. pTrie[m] \in 0 .. PTip /\ pTrie[m] >= pTrie[n]
            BY <1>1, <3>1
        <3> QED  BY <3>1, <3>2
    <2> QED  BY <2>1, <2>2
<1>4. PICK i \in 0 .. PTip : i >= pTrie[n] /\ pTrie' = [pTrie EXCEPT ![n] = i]
    BY <1>3
<1>5. pTrie' \in [PNodeSet -> 0 .. PTip] /\ pTrie' \in [PNodeSet -> Nat] /\ pTrie \in [PNodeSet -> Nat] /\ \A m \in PNodeSet : pTrie'[m] >= pTrie[m]
    BY <1>1, <1>4
<1>6. ChainIs'
    BY <1>1, <1>2, <1>5 DEF ChainIs
<1>7. WaitIs(pWait, pTrie')
    BY <1>1, <1>5, TriesGrow
<1> QED  BY <1>1, <1>2, <1>6, <1>7 DEF PInv, WaitIs

\* The client.
LEMMA PAnswer ==
    ASSUME PInv, NEW n \in PNodeSet, NEW from, NEW barrier, Accepts(GetProofAnswer(n, from, barrier), from, barrier)
    PROVE  /\ GetProofAnswer(n, from, barrier).latest = pTrie[n]
           /\ Newer(pLatest, GetProofAnswer(n, from, barrier)) \in NoIndex .. PTip
<1> DEFINE p == GetProofAnswer(n, from, barrier)
<1>1. p.ok
    BY DEF Accepts
<1>2. p = NewProof(n, from)
    BY <1>1 DEF GetProofAnswer, NoProof
<1>3. p.latest = pTrie[n]
    BY <1>1, <1>2, ProofAnswers DEF PInv
<1>4. pTrie[n] \in 0 .. PTip /\ PTip \in Nat
    BY ChainTypes DEF PInv, ChainIs
<1> QED  BY <1>3, <1>4 DEF Newer, PInv, NoIndex
LEMMA PAsks ==
    ASSUME PInv, NEW n \in PNodeSet, NEW from, NEW barrier, getProofRaw(n, from, barrier)
    PROVE  PInv'
<1>1. pLatest' = Newer(pLatest, GetProofAnswer(n, from, barrier)) /\ UNCHANGED pWait /\ UNCHANGED pNodeVars
      /\ Accepts(GetProofAnswer(n, from, barrier), from, barrier)
    BY DEF getProofRaw
<1>2. pLatest' \in NoIndex .. PTip
    BY <1>1, PAnswer
<1> QED  BY <1>1, <1>2 DEF PInv, ChainIs, pNodeVars, PTip, ChainLinks, WaitIs
LEMMA WaitAdvances ==
    ASSUME NEW w \in Waits, NEW trie, ~w.done, \A n \in w.heard : trie[n] >= w.sb
    PROVE  WaitIs(Advance(w), trie) /\ WaitIs(NextPass(w), trie)
<1>1. /\ w.on = TRUE /\ w.node \in 1 .. Len(PNodes) /\ w.sb \in Nat /\ w.index \in Nat
      /\ w.heard \in SUBSET PNodeSet /\ w.done = FALSE
    BY DEF Waits
<1>2. Len(PNodes) \in Nat /\ Len(PNodes) >= 1
    BY NodesOf
<1>3. WaitIs(NextPass(w), trie)
    <2> DEFINE v == [w EXCEPT !.node = 1, !.heard = {}]
    <2>1. 1 \in 1 .. Len(PNodes) /\ {} \in SUBSET PNodeSet
        BY <1>2
    <2>2. v \in Waits
        BY <2>1, Zenon DEF Waits
    <2>3. v.heard = {} /\ v.done = FALSE
        BY <1>1 DEF Waits
    <2> QED  BY <2>2, <2>3 DEF NextPass, WaitIs
<1>4. CASE w.node < Len(PNodes)
    <2> DEFINE v == [w EXCEPT !.node = @ + 1]
    <2>1. w.node + 1 \in 1 .. Len(PNodes) /\ w.node + 1 # 1
        BY <1>1, <1>2, <1>4
    <2>2. v \in Waits
        BY <2>1, Zenon DEF Waits
    <2>3. v.heard = w.heard /\ v.done = FALSE /\ v.node # 1 /\ v.sb = w.sb
        BY <1>1, <2>1 DEF Waits
    <2>4. Advance(w) = v
        BY <1>4 DEF Advance
    <2> QED  BY <1>3, <2>2, <2>3, <2>4 DEF WaitIs
<1>5. CASE ~(w.node < Len(PNodes)) /\ w.sb >= w.index
    <2> DEFINE v == [w EXCEPT !.done = TRUE]
    <2>1. v \in Waits /\ v.heard = w.heard /\ v.done = TRUE /\ v.sb = w.sb /\ v.index = w.index
        BY <1>1 DEF Waits
    <2>2. Advance(w) = v
        BY <1>5 DEF Advance
    <2> QED  BY <1>3, <1>5, <2>1, <2>2 DEF WaitIs
<1>6. CASE ~(w.node < Len(PNodes)) /\ ~(w.sb >= w.index)
    BY <1>3, <1>6 DEF Advance
<1> QED  BY <1>3, <1>4, <1>5, <1>6
LEMMA PWaits ==
    ASSUME PInv, NEW b \in BOOLEAN, WaitPropagation(b)
    PROVE  PInv'
<1> DEFINE n == PNodes[pWait.node]
           p == GetProofAnswer(n, 0, NoIndex)
           heard == [pWait EXCEPT !.heard = @ \union {n}]
<1>1. pWait.on /\ ~pWait.done /\ UNCHANGED pNodeVars
    BY DEF WaitPropagation
<1>2. /\ pWait \in Waits /\ (\A m \in pWait.heard : pTrie[m] >= pWait.sb) /\ (pWait.node = 1 => pWait.heard = {})
      /\ pTrie \in [PNodeSet -> 0 .. PTip] /\ PTip \in Nat
    BY <1>1, ChainTypes DEF PInv, WaitIs, NotWaiting, ChainIs
<1>3. /\ pWait.on = TRUE /\ pWait.node \in 1 .. Len(PNodes) /\ pWait.sb \in Nat /\ pWait.index \in Nat
      /\ pWait.heard \in SUBSET PNodeSet /\ pWait.done \in BOOLEAN
    BY <1>2 DEF Waits
<1>4. n \in PNodeSet
    BY <1>3, NodesOf
<1> HIDE DEF n
<1>5. pTrie[n] \in Nat
    BY <1>2, <1>4
<1>6. /\ heard \in Waits /\ heard.heard = pWait.heard \union {n} /\ heard.sb = pWait.sb
      /\ heard.done = pWait.done /\ heard.node = pWait.node
    BY <1>2, <1>3, <1>4 DEF Waits
<1>7. CASE ~(b /\ Accepts(p, 0, NoIndex))
    <2>1. pWait' = Advance(pWait) /\ pLatest' = pLatest
        BY <1>7 DEF WaitPropagation, n
    <2>2. WaitIs(Advance(pWait), pTrie)
        BY <1>1, <1>2, WaitAdvances
    <2> QED  BY <1>1, <2>1, <2>2 DEF PInv, ChainIs, pNodeVars, PTip, ChainLinks, WaitIs
<1>8. CASE b /\ Accepts(p, 0, NoIndex)
    <2>1. pLatest' = Newer(pLatest, p)
          /\ pWait' = IF p.latest > pWait.sb
                      THEN LET w == [heard EXCEPT !.sb = p.latest]
                           IN  IF pWait.node > 1 THEN NextPass(w) ELSE Advance(w)
                      ELSE IF p.latest < pWait.sb THEN NextPass(heard) ELSE Advance(heard)
        BY <1>8 DEF WaitPropagation, n
    <2>2. p.latest = pTrie[n] /\ pLatest' \in NoIndex .. PTip
        BY <1>4, <1>8, <2>1, PAnswer
    <2> HIDE DEF p, heard
    <2>3. WaitIs(pWait', pTrie)
        <3>1. CASE p.latest > pWait.sb
            <4> DEFINE w == [heard EXCEPT !.sb = p.latest]
            <4>1. w \in Waits /\ w.heard = pWait.heard \union {n} /\ w.sb = pTrie[n] /\ w.done = pWait.done
                BY <1>5, <1>6, <2>2 DEF Waits
            <4>2. pWait' = IF pWait.node > 1 THEN NextPass(w) ELSE Advance(w)
                BY <2>1, <3>1
            <4> HIDE DEF w
            <4>3. CASE pWait.node = 1
                <5>1. w.heard = {n} /\ \A m \in w.heard : pTrie[m] >= w.sb
                    BY <1>2, <1>5, <4>1, <4>3
                <5> QED  BY <1>1, <4>1, <4>2, <4>3, <5>1, WaitAdvances
            <4>4. CASE pWait.node > 1
                <5>1. NextPass(w) = NextPass([w EXCEPT !.heard = {}]) /\ [w EXCEPT !.heard = {}] \in Waits
                      /\ [w EXCEPT !.heard = {}].heard = {} /\ [w EXCEPT !.heard = {}].done = w.done
                    BY <4>1 DEF NextPass, Waits
                <5>2. WaitIs(NextPass([w EXCEPT !.heard = {}]), pTrie)
                    <6> DEFINE v == [w EXCEPT !.heard = {}]
                    <6>1. v \in Waits /\ v.heard = {} /\ ~v.done
                        BY <1>1, <4>1, <5>1
                    <6> HIDE DEF v
                    <6>2. WaitIs(NextPass(v), pTrie)
                        BY <6>1, WaitAdvances
                    <6> QED  BY <6>2 DEF v
                <5> QED  BY <4>2, <4>4, <5>1, <5>2
            <4> QED  BY <1>3, <4>3, <4>4, NodesOf
        <3>2. CASE ~(p.latest > pWait.sb) /\ p.latest < pWait.sb
            <4>1. pWait' = NextPass(heard)
                BY <2>1, <3>2
            <4> DEFINE v == [heard EXCEPT !.heard = {}]
            <4>2. v \in Waits /\ v.heard = {} /\ ~v.done /\ NextPass(heard) = NextPass(v)
                BY <1>1, <1>6 DEF NextPass, Waits
            <4> HIDE DEF v
            <4>3. WaitIs(NextPass(v), pTrie)
                BY <4>2, WaitAdvances
            <4> QED  BY <4>1, <4>2, <4>3
        <3>3. CASE ~(p.latest > pWait.sb) /\ ~(p.latest < pWait.sb)
            <4>1. pWait' = Advance(heard) /\ pTrie[n] >= pWait.sb
                BY <1>3, <1>5, <2>1, <2>2, <3>3
            <4>2. \A m \in heard.heard : pTrie[m] >= heard.sb
                BY <1>2, <1>6, <4>1
            <4> QED  BY <1>1, <1>6, <4>1, <4>2, WaitAdvances
        <3> QED  BY <3>1, <3>2, <3>3
    <2> QED  BY <1>1, <2>2, <2>3 DEF PInv, ChainIs, pNodeVars, PTip, ChainLinks, WaitIs
<1> QED  BY <1>7, <1>8
LEMMA PStays ==
    ASSUME PInv, PNext \/ UNCHANGED pVars
    PROVE  PInv'
<1>1. CASE UNCHANGED pVars
    BY <1>1 DEF pVars, PInv, ChainIs, PTip, ChainLinks, WaitIs
<1>2. CASE \E r \in PRosters : NewSkipBlock(r)
    BY <1>2, PNewBlock
<1>3. CASE \E n \in PNodeSet, l \in ChainLinks, b \in BOOLEAN : StoreLink(n, l, b)
    BY <1>3, PStoresLink
<1>4. CASE \E n \in PNodeSet : UpdateTrie(n) \/ (\E m \in PNodeSet : DownloadState(n, m))
    BY <1>4, PTrieGoesOn
<1>5. CASE fetchGenesis
    <2>1. pLatest' \in NoIndex .. PTip
        BY <1>5, ChainTypes DEF fetchGenesis, NoIndex, PInv
    <2> QED  BY <1>5, <2>1 DEF fetchGenesis, PInv, ChainIs, pNodeVars, PTip, ChainLinks, WaitIs
<1>6. CASE \E n \in PNodeSet : GetProof(n) \/ GetProofFromLatest(n) \/ \E b \in BOOLEAN, i \in 0 .. PTip : GetProofAfter(n, b, i)
    BY <1>6, PAsks DEF GetProof, GetProofFromLatest, GetProofAfter
<1>7. CASE StartWait(PMaxIndex)
    <2> DEFINE w == [on |-> TRUE, node |-> 1, sb |-> 0, index |-> PMaxIndex, heard |-> {}, done |-> FALSE]
    <2>1. w \in Waits /\ w.heard = {} /\ w.done = FALSE
        BY NodesOf, ClientProofsAssumption DEF Waits
    <2>2. pWait' = w /\ UNCHANGED pLatest /\ UNCHANGED pNodeVars
        BY <1>7 DEF StartWait
    <2> HIDE DEF w
    <2>3. WaitIs(pWait', pTrie')
        BY <2>1, <2>2 DEF WaitIs
    <2> QED  BY <2>2, <2>3 DEF PInv, ChainIs, pNodeVars, PTip, ChainLinks
<1>8. CASE \E b \in BOOLEAN : WaitPropagation(b)
    BY <1>8, PWaits
<1>9. CASE GiveUp
    BY <1>9 DEF GiveUp, PInv, ChainIs, pNodeVars, PTip, ChainLinks, WaitIs
<1> QED  BY <1>1, <1>2, <1>3, <1>4, <1>5, <1>6, <1>7, <1>8, <1>9 DEF PNext
LEMMA PShows ==
    ASSUME PInv
    PROVE  PTypeOK /\ ProofsHold
<1>1. ChainIs /\ PTip \in Nat
    BY ChainTypes DEF PInv
<1>2. PTypeOK
    <2>1. ToSet(pRoster) \subseteq PRosters
        BY <1>1 DEF ChainIs, ToSet
    <2> QED  BY <2>1 DEF PTypeOK, PInv, ChainIs
<1>3. ProofsServed
    <2> SUFFICES ASSUME NEW n \in PNodeSet, NEW i \in 0 .. PTip
                 PROVE  /\ NewProof(n, i).ok => VerifyFromBlock(NewProof(n, i), i) /\ NewProof(n, i).latest >= i
                        /\ Complete(n) /\ i <= pTrie[n] => NewProof(n, i).ok
        BY DEF ProofsServed
    <2>1. ASSUME NewProof(n, i).ok PROVE VerifyFromBlock(NewProof(n, i), i) /\ NewProof(n, i).latest >= i
        <3> DEFINE p == NewProof(n, i)
        <3>1. p.latest = pTrie[n] /\ p.root = pTrie[n] /\ i <= p.latest /\ Leads(p.links, i, p.latest) /\ pTrie[n] \in 0 .. PTip
            BY <1>1, <2>1, ProofAnswers DEF ChainIs
        <3> HIDE DEF p
        <3>2. VerifyFromBlock(p, i) /\ p.latest >= i
            BY <1>1, <3>1, LinksVerify
        <3> QED  BY <3>2 DEF p
    <2>2. ASSUME Complete(n), i <= pTrie[n] PROVE NewProof(n, i).ok
        <3>1. i \in 0 .. pTrie[n]
            BY <1>1, <2>2 DEF ChainIs
        <3> QED  BY <1>1, <2>2, <3>1, ProofAnswers
    <2> QED  BY <2>1, <2>2
<1>4. PropagationSeen
    <2> SUFFICES ASSUME pWait.on, pWait.done, NEW n \in pWait.heard PROVE pTrie[n] >= pWait.index
        BY DEF PropagationSeen
    <2>1. pWait \in Waits /\ pTrie[n] >= pWait.sb /\ pWait.sb >= pWait.index
        BY DEF PInv, WaitIs, NotWaiting
    <2>2. n \in PNodeSet /\ pWait.sb \in Nat /\ pWait.index \in Nat
        BY <2>1 DEF Waits
    <2>3. pTrie[n] \in Nat
        BY <1>1, <2>2 DEF ChainIs
    <2> QED  BY <2>1, <2>2, <2>3
<1> QED  BY <1>2, <1>3, <1>4 DEF ProofsHold

-----------------------------------------------------------------------------
(* The history of instances.  Every entry knows its block and its place in *)
(* it.  As long as no instance came back, versions grow with the blocks    *)
(* and the places, no live instance is behind its entries, and the         *)
(* database holds with an entry all those that are not older.              *)
HEntries == [iid : HInstances, ver : Nat, idx : Nat, tx : Nat]
InPlace(blocks) ==
    \A e \in Logged(blocks) :
        /\ e \in HEntries /\ e.idx \in 1 .. Len(blocks) /\ e.tx \in 1 .. Len(blocks[e.idx])
        /\ e = blocks[e.idx][e.tx]
Earlier(d, e) == d.iid = e.iid /\ (d.idx < e.idx \/ (d.idx = e.idx /\ d.tx < e.tx))
VersionsGrow(entries) == \A d, e \in entries : Earlier(d, e) => d.ver < e.ver
NewestOf(db, entries) == \A d \in db, e \in entries : e.idx >= d.idx => e \in db
NotBehind(live, entries) == \A e \in entries : live[e.iid] # Absent => e.ver <= live[e.iid]
HInv ==
    /\ hIndex \in 0 .. HMaxIndex /\ hSize \in Int /\ hPanic \in BOOLEAN /\ hRecreated \in BOOLEAN
    /\ hLive \in [HInstances -> Absent .. hIndex * HMaxChanges]
    /\ hBlocks \in Seq(Seq(HEntries)) /\ Len(hBlocks) = hIndex /\ InPlace(hBlocks)
    /\ \A b \in 1 .. hIndex : \A k \in 1 .. Len(hBlocks[b]) : hBlocks[b][k].idx = b
    /\ \A e \in Logged(hBlocks) : e.ver <= hIndex * HMaxChanges
    /\ IsFiniteSet(hDb) /\ hDb \subseteq Logged(hBlocks)
    /\ ~hRecreated => /\ ~hPanic /\ VersionsGrow(Logged(hBlocks))
                      /\ NotBehind(hLive, Logged(hBlocks)) /\ NewestOf(hDb, Logged(hBlocks))

LEMMA TimesGrows ==
    ASSUME NEW a \in Nat, NEW b \in Nat, NEW c \in Nat, a <= b
    PROVE  a * c \in Nat /\ a * c <= b * c /\ (a + 1) * c = a * c + c
<1>1. a * c \in Nat /\ b * c \in Nat /\ (b - a) * c \in Nat
    OBVIOUS
<1>2. b * c = a * c + (b - a) * c
    OBVIOUS
<1> QED  BY <1>1, <1>2

AtPlace(blocks, e) == \E b \in 1 .. Len(blocks) : \E k \in 1 .. Len(blocks[b]) : e = blocks[b][k]
LEMMA LoggedOf ==
    ASSUME NEW T, NEW blocks \in Seq(Seq(T)), NEW e
    PROVE  e \in Logged(blocks) <=> AtPlace(blocks, e)
<1>1. \A b \in 1 .. Len(blocks) : blocks[b] \in Seq(T)
    OBVIOUS
<1>2. \A b \in 1 .. Len(blocks) : e \in ToSet(blocks[b]) <=> \E k \in 1 .. Len(blocks[b]) : e = blocks[b][k]
    <2> TAKE b \in 1 .. Len(blocks)
    <2>1. DOMAIN blocks[b] = 1 .. Len(blocks[b])
        BY <1>1
    <2> QED  BY <2>1 DEF ToSet
<1>3. \A u : u \in ToSet(blocks) <=> \E b \in 1 .. Len(blocks) : u = blocks[b]
    BY DEF ToSet
<1>4. e \in Logged(blocks) <=> \E b \in 1 .. Len(blocks) : e \in ToSet(blocks[b])
    BY <1>3 DEF Logged
<1> QED  BY <1>2, <1>4 DEF AtPlace
LEMMA LoggedIs ==
    ASSUME NEW T, NEW blocks \in Seq(Seq(T)), NEW s \in Seq(T)
    PROVE  /\ Logged(Append(blocks, s)) = Logged(blocks) \union ToSet(s)
           /\ Append(blocks, s) \in Seq(Seq(T)) /\ Len(Append(blocks, s)) = Len(blocks) + 1
           /\ Append(blocks, s)[Len(blocks) + 1] = s /\ \A b \in 1 .. Len(blocks) : Append(blocks, s)[b] = blocks[b]
<1> DEFINE more == Append(blocks, s)
<1>1. more \in Seq(Seq(T)) /\ Len(more) = Len(blocks) + 1 /\ more[Len(blocks) + 1] = s /\ \A b \in 1 .. Len(blocks) : more[b] = blocks[b]
    OBVIOUS
<1> HIDE DEF more
<1>2. ASSUME NEW e PROVE e \in Logged(more) <=> e \in Logged(blocks) \/ e \in ToSet(s)
    <2>1. \A b : b \in 1 .. Len(more) <=> b \in 1 .. Len(blocks) \/ b = Len(blocks) + 1
        BY <1>1
    <2>2. e \in Logged(more) <=> AtPlace(more, e)
        BY <1>1, LoggedOf
    <2>3. e \in Logged(blocks) <=> AtPlace(blocks, e)
        BY LoggedOf
    <2>4. e \in ToSet(s) <=> \E k \in 1 .. Len(s) : e = s[k]
        BY DEF ToSet
    <2> QED  BY <1>1, <2>1, <2>2, <2>3, <2>4 DEF AtPlace
<1> QED  BY <1>1, <1>2 DEF more

\* Cleaning.
LEMMA FirstIs ==
    ASSUME NEW db \in SUBSET HEntries, VersionsGrow(db), NEW i, OfInstance(db, i) # {}
    PROVE  /\ FirstKey(OfInstance(db, i)) \in OfInstance(db, i)
           /\ \A d \in OfInstance(db, i) : FirstKey(OfInstance(db, i)).idx <= d.idx
<1> DEFINE own == OfInstance(db, i)
           vers == {e.ver : e \in own}
<1>1. own \subseteq db /\ \A e \in own : e \in HEntries /\ e.iid = i /\ e.ver \in Nat /\ e.idx \in Nat
    BY DEF OfInstance, HEntries
<1>2. vers \in SUBSET Nat /\ vers # {}
    BY <1>1
<1>3. PICK v \in vers : \A y \in vers : v <= y
    <2> HIDE DEF vers
    <2> QED  BY <1>2, LeastNat
<1>4. PICK e \in own : e.ver = v
    BY <1>3
<1> HIDE DEF own
<1>5. \A d, x \in own : d.idx < x.idx => d.ver < x.ver
    BY <1>1 DEF VersionsGrow, Earlier
<1>6. ASSUME NEW d \in own PROVE KeyBefore(e, d)
    <2>1. e.ver <= d.ver
        BY <1>3, <1>4
    <2>2. e.ver \in Nat /\ d.ver \in Nat /\ e.idx \in Nat /\ d.idx \in Nat /\ e.iid = d.iid
        BY <1>1, <1>4
    <2>3. d.idx < e.idx => d.ver < e.ver
        BY <1>4, <1>5
    <2> QED  BY <2>1, <2>2, <2>3 DEF KeyBefore
<1> DEFINE f == FirstKey(own)
<1>7. f \in own /\ \A d \in own : KeyBefore(f, d)
    BY <1>4, <1>6 DEF FirstKey
<1> HIDE DEF f
<1>8. ASSUME NEW d \in own PROVE f.idx <= d.idx
    <2>1. KeyBefore(f, d) /\ f \in own
        BY <1>7
    <2>2. f.ver \in Nat /\ d.ver \in Nat /\ f.idx \in Nat /\ d.idx \in Nat
        BY <1>1, <1>7
    <2>3. d.idx < f.idx => d.ver < f.ver
        BY <1>5, <1>7
    <2> QED  BY <2>1, <2>2, <2>3 DEF KeyBefore
<1> QED  BY <1>7, <1>8 DEF f, own
LEMMA OldestIs ==
    ASSUME NEW db \in SUBSET HEntries, VersionsGrow(db), db # {}
    PROVE  \E m \in Nat : OldestBlock(db) = {e \in db : e.idx = m} /\ \A e \in db : m <= e.idx
<1> DEFINE firsts == {FirstKey(OfInstance(db, i)).idx : i \in Stored(db)}
           m == oldestIndex(db)
<1>1. \A i \in Stored(db) : OfInstance(db, i) # {}
    BY DEF Stored, OfInstance
<1>2. \A e \in db : e.iid \in Stored(db) /\ e \in OfInstance(db, e.iid) /\ e.idx \in Nat
    BY DEF Stored, OfInstance, HEntries
<1>3. \A i \in Stored(db) : FirstKey(OfInstance(db, i)) \in OfInstance(db, i) /\ FirstKey(OfInstance(db, i)) \in db
    BY <1>1, FirstIs DEF OfInstance
<1>4. firsts \in SUBSET Nat
    BY <1>2, <1>3
<1>5. firsts # {}
    BY <1>2
<1>6. m \in firsts /\ \A y \in firsts : m <= y
    <2>1. m = Min(firsts)
        BY DEF oldestIndex
    <2> HIDE DEF firsts, m
    <2>2. \E x \in firsts : \A y \in firsts : x <= y
        BY <1>4, <1>5, LeastNat
    <2> QED  BY <2>1, <2>2 DEF Min
<1>7. m \in Nat
    <2> HIDE DEF firsts
    <2> QED  BY <1>4, <1>6
<1>8. ASSUME NEW e \in db PROVE m <= e.idx
    <2> DEFINE f == FirstKey(OfInstance(db, e.iid)).idx
    <2>1. f \in firsts /\ f <= e.idx
        BY <1>1, <1>2, FirstIs
    <2>2. m <= f /\ f \in Nat /\ e.idx \in Nat
        BY <1>2, <1>4, <1>6, <2>1
    <2> HIDE DEF f, m
    <2> QED  BY <1>7, <2>1, <2>2
<1> HIDE DEF firsts
<1>9. OldestBlock(db) = UNION {Leading(OfInstance(db, i), m) : i \in Stored(db)}
    BY DEF OldestBlock
<1> HIDE DEF m
<1>10. ASSUME NEW i, NEW e
       PROVE  e \in Leading(OfInstance(db, i), m) <=> e \in db /\ e.iid = i /\ e.idx = m
    <2>1. CASE e \in OfInstance(db, i)
        <3>1. e \in db /\ e.iid = i /\ e.ver \in Nat /\ e.idx \in Nat
            BY <2>1 DEF OfInstance, HEntries
        <3>2. KeyBefore(e, e)
            BY <3>1 DEF KeyBefore
        <3>3. ASSUME e.idx = m, NEW d \in OfInstance(db, i), KeyBefore(d, e) PROVE d.idx = m
            <4>1. d \in db /\ d.iid = i /\ d.ver \in Nat /\ d.idx \in Nat
                BY DEF OfInstance, HEntries
            <4>2. e.idx < d.idx => e.ver < d.ver
                BY <3>1, <4>1 DEF VersionsGrow, Earlier
            <4>3. d.idx <= e.idx
                BY <3>1, <3>3, <4>1, <4>2 DEF KeyBefore
            <4>4. m <= d.idx
                BY <1>8, <4>1
            <4> QED  BY <1>7, <3>3, <4>1, <4>3, <4>4
        <3> QED  BY <2>1, <3>1, <3>2, <3>3 DEF Leading
    <2>2. CASE e \notin OfInstance(db, i)
        BY <2>2 DEF Leading, OfInstance
    <2> QED  BY <2>1, <2>2
<1>11. ASSUME NEW e PROVE e \in OldestBlock(db) <=> e \in db /\ e.idx = m
    <2>1. e \in OldestBlock(db) <=> \E i \in Stored(db) : e \in Leading(OfInstance(db, i), m)
        BY <1>9
    <2> QED  BY <1>2, <1>10, <2>1
<1> QED  BY <1>7, <1>8, <1>11
LEMMA CleaningKeeps ==
    ASSUME NEW db \in SUBSET HEntries, IsFiniteSet(db), NEW size \in Int
    PROVE  LET r == cleanBySize(db, size)
           IN  /\ r.db \subseteq db /\ r.size \in Int
               /\ VersionsGrow(db) => NewestOf(r.db, db)
<1> DEFINE n == Cardinality(db)
           V == [db : SUBSET db, size : Int]
           first == [db |-> db, size |-> size]
           Is(a) == a = [k \in 0 .. n |-> IF k = 0 THEN first ELSE CleanOldest(a[k - 1])]
           after == CHOOSE a : Is(a)
           F == [k \in 1 .. n |-> [r \in V |-> CleanOldest(r)]]
<1>1. n \in Nat /\ first \in V
    BY FS_CardinalityType
<1>2. ASSUME NEW r \in V
      PROVE  /\ CleanOldest(r) \in V
             /\ VersionsGrow(db) /\ NewestOf(r.db, db) => NewestOf(CleanOldest(r).db, db)
    <2>1. CASE r.size <= HThreshold \/ r.db = {}
        BY <2>1 DEF CleanOldest
    <2>2. CASE ~(r.size <= HThreshold \/ r.db = {})
        <3> DEFINE c == [db |-> r.db \ OldestBlock(r.db), size |-> r.size - Cardinality(OldestBlock(r.db))]
        <3>1. CleanOldest(r) = c
            BY <2>2 DEF CleanOldest
        <3>2. r.db \in SUBSET db /\ r.size \in Int
            OBVIOUS
        <3>3. OldestBlock(r.db) \subseteq r.db
            BY DEF OldestBlock, Leading, OfInstance
        <3>4. Cardinality(OldestBlock(r.db)) \in Nat
            BY <3>2, <3>3, FS_Subset, FS_CardinalityType
        <3>5. r.size - Cardinality(OldestBlock(r.db)) \in Int /\ r.db \ OldestBlock(r.db) \in SUBSET db
            BY <3>2, <3>4
        <3>6. c \in V
            BY <3>5, Zenon
        <3>7. ASSUME VersionsGrow(db), NewestOf(r.db, db) PROVE NewestOf(r.db \ OldestBlock(r.db), db)
            <4>1. r.db \in SUBSET HEntries /\ VersionsGrow(r.db) /\ r.db # {}
                BY <2>2, <3>2, <3>7 DEF VersionsGrow
            <4>2. PICK m \in Nat : OldestBlock(r.db) = {e \in r.db : e.idx = m} /\ \A e \in r.db : m <= e.idx
                BY <4>1, OldestIs
            <4>3. SUFFICES ASSUME NEW d \in r.db, d \notin OldestBlock(r.db), NEW e \in db, e.idx >= d.idx
                           PROVE  e \in r.db /\ e \notin OldestBlock(r.db)
                BY DEF NewestOf
            <4>4. d \in db /\ e \in r.db
                BY <3>2, <3>7, <4>3 DEF NewestOf
            <4>5. d.idx \in Nat /\ e.idx \in Nat /\ d.idx # m /\ m <= d.idx
                BY <4>2, <4>3, <4>4 DEF HEntries
            <4>6. e.idx # m
                BY <4>3, <4>5
            <4> QED  BY <4>2, <4>4, <4>6
        <3> QED  BY <3>1, <3>6, <3>7
    <2> QED  BY <2>1, <2>2
<1>3. F \in [1 .. n -> [V -> V]]
    <2> HIDE DEF V, n
    <2> QED  BY <1>2
<1>4. cleanBySize(db, size) = after[n]
    BY DEF cleanBySize
<1>5. first.db = db /\ first.size = size
    OBVIOUS
<1> HIDE DEF first
<1>6. \E a : Is(a)
    <2>1. PICK a : IsRecursion(a, n, V, first, F)
        <3> HIDE DEF F, n, V
        <3> QED  BY <1>1, <1>3, RecursionExists, Zenon
    <2>2. a \in [0 .. n -> V] /\ a[0] = first /\ \A k \in 1 .. n : a[k] = F[k][a[k - 1]]
        BY <2>1 DEF IsRecursion
    <2>3. \A k \in 1 .. n : a[k - 1] \in V
        <3> HIDE DEF n, F, V
        <3> QED  BY <1>1, <2>2
    <2>4. \A k \in 1 .. n : F[k][a[k - 1]] = CleanOldest(a[k - 1])
        <3> HIDE DEF n, V
        <3> QED  BY <2>3
    <2>5. Is(a)
        <3> HIDE DEF F, n, V
        <3> QED  BY <1>1, <2>2, <2>4
    <2> QED  BY <2>5
<1>7. Is(after)
    <2> HIDE DEF Is
    <2> QED  BY <1>6, Zenon
<1>8. after[0] = first /\ \A k \in 1 .. n : after[k] = CleanOldest(after[k - 1])
    <2> HIDE DEF after, n
    <2> QED  BY <1>1, <1>7
<1> HIDE DEF after, F
<1> DEFINE P(k) == after[k] \in V /\ (VersionsGrow(db) => NewestOf(after[k].db, db))
           S == {k \in Nat : k <= n => P(k)}
<1>9. 0 \in S
    <2>1. NewestOf(db, db)
        BY DEF NewestOf
    <2> HIDE DEF V
    <2> QED  BY <1>1, <1>5, <1>8, <2>1
<1>10. ASSUME NEW k \in Nat, k \in S PROVE k + 1 \in S
    <2> SUFFICES ASSUME k + 1 <= n PROVE P(k + 1)
        OBVIOUS
    <2>1. k + 1 \in 1 .. n /\ (k + 1) - 1 = k /\ k <= n
        BY <1>1
    <2> HIDE DEF V
    <2>2. after[k + 1] = CleanOldest(after[k]) /\ P(k)
        BY <1>8, <1>10, <2>1
    <2> QED  BY <1>2, <2>2
<1>11. P(n)
    <2> HIDE DEF P
    <2>1. \A k \in Nat : k \in S
        <3> HIDE DEF S
        <3> QED  BY <1>9, <1>10, NatSteps
    <2> QED  BY <1>1, <2>1
<1> HIDE DEF n
<1> QED  BY <1>4, <1>11

\* What one instruction does.
HStates == [live : [HInstances -> Int], seen : SUBSET HInstances, vers : Seq(Int), ok : BOOLEAN, again : BOOLEAN]
LEMMA StepIs ==
    ASSUME NEW st \in HStates, NEW c \in HChange
    PROVE  LET r == Step(st, c)
           IN  /\ r \in HStates /\ (st.again => r.again)
               /\ \E v \in Int :
                     /\ r.vers = Append(st.vers, v)
                     /\ v = st.live[c.iid] + 1
                     /\ r.live = [st.live EXCEPT ![c.iid] = r.live[c.iid]]
                     /\ r.live[c.iid] = Absent \/ r.live[c.iid] = v
                     /\ r.seen = st.seen \/ r.seen = st.seen \union {c.iid}
                     /\ st.live[c.iid] = Absent => c.iid \in r.seen /\ (c.iid \in st.seen => r.again)
<1> DEFINE i == c.iid
           rem == c.remove
<1>1. i \in HInstances /\ rem \in BOOLEAN
    BY DEF HChange
<1>2. st.live \in [HInstances -> Int] /\ st.seen \in SUBSET HInstances /\ st.vers \in Seq(Int) /\ st.ok \in BOOLEAN /\ st.again \in BOOLEAN
      /\ st = [live |-> st.live, seen |-> st.seen, vers |-> st.vers, ok |-> st.ok, again |-> st.again]
    BY DEF HStates
<1>3. st.live[i] \in Int /\ Absent = -1
    BY <1>1, <1>2 DEF Absent
<1>4. CASE st.live[i] = Absent
    <2> DEFINE r == [live |-> [st.live EXCEPT ![i] = 0], seen |-> st.seen \union {i}, vers |-> Append(st.vers, 0), ok |-> ~rem, again |-> st.again \/ i \in st.seen]
    <2>1. Step(st, c) = r
        <3>1. Step(st, c) = [st EXCEPT !.live[i] = 0, !.seen = @ \union {i}, !.vers = Append(@, 0), !.ok = ~rem, !.again = @ \/ i \in st.seen]
            BY <1>4 DEF Step
        <3> QED  BY <1>2, <3>1
    <2>2. r.live = [st.live EXCEPT ![i] = 0] /\ r.seen = st.seen \union {i} /\ r.vers = Append(st.vers, 0)
        OBVIOUS
    <2>3. r.again <=> st.again \/ i \in st.seen
        BY Zenon
    <2>4. [st.live EXCEPT ![i] = 0] \in [HInstances -> Int] /\ st.seen \union {i} \in SUBSET HInstances /\ Append(st.vers, 0) \in Seq(Int)
        BY <1>1, <1>2
    <2>5. (~rem) \in BOOLEAN /\ (st.again \/ i \in st.seen) \in BOOLEAN
        OBVIOUS
    <2>6. r \in HStates
        BY <2>4, <2>5, Zenon DEF HStates
    <2> HIDE DEF r
    <2>7. 0 = st.live[i] + 1 /\ 0 \in Int
        BY <1>3, <1>4
    <2>8. r.live[i] = 0
        BY <1>1, <1>2, <2>2
    <2>9. /\ r.vers = Append(st.vers, 0) /\ 0 = st.live[i] + 1 /\ r.live = [st.live EXCEPT ![i] = r.live[i]]
          /\ (r.live[i] = Absent \/ r.live[i] = 0) /\ r.seen = st.seen \union {i}
          /\ i \in r.seen /\ (i \in st.seen => r.again)
        BY <2>2, <2>3, <2>7, <2>8, Zenon
    <2> QED  BY <2>1, <2>3, <2>6, <2>7, <2>9, Zenon
<1>5. CASE st.live[i] # Absent
    <2> DEFINE l == IF rem THEN Absent ELSE st.live[i] + 1
               v == st.live[i] + 1
               r == [live |-> [st.live EXCEPT ![i] = l], seen |-> st.seen, vers |-> Append(st.vers, v), ok |-> st.ok, again |-> st.again]
    <2>1. Step(st, c) = r
        <3>1. Step(st, c) = [st EXCEPT !.live[i] = IF rem THEN Absent ELSE @ + 1, !.vers = Append(@, st.live[i] + 1)]
            BY <1>5 DEF Step
        <3> QED  BY <1>2, <3>1
    <2>2. l \in Int /\ v \in Int /\ (l = Absent \/ l = v)
        BY <1>3
    <2> HIDE DEF l, v
    <2>3. r.live = [st.live EXCEPT ![i] = l] /\ r.seen = st.seen /\ r.vers = Append(st.vers, v) /\ r.again = st.again
        OBVIOUS
    <2>4. [st.live EXCEPT ![i] = l] \in [HInstances -> Int] /\ Append(st.vers, v) \in Seq(Int)
        BY <1>1, <1>2, <2>2
    <2>5. r \in HStates
        BY <1>2, <2>4, Zenon DEF HStates
    <2> HIDE DEF r
    <2>6. r.live[i] = l
        BY <1>1, <1>2, <2>3
    <2>7. /\ r.vers = Append(st.vers, v) /\ v = st.live[i] + 1 /\ r.live = [st.live EXCEPT ![i] = r.live[i]]
          /\ (r.live[i] = Absent \/ r.live[i] = v) /\ r.seen = st.seen
        BY <2>2, <2>3, <2>6, Zenon DEF v
    <2> QED  BY <1>5, <2>1, <2>2, <2>3, <2>5, <2>7, Zenon
<1> QED  BY <1>4, <1>5

\* What the first k changes of a block did: the versions they gave are newer
\* than all before, unless an instance came back.
Did(changes, k, a, bound) ==
    /\ a \in HStates /\ Len(a.vers) = k
    /\ \A i \in HInstances : a.live[i] \in Absent .. bound + k /\ (a.live[i] # Absent => i \in a.seen)
    /\ \A j \in 1 .. k : a.vers[j] \in 0 .. bound + k /\ changes[j].iid \in a.seen
    /\ \A e \in Logged(hBlocks) : e.iid \in a.seen
DidGrow(changes, k, a) ==
    /\ \A j \in 1 .. k : a.live[changes[j].iid] # Absent => a.vers[j] <= a.live[changes[j].iid]
    /\ NotBehind(a.live, Logged(hBlocks))
    /\ \A j, l \in 1 .. k : j < l /\ changes[j].iid = changes[l].iid => a.vers[j] < a.vers[l]
    /\ \A e \in Logged(hBlocks) : \A j \in 1 .. k : e.iid = changes[j].iid => e.ver < a.vers[j]

LEMMA DidBegins ==
    ASSUME HInv, NEW changes
    PROVE  LET a == [live |-> hLive, seen |-> Seen, vers |-> << >>, ok |-> TRUE, again |-> FALSE]
           IN  Did(changes, 0, a, hIndex * HMaxChanges) /\ (~hRecreated => DidGrow(changes, 0, a))
<1> DEFINE a == [live |-> hLive, seen |-> Seen, vers |-> << >>, ok |-> TRUE, again |-> FALSE]
           B == hIndex * HMaxChanges
<1>1. hLive \in [HInstances -> Absent .. B] /\ B \in Nat /\ hIndex \in Nat /\ HMaxChanges \in Nat
    BY HistoryAssumption DEF HInv
<1>2. \A e \in Logged(hBlocks) : e.iid \in HInstances
    BY DEF HInv, InPlace, HEntries
<1>3. Seen \in SUBSET HInstances /\ (\A i \in HInstances : hLive[i] # Absent => i \in Seen) /\ (\A e \in Logged(hBlocks) : e.iid \in Seen)
    BY <1>2 DEF Seen
<1>4. a.live = hLive /\ a.seen = Seen /\ a.vers = << >> /\ a.ok = TRUE /\ a.again = FALSE
    OBVIOUS
<1> HIDE DEF B
<1>5. hLive \in [HInstances -> Int] /\ << >> \in Seq(Int)
    BY <1>1 DEF Absent
<1>6. a \in HStates
    BY <1>3, <1>5, Zenon DEF HStates
<1> HIDE DEF a
<1>7. \A i \in HInstances : hLive[i] \in Absent .. B + 0
    BY <1>1
<1>8. Did(changes, 0, a, B)
    BY <1>3, <1>4, <1>6, <1>7 DEF Did
<1>9. ~hRecreated => DidGrow(changes, 0, a)
    BY <1>4 DEF DidGrow, HInv
<1> QED  BY <1>8, <1>9 DEF a, B
LEMMA DidStep ==
    ASSUME HInv, NEW changes, NEW k \in Nat, NEW a, NEW bound \in Nat, Did(changes, k, a, bound), changes[k + 1] \in HChange
    PROVE  LET r == Step(a, changes[k + 1])
           IN  /\ Did(changes, k + 1, r, bound)
               /\ DidGrow(changes, k, a) /\ ~r.again => DidGrow(changes, k + 1, r)
<1> DEFINE c == changes[k + 1]
           i == c.iid
           r == Step(a, c)
<1>1. a \in HStates /\ i \in HInstances /\ a.vers \in Seq(Int) /\ Len(a.vers) = k /\ a.live \in [HInstances -> Int] /\ a.seen \in SUBSET HInstances
    BY DEF Did, HStates, HChange
<1> HIDE DEF c
<1>2. r \in HStates /\ (a.again => r.again)
    BY <1>1, StepIs DEF c
<1>3. PICK v \in Int :
        /\ r.vers = Append(a.vers, v) /\ v = a.live[i] + 1 /\ r.live = [a.live EXCEPT ![i] = r.live[i]]
        /\ r.live[i] = Absent \/ r.live[i] = v
        /\ r.seen = a.seen \/ r.seen = a.seen \union {i}
        /\ a.live[i] = Absent => i \in r.seen /\ (i \in a.seen => r.again)
    BY <1>1, StepIs DEF c
<1> HIDE DEF r, i
<1>4. /\ Len(r.vers) = k + 1 /\ r.vers[k + 1] = v /\ (\A j \in 1 .. k : r.vers[j] = a.vers[j])
      /\ \A j : j \in 1 .. k + 1 <=> j \in 1 .. k \/ j = k + 1
    BY <1>1, <1>3
<1>5. a.seen \subseteq r.seen /\ \A x \in HInstances : x # i => r.live[x] = a.live[x]
    BY <1>1, <1>3
<1>6. Absent = -1 /\ a.live[i] \in Absent .. bound + k /\ v \in 0 .. bound + (k + 1)
    BY <1>1, <1>3 DEF Did, Absent
<1>7. i \in r.seen
    BY <1>1, <1>3 DEF Did
<1>8. Did(changes, k + 1, r, bound)
    <2>1. ASSUME NEW x \in HInstances PROVE r.live[x] \in Absent .. bound + (k + 1) /\ (r.live[x] # Absent => x \in r.seen)
        <3>1. CASE x = i
            <4>1. r.live[i] \in Absent .. bound + (k + 1)
                BY <1>3, <1>6
            <4> QED  BY <1>7, <3>1, <4>1
        <3>2. CASE x # i
            <4>1. r.live[x] = a.live[x] /\ a.live[x] \in Absent .. bound + k /\ (a.live[x] # Absent => x \in a.seen)
                BY <1>5, <3>2 DEF Did
            <4>2. r.live[x] \in Absent .. bound + (k + 1)
                BY <1>6, <4>1
            <4> QED  BY <1>5, <4>1, <4>2
        <3> QED  BY <3>1, <3>2
    <2>2. ASSUME NEW j \in 1 .. k + 1 PROVE r.vers[j] \in 0 .. bound + (k + 1) /\ changes[j].iid \in r.seen
        <3>1. CASE j = k + 1
            BY <1>4, <1>6, <1>7, <3>1 DEF i, c
        <3>2. CASE j \in 1 .. k
            <4>1. a.vers[j] \in 0 .. bound + k /\ changes[j].iid \in a.seen
                BY <3>2 DEF Did
            <4>2. r.vers[j] \in 0 .. bound + (k + 1)
                BY <1>4, <3>2, <4>1
            <4> QED  BY <1>5, <4>1, <4>2
        <3> QED  BY <1>4, <3>1, <3>2
    <2>3. \A e \in Logged(hBlocks) : e.iid \in r.seen
        BY <1>5 DEF Did
    <2> QED  BY <1>2, <1>4, <2>1, <2>2, <2>3 DEF Did
<1>9. ASSUME DidGrow(changes, k, a), ~r.again PROVE DidGrow(changes, k + 1, r)
    <2>1. ASSUME NEW w \in Int, i \in a.seen, a.live[i] # Absent => w <= a.live[i] PROVE w < v
        <3>1. a.live[i] # Absent
            BY <1>3, <1>9, <2>1
        <3> QED  BY <1>3, <1>6, <2>1, <3>1
    <2>2. ASSUME NEW j \in 1 .. k, changes[j].iid = i PROVE a.vers[j] < v /\ a.vers[j] \in Int
        <3>1. a.vers[j] \in Int /\ i \in a.seen /\ (a.live[i] # Absent => a.vers[j] <= a.live[i])
            BY <1>9, <2>2 DEF Did, DidGrow
        <3> QED  BY <2>1, <3>1
    <2>3. ASSUME NEW e \in Logged(hBlocks), e.iid = i PROVE e.ver < v /\ e.ver \in Int
        <3>1. e.ver \in Int
            BY DEF HInv, InPlace, HEntries
        <3>2. i \in a.seen /\ (a.live[i] # Absent => e.ver <= a.live[i])
            BY <1>9, <2>3 DEF Did, DidGrow, NotBehind
        <3> QED  BY <2>1, <3>1, <3>2
    <2>4. ASSUME NEW j \in 1 .. k + 1, r.live[changes[j].iid] # Absent PROVE r.vers[j] <= r.live[changes[j].iid]
        <3>1. CASE j = k + 1
            <4>1. changes[j].iid = i /\ r.live[i] = v /\ r.vers[j] = v
                BY <1>3, <1>4, <2>4, <3>1 DEF i, c
            <4> QED  BY <4>1
        <3>2. CASE j \in 1 .. k /\ changes[j].iid = i
            <4>1. r.live[i] = v /\ r.vers[j] = a.vers[j] /\ a.vers[j] < v /\ a.vers[j] \in Int
                BY <1>3, <1>4, <2>2, <2>4, <3>2
            <4> QED  BY <3>2, <4>1
        <3>3. CASE j \in 1 .. k /\ changes[j].iid # i
            <4>1. changes[j].iid \in HInstances
                BY <1>1, <3>3 DEF Did
            <4>2. r.live[changes[j].iid] = a.live[changes[j].iid] /\ r.vers[j] = a.vers[j]
                BY <1>4, <1>5, <3>3, <4>1
            <4> QED  BY <1>9, <2>4, <3>3, <4>2 DEF DidGrow
        <3> QED  BY <1>4, <3>1, <3>2, <3>3
    <2>5. ASSUME NEW e \in Logged(hBlocks), r.live[e.iid] # Absent PROVE e.ver <= r.live[e.iid]
        <3>1. CASE e.iid = i
            <4>1. r.live[i] = v /\ e.ver < v /\ e.ver \in Int
                BY <1>3, <2>3, <2>5, <3>1
            <4> QED  BY <3>1, <4>1
        <3>2. CASE e.iid # i
            <4>1. e.iid \in HInstances
                BY DEF HInv, InPlace, HEntries
            <4>2. r.live[e.iid] = a.live[e.iid]
                BY <1>5, <3>2, <4>1
            <4> QED  BY <1>9, <2>5, <4>2 DEF DidGrow, NotBehind
        <3> QED  BY <3>1, <3>2
    <2>6. ASSUME NEW j \in 1 .. k + 1, NEW l \in 1 .. k + 1, j < l, changes[j].iid = changes[l].iid PROVE r.vers[j] < r.vers[l]
        <3>1. j \in 1 .. k
            BY <2>6
        <3>2. CASE l = k + 1
            <4>1. changes[j].iid = i /\ r.vers[l] = v /\ r.vers[j] = a.vers[j]
                BY <1>4, <2>6, <3>1, <3>2 DEF i, c
            <4> QED  BY <2>2, <3>1, <4>1
        <3>3. CASE l \in 1 .. k
            <4>1. r.vers[l] = a.vers[l] /\ r.vers[j] = a.vers[j]
                BY <1>4, <3>1, <3>3
            <4> QED  BY <1>9, <2>6, <3>1, <3>3, <4>1 DEF DidGrow
        <3> QED  BY <1>4, <3>2, <3>3
    <2>7. ASSUME NEW e \in Logged(hBlocks), NEW j \in 1 .. k + 1, e.iid = changes[j].iid PROVE e.ver < r.vers[j]
        <3>1. CASE j = k + 1
            <4>1. e.iid = i /\ r.vers[j] = v
                BY <1>4, <2>7, <3>1 DEF i, c
            <4> QED  BY <2>3, <4>1
        <3>2. CASE j \in 1 .. k
            <4>1. r.vers[j] = a.vers[j]
                BY <1>4, <3>2
            <4> QED  BY <1>9, <2>7, <3>2, <4>1 DEF DidGrow
        <3> QED  BY <1>4, <3>1, <3>2
    <2> QED  BY <2>4, <2>5, <2>6, <2>7 DEF DidGrow, NotBehind
<1> QED  BY <1>8, <1>9 DEF r, c
LEMMA ChangesAre ==
    ASSUME HInv, NEW n \in Nat, NEW changes \in [1 .. n -> HChange], createStateChanges(changes).ok
    PROVE  LET st == createStateChanges(changes)
           IN  Did(changes, n, st, hIndex * HMaxChanges) /\ (~hRecreated /\ ~st.again => DidGrow(changes, n, st))
<1> DEFINE V == HStates
           B == hIndex * HMaxChanges
           first == [live |-> hLive, seen |-> Seen, vers |-> << >>, ok |-> TRUE, again |-> FALSE]
           step(a, k) == IF a.ok THEN Step(a, changes[k]) ELSE a
           Is(a) == a = [k \in 0 .. n |-> IF k = 0 THEN first ELSE step(a[k - 1], k)]
           after == CHOOSE a : Is(a)
           F == [k \in 1 .. n |-> [a \in V |-> step(a, k)]]
<1>1. Len(changes) = n /\ B \in Nat
    BY HistoryAssumption DEF HInv
<1>2. Did(changes, 0, first, B) /\ (~hRecreated => DidGrow(changes, 0, first))
    BY DidBegins
<1>3. first \in V
    BY <1>2 DEF Did
<1>4. createStateChanges(changes) = after[n]
    BY <1>1 DEF createStateChanges
<1> HIDE DEF first, B
<1>5. \A k \in 1 .. n, a \in V : step(a, k) \in V
    <2>1. \A k \in 1 .. n, a \in V : Step(a, changes[k]) \in V
        BY StepIs
    <2> HIDE DEF V
    <2> QED  BY <2>1
<1>6. F \in [1 .. n -> [V -> V]]
    <2> HIDE DEF V, step
    <2> QED  BY <1>5
<1> HIDE DEF step
<1>7. \E a : Is(a)
    <2>1. PICK a : IsRecursion(a, n, V, first, F)
        <3> HIDE DEF F, V
        <3> QED  BY <1>3, <1>6, RecursionExists, Zenon
    <2>2. a \in [0 .. n -> V] /\ a[0] = first /\ \A k \in 1 .. n : a[k] = F[k][a[k - 1]]
        BY <2>1 DEF IsRecursion
    <2>3. \A k \in 1 .. n : a[k - 1] \in V
        <3> HIDE DEF F, V
        <3> QED  BY <2>2
    <2>4. \A k \in 1 .. n : F[k][a[k - 1]] = step(a[k - 1], k)
        <3> HIDE DEF V
        <3> QED  BY <2>3
    <2>5. Is(a)
        <3> HIDE DEF F, V
        <3> QED  BY <2>2, <2>4
    <2> QED  BY <2>5
<1>8. Is(after)
    <2> HIDE DEF Is
    <2> QED  BY <1>7, Zenon
<1>9. after[0] = first /\ \A k \in 1 .. n : after[k] = step(after[k - 1], k)
    <2> HIDE DEF after
    <2> QED  BY <1>8
<1> HIDE DEF after, F
<1> DEFINE P(k) == after[k].ok => /\ Did(changes, k, after[k], B) 
                                  /\ ~hRecreated /\ ~after[k].again => DidGrow(changes, k, after[k])
           S == {k \in Nat : k <= n => P(k)}
<1>10. 0 \in S
    BY <1>2, <1>9
<1>11. ASSUME NEW k \in Nat, k \in S PROVE k + 1 \in S
    <2> SUFFICES ASSUME k + 1 <= n, after[k + 1].ok
                 PROVE  /\ Did(changes, k + 1, after[k + 1], B)
                        /\ ~hRecreated /\ ~after[k + 1].again => DidGrow(changes, k + 1, after[k + 1])
        OBVIOUS
    <2> DEFINE a == after[k]
    <2>1. k + 1 \in 1 .. n /\ (k + 1) - 1 = k /\ k <= n /\ changes[k + 1] \in HChange
        OBVIOUS
    <2>2. after[k + 1] = step(a, k + 1) /\ P(k)
        BY <1>9, <1>11, <2>1
    <2> HIDE DEF a
    <2>3. a.ok
        BY <2>2 DEF step
    <2>4. after[k + 1] = Step(a, changes[k + 1])
        BY <2>2, <2>3 DEF step
    <2>5. Did(changes, k, a, B) /\ (~hRecreated /\ ~a.again => DidGrow(changes, k, a))
        BY <2>2, <2>3 DEF a
    <2>6. a.again => after[k + 1].again
        BY <2>1, <2>4, <2>5, StepIs DEF Did
    <2> HIDE DEF P
    <2>7. /\ Did(changes, k + 1, after[k + 1], B)
          /\ DidGrow(changes, k, a) /\ ~after[k + 1].again => DidGrow(changes, k + 1, after[k + 1])
        BY <1>1, <2>1, <2>4, <2>5, DidStep
    <2> QED  BY <2>5, <2>6, <2>7
<1>12. P(n)
    <2> HIDE DEF P
    <2>1. \A k \in Nat : k \in S
        <3> HIDE DEF S
        <3> QED  BY <1>10, <1>11, NatSteps
    <2> QED  BY <2>1
<1> QED  BY <1>4, <1>12 DEF B

\* The entries of a block.
EntriesOf(changes, vers, idx) == [k \in DOMAIN changes |-> Entry(changes[k].iid, vers[k], idx, k)]
AreEntries(s, n, changes, st) ==
    /\ s \in Seq(HEntries) /\ Len(s) = n /\ DOMAIN s = 1 .. n
    /\ \A k \in 1 .. n : s[k].iid = changes[k].iid /\ s[k].ver = st.vers[k] /\ s[k].idx = hIndex + 1 /\ s[k].tx = k
    /\ \A e : e \in ToSet(s) <=> \E k \in 1 .. n : e = s[k]
LEMMA EntriesAre ==
    ASSUME HInv, NEW n \in Nat, NEW changes \in [1 .. n -> HChange], NEW st, Did(changes, n, st, hIndex * HMaxChanges)
    PROVE  AreEntries(EntriesOf(changes, st.vers, hIndex + 1), n, changes, st)
<1> DEFINE s == EntriesOf(changes, st.vers, hIndex + 1)
<1>1. s = [k \in 1 .. n |-> Entry(changes[k].iid, st.vers[k], hIndex + 1, k)]
    BY DEF EntriesOf
<1>2. hIndex + 1 \in Nat /\ hIndex * HMaxChanges \in Nat
    BY HistoryAssumption DEF HInv
<1>3. \A k \in 1 .. n : changes[k].iid \in HInstances /\ st.vers[k] \in Nat /\ k \in Nat
    BY <1>2 DEF HChange, Did
<1> HIDE DEF s
<1>4. ASSUME NEW k \in 1 .. n
      PROVE  s[k] \in HEntries /\ s[k].iid = changes[k].iid /\ s[k].ver = st.vers[k] /\ s[k].idx = hIndex + 1 /\ s[k].tx = k
    <2>1. s[k] = Entry(changes[k].iid, st.vers[k], hIndex + 1, k)
        BY <1>1
    <2> QED  BY <1>2, <1>3, <2>1 DEF Entry, HEntries
<1>5. s \in [1 .. n -> HEntries]
    BY <1>1, <1>4
<1>6. s \in Seq(HEntries) /\ Len(s) = n /\ DOMAIN s = 1 .. n
    BY <1>5
<1>7. \A e : e \in ToSet(s) <=> \E k \in 1 .. n : e = s[k]
    BY <1>6 DEF ToSet
<1> QED  BY <1>4, <1>6, <1>7 DEF s, AreEntries

\* The parts of the invariant that a block changes, once the entries and the
\* database are known.
LEMMA BlockLogged ==
    ASSUME HInv, NEW n \in 1 .. HMaxChanges, NEW changes \in [1 .. n -> HChange], NEW st,
           Did(changes, n, st, hIndex * HMaxChanges), hIndex < HMaxIndex,
           NEW s, s = << >> \/ s = EntriesOf(changes, st.vers, hIndex + 1)
    PROVE  LET more == Append(hBlocks, s)
               B == (hIndex + 1) * HMaxChanges
           IN  /\ s \in Seq(HEntries) /\ hIndex + 1 \in 0 .. HMaxIndex /\ st.live \in [HInstances -> Absent .. B]
               /\ more \in Seq(Seq(HEntries)) /\ Len(more) = hIndex + 1 /\ InPlace(more)
               /\ \A b \in 1 .. hIndex + 1 : \A k \in 1 .. Len(more[b]) : more[b][k].idx = b
               /\ \A e \in Logged(more) : e.ver <= B
               /\ Logged(more) = Logged(hBlocks) \union ToSet(s)
               /\ \A e \in Logged(hBlocks) : e \in HEntries /\ e.idx <= hIndex
               /\ \A e \in ToSet(s) : e \in HEntries /\ e.idx = hIndex + 1
               /\ DidGrow(changes, n, st) /\ ~hRecreated => VersionsGrow(Logged(more)) /\ NotBehind(st.live, Logged(more))
<1> DEFINE new == EntriesOf(changes, st.vers, hIndex + 1)
           more == Append(hBlocks, s)
           A == hIndex * HMaxChanges
           B == (hIndex + 1) * HMaxChanges
<1>1. hIndex \in Nat /\ HMaxIndex \in Nat /\ HMaxChanges \in Nat /\ n \in Nat /\ n <= HMaxChanges /\ hIndex + 1 \in 0 .. HMaxIndex
    BY HistoryAssumption DEF HInv
<1>2. A \in Nat /\ B = A + HMaxChanges
    BY <1>1, TimesGrows
<1>3. /\ new \in Seq(HEntries) /\ Len(new) = n /\ DOMAIN new = 1 .. n
      /\ \A k \in 1 .. n : new[k].iid = changes[k].iid /\ new[k].ver = st.vers[k] /\ new[k].idx = hIndex + 1 /\ new[k].tx = k
      /\ \A e : e \in ToSet(new) <=> \E k \in 1 .. n : e = new[k]
    <2>1. AreEntries(new, n, changes, st)
        BY <1>1, EntriesAre
    <2> HIDE DEF new
    <2> QED  BY <2>1 DEF AreEntries
<1> HIDE DEF A, B, new
<1>4. \A i \in HInstances : st.live[i] \in Absent .. A + n
    BY DEF Did, A
<1>5. st.live \in [HInstances -> Absent .. B]
    <2>1. st.live \in [HInstances -> Int]
        BY DEF Did, HStates
    <2>2. ASSUME NEW i \in HInstances PROVE st.live[i] \in Absent .. B
        BY <1>1, <1>2, <1>4 DEF Absent
    <2> QED  BY <2>1, <2>2
<1>6. \A k \in 1 .. n : new[k].ver <= B
    <2> TAKE k \in 1 .. n
    <2>1. st.vers[k] \in 0 .. A + n
        BY DEF Did, A
    <2> QED  BY <1>1, <1>2, <1>3, <2>1
<1>7. /\ s \in Seq(HEntries) /\ Len(s) \in Nat
      /\ \A k \in 1 .. Len(s) : k \in 1 .. n /\ s[k] = new[k] /\ s[k] \in HEntries
      /\ \A e : e \in ToSet(s) => \E k \in 1 .. Len(s) : e = s[k]
    <2>1. CASE s = << >>
        BY <2>1 DEF ToSet
    <2>2. CASE s = new
        BY <1>1, <1>3, <2>2
    <2> QED  BY <2>1, <2>2 DEF new
<1>8. hBlocks \in Seq(Seq(HEntries)) /\ Len(hBlocks) = hIndex
    BY DEF HInv
<1>9. /\ Logged(more) = Logged(hBlocks) \union ToSet(s) /\ more \in Seq(Seq(HEntries)) /\ Len(more) = hIndex + 1
      /\ more[hIndex + 1] = s /\ \A b \in 1 .. hIndex : more[b] = hBlocks[b]
    BY <1>7, <1>8, LoggedIs
<1> HIDE DEF more
<1>10. \A e \in Logged(hBlocks) : e \in HEntries /\ e.idx \in 1 .. hIndex /\ e.tx \in 1 .. Len(hBlocks[e.idx]) /\ e = hBlocks[e.idx][e.tx] /\ e.ver <= A
    BY <1>8 DEF HInv, InPlace, A
<1>11. \A e \in ToSet(s) : \E k \in 1 .. Len(s) : e = s[k] /\ e \in HEntries /\ e.idx = hIndex + 1 /\ e.tx = k /\ e.ver <= B /\ k \in 1 .. n /\ e = new[k]
    BY <1>3, <1>6, <1>7
<1>12. InPlace(more)
    <2> SUFFICES ASSUME NEW e \in Logged(more)
                 PROVE  e \in HEntries /\ e.idx \in 1 .. Len(more) /\ e.tx \in 1 .. Len(more[e.idx]) /\ e = more[e.idx][e.tx]
        BY DEF InPlace
    <2>1. CASE e \in Logged(hBlocks)
        <3>1. e \in HEntries /\ e.idx \in 1 .. hIndex /\ e.tx \in 1 .. Len(hBlocks[e.idx]) /\ e = hBlocks[e.idx][e.tx]
            BY <1>10, <2>1
        <3>2. more[e.idx] = hBlocks[e.idx]
            BY <1>9, <3>1
        <3>3. e.idx \in 1 .. Len(more)
            BY <1>1, <1>9, <3>1
        <3> QED  BY <3>1, <3>2, <3>3
    <2>2. CASE e \in ToSet(s)
        <3>1. PICK k \in 1 .. Len(s) : e = s[k] /\ e \in HEntries /\ e.idx = hIndex + 1 /\ e.tx = k
            BY <1>11, <2>2
        <3>2. hIndex + 1 \in 1 .. Len(more)
            BY <1>1, <1>9
        <3> QED  BY <1>9, <3>1, <3>2
    <2> QED  BY <1>9, <2>1, <2>2
<1>13. ASSUME NEW b \in 1 .. hIndex + 1, NEW k \in 1 .. Len(more[b]) PROVE more[b][k].idx = b
    <2>1. CASE b = hIndex + 1
        BY <1>3, <1>7, <1>9, <2>1
    <2>2. CASE b \in 1 .. hIndex
        <3>1. more[b] = hBlocks[b]
            BY <1>9, <2>2
        <3> QED  BY <2>2, <3>1 DEF HInv
    <2> QED  BY <1>1, <2>1, <2>2
<1>14. \A e \in Logged(more) : e.ver <= B
    <2> SUFFICES ASSUME NEW e \in Logged(hBlocks) PROVE e.ver <= B
        BY <1>9, <1>11
    <2>1. e.ver \in Nat /\ e.ver <= A
        BY <1>10 DEF HEntries
    <2> QED  BY <1>1, <1>2, <2>1
<1>15. ASSUME DidGrow(changes, n, st), ~hRecreated PROVE VersionsGrow(Logged(more)) /\ NotBehind(st.live, Logged(more))
    <2>1. \A e \in ToSet(s) : \E k \in 1 .. n : e.iid = changes[k].iid /\ e.ver = st.vers[k] /\ e.idx = hIndex + 1 /\ e.tx = k
        BY <1>3, <1>11
    <2>2. ASSUME NEW d \in Logged(more), NEW e \in Logged(more), Earlier(d, e) PROVE d.ver < e.ver
        <3>1. CASE d \in Logged(hBlocks) /\ e \in Logged(hBlocks)
            BY <1>15, <2>2, <3>1 DEF HInv, VersionsGrow
        <3>2. CASE d \in Logged(hBlocks) /\ e \in ToSet(s)
            BY <1>15, <2>1, <2>2, <3>2 DEF DidGrow, Earlier
        <3>3. CASE d \in ToSet(s) /\ e \in Logged(hBlocks)
            <4>1. d.idx = hIndex + 1 /\ e.idx \in 1 .. hIndex
                BY <1>10, <2>1, <3>3
            <4> QED  BY <1>1, <2>2, <4>1 DEF Earlier
        <3>4. CASE d \in ToSet(s) /\ e \in ToSet(s)
            <4>1. PICK j \in 1 .. n : d.iid = changes[j].iid /\ d.ver = st.vers[j] /\ d.idx = hIndex + 1 /\ d.tx = j
                BY <2>1, <3>4
            <4>2. PICK l \in 1 .. n : e.iid = changes[l].iid /\ e.ver = st.vers[l] /\ e.idx = hIndex + 1 /\ e.tx = l
                BY <2>1, <3>4
            <4>3. d.idx = e.idx /\ ~(d.idx < e.idx)
                BY <1>1, <4>1, <4>2
            <4>4. d.iid = e.iid /\ d.tx < e.tx
                BY <2>2, <4>3 DEF Earlier
            <4>5. j < l /\ changes[j].iid = changes[l].iid
                BY <4>1, <4>2, <4>4
            <4> QED  BY <1>15, <4>1, <4>2, <4>5 DEF DidGrow
        <3> QED  BY <1>9, <3>1, <3>2, <3>3, <3>4
    <2>3. ASSUME NEW e \in Logged(more), st.live[e.iid] # Absent PROVE e.ver <= st.live[e.iid]
        <3>1. CASE e \in Logged(hBlocks)
            BY <1>15, <2>3, <3>1 DEF DidGrow, NotBehind
        <3>2. CASE e \in ToSet(s)
            BY <1>15, <2>1, <2>3, <3>2 DEF DidGrow
        <3> QED  BY <1>9, <3>1, <3>2
    <2> QED  BY <2>2, <2>3 DEF VersionsGrow, NotBehind
<1>16. \A e \in Logged(hBlocks) : e \in HEntries /\ e.idx <= hIndex
    BY <1>1, <1>10
<1>17. \A e \in ToSet(s) : e \in HEntries /\ e.idx = hIndex + 1
    BY <1>11
<1> QED  BY <1>1, <1>5, <1>7, <1>9, <1>12, <1>13, <1>14, <1>15, <1>16, <1>17 DEF more, B
LEMMA HBlock ==
    ASSUME HInv, NEW n \in 1 .. HMaxChanges, NEW changes \in [1 .. n -> HChange], NEW crash \in BOOLEAN, Block(changes, crash)
    PROVE  HInv'
<1> DEFINE st == createStateChanges(changes)
           new == EntriesOf(changes, st.vers, hIndex + 1)
           s == IF crash THEN << >> ELSE new
           more == Append(hBlocks, s)
           B == (hIndex + 1) * HMaxChanges
<1>1. /\ st.ok /\ hIndex < HMaxIndex /\ hIndex' = hIndex + 1 /\ hLive' = st.live
      /\ hRecreated' = (hRecreated \/ st.again) /\ hBlocks' = more
    BY DEF Block, EntriesOf
<1>2. IF crash THEN hSize' = 0 /\ UNCHANGED <<hDb, hPanic>> ELSE append(new)
    BY DEF Block, EntriesOf
<1>3. n \in Nat /\ HMaxChanges \in Nat
    BY HistoryAssumption
<1> HIDE DEF st
<1>4. Did(changes, n, st, hIndex * HMaxChanges) /\ (~hRecreated /\ ~st.again => DidGrow(changes, n, st))
    BY <1>1, <1>3, ChangesAre DEF st
<1>5. s = << >> \/ s = new
    OBVIOUS
<1> HIDE DEF s, new
<1>6. /\ s \in Seq(HEntries) /\ hIndex + 1 \in 0 .. HMaxIndex /\ st.live \in [HInstances -> Absent .. B]
      /\ more \in Seq(Seq(HEntries)) /\ Len(more) = hIndex + 1 /\ InPlace(more)
      /\ \A b \in 1 .. hIndex + 1 : \A k \in 1 .. Len(more[b]) : more[b][k].idx = b
      /\ \A e \in Logged(more) : e.ver <= B
      /\ Logged(more) = Logged(hBlocks) \union ToSet(s)
      /\ \A e \in Logged(hBlocks) : e \in HEntries /\ e.idx <= hIndex
      /\ \A e \in ToSet(s) : e \in HEntries /\ e.idx = hIndex + 1
      /\ DidGrow(changes, n, st) /\ ~hRecreated => VersionsGrow(Logged(more)) /\ NotBehind(st.live, Logged(more))
    BY <1>1, <1>4, <1>5, BlockLogged DEF new
<1> HIDE DEF more, B
<1>7. AreEntries(new, n, changes, st)
    BY <1>3, <1>4, EntriesAre DEF new
<1>8. hRecreated \in BOOLEAN /\ st.again \in BOOLEAN /\ hRecreated' \in BOOLEAN /\ (~hRecreated' => ~hRecreated /\ ~st.again)
    BY <1>1, <1>4 DEF HInv, Did, HStates
<1> DEFINE Rest == /\ hSize' \in Int /\ hPanic' \in BOOLEAN /\ IsFiniteSet(hDb') /\ hDb' \subseteq Logged(more)
                   /\ ~hRecreated' => ~hPanic' /\ NewestOf(hDb', Logged(more))
<1>9. ASSUME crash PROVE Rest
    <2>1. hSize' = 0 /\ hDb' = hDb /\ hPanic' = hPanic /\ s = << >>
        BY <1>2, <1>9 DEF s
    <2>2. Logged(more) = Logged(hBlocks)
        BY <1>6, <2>1 DEF ToSet
    <2> QED  BY <1>8, <2>1, <2>2 DEF HInv
<1>10. ASSUME ~crash PROVE Rest
    <2> DEFINE cleaned == IF hSize < HMaxSize THEN [db |-> hDb, size |-> hSize] ELSE cleanBySize(hDb, hSize)
               twice == \E j, k \in DOMAIN new : j # k /\ SameKey(new[j], new[k])
    <2>1. /\ hPanic' = twice
          /\ hDb' = IF twice THEN cleaned.db ELSE cleaned.db \union ToSet(new)
          /\ hSize' = IF twice THEN cleaned.size ELSE cleaned.size + Len(new)
        BY <1>2, <1>10 DEF append
    <2>2. s = new
        BY <1>10 DEF s
    <2>3. hDb \in SUBSET HEntries /\ IsFiniteSet(hDb) /\ hSize \in Int /\ hDb \subseteq Logged(hBlocks)
        BY <1>6 DEF HInv
    <2>4. cleaned.db \subseteq hDb /\ cleaned.size \in Int /\ (VersionsGrow(hDb) => NewestOf(cleaned.db, hDb))
        <3>1. CASE hSize < HMaxSize
            <4>1. cleaned.db = hDb /\ cleaned.size = hSize
                BY <3>1
            <4> HIDE DEF cleaned
            <4> QED  BY <2>3, <4>1 DEF NewestOf
        <3>2. CASE ~(hSize < HMaxSize)
            <4>1. cleaned = cleanBySize(hDb, hSize)
                BY <3>2
            <4> HIDE DEF cleaned
            <4> QED  BY <2>3, <4>1, CleaningKeeps
        <3> QED  BY <3>1, <3>2
    <2> HIDE DEF cleaned
    <2>5. Len(new) = n /\ DOMAIN new = 1 .. n /\ \A k \in 1 .. n : new[k].iid = changes[k].iid /\ new[k].ver = st.vers[k]
        BY <1>7 DEF AreEntries
    <2>6. IsFiniteSet(ToSet(new)) /\ IsFiniteSet(cleaned.db)
        <3>1. ToSet(new) = {new[k] : k \in 1 .. n}
            BY <2>5 DEF ToSet
        <3>2. IsFiniteSet(1 .. n)
            BY <1>3, FS_Interval
        <3>3. new \in [1 .. n -> HEntries]
            BY <1>7 DEF AreEntries
        <3>4. new \in Surjection(1 .. n, {new[k] : k \in 1 .. n})
            BY <3>3 DEF Surjection
        <3>5. IsFiniteSet({new[k] : k \in 1 .. n})
            BY <3>2, <3>4, FS_Surjection
        <3> QED  BY <2>3, <2>4, <3>1, <3>5, FS_Subset
    <2>7. IsFiniteSet(cleaned.db \union ToSet(new))
        BY <2>6, FS_Union
    <2>8. hDb' \subseteq Logged(more)
        BY <1>6, <2>1, <2>2, <2>3, <2>4
    <2>9. hSize' \in Int /\ IsFiniteSet(hDb') /\ hPanic' \in BOOLEAN
        <3>1. cleaned.size + Len(new) \in Int
            BY <1>3, <2>4, <2>5
        <3> HIDE DEF twice
        <3>2. hSize' \in Int /\ IsFiniteSet(hDb')
            BY <2>1, <2>4, <2>6, <2>7, <3>1
        <3>3. hPanic' \in BOOLEAN
            BY <2>1, Zenon DEF twice
        <3> QED  BY <3>2, <3>3
    <2>10. ASSUME ~hRecreated' PROVE ~hPanic' /\ NewestOf(hDb', Logged(more))
        <3>1. ~hRecreated /\ DidGrow(changes, n, st)
            BY <1>4, <1>8, <2>10
        <3>2. ~twice
            <4> SUFFICES ASSUME NEW j \in 1 .. n, NEW k \in 1 .. n, j # k, SameKey(new[j], new[k]) PROVE FALSE
                BY <2>5
            <4>1. changes[j].iid = changes[k].iid /\ st.vers[j] = st.vers[k]
                BY <2>5 DEF SameKey
            <4>2. st.vers[j] \in Int /\ st.vers[k] \in Int
                BY <1>4, <1>3 DEF Did
            <4>3. j < k \/ k < j
                OBVIOUS
            <4> QED  BY <3>1, <4>1, <4>2, <4>3 DEF DidGrow
        <3> HIDE DEF twice
        <3>3. hDb' = cleaned.db \union ToSet(new) /\ ~hPanic'
            BY <2>1, <3>2
        <3>4. VersionsGrow(Logged(hBlocks)) /\ NewestOf(hDb, Logged(hBlocks))
            BY <3>1 DEF HInv
        <3>5. VersionsGrow(hDb)
            BY <2>3, <3>4 DEF VersionsGrow
        <3>6. NewestOf(cleaned.db, hDb)
            BY <2>4, <3>5
        <3>7. ASSUME NEW d \in hDb', NEW e \in Logged(more), e.idx >= d.idx PROVE e \in hDb'
            <4>1. CASE e \in ToSet(new)
                BY <3>3, <4>1
            <4>2. CASE e \in Logged(hBlocks)
                <5>1. e.idx \in Nat /\ e.idx <= hIndex /\ hIndex \in Nat
                    BY <1>6, <4>2 DEF HEntries, HInv
                <5>2. d \notin ToSet(new)
                    BY <1>6, <2>2, <3>7, <5>1
                <5>3. d \in cleaned.db /\ d \in hDb
                    BY <2>4, <3>3, <5>2
                <5>4. e \in hDb
                    BY <3>4, <3>7, <4>2, <5>3 DEF NewestOf
                <5>5. e \in cleaned.db
                    BY <3>6, <3>7, <5>3, <5>4 DEF NewestOf
                <5> QED  BY <3>3, <5>5
            <4> QED  BY <1>6, <2>2, <4>1, <4>2
        <3> QED  BY <3>3, <3>7 DEF NewestOf
    <2> QED  BY <2>8, <2>9, <2>10
<1>11. Rest
    BY <1>9, <1>10
<1>12. ~hRecreated' => VersionsGrow(Logged(more)) /\ NotBehind(st.live, Logged(more))
    BY <1>4, <1>6, <1>8
<1> QED  BY <1>1, <1>6, <1>8, <1>11, <1>12 DEF HInv, B
LEMMA HBegins ==
    ASSUME HInit
    PROVE  HInv
<1>1. Logged(hBlocks) = {} /\ hBlocks \in Seq(Seq(HEntries)) /\ Len(hBlocks) = 0
    BY DEF HInit, Logged, ToSet
<1>2. HMaxIndex \in Nat /\ HMaxChanges \in Nat
    BY HistoryAssumption
<1>3. 0 * HMaxChanges = 0
    BY <1>2
<1>4. hLive \in [HInstances -> Absent .. hIndex * HMaxChanges]
    BY <1>3 DEF HInit, Absent
<1>5. IsFiniteSet(hDb)
    BY FS_EmptySet DEF HInit
<1>6. hIndex = 0 /\ hSize = 0 /\ hPanic = FALSE /\ hRecreated = FALSE /\ hDb = {}
    BY DEF HInit
<1>7. InPlace(hBlocks) /\ VersionsGrow(Logged(hBlocks)) /\ NotBehind(hLive, Logged(hBlocks)) /\ NewestOf(hDb, Logged(hBlocks))
    BY <1>1, <1>6 DEF InPlace, VersionsGrow, NotBehind, NewestOf
<1>8. hIndex \in 0 .. HMaxIndex /\ hSize \in Int /\ \A b \in 1 .. hIndex : FALSE
    BY <1>2, <1>6
<1>9. \A e \in Logged(hBlocks) : FALSE
    BY <1>1
<1> QED  BY <1>1, <1>4, <1>5, <1>6, <1>7, <1>8, <1>9 DEF HInv
LEMMA HStays ==
    ASSUME HInv, HNext \/ UNCHANGED hVars
    PROVE  HInv'
<1>1. CASE UNCHANGED hVars
    BY <1>1 DEF hVars, HInv
<1>2. CASE \E n \in 1 .. HMaxChanges : \E changes \in [1 .. n -> HChange], crash \in BOOLEAN : Block(changes, crash)
    BY <1>2, HBlock
<1>3. CASE Restart
    <2>1. hPanic' = FALSE /\ hSize' \in Int /\ UNCHANGED <<hLive, hIndex, hDb, hBlocks, hRecreated>>
        BY <1>3 DEF Restart
    <2>2. ~hPanic' /\ hPanic' \in BOOLEAN
        BY <2>1, Zenon
    <2> QED  BY <2>1, <2>2 DEF HInv
<1>4. CASE ReadSize
    BY <1>4 DEF ReadSize, HInv
<1>5. CASE AddSize
    <2>1. PICK n \in 0 .. HMaxIndex * HMaxChanges : hSize' = hSize + n
        BY <1>5 DEF AddSize
    <2>2. hSize' \in Int
        BY <2>1 DEF HInv
    <2> QED  BY <1>5, <2>2 DEF AddSize, HInv
<1> QED  BY <1>1, <1>2, <1>3, <1>4, <1>5 DEF HNext
LEMMA HShows ==
    ASSUME HInv
    PROVE  HTypeOK /\ HistoryWhole
<1> DEFINE All == Logged(hBlocks)
<1>1. hIndex \in Nat /\ HMaxIndex \in Nat /\ HMaxChanges \in Nat /\ hIndex <= HMaxIndex
    BY HistoryAssumption DEF HInv
<1>2. HTypeOK
    <2> DEFINE A == hIndex * HMaxChanges
               B == HMaxIndex * HMaxChanges
    <2>1. A \in Nat /\ B \in Nat /\ A <= B
        BY <1>1, TimesGrows
    <2>2. hLive \in [HInstances -> Absent .. A]
        BY DEF HInv
    <2> HIDE DEF A, B
    <2>3. hLive \in [HInstances -> Absent .. B]
        BY <2>1, <2>2 DEF Absent
    <2> QED  BY <2>3 DEF B, HTypeOK, HInv
<1>3. ASSUME ~hRecreated PROVE HistoryWhole
    <2>1. ~hPanic /\ VersionsGrow(All) /\ NewestOf(hDb, All) /\ hDb \subseteq All
        BY <1>3 DEF HInv
    <2>2. \A e \in All : e \in HEntries /\ e.ver \in Nat /\ e.idx \in Nat /\ e.tx \in Nat /\ e = hBlocks[e.idx][e.tx] /\ e.idx \in 1 .. hIndex
                         /\ e.tx \in 1 .. Len(hBlocks[e.idx])
        BY DEF HInv, InPlace, HEntries
    <2>3. ASSUME NEW b \in 1 .. hIndex, NEW e PROVE e \in ToSet(hBlocks[b]) <=> e \in All /\ e.idx = b
        <3>1. hBlocks \in Seq(Seq(HEntries)) /\ Len(hBlocks) = hIndex /\ hBlocks[b] \in Seq(HEntries)
            BY DEF HInv
        <3>2. e \in ToSet(hBlocks[b]) <=> \E k \in 1 .. Len(hBlocks[b]) : e = hBlocks[b][k]
            BY <3>1 DEF ToSet
        <3>3. \A x : x \in Logged(hBlocks) <=> AtPlace(hBlocks, x)
            BY <3>1, LoggedOf
        <3>4. e \in All <=> \E c \in 1 .. Len(hBlocks) : \E k \in 1 .. Len(hBlocks[c]) : e = hBlocks[c][k]
            BY <3>3 DEF AtPlace
        <3>5. \A k \in 1 .. Len(hBlocks[b]) : hBlocks[b][k].idx = b
            BY DEF HInv
        <3>6. ASSUME e \in All, e.idx = b PROVE e \in ToSet(hBlocks[b])
            BY <2>2, <3>2, <3>6
        <3> QED  BY <3>1, <3>2, <3>4, <3>5, <3>6
    <2> HIDE DEF All
    <2>4. ASSUME NEW b \in 1 .. hIndex, NEW d \in hDb, NEW c \in 1 .. hIndex, d.idx = b, b <= c PROVE getByBlock(c) = ToSet(hBlocks[c])
        <3>1. ASSUME NEW e \in All, e.idx = c PROVE e \in hDb
            BY <2>1, <2>4, <3>1 DEF NewestOf
        <3> QED  BY <2>1, <2>3, <3>1 DEF getByBlock
    <2>5. \A b \in 1 .. hIndex : getByBlock(b) \in {{}, ToSet(hBlocks[b])}
        <3> TAKE b \in 1 .. hIndex
        <3>1. CASE getByBlock(b) = {}
            BY <3>1
        <3>2. CASE getByBlock(b) # {}
            <4>1. PICK d \in hDb : d.idx = b
                BY <3>2 DEF getByBlock
            <4> QED  BY <1>1, <2>4, <4>1
        <3> QED  BY <3>1, <3>2
    <2>6. \A b, c \in 1 .. hIndex : b < c /\ getByBlock(b) # {} => getByBlock(c) = ToSet(hBlocks[c])
        <3> SUFFICES ASSUME NEW b \in 1 .. hIndex, NEW c \in 1 .. hIndex, b < c, getByBlock(b) # {} PROVE getByBlock(c) = ToSet(hBlocks[c])
            OBVIOUS
        <3>1. PICK d \in hDb : d.idx = b
            BY DEF getByBlock
        <3> QED  BY <2>4, <3>1
    <2>7. ASSUME NEW d \in All, NEW e \in All, d.iid = e.iid, KeyBefore(d, e) PROVE d.idx <= e.idx
        <3>1. e.idx < d.idx => e.ver < d.ver
            BY <2>1, <2>7 DEF VersionsGrow, Earlier
        <3>2. d.ver \in Nat /\ e.ver \in Nat /\ d.idx \in Nat /\ e.idx \in Nat
            BY <2>2
        <3> QED  BY <2>7, <3>1, <3>2 DEF KeyBefore
    <2>8. ASSUME NEW d \in All, NEW e \in All, d.iid = e.iid, d.ver = e.ver PROVE d = e
        <3>1. ~Earlier(d, e) /\ ~Earlier(e, d)
            BY <2>1, <2>2, <2>8 DEF VersionsGrow
        <3>2. d.idx = e.idx /\ d.tx = e.tx
            BY <2>2, <2>8, <3>1 DEF Earlier
        <3> QED  BY <2>2, <3>2
    <2>9. ASSUME NEW i \in Stored(hDb)
          PROVE  /\ \A d, e \in getAll(i) : KeyBefore(d, e) => d.idx <= e.idx
                 /\ \A e \in getAll(i) : getByVersion(i, e.ver) = e
                 /\ \A e \in getAll(i) : e.idx <= getLast(i).idx
        <3> DEFINE own == getAll(i)
        <3>1. own # {} /\ own \subseteq All /\ \A e \in own : e.iid = i /\ e.ver \in Nat /\ e.idx \in Nat
            BY <2>1, <2>2 DEF getAll, OfInstance, Stored
        <3>2. \A d, e \in own : KeyBefore(d, e) => d.idx <= e.idx
            <4> HIDE DEF own
            <4> QED  BY <2>7, <3>1
        <3>3. ASSUME NEW e \in own PROVE getByVersion(i, e.ver) = e
            <4> DEFINE same == {d \in own : d.ver = e.ver}
            <4>1. getByVersion(i, e.ver) = FirstKey(same)
                BY DEF getByVersion
            <4> HIDE DEF own
            <4>2. same = {e}
                BY <2>8, <3>1, <3>3
            <4>3. KeyBefore(e, e)
                BY <3>1, <3>3 DEF KeyBefore
            <4> HIDE DEF same
            <4> QED  BY <4>1, <4>2, <4>3 DEF FirstKey
        <3>4. ASSUME NEW e \in own PROVE e.idx <= getLast(i).idx
            <4> DEFINE vers == {x.ver : x \in own}
                       K == hIndex * HMaxChanges
                       l == LastKey(own)
            <4>1. K \in Nat /\ \A x \in own : x.ver <= K
                <5>1. \A x \in All : x.ver <= K
                    BY DEF HInv, All
                <5> HIDE DEF own
                <5> QED  BY <1>1, <3>1, <5>1
            <4>2. getLast(i) = l
                BY DEF getLast
            <4> HIDE DEF own, K
            <4>3. vers \in SUBSET Nat /\ vers # {} /\ \A v \in vers : v <= K
                BY <3>1, <4>1
            <4>4. PICK v \in vers : \A y \in vers : y <= v
                <5> HIDE DEF vers
                <5> QED  BY <4>1, <4>3, LargestNat
            <4>5. PICK x \in own : x.ver = v
                BY <4>4
            <4>6. ASSUME NEW d \in own PROVE KeyBefore(d, x)
                <5>1. d.ver <= x.ver /\ d.iid = x.iid /\ d.ver \in Nat /\ x.ver \in Nat /\ d.idx \in Nat /\ x.idx \in Nat
                    BY <3>1, <4>4, <4>5
                <5>2. d.ver = x.ver => d = x
                    BY <2>8, <3>1, <4>5
                <5> QED  BY <5>1, <5>2 DEF KeyBefore
            <4>7. l \in own /\ \A d \in own : KeyBefore(d, l)
                BY <4>5, <4>6 DEF LastKey
            <4> HIDE DEF l
            <4> QED  BY <3>2, <3>4, <4>2, <4>7
        <3> QED  BY <3>2, <3>3, <3>4
    <2> QED  BY <2>1, <2>5, <2>6, <2>9 DEF HistoryWhole
<1>4. CASE hRecreated
    BY <1>2, <1>4 DEF HistoryWhole
<1> QED  BY <1>2, <1>3, <1>4

-----------------------------------------------------------------------------
(* The five parts together.                                                *)
ServicesInv ==
    /\ active \in {"proofs", "history", "eventlog", "bypros", "personhood"}
    /\ active = "proofs" => PInv
    /\ active = "history" => HInv
    /\ active = "eventlog" => ElInv
    /\ active = "bypros" => BpInv
    /\ active = "personhood" => PhInv
LEMMA ServicesBegin == ServicesInit => ServicesInv
BY PBegins, HBegins, ElBegins, BpBegins, PhBegins DEF ServicesInit, ServicesInv
LEMMA ServicesStep == ServicesInv /\ [ServicesNext]_ServicesVars => ServicesInv'
<1> SUFFICES ASSUME ServicesInv, [ServicesNext]_ServicesVars PROVE ServicesInv'
    OBVIOUS
<1>1. active' = active
    BY DEF ServicesNext, ServicesVars
<1>2. CASE active = "proofs"
    <2>1. PInv /\ (PNext \/ UNCHANGED pVars)
        BY <1>2 DEF ServicesInv, ServicesNext, ServicesVars
    <2>2. PInv'
        BY <2>1, PStays
    <2> QED  BY <1>1, <1>2, <2>2 DEF ServicesInv
<1>3. CASE active = "history"
    <2>1. HInv /\ (HNext \/ UNCHANGED hVars)
        BY <1>3 DEF ServicesInv, ServicesNext, ServicesVars
    <2>2. HInv'
        BY <2>1, HStays
    <2> QED  BY <1>1, <1>3, <2>2 DEF ServicesInv
<1>4. CASE active = "eventlog"
    <2>1. ElInv /\ (ElNext \/ UNCHANGED elVars)
        BY <1>4 DEF ServicesInv, ServicesNext, ServicesVars
    <2>2. ElInv'
        BY <2>1, ElStays
    <2> QED  BY <1>1, <1>4, <2>2 DEF ServicesInv
<1>5. CASE active = "bypros"
    <2>1. BpInv /\ (BpNext \/ UNCHANGED bpVars)
        BY <1>5 DEF ServicesInv, ServicesNext, ServicesVars
    <2>2. BpInv'
        BY <2>1, BpStays
    <2> QED  BY <1>1, <1>5, <2>2 DEF ServicesInv
<1>6. CASE active = "personhood"
    <2>1. PhInv /\ (PhNext \/ UNCHANGED phVars)
        BY <1>6 DEF ServicesInv, ServicesNext, ServicesVars
    <2>2. PhInv'
        BY <2>1, PhStays
    <2> QED  BY <1>1, <1>6, <2>2 DEF ServicesInv
<1> QED  BY <1>2, <1>3, <1>4, <1>5, <1>6 DEF ServicesInv
LEMMA ServicesShow == ServicesInv => ServicesTypeOK /\ AnswersRight /\ ServicesRight
BY PShows, HShows, ElShows, BpShows, PhShows DEF ServicesInv, ServicesTypeOK, AnswersRight, ServicesRight
LEMMA ServicesAlways == ServicesSpec => []ServicesInv
BY ServicesBegin, ServicesStep, PTL DEF ServicesSpec

(* The variables of each part keep their types.                            *)
THEOREM ServicesTyped == ServicesSpec => []ServicesTypeOK
BY ServicesAlways, ServicesShow, PTL

(* For any nodes, rosters, blocks and spans of the links: a proof that a   *)
(* node serves from whatever blocks and links it holds verifies, a node    *)
(* that knows the chain serves one, and a client that waits for a block    *)
(* returns when all that answered have it.  For any instances, sizes and   *)
(* blocks, crashes and miscounts: as long as no instance is created again, *)
(* the history has whole blocks, the newest ones, in the order of the      *)
(* versions, and append does not stop the node (byzcoin/proof.go, api.go,  *)
(* struct.go).                                                             *)
THEOREM AnswersAlwaysRight == ServicesSpec => []AnswersRight
BY ServicesAlways, ServicesShow, PTL

(* For any events, buckets, blocks, pages, accounts and organizers: the    *)
(* event log finds and streams what was logged, the proxy that catches up  *)
(* leaves no hole, and the personhood contracts account for every coin     *)
(* and every organizer (eventlog, bypros, personhood/contracts).           *)
THEOREM ServicesAlwaysRight == ServicesSpec => []ServicesRight
BY ServicesAlways, ServicesShow, PTL
=============================================================================
