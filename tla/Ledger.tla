-------------------------------- MODULE Ledger --------------------------------
(* What a skipchain promises (skipchain/README.md): one sequence of blocks that *)
(* only grows at its end, of which every node knows a beginning. A block is     *)
(* added by a node that knows all blocks before it.                             *)
EXTENDS Naturals, Sequences

CONSTANTS Node, Value

VARIABLES
    ledger,  \* the blocks, in the order in which they were added
    view     \* view[n]: the blocks that node n knows

vars == <<ledger, view>>

Init ==
    /\ ledger = <<>>
    /\ view = [n \in Node |-> <<>>]

Add(n, v) ==
    /\ view[n] = ledger
    /\ ledger' = Append(ledger, v)
    /\ view' = [view EXCEPT ![n] = ledger']

Learn(n) ==
    /\ \E k \in (Len(view[n]) + 1)..Len(ledger) :
          view' = [view EXCEPT ![n] = SubSeq(ledger, 1, k)]
    /\ UNCHANGED ledger

Next == \E n \in Node : Learn(n) \/ \E v \in Value : Add(n, v)

Spec == Init /\ [][Next]_vars
=============================================================================
