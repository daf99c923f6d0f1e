---------------------------- MODULE MCTxPipeline ----------------------------
(* Instances of TxPipeline: t2 builds on t1, and c changes the roster.     *)
EXTENDS TxPipeline

CONSTANTS t1, t2, c

MCAfter  == [t \in Tx |-> IF t = t2 THEN {t1} ELSE {}]
MCWeight == [t \in Tx |-> IF t = c THEN 2 ELSE 1]
=============================================================================
