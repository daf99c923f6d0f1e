--------------------------------- MODULE Darc ---------------------------------
(***************************************************************************)
(* Access control by darcs.  A darc maps actions to expressions over keys  *)
(* and other darcs; an expression that names a darc holds when the _sign   *)
(* expression of its latest version does.  Darcs are spawned and evolved   *)
(* by transactions that clients prepare from the version they read, and    *)
(* the configuration contract rewrites one rule of the genesis darc.       *)
(*                                                                         *)
(* A digest is the tuple that is hashed.  The darc instances have names;   *)
(* dBirth holds the digest under which an instance was created.            *)
(***************************************************************************)
EXTENDS Integers, FiniteSets, Sequences, FiniteSetsExt, SequencesExt

CONSTANTS DKeys,       \* identities with a key pair
          DNames,      \* darc instances, the genesis darc among them
          DGenesis,
          DGenesisRules,
          DSigners,    \* sets of keys that sign a transaction
          DRules,      \* the rules clients give to new darcs and versions
          DMaxVersion, DMaxPending

ASSUME DarcAssumption ==
    /\ DGenesis \in DNames /\ DSigners \subseteq SUBSET DKeys /\ DMaxVersion \in Nat /\ DMaxPending \in Nat

(* Expressions are sequences of [op, term]; the first op is not looked at. *)
IdTerm(id) == [kind |-> "id", id |-> id]
ThresholdTerm(num, den, ids) == [kind |-> "threshold", num |-> num, den |-> den, ids |-> ids]
GroupTerm(e) == [kind |-> "group", expr |-> e]
ExprOf(term) == <<[op |-> "and", term |-> term]>>
InitAndExpr(terms) == [i \in DOMAIN terms |-> [op |-> "and", term |-> terms[i]]]
InitOrExpr(terms) == [i \in DOMAIN terms |-> [op |-> "or", term |-> terms[i]]]

VARIABLES dDarcs,    \* latest version of every instance
          dBirth,    \* ID at the time of the spawn
          dFree,     \* instances that had an unrestricted evolution
          dPending   \* prepared and signed transactions

dVars == <<dDarcs, dBirth, dFree, dPending>>
NoDarc == << >>

GetID(d) == <<d.version, d.base, d.prev, d.rules>>
GetBaseID(d) == IF d.version = 0 THEN GetID(d) ELSE d.base
NewDarc(rules) == [version |-> 0, base |-> NoDarc, prev |-> NoDarc, rules |-> rules]
EvolveFrom(prev, rules) ==
    [version |-> prev.version + 1, base |-> GetBaseID(prev), prev |-> GetID(prev), rules |-> rules]
HasRule(d, action) == action \in DOMAIN d.rules
getDarc(id) == dDarcs[id]

-----------------------------------------------------------------------------
(* Evaluation of an expression for a set of identities that signed.        *)
RECURSIVE evalExprDarc(_, _, _)

\* A darc is looked into unless it is already being looked into.
evalDelegation(visited, id, ids) ==
    /\ id \notin visited /\ getDarc(id) # NoDarc /\ HasRule(getDarc(id), "_sign")
    /\ evalExprDarc(visited \union {id}, getDarc(id).rules["_sign"], ids)
\* Mutant: one missing identity is tolerated.
AlmostThreshold(num, den, valid, uniq) == den * (valid + 1) >= num * uniq
ReachesThreshold(num, den, valid, uniq) == den * valid >= num * uniq
\* A darc that is already being looked into fails the whole threshold.
evalThreshold(visited, t, ids) ==
    LET valid == {id \in t.ids : IF id \in DNames THEN evalDelegation(visited, id, ids) ELSE id \in ids}
    IN  /\ t.ids \intersect visited = {}
        /\ ReachesThreshold(t.num, t.den, Cardinality(valid), Max({1, Cardinality(t.ids)}))
evalTerm(visited, term, ids) ==
    CASE term.kind = "group" -> evalExprDarc(visited, term.expr, ids)
      [] term.kind = "threshold" -> evalThreshold(visited, term, ids)
      [] OTHER -> IF term.id \in DNames THEN evalDelegation(visited, term.id, ids) ELSE term.id \in ids
\* sumNode: operators are applied from left to right.
evalExprDarc(visited, expr, ids) ==
    FoldLeft(LAMBDA val, x : IF x.op = "and" THEN val /\ evalTerm(visited, x.term, ids)
                             ELSE val \/ evalTerm(visited, x.term, ids),
             evalTerm(visited, expr[1].term, ids), Tail(expr))
EvalExpr(expr, ids) == evalExprDarc({}, expr, ids)

\* Instruction.Verify, without the counters: the action exists and the
\* identities with a good signature satisfy its expression.
Authorized(name, action, ids) ==
    /\ getDarc(name) # NoDarc /\ ids # {}
    /\ HasRule(getDarc(name), action)
    /\ EvalExpr(getDarc(name).rules[action], ids)

-----------------------------------------------------------------------------
(* The secure darc contract and the configuration contract.                *)
SanityCheck(d, prev) ==
    /\ GetBaseID(d) = GetBaseID(prev) /\ d.version = prev.version + 1 /\ d.prev = GetID(prev)
Get(d, action) == IF HasRule(d, action) THEN d.rules[action] ELSE << >>
isChangingEvolveUnrestricted(old, new) == Get(old, "evolve_unrestricted") # Get(new, "evolve_unrestricted")
IsSubset(new, old) == DOMAIN new.rules \subseteq DOMAIN old.rules
isGenesis(old) == dBirth[DGenesis] = GetBaseID(old)

DInit ==
    /\ dDarcs = [n \in DNames |-> IF n = DGenesis THEN NewDarc(DGenesisRules) ELSE NoDarc]
    /\ dBirth = [n \in DNames |-> IF n = DGenesis THEN GetID(NewDarc(DGenesisRules)) ELSE NoDarc]
    /\ dFree = {} /\ dPending = {}

\* A client knows the IDs of darcs that exist.
RECURSIVE Mentions(_)
Mentions(expr) ==
    UNION {CASE t.kind = "group" -> Mentions(t.expr)
             [] t.kind = "threshold" -> t.ids \intersect DNames
             [] OTHER -> {t.id} \intersect DNames : t \in {expr[i].term : i \in DOMAIN expr}}
Known(rules) == UNION {Mentions(rules[a]) : a \in DOMAIN rules}

\* MakeEvolveRequest and FillSignersAndSignWith of a client.
Prepare(n, command, rules, ids) ==
    /\ getDarc(n) # NoDarc /\ getDarc(n).version < DMaxVersion
    /\ \A k \in Known(rules) : getDarc(k) # NoDarc
    /\ Cardinality(dPending) < DMaxPending
    /\ dPending' = dPending \union
           {[inst |-> n, command |-> command, darc |-> EvolveFrom(getDarc(n), rules), ids |-> ids]}
    /\ UNCHANGED <<dDarcs, dBirth, dFree>>

Spawn(n, rules, ids) ==
    /\ \A k \in Known(rules) : getDarc(k) # NoDarc
    /\ getDarc(n) = NoDarc /\ Authorized(DGenesis, "spawn:darc", ids)
    /\ dDarcs' = [dDarcs EXCEPT ![n] = NewDarc(rules)]
    /\ dBirth' = [dBirth EXCEPT ![n] = GetID(NewDarc(rules))]
    /\ UNCHANGED <<dFree, dPending>>

EvolveAccepted(tx) ==
    LET old == getDarc(tx.inst)
    IN  /\ Authorized(tx.inst, tx.command, tx.ids)
        /\ SanityCheck(tx.darc, old)
        /\ tx.command = "evolve" =>
              /\ ~isChangingEvolveUnrestricted(old, tx.darc)
              /\ ~isGenesis(old) => IsSubset(tx.darc, old)
Evolve(tx) ==
    /\ dPending' = dPending \ {tx}
    /\ IF EvolveAccepted(tx)
       THEN /\ dDarcs' = [dDarcs EXCEPT ![tx.inst] = tx.darc]
            /\ dFree' = IF tx.command = "evolve" THEN dFree ELSE dFree \union {tx.inst}
       ELSE UNCHANGED <<dDarcs, dFree>>
    /\ UNCHANGED dBirth

\* UpdateRule does nothing if the rule is not there.
UpdateConfig(roster, ids) ==
    /\ Authorized(DGenesis, "update_config", ids) /\ HasRule(getDarc(DGenesis), "view_change")
    /\ dDarcs' = [dDarcs EXCEPT ![DGenesis].rules["view_change"] =
                      InitOrExpr([i \in DOMAIN roster |-> IdTerm(roster[i])])]
    /\ UNCHANGED <<dBirth, dFree, dPending>>

DNext ==
    \/ \E n \in DNames, command \in {"evolve", "evolve_unrestricted"}, rules \in DRules, ids \in DSigners :
           Prepare(n, command, rules, ids)
    \/ \E n \in DNames, rules \in DRules, ids \in DSigners : Spawn(n, rules, ids)
    \/ \E tx \in dPending : Evolve(tx)
    \/ \E roster \in {SetToSeq(DKeys)}, ids \in DSigners : UpdateConfig(roster, ids)

-----------------------------------------------------------------------------
DTypeOK ==
    /\ \A n \in DNames : dDarcs[n] # NoDarc => /\ dDarcs[n].version \in 0 .. DMaxVersion
                                               /\ dBirth[n] # NoDarc
    /\ dFree \subseteq DNames /\ Cardinality(dPending) <= DMaxPending

(* Reference: the darcs whose _sign holds are the least set closed under   *)
(* evaluation, where a darc in an expression stands for membership.        *)
RECURSIVE Holds(_, _, _)
HoldsTerm(term, ids, signing) ==
    CASE term.kind = "group" -> Holds(term.expr, ids, signing)
      [] term.kind = "threshold" ->
             term.den * Cardinality(term.ids \intersect (ids \union signing)) >= term.num * Max({1, Cardinality(term.ids)})
      [] OTHER -> term.id \in ids \union signing
Holds(expr, ids, signing) ==
    FoldLeft(LAMBDA val, x : IF x.op = "and" THEN val /\ HoldsTerm(x.term, ids, signing)
                             ELSE val \/ HoldsTerm(x.term, ids, signing),
             HoldsTerm(expr[1].term, ids, signing), Tail(expr))
Live == {n \in DNames : dDarcs[n] # NoDarc /\ HasRule(dDarcs[n], "_sign")}
SigningDarcs(ids) ==
    FoldSet(LAMBDA k, s : {n \in Live : Holds(dDarcs[n].rules["_sign"], ids, s)}, {}, 0 .. Cardinality(DNames))
Reachable(expr) ==
    FoldSet(LAMBDA k, s : s \union UNION {Mentions(dDarcs[n].rules["_sign"]) : n \in s \intersect Live},
            Mentions(expr), 0 .. Cardinality(DNames))
Cyclic(expr) == \E n \in Reachable(expr) \intersect Live : n \in Reachable(dDarcs[n].rules["_sign"])

(* Whoever satisfies an expression by delegation through any chain or       *)
(* diamond of darcs is accepted, whoever does not is refused, also when      *)
(* evolutions have made darcs refer to each other; only a threshold inside   *)
(* a cycle may refuse more (evalExprDarc, evalThreshold).                    *)
EvalExprSound ==
    \A n \in {n \in DNames : dDarcs[n] # NoDarc} : \A a \in DOMAIN dDarcs[n].rules : \A ids \in SUBSET DKeys :
        LET expr == dDarcs[n].rules[a]
        IN  /\ EvalExpr(expr, ids) => Holds(expr, ids, SigningDarcs(ids))
            /\ ~Cyclic(expr) /\ Holds(expr, ids, SigningDarcs(ids)) => EvalExpr(expr, ids)

(* Without an unrestricted evolution a darc never gets an action it was not  *)
(* born with, nor another right to unrestricted evolutions, whatever is      *)
(* evolved by whom and in which order (contractSecureDarc.Invoke).           *)
NoPowerGained ==
    \A n \in DNames \ dFree : dDarcs[n] # NoDarc =>
        LET born == dBirth[n][4]
        IN  /\ Get(dDarcs[n], "evolve_unrestricted") =
                   (IF "evolve_unrestricted" \in DOMAIN born THEN born["evolve_unrestricted"] ELSE << >>)
            /\ n # DGenesis => DOMAIN dDarcs[n].rules \subseteq DOMAIN born

(* The subset rule of evolve is for darcs other than the genesis darc: the   *)
(* genesis darc is recognised as such (contract_darc.go).                    *)
GenesisRecognised == isGenesis(getDarc(DGenesis))

(* In an expression "a & b | c" the first operand is needed and one of the   *)
(* two others (package documentation of darc).                               *)
DocumentedPrecedence ==
    \A n \in {n \in DNames : dDarcs[n] # NoDarc} : \A a \in DOMAIN dDarcs[n].rules : \A ids \in SUBSET DKeys :
        LET expr == dDarcs[n].rules[a]
        IN  (Len(expr) = 3 /\ expr[2].op = "and" /\ expr[3].op = "or" /\ EvalExpr(expr, ids))
                => EvalExpr(SubSeq(expr, 1, 1), ids)
=============================================================================
