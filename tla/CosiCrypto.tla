------------------------------ MODULE CosiCrypto ------------------------------
(***************************************************************************)
(* The arithmetic of a collective Schnorr signature, up to independence of *)
(* the secrets.  A commitment, a response and an aggregated public key are *)
(* sums of contributions of the signers, so each is how often every signer *)
(* is contained in it.  A signature verifies if commitment, response and   *)
(* public key agree on that.                                               *)
(***************************************************************************)
EXTENDS Integers, FiniteSets, FiniteSetsExt

Null(signers) == [n \in signers |-> 0]
Own(signers, n) == [k \in signers |-> IF k = n THEN 1 ELSE 0]
Plus(a, b) == [n \in DOMAIN a |-> a[n] + b[n]]
Minus(a, b) == [n \in DOMAIN a |-> a[n] - b[n]]

\* The own contribution of n and the ones below it, of a set of terms.
\* Commit and Response of the tree add up in the same way.
Aggregate(signers, n, terms) ==
    [k \in signers |-> Own(signers, n)[k] + MapThenSumSet(LAMBDA t : t.sum[k], terms)]

\* Aggregated public key without the signers that the mask disables.
AggPublic(signers, disabled) == [n \in signers |-> IF n \in disabled THEN 0 ELSE 1]

VerifySignature(signers, sig) == sig.commit = sig.response /\ sig.response = AggPublic(signers, sig.mask)
=============================================================================
