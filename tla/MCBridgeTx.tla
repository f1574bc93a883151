----------------------------- MODULE MCBridgeTx -----------------------------
(* Constants for model checking BridgeTx.                                  *)
EXTENDS BridgeTxLedger, TLC

\* Every setting of the proxies; and both of them or none.
AnyProxies == BOOLEAN \X BOOLEAN
BothProxies == {<<TRUE, TRUE>>, <<FALSE, FALSE>>}

\* One token is like another: no run names a particular one.
TokenSymmetry == Permutations(Tokens)
=============================================================================
