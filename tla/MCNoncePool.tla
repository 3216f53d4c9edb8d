---------------------------- MODULE MCNoncePool ----------------------------
(***************************************************************************)
(* Two nonce accounts, configured once each or one of them twice, and a     *)
(* burst of trades.                                                         *)
(***************************************************************************)
EXTENDS NoncePool

CONSTANTS n1, n2

MCConfigured == {<<n1>>, <<n1, n2>>, <<n1, n1>>}
=============================================================================
