---------------------------- MODULE MCCrossChain ----------------------------
(* Model checking of CrossChainTransfer. *)
EXTENDS CrossChainTransfer, TLC

\* Transactions are interchangeable, and so are the retrying processes.
Symmetric == Permutations(TxIds) \cup Permutations(Workers)
=============================================================================
