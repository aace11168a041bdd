---------------------------- MODULE MCJupiterBook ----------------------------
(* Model checking of JupiterBook: two calls on one server, the reconcile on *)
(* another.                                                                 *)
EXTENDS JupiterBook, TLC

CONSTANTS t1, t2, w1, api, engine

MCDoes == [p \in Traders |-> IF p = t1 THEN {"buy"} ELSE {"buy", "sell", "skim", "sellOpen"}]
MCHome == [p \in Procs |-> IF p = w1 THEN engine ELSE api]
=============================================================================
