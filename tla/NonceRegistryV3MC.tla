-------------------------- MODULE NonceRegistryV3MC --------------------------
(* Two senders and two callers: one has two transactions of a1 with one of  *)
(* a2 in between, the other one of a1 and then one that cannot be parsed.   *)
EXTENDS NonceRegistryV3, TLC

CONSTANTS a1, a2, c1, c2

MCTxsOf == (c1 :> <<a1, a2, a1>>) @@ (c2 :> <<a1, Invalid>>)
==============================================================================
