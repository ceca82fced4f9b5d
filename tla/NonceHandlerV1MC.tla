-------------------------- MODULE NonceHandlerV1MC --------------------------
(* Small instances of NonceHandlerV1; t1 and t2 have the same payload.     *)
EXTENDS NonceHandlerV1, TLC

CONSTANTS t1, t2, t3

TwoAlike == [t \in Txs |-> IF t \in {t1, t2} THEN "same" ELSE "other"]

AlikeSymmetry == Permutations({t1, t2})
=============================================================================
