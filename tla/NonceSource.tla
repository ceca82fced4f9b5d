----------------------------- MODULE NonceSource -----------------------------
(***************************************************************************)
(* What the three nonce handlers promise of one account, whatever their    *)
(* locks, caches and goroutines: "This will prevent nonce too low in       *)
(* transaction errors" and no gaps.  The transactions that ask for a nonce *)
(* get the account's nonce and the numbers after it, one each.  The        *)
(* promise ends when something disturbs the count: another program that    *)
(* uses the account, a nonce that is given back, a count that is started   *)
(* anew.                                                                   *)
(***************************************************************************)
EXTENDS Integers, FiniteSets

CONSTANT Txs

VARIABLES
    firstNonce,     \* the account's nonce at the start
    accountNonce,   \* and now
    held,           \* the nonce of each transaction, NoNonce before it has one
    disturbed

sourceVars == <<firstNonce, accountNonce, held, disturbed>>

NoNonce == -1
Holding == {t \in Txs : held[t] # NoNonce}

SourceInit ==
    /\ firstNonce \in Nat
    /\ accountNonce = firstNonce
    /\ held = [t \in Txs |-> NoNonce]
    /\ disturbed = FALSE

HandOut(t) ==
    /\ ~disturbed
    /\ t \notin Holding
    /\ held' = [held EXCEPT ![t] = firstNonce + Cardinality(Holding)]
    /\ UNCHANGED <<firstNonce, accountNonce, disturbed>>

\* the chain executes a transaction: its nonce is one that was handed out
Use ==
    /\ ~disturbed
    /\ accountNonce \in {held[t] : t \in Holding}
    /\ accountNonce' = accountNonce + 1
    /\ UNCHANGED <<firstNonce, held, disturbed>>

\* from then on nothing is promised
Disturb == disturbed' /\ UNCHANGED firstNonce

SourceNext == (\E t \in Txs : HandOut(t)) \/ Use \/ Disturb

SourceSpec == SourceInit /\ [][SourceNext]_sourceVars
==============================================================================
