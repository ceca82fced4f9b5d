---------------------------- MODULE AccountChain ----------------------------
(***************************************************************************)
(* External: the blockchain as the nonce handlers see it through the proxy *)
(* for one account.  account.Nonce is the next nonce the chain executes; a *)
(* transaction waits in the pool until its nonce is the next one, and the  *)
(* node refuses a transaction whose nonce is already used ("nonce too      *)
(* low").                                                                  *)
(***************************************************************************)
EXTENDS Integers, FiniteSets

CONSTANTS
    Txs,
    FirstNonces     \* the account may have been used before

ASSUME TxsAreFinite == IsFiniteSet(Txs)
ASSUME FirstNoncesAreNatural == FirstNonces \subseteq Nat

VARIABLES
    firstNonce,     \* the account's nonce when the program starts
    accountNonce,   \* account.Nonce of GetAccount
    pool,           \* transactions the network holds: [tx, nonce]
    executed        \* transactions that were executed

chainVars == <<firstNonce, accountNonce, pool, executed>>

ChainInit ==
    /\ firstNonce \in FirstNonces
    /\ accountNonce = firstNonce
    /\ pool = {}
    /\ executed = {}

InPool(t, n) == [tx |-> t, nonce |-> n]

Admissible(n) == n >= accountNonce

\* the node accepts a set of transactions, the stale ones aside
Admit(items) ==
    /\ pool' = pool \cup {p \in items : Admissible(p.nonce)}
    /\ UNCHANGED <<firstNonce, accountNonce, executed>>

\* one of the transactions with the account's nonce is executed
Execute ==
    \E p \in pool :
        /\ p.nonce = accountNonce
        /\ accountNonce' = accountNonce + 1
        /\ executed' = executed \cup {p.tx}
        /\ pool' = {q \in pool : q.nonce > accountNonce}
        /\ UNCHANGED firstNonce

\* a transaction vanishes from the pool before it is executed
Lose(p) ==
    /\ p \in pool
    /\ pool' = pool \ {p}
    /\ UNCHANGED <<firstNonce, accountNonce, executed>>

ChainTypeOK ==
    /\ accountNonce \in Nat
    /\ pool \subseteq [tx : Txs, nonce : Nat]
    /\ executed \subseteq Txs
=============================================================================
