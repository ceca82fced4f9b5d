------------------------------ MODULE TxSigning ------------------------------
(***************************************************************************)
(* builders/txBuilder.go, relayedTxV1Builder.go and relayedTxV2Builder.go  *)
(* and txcheck/sigcheck.go: a transaction is signed by its user and its    *)
(* guardian, in any order and again, and is put into a relayed one.        *)
(*                                                                         *)
(* Keys stand for their addresses.  A signature is the key and the message *)
(* it was made for; a message is the JSON of the transaction, all of its   *)
(* fields, or the hash of that.  Nonce, gas price, data and receiver are   *)
(* carried along unchanged everywhere and are left out.                    *)
(***************************************************************************)
EXTENDS Integers

CONSTANTS
    Users, Guardian, Relayer, NoKey,
    Chains,
    NetworkVersion,     \* networkConfig.MinTransactionVersion
    NetworkChain        \* networkConfig.ChainID

VARIABLES
    tx,         \* the FrontendTransaction
    userErr,    \* history: the last ApplyUserSignature returned an error
    relayed     \* the transactions built around it, by version

signingVars == <<tx, userErr, relayed>>

NoSignature == [key |-> NoKey]
NotBuilt == [sender |-> NoKey]

HasBit(options, mask) == (options \div mask) % 2 = 1
MaskSignedWithHash == 1
MaskGuardedTransaction == 2

SigningInit ==
    /\ tx \in [sender : {NoKey} \cup Users, guardianAddr : {NoKey, Guardian}, options : 0..3,
               chainID : Chains, version : {1, 2}, value : {0, 1}, gasLimit : {0, 1},
               signature : {NoSignature}, guardianSignature : {NoSignature}]
    /\ userErr = FALSE
    /\ relayed = [v1 |-> NotBuilt, v2 |-> NotBuilt]

-----------------------------------------------------------------------------

\* mutant: the other signature stays in the message
UnsignedButGuardian(t) == [t EXCEPT !.signature = NoSignature]

TransactionToUnsignedTx(t) ==
    [t EXCEPT !.signature = NoSignature, !.guardianSignature = NoSignature]

Message(t) ==
    LET unsigned == TransactionToUnsignedTx(t)
    IN  [hashed |-> unsigned.version >= 2 /\ HasBit(unsigned.options, MaskSignedWithHash),
         tx |-> unsigned]

signTx(t, key) == [key |-> key, message |-> Message(t)]

VerifyTransactionSignature(t, key, signature) ==
    signature # NoSignature /\ signature = [key |-> key, message |-> Message(t)]

\* the sender is set before the signer is asked, which may fail
ApplyUserSignature(key) ==
    /\ LET withSender == [tx EXCEPT !.sender = key]
       IN  \/ tx' = [withSender EXCEPT !.signature = signTx(withSender, key)] /\ userErr' = FALSE
           \/ tx' = withSender /\ userErr' = TRUE
    /\ UNCHANGED relayed

\* its fields can be decoded: of those here only a missing sender cannot
transactionToNodeTransactionSucceeds(t) == t.sender # NoKey

\* the guardian must be the one the transaction names
ApplyGuardianSignature ==
    /\ transactionToNodeTransactionSucceeds(tx)
    /\ HasBit(tx.options, MaskGuardedTransaction)
    /\ tx.guardianAddr = Guardian
    /\ tx' = [tx EXCEPT !.guardianSignature = signTx(tx, Guardian)]
    /\ UNCHANGED <<userErr, relayed>>

-----------------------------------------------------------------------------

Fields(t) == [sender |-> t.sender, value |-> t.value, gasLimit |-> t.gasLimit,
              chainID |-> t.chainID, version |-> t.version, options |-> t.options, signature |-> t.signature]

\* mutant: the options are not copied
prepareWithoutOptions(t) == [Fields(t) EXCEPT !.options = 0]

\* the guardian's fields are not copied
prepareInnerTxForRelayV1(t) == Fields(t)

\* receiver, nonce and data are the part of the payload that is left out here
prepareInnerTxForRelayV2(t) == [signature |-> t.signature]

Relay(t, inner, value) ==
    [sender |-> Relayer, receiver |-> t.sender, value |-> value, chainID |-> NetworkChain,
     version |-> NetworkVersion, inner |-> inner]

BuildV1 ==
    /\ tx.signature # NoSignature
    /\ relayed' = [relayed EXCEPT !.v1 = Relay(tx, prepareInnerTxForRelayV1(tx), tx.value)]
    /\ UNCHANGED <<tx, userErr>>

BuildV2 ==
    /\ tx.signature # NoSignature
    /\ tx.gasLimit = 0
    /\ relayed' = [relayed EXCEPT !.v2 = Relay(tx, prepareInnerTxForRelayV2(tx), 0)]
    /\ UNCHANGED <<tx, userErr>>

SigningNext ==
    \/ \E key \in Users : ApplyUserSignature(key)
    \/ ApplyGuardianSignature
    \/ BuildV1 \/ BuildV2

SigningSpec == SigningInit /\ [][SigningNext]_signingVars

-----------------------------------------------------------------------------

\* external: the transaction the receiver of a relayed one finds in it; what
\* the payload does not say has its default
Unguarded(fields) ==
    [sender |-> fields.sender, guardianAddr |-> NoKey, options |-> fields.options,
     chainID |-> fields.chainID, version |-> fields.version, value |-> fields.value, gasLimit |-> fields.gasLimit,
     signature |-> fields.signature, guardianSignature |-> NoSignature]

UnpackV1(r) == Unguarded(r.inner)

UnpackV2(r) ==
    Unguarded([sender |-> r.receiver, options |-> 0, chainID |-> r.chainID, version |-> r.version,
               value |-> 0, gasLimit |-> 0, signature |-> r.inner.signature])

OwnSignaturesVerify ==
    /\ tx.signature # NoSignature /\ (userErr => tx.signature.key = tx.sender)
        => VerifyTransactionSignature(tx, tx.sender, tx.signature)
    /\ tx.guardianSignature # NoSignature /\ tx.guardianSignature.message.tx.sender = tx.sender
        => VerifyTransactionSignature(tx, Guardian, tx.guardianSignature)

InnerSignaturesVerify ==
    /\ LET r == relayed.v1
           signed == r.inner.signature.message.tx
       IN  r # NotBuilt /\ signed.guardianAddr = NoKey /\ signed.sender = r.receiver
            => VerifyTransactionSignature(UnpackV1(r), r.receiver, r.inner.signature)
    /\ LET r == relayed.v2
           signed == r.inner.signature.message.tx
       IN  r # NotBuilt /\ signed.guardianAddr = NoKey /\ signed.sender = r.receiver
                /\ signed.value = 0 /\ signed.options = 0
                /\ signed.chainID = NetworkChain /\ signed.version = NetworkVersion
            => VerifyTransactionSignature(UnpackV2(r), r.receiver, r.inner.signature)

(* Whatever the order in which user and guardian sign, and sign again, the *)
(* signature of the user verifies for the sender unless the last           *)
(* ApplyUserSignature returned an error, and then too if it is of the same *)
(* user: the sender is set before signing fails, so that the signature of  *)
(* another user stays on a transaction that is no longer theirs.  The      *)
(* guardian's verifies as long as the sender is the one it was made for.   *)
(* The signature of an inner transaction, if it was made for its sender,   *)
(* still verifies on what a relayed one carries of it: in version 1 when   *)
(* it names no guardian, in version 2 also its value and options have to   *)
(* be 0, its chain and version the network's: that payload has none of     *)
(* them.                                                                   *)
SignaturesVerify == OwnSignaturesVerify /\ InnerSignaturesVerify
=============================================================================
