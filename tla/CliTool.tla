------------------------------- MODULE CliTool -------------------------------
(***************************************************************************)
(* cmd/cli/main.go: the command line tool.  It makes one transaction of    *)
(* its flags, starting from the default arguments of alice's account,      *)
(* perhaps funds four wallets first, and prints the transaction or sends   *)
(* it.  Every request may fail, also after the network has done what was   *)
(* asked, and other programs use the accounts meanwhile.                   *)
(*                                                                         *)
(* A name stands for an address and, where the tool has it, for its key.   *)
(***************************************************************************)
EXTENDS TxSigning, Sequences

CONSTANTS
    CommandLines,           \* the flags: records with the fields of cfg
    InitialNonces,          \* of the accounts when the tool starts
    MinGasLimit, GasPerDataByte, setGuardianGasCost,
    MaxOthers               \* bound on the transactions of other programs

VARIABLES
    flags,                  \* argsConfig
    toolPc,
    options,                \* selectedOptions
    accumulated,            \* transactions of the interactor that is sending
    accountNonces,
    broadcast, printed,     \* history: what was posted to the proxy, what was logged
    others

toolVars == <<flags, toolPc, options, accumulated, accountNonces, broadcast, printed, others>>

Wallets4 == <<"alice", "bob", "eve", "charlie">>
Named == {"alice", "bob", "eve", "charlie"}
Unset == ""
NoData == <<>>
NoOptions == [tx |-> NotBuilt]

DataLength(data) == IF data = NoData THEN 0 ELSE IF data[1] = "SetGuardian" THEN 3 ELSE 1

-----------------------------------------------------------------------------
(* processCommand                                                          *)

\* GetDefaultTransactionArguments
DefaultTransaction(sender) ==
    [nonce |-> accountNonces[sender], value |-> "", sender |-> sender, receiver |-> NoKey,
     gasLimit |-> MinGasLimit, data |-> NoData, chainID |-> NetworkChain, version |-> NetworkVersion, options |-> 0,
     guardianAddr |-> NoKey, signature |-> NoSignature, guardianSignature |-> NoSignature]

getDefaultOptions ==
    [tx |-> [DefaultTransaction("alice") EXCEPT !.value = "0", !.receiver = "bob"],
     senderCryptoHolder |-> "alice", guardianCryptoHolder |-> "bob", guardianAddress |-> "bob"]

\* selectAddressAndSkFromString: the tool has the keys of the names only
Unparsable(option) == option = "typo"
HasKey(option) == option \in Named

setSenderOption(o) ==
    IF flags.sender = Unset THEN o
    ELSE [o EXCEPT !.tx.sender = flags.sender, !.senderCryptoHolder = flags.sender]

setReceiverOption(o) == IF flags.receiver = Unset THEN o ELSE [o EXCEPT !.tx.receiver = flags.receiver]

setGuardianOption(o) == IF flags.guardian = Unset THEN o ELSE [o EXCEPT !.guardianAddress = flags.guardian]

setGuardedTxByOption(o) ==
    IF flags.guardedTxBy = Unset THEN o
    ELSE [o EXCEPT !.tx.guardianAddr = flags.guardedTxBy, !.guardianCryptoHolder = flags.guardedTxBy,
                   !.tx.options = MaskGuardedTransaction]

createSetGuardianData(guardianAddress) == <<"SetGuardian", guardianAddress>>

treatDataIfNeeded(o) ==
    LET withGuardian ==
            IF flags.guardian = Unset THEN o
            ELSE [o EXCEPT !.tx.data = createSetGuardianData(o.guardianAddress),
                           !.tx.gasLimit = @ + setGuardianGasCost, !.tx.receiver = o.tx.sender]
        data == IF flags.dataField = Unset THEN withGuardian.tx.data ELSE <<flags.dataField>>
        gas == withGuardian.tx.gasLimit + DataLength(data) * GasPerDataByte
    IN  [withGuardian EXCEPT !.tx.data = data, !.tx.version = 2,
                             !.tx.gasLimit = IF flags.gasLimit # 0 THEN flags.gasLimit ELSE gas]

setOtherOptions(o) ==
    LET treated == treatDataIfNeeded(o)
    IN  IF flags.value = Unset THEN treated ELSE [treated EXCEPT !.tx.value = flags.value]

Refused ==
    \/ \E o \in {flags.sender, flags.receiver, flags.guardian, flags.guardedTxBy} : Unparsable(o)
    \/ \E o \in {flags.sender, flags.guardedTxBy} : o # Unset /\ ~HasKey(o)
    \/ flags.guardian # Unset /\ flags.dataField # Unset

processCommand ==
    /\ toolPc = "processCommand"
    /\ \/ Refused /\ toolPc' = "error" /\ UNCHANGED options
       \/ /\ ~Refused
          /\ options' = setOtherOptions(setGuardedTxByOption(setGuardianOption(
                            setReceiverOption(setSenderOption(getDefaultOptions)))))
          /\ toolPc' = IF flags.withFunding THEN "fundWallets" ELSE "generateAndSendTransaction"
    /\ UNCHANGED <<flags, accumulated, accountNonces, broadcast, printed, others>>

-----------------------------------------------------------------------------

\* loadPemFiles, NewProxy and GetNetworkConfig
process ==
    /\ toolPc = "process"
    /\ toolPc' = "processCommand"
    /\ UNCHANGED <<flags, options, accumulated, accountNonces, broadcast, printed, others>>

UserSigned(t, key) ==
    LET withSender == [t EXCEPT !.sender = key]
    IN  [withSender EXCEPT !.signature = signTx(withSender, key)]

\* mutant: the nonce is not incremented
FundingWithOneNonce(tx0) ==
    [i \in 1..Len(Wallets4) |-> UserSigned([tx0 EXCEPT !.receiver = Wallets4[i]], "funding")]

FundingTransactions(tx0) ==
    [i \in 1..Len(Wallets4) |->
        UserSigned([tx0 EXCEPT !.receiver = Wallets4[i], !.nonce = @ + i - 1], "funding")]

fundWallets ==
    /\ toolPc = "fundWallets"
    /\ accumulated' = FundingTransactions([DefaultTransaction("funding") EXCEPT !.value = "10 EGLD"])
    /\ toolPc' = "sendFundWalletsTxs"
    /\ UNCHANGED <<flags, options, accountNonces, broadcast, printed, others>>

\* SendTransactionsAsBunch: the bunch of 100 holds them all
Sends(next) ==
    /\ broadcast' = broadcast \o accumulated
    /\ accumulated' = <<>>
    /\ toolPc' = next
    /\ UNCHANGED <<flags, options, accountNonces, printed, others>>

sendFundWalletsTxs == toolPc = "sendFundWalletsTxs" /\ Sends("generateAndSendTransaction")

\* ApplyGuardianSignature: only here the value is looked at
GuardianRefuses(t, key) ==
    t.value = "no number" \/ ~HasBit(t.options, MaskGuardedTransaction) \/ t.guardianAddr # key

GuardianSigned(t, key) == [t EXCEPT !.guardianSignature = signTx(t, key)]

generateAndSendTransaction ==
    LET signed == UserSigned(options.tx, options.senderCryptoHolder)
        byGuardian == flags.guardedTxBy # Unset /\ flags.guardianSigned
        key == options.guardianCryptoHolder
        refused == byGuardian /\ GuardianRefuses(signed, key)
        copiedTx == IF byGuardian THEN GuardianSigned(signed, key) ELSE signed
    IN  /\ toolPc = "generateAndSendTransaction"
        /\ \/ refused /\ toolPc' = "error" /\ UNCHANGED <<accumulated, printed>>
           \/ /\ ~refused /\ flags.send
              /\ accumulated' = <<copiedTx>> /\ toolPc' = "send" /\ UNCHANGED printed
           \/ /\ ~refused /\ ~flags.send
              /\ printed' = <<copiedTx>> /\ toolPc' = "done" /\ UNCHANGED accumulated
        /\ UNCHANGED <<flags, options, accountNonces, broadcast, others>>

SendTransactionsAsBunch == toolPc = "send" /\ Sends("done")

\* a file cannot be loaded or a request fails, before or after the network has acted
ToolFails ==
    \/ /\ toolPc \in {"process", "processCommand", "fundWallets", "sendFundWalletsTxs", "send"}
       /\ toolPc' = "error"
       /\ accumulated' = <<>>
       /\ UNCHANGED <<flags, options, accountNonces, broadcast, printed, others>>
    \/ toolPc \in {"sendFundWalletsTxs", "send"} /\ Sends("error")

\* External: another program's transaction is executed
OtherProgram ==
    /\ others < MaxOthers
    /\ toolPc \notin {"done", "error"}
    /\ others' = others + 1
    /\ \E a \in DOMAIN accountNonces : accountNonces' = [accountNonces EXCEPT ![a] = @ + 1]
    /\ UNCHANGED <<flags, toolPc, options, accumulated, broadcast, printed>>

ToolRests ==
    /\ toolPc = "process"
    /\ options = NoOptions
    /\ accumulated = <<>>
    /\ accountNonces = InitialNonces
    /\ broadcast = <<>> /\ printed = <<>>
    /\ others = 0

ToolInit == flags \in CommandLines /\ ToolRests

ToolNext ==
    \/ process \/ processCommand
    \/ fundWallets \/ sendFundWalletsTxs
    \/ generateAndSendTransaction \/ SendTransactionsAsBunch
    \/ ToolFails
    \/ OtherProgram

-----------------------------------------------------------------------------

Funding == SelectSeq(broadcast, LAMBDA t : t.sender = "funding")
Main == SelectSeq(broadcast \o printed, LAMBDA t : t.sender # "funding")

\* the account had this nonce since the tool started
NonceOf(account, n) == n \in InitialNonces[account]..accountNonces[account]

(* What the tool sends or prints is signed as it is: the signatures verify *)
(* for the sender and for the guardian that was asked to sign, over the    *)
(* receiver, data and gas that later flags have changed; the gas pays for  *)
(* the data unless the user set it.  The nonces of the funding             *)
(* transactions count on from the funding account's, whatever else happens *)
(* to it, and the nonce of the transaction is alice's, who is its sender   *)
(* unless a flag names another (see NonceIsTheSenders).  The transaction   *)
(* itself comes out at most once, sent or printed as asked for, and with   *)
(* --send only after all of the funding.                                   *)
ToolSignsWhatItSends ==
    /\ \A i \in 1..Len(broadcast \o printed) :
        LET t == (broadcast \o printed)[i]
        IN  /\ VerifyTransactionSignature(t, t.sender, t.signature)
            /\ flags.guardianSigned /\ t.guardianAddr # NoKey =>
                    VerifyTransactionSignature(t, t.guardianAddr, t.guardianSignature)
            /\ flags.gasLimit = 0 => t.gasLimit >= MinGasLimit + GasPerDataByte * DataLength(t.data)
    /\ \A i \in 1..Len(Funding) : NonceOf("funding", Funding[i].nonce - i + 1)
    /\ \A i, j \in 1..Len(Funding) : Funding[i].nonce - i = Funding[j].nonce - j
    /\ Len(Main) <= 1
    /\ Main # <<>> => /\ NonceOf("alice", Main[1].nonce)
                      /\ flags.send = (printed = <<>>)
                      /\ flags.send => Len(Funding) = IF flags.withFunding THEN Len(Wallets4) ELSE 0
                      /\ flags.sender # Unset => Main[1].sender = flags.sender
                      /\ flags.guardian # Unset => Main[1].receiver = Main[1].sender

(* The help of --send: "otherwise the transactions will be just printed".  *)
(* It does not hold: with --withFunding the wallets are funded whether     *)
(* --send is given or not.                                                 *)
PrintsWithoutSend == broadcast # <<>> => flags.send

(* The nonce is one the sender has reached.  It does not hold: the default *)
(* arguments are those of alice's account (main.go), and setSenderOption   *)
(* replaces the sender and its key and leaves the nonce.                   *)
NonceIsTheSenders == Main # <<>> => NonceOf(Main[1].sender, Main[1].nonce)
==============================================================================
