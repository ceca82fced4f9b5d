--------------------------- MODULE WorkflowProofs ----------------------------
(***************************************************************************)
(* Proofs about the wallet tracker workflow, for any hyper blocks, any     *)
(* tracked addresses, any number of crashes and any bunch size; and about  *)
(* two parts that share no state with it, each with a specification of its *)
(* own: the signing of a transaction and the header check.                 *)
(***************************************************************************)
EXTENDS WalletFlow, TxSigning, HeaderCheck, SequenceTheorems, NaturalsInduction,
        WellFoundedInduction, TLAPS

-----------------------------------------------------------------------------
(* What a hyper block pays to an address is a natural number.              *)

LEMMA NatSetInduction ==
    ASSUME NEW S, 0 \in S, \A m \in Nat : m \in S => m + 1 \in S
    PROVE  Nat \subseteq S
  <1> DEFINE R == {ss \in Nat \X Nat : ss[1] < ss[2]}
             T == Nat \ S
  <1> SUFFICES ASSUME T # {} PROVE FALSE
    BY Zenon
  <1>1. IsWellFoundedOn(R, Nat)
    BY NatLessThanWellFounded, Zenon DEF OpToRel
  <1>2. T \in SUBSET Nat
    BY Zenon
  <1> HIDE DEF R, T
  <1>3. PICK x \in T : \A y \in T : ~ (<<y, x>> \in R)
    BY <1>1, <1>2, WFMin, Zenon
  <1>4. \A y \in T : ~ (y < x)
    BY <1>2, <1>3, Zenon DEF R
  <1>5. x \in Nat /\ x # 0 /\ x - 1 \in Nat
    BY <1>2, <1>3 DEF T
  <1>6. x - 1 \in S
    BY <1>4, <1>5 DEF T
  <1> QED BY <1>3, <1>5, <1>6 DEF T

RunningSums(f, n, v) == f = [i \in 0..n |-> IF i = 0 THEN 0 ELSE f[i - 1] + v[i]]

LEMMA SumsExist ==
    ASSUME NEW n \in Nat, NEW v
    PROVE  \E f : RunningSums(f, n, v)
  <1> DEFINE S == {m \in Nat : \E f : RunningSums(f, m, v)}
  <1>1. 0 \in S
    <2>1. RunningSums([i \in 0..0 |-> 0], 0, v)
      BY DEF RunningSums
    <2> QED BY <2>1, Zenon
  <1>2. ASSUME NEW m \in Nat, m \in S PROVE m + 1 \in S
    <2>1. PICK f : RunningSums(f, m, v)
      BY <1>2, Zenon
    <2> DEFINE g == [i \in 0..(m + 1) |-> IF i <= m THEN f[i] ELSE f[m] + v[m + 1]]
    <2>2. ASSUME NEW i \in 0..(m + 1)
          PROVE  g[i] = IF i = 0 THEN 0 ELSE g[i - 1] + v[i]
      <3>1. CASE i = m + 1
        BY <3>1
      <3>2. CASE i <= m
        BY <2>1, <3>2 DEF RunningSums
      <3> QED BY <3>1, <3>2
    <2>3. RunningSums(g, m + 1, v)
      BY <2>2, Zenon DEF RunningSums
    <2> QED BY <2>3
  <1> HIDE DEF S
  <1>3. n \in S
    BY <1>1, <1>2, NatSetInduction, Zenon
  <1> QED BY <1>3, Zenon DEF S

LEMMA SumsAreNatural ==
    ASSUME NEW n \in Nat, NEW v, \A i \in 1..n : v[i] \in Nat, NEW f, RunningSums(f, n, v)
    PROVE  f[n] \in Nat
  <1> DEFINE S == {m \in Nat : m <= n => f[m] \in Nat}
  <1>1. 0 \in S
    BY DEF RunningSums
  <1>2. ASSUME NEW m \in Nat, m \in S PROVE m + 1 \in S
    BY <1>2 DEF RunningSums
  <1> HIDE DEF S
  <1>3. n \in S
    BY <1>1, <1>2, NatSetInduction, Zenon
  <1> QED BY <1>3 DEF S

LEMMA PaidIsNatural ==
    ASSUME NEW a, NEW txs, Len(txs) \in Nat, \A i \in 1..Len(txs) : txs[i].value \in Nat \cup {Unparsable}
    PROVE  PaidTo(a, txs) \in Nat
  <1> DEFINE n == Len(txs)
             due(i) == IF txs[i].receiver = a /\ txs[i].value # Unparsable THEN txs[i].value ELSE 0
             v == [i \in 1..n |-> due(i)]
             Paid(f) == f = [i \in 0..n |-> IF i = 0 THEN 0 ELSE f[i - 1] + due(i)]
  <1>1. \A i \in 1..n : v[i] \in Nat /\ v[i] = due(i)
    BY Zenon
  <1>2. ASSUME NEW f PROVE RunningSums(f, n, v) <=> Paid(f)
    <2> HIDE DEF v, due
    <2>1. ASSUME NEW i \in 0..n
          PROVE  (IF i = 0 THEN 0 ELSE f[i - 1] + v[i]) = IF i = 0 THEN 0 ELSE f[i - 1] + due(i)
      BY <1>1, <2>1
    <2>2. [i \in 0..n |-> IF i = 0 THEN 0 ELSE f[i - 1] + v[i]]
          = [i \in 0..n |-> IF i = 0 THEN 0 ELSE f[i - 1] + due(i)]
      BY <2>1, Zenon
    <2> QED BY <2>2, Zenon DEF RunningSums
  <1>3. \A f : Paid(f) => f[n] \in Nat
    BY <1>1, <1>2, SumsAreNatural, Zenon
  <1>4. \E f : Paid(f)
    BY <1>2, SumsExist, Zenon
  <1> QED BY <1>3, <1>4, Zenon DEF PaidTo

-----------------------------------------------------------------------------
(* The tracker.  It has passed a transaction when the hyper block is       *)
(* reported as processed, or when it is further in the hyper block.        *)

Passed(d) ==
    \/ d[1] <= lastProcessedNonce
    \/ trackerPc = "block" /\ d[1] = blockNonce /\ d[2] < index

LoopInv ==
    /\ height \in Nat /\ height <= Len(Blocks)
    /\ lastProcessedNonce \in Nat /\ crashes \in Nat
    /\ networkNonce \in Nat /\ networkNonce <= height
    /\ blockNonce \in Nat /\ index \in Nat
    /\ trackerPc \in {"wait", "loop", "block"}
    /\ trackerPc # "wait" => blockNonce = lastProcessedNonce + 1
    /\ trackerPc = "block" => blockNonce <= height /\ index >= 1

TrackerInv ==
    /\ LoopInv
    /\ notifications \in [Transactions -> Nat]
    /\ \A d \in Transactions : notifications[d] <= crashes + IF Passed(d) THEN 1 ELSE 0
    /\ \A d \in Deposits : Passed(d) => d \in found

LEMMA BlockLengths ==
    /\ Len(Blocks) \in Nat /\ DOMAIN Blocks = 1..Len(Blocks)
    /\ \A n \in DOMAIN Blocks : Len(Blocks[n]) \in Nat /\ DOMAIN Blocks[n] = 1..Len(Blocks[n])
  <1>1. ASSUME NEW S, NEW s \in Seq(S) PROVE Len(s) \in Nat /\ DOMAIN s = 1..Len(s)
    OBVIOUS
  <1> QED BY <1>1, BlocksHoldTransfers, Zenon

LEMMA PlaceInTheBlocks ==
    ASSUME NEW d \in Transactions
    PROVE  /\ d = <<d[1], d[2]>>
           /\ d[1] \in 1..Len(Blocks)
           /\ d[2] \in 1..Len(Blocks[d[1]])
           /\ Len(Blocks[d[1]]) \in Nat
  <1>1. PICK n \in DOMAIN Blocks : \E i \in DOMAIN Blocks[n] : d = <<n, i>>
    BY Zenon DEF Transactions
  <1>2. PICK i \in DOMAIN Blocks[n] : d = <<n, i>>
    BY <1>1, Zenon
  <1> QED BY <1>2, BlockLengths, Zenon

LEMMA InitTracker == Init => TrackerInv
  <1> SUFFICES ASSUME Init PROVE TrackerInv
    BY Zenon
  <1>1. LoopInv
    BY BlockLengths DEF Init, TrackerInit, LoopInv
  <1>2. \A d \in Transactions : ~Passed(d)
    BY PlaceInTheBlocks DEF Init, TrackerInit, Passed
  <1> QED BY <1>1, <1>2 DEF Init, TrackerInit, TrackerInv, Deposits

\* steps that find nothing and pass nothing
LEMMA QuietTracker ==
    ASSUME TrackerInv, LoopInv', UNCHANGED <<notifications, found>>,
           crashes' = crashes,
           \A d \in Transactions : Passed(d)' <=> Passed(d)
    PROVE  TrackerInv'
  BY Zenon DEF TrackerInv, Deposits

LEMMA NextTracker == TrackerInv /\ [Next]_vars => TrackerInv'
  <1> SUFFICES ASSUME TrackerInv, [Next]_vars PROVE TrackerInv'
    BY Zenon
  <1>0. LoopInv
    BY Zenon DEF TrackerInv
  <1>1. CASE UNCHANGED <<height, lastProcessedNonce, loopVars, notifications, found, crashes>>
    BY <1>1, Zenon DEF TrackerInv, LoopInv, Passed, loopVars
  <1>2. CASE ProduceHyperBlock
    <2>1. LoopInv'
      BY <1>0, <1>2, BlockLengths DEF ProduceHyperBlock, LoopInv, loopVars
    <2>2. \A d \in Transactions : Passed(d)' <=> Passed(d)
      BY <1>2, Zenon DEF ProduceHyperBlock, Passed, loopVars
    <2> QED BY <1>2, <2>1, <2>2, QuietTracker, Zenon DEF ProduceHyperBlock
  <1>3. CASE GetLatestHyperBlockNonce
    <2>1. LoopInv'
      BY <1>0, <1>3 DEF GetLatestHyperBlockNonce, LoopInv
    <2>2. \A d \in Transactions : Passed(d)' <=> Passed(d)
      BY <1>3, Zenon DEF GetLatestHyperBlockNonce, Passed
    <2> QED BY <1>3, <2>1, <2>2, QuietTracker, Zenon DEF GetLatestHyperBlockNonce
  <1>4. CASE GetHyperBlockByNonce
    <2>1. LoopInv'
      BY <1>0, <1>4 DEF GetHyperBlockByNonce, MoreBlocks, LoopInv
    <2>2. \A d \in Transactions : Passed(d)' <=> Passed(d)
      BY <1>4, PlaceInTheBlocks DEF GetHyperBlockByNonce, Passed
    <2> QED BY <1>4, <2>1, <2>2, QuietTracker, Zenon DEF GetHyperBlockByNonce
  <1>5. CASE EndOfCheck
    <2>1. LoopInv'
      BY <1>0, <1>5, Zenon DEF EndOfCheck, LoopInv
    <2>2. \A d \in Transactions : Passed(d)' <=> Passed(d)
      BY <1>5, Zenon DEF EndOfCheck, Passed
    <2> QED BY <1>5, <2>1, <2>2, QuietTracker, Zenon DEF EndOfCheck
  <1>6. CASE processTransaction
    <2> DEFINE here == <<blockNonce, index>>
               transfer == Blocks[blockNonce][index]
    <2>1. LoopInv'
      BY <1>0, <1>6 DEF processTransaction, LoopInv
    <2>2. blockNonce \in DOMAIN Blocks /\ index \in DOMAIN Blocks[blockNonce]
      BY <1>0, <1>6, BlockLengths DEF processTransaction, LoopInv
    <2>3. here \in Transactions
      BY <2>2 DEF Transactions
    <2>4. ASSUME NEW d \in Transactions, d = here PROVE ~Passed(d) /\ Passed(d)'
      BY <1>0, <1>6, <2>4 DEF processTransaction, Passed, LoopInv
    <2>5. ASSUME NEW d \in Transactions, d # here PROVE Passed(d)' <=> Passed(d)
      BY <1>0, <1>6, <2>5, PlaceInTheBlocks DEF processTransaction, Passed, LoopInv
    <2>6. crashes' = crashes /\ found \subseteq found'
      BY <1>6, Zenon DEF processTransaction
    <2>7. /\ notifications' \in [Transactions -> Nat]
          /\ notifications'[here] <= notifications[here] + 1
          /\ \A d \in Transactions : d # here => notifications'[d] = notifications[d]
      BY <1>6, <2>3, SMTT(30) DEF processTransaction, TrackerInv
    <2>8. ASSUME NEW d \in Transactions
          PROVE  notifications'[d] <= crashes' + IF Passed(d)' THEN 1 ELSE 0
      <3>1. CASE d = here
        <4>1. notifications[d] \in Nat /\ notifications[d] <= crashes /\ crashes \in Nat
          BY <1>0, <2>4, <3>1 DEF TrackerInv, LoopInv
        <4>2. notifications'[d] \in Nat /\ notifications'[d] <= notifications[d] + 1
          BY <2>7, <3>1, Zenon
        <4> QED BY <2>4, <2>6, <3>1, <4>1, <4>2
      <3>2. CASE d # here
        BY <2>5, <2>6, <2>7, <3>2, Zenon DEF TrackerInv
      <3> QED BY <3>1, <3>2, Zenon
    <2>9. ASSUME NEW d \in Deposits, Passed(d)' PROVE d \in found'
      <3>1. CASE d = here
        <4>1. Qualifies(transfer)
          BY <3>1, Zenon DEF Deposits
        <4> QED BY <1>6, <3>1, <4>1, Zenon DEF processTransaction
      <3>2. CASE d # here
        BY <2>5, <2>6, <2>9, <3>2, Zenon DEF TrackerInv, Deposits
      <3> QED BY <3>1, <3>2, Zenon
    <2> QED BY <2>1, <2>7, <2>8, <2>9, Zenon DEF TrackerInv, Deposits
  <1>7. CASE ProcessedNonce
    <2>1. LoopInv'
      BY <1>0, <1>7 DEF ProcessedNonce, LoopInv
    <2>2. ASSUME NEW d \in Transactions PROVE Passed(d)' <=> Passed(d)
      BY <1>0, <1>7, PlaceInTheBlocks DEF ProcessedNonce, Passed, LoopInv
    <2> QED BY <1>7, <2>1, <2>2, QuietTracker, Zenon DEF ProcessedNonce
  <1>8. CASE RestartTracker
    <2>1. LoopInv'
      BY <1>0, <1>8 DEF RestartTracker, LoopInv
    <2>2. \A d \in Transactions : Passed(d)' => Passed(d)
      BY <1>8, Zenon DEF RestartTracker, Passed
    <2>3. crashes' = crashes + 1 /\ UNCHANGED <<notifications, found>>
      BY <1>8, Zenon DEF RestartTracker
    <2>4. ASSUME NEW d \in Transactions
          PROVE  notifications'[d] <= crashes' + IF Passed(d)' THEN 1 ELSE 0
      <3>1. notifications[d] \in Nat /\ notifications[d] <= crashes + 1 /\ crashes \in Nat
        BY <1>0 DEF TrackerInv, LoopInv
      <3> QED BY <2>3, <3>1
    <2>5. \A d \in Deposits : Passed(d)' => d \in found'
      BY <2>2, <2>3, Zenon DEF TrackerInv, Deposits
    <2> QED BY <2>1, <2>3, <2>4, <2>5, Zenon DEF TrackerInv, Deposits
  <1> QED
    BY <1>1, <1>2, <1>3, <1>4, <1>5, <1>6, <1>7, <1>8
    DEF Next, vars, trackerVars, ExecuteTransaction, TrackerStep,
        SetHandlerForNewDepositTransactionFound, CloseTracker, CacheNetworkConfigs, MoverStep,
        TakeAddresses, GetLatestTrackedAddresses, StartSending, SendToNetwork, SendingFails,
        SendingEnds, GenerateNothing, generateTransaction, Restart

(* No deposit is passed over, wherever the program crashes and whichever   *)
(* request fails: ProcessedNonce is called for a hyper block only when     *)
(* every deposit in it has been found; and a crash is the only reason for  *)
(* the handler to hear of a deposit again.                                 *)
THEOREM AlwaysProcessedWereFound == Spec => []ProcessedWereFound
  <1>1. TrackerInv => ProcessedWereFound
    <2> SUFFICES ASSUME TrackerInv, NEW d \in Deposits
                 PROVE  /\ d[1] <= lastProcessedNonce => d \in found
                        /\ notifications[d] <= 1 + crashes
      BY Zenon DEF ProcessedWereFound
    <2> QED BY DEF TrackerInv, LoopInv, Passed, Deposits
  <1> QED BY <1>1, InitTracker, NextTracker, PTL DEF Spec

-----------------------------------------------------------------------------
(* The mover.  A transaction that was created stays affordable on its way  *)
(* through accumulator, bunches and pool: the balance it was created from  *)
(* shrinks only when the account's nonce moves past it.                    *)

Moves == [sender : Trackable, nonce : Nat, value : Int]

Affordable ==
    {p \in Moves : /\ p.nonce <= nonce[p.sender]
                   /\ p.nonce = nonce[p.sender] => p.value + Fee <= balance[p.sender]}

MoverInv ==
    /\ balance \in [Trackable -> Nat]
    /\ nonce \in [Trackable -> Nat]
    /\ txAccumulator \in Seq(Affordable)
    /\ transactions \in Seq(Affordable)
    /\ pool \subseteq Affordable

LEMMA SeqOfMore ==
    ASSUME NEW S, NEW T, S \subseteq T, NEW s \in Seq(S)
    PROVE  s \in Seq(T)
  OBVIOUS

\* a bunch and the rest are what there was
LEMMA BunchAndRest ==
    ASSUME NEW S, transactions \in Seq(S)
    PROVE  /\ Bunch \in Seq(S)
           /\ Rest \in Seq(S)
           /\ Bunch \o Rest = transactions
  <1> DEFINE n == Len(transactions)
             k == Smaller(BunchSize, n)
  <1>1. n \in Nat /\ BunchSize \in Nat /\ BunchSize # 0 /\ transactions \in [1..n -> S]
    BY BunchSizeIsPositive, LenProperties, Zenon
  <1>2. k \in 0..n
    BY <1>1 DEF Smaller
  <1>3. Bunch \in Seq(S)
    BY <1>1, <1>2, SubSeqProperties DEF Bunch
  <1>4. Rest = SubSeq(transactions, k + 1, n)
    <2>1. CASE BunchSize <= n
      BY <2>1, <1>1, Zenon DEF Rest, Smaller
    <2>2. CASE ~(BunchSize <= n)
      <3>1. k = n /\ n < BunchSize + 1 /\ n < k + 1
        BY <1>1, <2>2 DEF Smaller
      <3>2. SubSeq(transactions, k + 1, n) = <<>> /\ SubSeq(transactions, BunchSize + 1, n) = <<>>
        BY <1>1, <3>1, SubSeqEmpty
      <3> QED BY <3>2, Zenon DEF Rest
    <2> QED BY <2>1, <2>2, Zenon
  <1>5. Rest \in Seq(S)
    BY <1>1, <1>2, <1>4, SubSeqProperties
  <1>6. SubSeq(transactions, 1, k) \o SubSeq(transactions, k + 1, n) = SubSeq(transactions, 1, n)
    <2>1. 1 \in 1..(n + 1) /\ k \in (1 - 1)..n /\ n \in k..n
      BY <1>1, <1>2
    <2> HIDE DEF n, k
    <2>2. SubSeq(transactions, 1, k) \o SubSeq(transactions, k + 1, Len(transactions))
            = SubSeq(transactions, 1, Len(transactions))
      BY <2>1, ConcatAdjacentSubSeq, Zenon DEF n
    <2> QED BY <2>2, Zenon DEF n
  <1>7. SubSeq(transactions, 1, n) = transactions
    BY SubSeqFull, Zenon
  <1> QED BY <1>3, <1>4, <1>5, <1>6, <1>7, Zenon DEF Bunch

LEMMA InitMover == Init => MoverInv
  BY DEF Init, InteractorInit, MoverInv

\* what a step does to the accounts leaves transactions affordable
LEMMA StaysAffordable ==
    ASSUME MoverInv, balance' \in [Trackable -> Nat], nonce' \in [Trackable -> Nat],
           \A a \in Trackable : \/ nonce'[a] > nonce[a]
                                \/ nonce'[a] = nonce[a] /\ balance'[a] >= balance[a]
    PROVE  Affordable \subseteq Affordable'
  <1> SUFFICES ASSUME NEW p \in Affordable PROVE p \in Affordable'
    BY Zenon
  <1>1. p \in Moves /\ p.sender \in Trackable /\ p.nonce \in Nat /\ p.value \in Int /\ Fee \in Nat
    BY FeeIsPositive, Zenon DEF Affordable, Moves
  <1>2. p.nonce <= nonce[p.sender] /\ (p.nonce = nonce[p.sender] => p.value + Fee <= balance[p.sender])
    BY Zenon DEF Affordable
  <1>3. p.nonce <= nonce'[p.sender] /\ (p.nonce = nonce'[p.sender] => p.value + Fee <= balance'[p.sender])
    <2> DEFINE a == p.sender
    <2>1. /\ nonce[a] \in Nat /\ balance[a] \in Nat /\ nonce'[a] \in Nat /\ balance'[a] \in Nat
          /\ \/ nonce'[a] > nonce[a]
             \/ nonce'[a] = nonce[a] /\ balance'[a] >= balance[a]
      BY <1>1, Zenon DEF MoverInv
    <2> QED BY <1>1, <1>2, <2>1
  <1> QED BY <1>1, <1>3, Zenon DEF Affordable, Moves

LEMMA NextMover ==
    ASSUME LoopInv, MoverInv, [Next]_vars
    PROVE  MoverInv'
  <1>1. CASE UNCHANGED <<balance, nonce, pool, txAccumulator, transactions>>
    BY <1>1, Zenon DEF MoverInv, Affordable
  <1>2. CASE ProduceHyperBlock
    <2>1. height' \in DOMAIN Blocks /\ height' = height + 1
      BY <1>2, BlockLengths DEF ProduceHyperBlock, LoopInv
    <2>2. \A a \in Trackable : PaidTo(a, Blocks[height']) \in Nat
      BY <2>1, BlockLengths, BlocksHoldTransfers, PaidIsNatural, Zenon
    <2>3. /\ balance' \in [Trackable -> Nat] /\ UNCHANGED nonce
          /\ \A a \in Trackable : balance'[a] >= balance[a]
      BY <1>2, <2>2 DEF ProduceHyperBlock, MoverInv
    <2>4. Affordable \subseteq Affordable'
      BY <2>3, StaysAffordable, Zenon DEF MoverInv
    <2>5. UNCHANGED <<pool, txAccumulator, transactions>>
      BY <1>2, Zenon DEF ProduceHyperBlock, interactorVars
    <2> QED BY <2>3, <2>4, <2>5, SeqOfMore, Zenon DEF MoverInv
  <1>3. CASE ExecuteTransaction
    <2>1. PICK p \in pool :
            /\ p.nonce = nonce[p.sender]
            /\ p.value + Fee <= balance[p.sender]
            /\ nonce' = [nonce EXCEPT ![p.sender] = @ + 1]
            /\ balance' = [balance EXCEPT ![p.sender] = @ - (p.value + Fee)]
            /\ pool' \subseteq pool
            /\ UNCHANGED <<txAccumulator, transactions>>
      BY <1>3, Zenon DEF ExecuteTransaction, interactorVars
    <2>2. p.sender \in Trackable /\ p.value \in Int /\ Fee \in Nat
      BY FeeIsPositive, Zenon DEF MoverInv, Affordable, Moves
    <2>3. /\ balance' \in [Trackable -> Nat] /\ nonce' \in [Trackable -> Nat]
          /\ nonce'[p.sender] > nonce[p.sender]
          /\ \A a \in Trackable : a # p.sender => nonce'[a] = nonce[a] /\ balance'[a] >= balance[a]
      BY <2>1, <2>2, SMTT(30) DEF MoverInv
    <2>4. \A a \in Trackable : \/ nonce'[a] > nonce[a]
                               \/ nonce'[a] = nonce[a] /\ balance'[a] >= balance[a]
      <3> TAKE a \in Trackable
      <3>1. CASE a = p.sender
        BY <2>3, <3>1, Zenon
      <3>2. CASE a # p.sender
        BY <2>3, <3>2, Zenon
      <3> QED BY <3>1, <3>2, Zenon
    <2>5. Affordable \subseteq Affordable'
      <3>1. balance' \in [Trackable -> Nat] /\ nonce' \in [Trackable -> Nat]
        BY <2>3, Zenon
      <3> QED BY <2>4, <3>1, StaysAffordable, Zenon
    <2> QED BY <2>1, <2>3, <2>5, SeqOfMore, Zenon DEF MoverInv
  <1>4. ASSUME NEW a \in Trackable, generateTransaction(a) PROVE MoverInv'
    <2> DEFINE transfer == [sender |-> a, nonce |-> nonce[a], value |-> ValueToMove(a)]
    <2>1. transfer \in Affordable
      <3>1. balance[a] \in Nat /\ nonce[a] \in Nat /\ Fee \in Nat
        BY <1>4, FeeIsPositive, Zenon DEF generateTransaction, MoverInv
      <3>2. transfer \in Moves /\ transfer.sender = a /\ transfer.nonce = nonce[a] /\ transfer.value + Fee = balance[a]
        BY <3>1 DEF Moves, ValueToMove
      <3> QED BY <3>1, <3>2 DEF Affordable
    <2>2. /\ txAccumulator' = Append(txAccumulator, transfer)
          /\ UNCHANGED <<balance, nonce, pool, transactions>>
      BY <1>4, Zenon DEF generateTransaction, AddTransaction, accountVars
    <2>3. txAccumulator' \in Seq(Affordable)
      BY <2>1, <2>2, AppendProperties, Zenon DEF MoverInv
    <2>4. Affordable' = Affordable
      BY <2>2, Zenon DEF Affordable
    <2> QED BY <2>2, <2>3, <2>4, Zenon DEF MoverInv
  <1>5. CASE StartSending
    <2>1. /\ txAccumulator' = <<>> /\ transactions' = txAccumulator
          /\ UNCHANGED <<balance, nonce, pool>>
      BY <1>5, Zenon DEF StartSending, PopAccumulatedTransactions, accountVars
    <2>2. Affordable' = Affordable
      BY <2>1, Zenon DEF Affordable
    <2> QED BY <2>1, <2>2 DEF MoverInv
  <1>6. CASE SendToNetwork
    <2>1. /\ transactions' = Rest
          /\ pool' \subseteq pool \cup {Bunch[i] : i \in DOMAIN Bunch}
          /\ UNCHANGED <<balance, nonce, txAccumulator>>
      BY <1>6, Zenon DEF SendToNetwork, SendBunch
    <2>2. Affordable' = Affordable
      BY <2>1, Zenon DEF Affordable
    <2>3. Bunch \in Seq(Affordable) /\ Rest \in Seq(Affordable)
      BY BunchAndRest, Zenon DEF MoverInv
    <2>4. \A i \in DOMAIN Bunch : Bunch[i] \in Affordable
      BY <2>3
    <2> QED BY <2>1, <2>2, <2>3, <2>4, Zenon DEF MoverInv
  <1>7. CASE SendingFails
    <2>1. transactions' = <<>> /\ UNCHANGED <<balance, nonce, pool, txAccumulator>>
      BY <1>7, Zenon DEF SendingFails, SendBunchFails, accountVars
    <2>2. Affordable' = Affordable
      BY <2>1, Zenon DEF Affordable
    <2> QED BY <2>1, <2>2 DEF MoverInv
  <1>8. CASE Restart
    <2>1. /\ transactions' = <<>> /\ txAccumulator' = <<>>
          /\ UNCHANGED <<balance, nonce, pool>>
      BY <1>8, Zenon DEF Restart, RestartInteractor, accountVars
    <2>2. Affordable' = Affordable
      BY <2>1, Zenon DEF Affordable
    <2> QED BY <2>1, <2>2 DEF MoverInv
  <1> QED
    BY <1>1, <1>2, <1>3, <1>4, <1>5, <1>6, <1>7, <1>8, Zenon
    DEF Next, vars, interactorVars, accountVars, TrackerAlone, CacheNetworkConfigs, MoverStep,
        TakeAddresses, SendingEnds, SendTransactionsAsBunchReturns, GenerateNothing

(* A move-balance transaction whose turn it is can be paid, whatever time  *)
(* passes between the reading of the balance and the execution, and        *)
(* although the mover may create several for one account before the first  *)
(* is executed.                                                            *)
THEOREM MovesAlwaysPaidFor == Spec => []MovesArePaidFor
  <1>1. MoverInv => MovesArePaidFor
    BY Zenon DEF MoverInv, MovesArePaidFor, Affordable
  <1>2. TrackerInv => LoopInv
    BY Zenon DEF TrackerInv
  <1>3. TrackerInv /\ MoverInv /\ [Next]_vars => MoverInv'
    BY <1>2, NextMover, SMTT(30)
  <1> QED BY <1>1, <1>3, InitTracker, InitMover, NextTracker, PTL DEF Spec

-----------------------------------------------------------------------------
(* The interactor.  Between two calls of SendTransactionsAsBunch nothing   *)
(* is left to be sent.                                                     *)

InteractorInv ==
    /\ added \in Seq(Moves) /\ sent \in Seq(Moves)
    /\ ~sending => transactions = <<>>
    /\ BunchesKeepEverything

LEMMA NextInteractor ==
    ASSUME MoverInv, MoverInv', InteractorInv, [Next]_vars
    PROVE  InteractorInv'
  <1>0. /\ Affordable \subseteq Moves
        /\ txAccumulator \in Seq(Moves) /\ transactions \in Seq(Moves)
        /\ added \in Seq(Moves) /\ sent \in Seq(Moves)
        /\ <<>> \in Seq(Moves)
    BY SeqOfMore DEF MoverInv, Affordable, InteractorInv
  <1>a. \A s, t, u \in Seq(Moves) : (s \o t) \o u = s \o (t \o u)
    OBVIOUS
  <1>1. CASE UNCHANGED interactorVars
    BY <1>1, Zenon DEF InteractorInv, BunchesKeepEverything, interactorVars
  <1>2. ASSUME NEW transfer \in Moves, AddTransaction(transfer) PROVE InteractorInv'
    <2>1. added' \in Seq(Moves)
      BY <1>0, <1>2, AppendProperties, Zenon DEF AddTransaction
    <2>2. ASSUME ~failed PROVE added' = sent \o transactions \o Append(txAccumulator, transfer)
      <3> DEFINE head == sent \o transactions
      <3>1. head \in Seq(Moves)
        BY <1>0, ConcatProperties, Zenon
      <3>2. added = head \o txAccumulator /\ added' = Append(added, transfer)
        BY <1>2, <2>2, Zenon DEF InteractorInv, BunchesKeepEverything, AddTransaction
      <3> HIDE DEF head
      <3>3. Append(head \o txAccumulator, transfer) = head \o Append(txAccumulator, transfer)
        <4>1. head \o txAccumulator \in Seq(Moves) /\ <<transfer>> \in Seq(Moves)
          BY <1>0, <3>1, ConcatProperties
        <4>2. Append(head \o txAccumulator, transfer) = (head \o txAccumulator) \o <<transfer>>
          BY <4>1, AppendIsConcat, Zenon
        <4>3. Append(txAccumulator, transfer) = txAccumulator \o <<transfer>>
          BY <1>0, AppendIsConcat, Zenon
        <4>4. (head \o txAccumulator) \o <<transfer>> = head \o (txAccumulator \o <<transfer>>)
          BY <1>0, <1>a, <3>1, <4>1, SMTT(30)
        <4> QED BY <4>2, <4>3, <4>4, Zenon
      <3> QED BY <3>2, <3>3, Zenon DEF head
    <2> QED BY <1>2, <2>1, <2>2, Zenon DEF AddTransaction, InteractorInv, BunchesKeepEverything
  <1>3. CASE PopAccumulatedTransactions
    <2>1. ASSUME ~failed PROVE added = sent \o txAccumulator \o <<>>
      <3>1. added = sent \o <<>> \o txAccumulator
        BY <1>3, <2>1, Zenon DEF InteractorInv, BunchesKeepEverything, PopAccumulatedTransactions
      <3>2. sent \o <<>> = sent /\ sent \o txAccumulator \in Seq(Moves)
        BY <1>0, ConcatEmptySeq, ConcatProperties, Zenon
      <3> QED BY <3>1, <3>2, ConcatEmptySeq, Zenon
    <2> QED BY <1>3, <2>1, Zenon DEF PopAccumulatedTransactions, InteractorInv, BunchesKeepEverything
  <1>4. CASE SendBunch
    <2>0. Bunch \in Seq(Moves) /\ Rest \in Seq(Moves)
      BY <1>0, BunchAndRest, Zenon
    <2>1. Bunch \o Rest = transactions
      BY <1>0, BunchAndRest, Zenon
    <2>2. sent \o Bunch \in Seq(Moves)
      BY <1>0, <2>0, ConcatProperties, Zenon
    <2>3. (sent \o Bunch) \o Rest = sent \o transactions
      <3>1. (sent \o Bunch) \o Rest = sent \o (Bunch \o Rest)
        BY <1>0, <1>a, <2>0, SMTT(30)
      <3> QED BY <2>1, <3>1, Zenon
    <2>4. /\ sent' = IF failed THEN <<>> ELSE sent \o Bunch
          /\ transactions' = Rest /\ sending
          /\ UNCHANGED <<txAccumulator, sending, added, failed>>
      BY <1>4, Zenon DEF SendBunch
    <2>5. sent' \in Seq(Moves)
      BY <1>0, <2>2, <2>4, Zenon
    <2>6. ASSUME ~failed PROVE added' = sent' \o transactions' \o txAccumulator'
      BY <2>3, <2>4, <2>6, Zenon DEF InteractorInv, BunchesKeepEverything
    <2> QED BY <2>4, <2>5, <2>6, SMTT(30) DEF InteractorInv, BunchesKeepEverything
  <1>5. CASE SendBunchFails \/ RestartInteractor
    BY <1>0, <1>5, Zenon DEF SendBunchFails, RestartInteractor, InteractorInv, BunchesKeepEverything
  <1>6. CASE SendTransactionsAsBunchReturns
    BY <1>6, Zenon DEF SendTransactionsAsBunchReturns, InteractorInv, BunchesKeepEverything
  <1>7. ASSUME NEW a \in Trackable, generateTransaction(a) PROVE InteractorInv'
    <2> DEFINE transfer == [sender |-> a, nonce |-> nonce[a], value |-> ValueToMove(a)]
    <2>1. balance[a] \in Nat /\ nonce[a] \in Nat /\ Fee \in Nat
      BY <1>7, FeeIsPositive, Zenon DEF generateTransaction, MoverInv
    <2>2. transfer \in Moves
      <3>1. ValueToMove(a) \in Int
        BY <2>1 DEF ValueToMove
      <3> QED BY <2>1, <3>1, Zenon DEF Moves
    <2> QED BY <1>2, <1>7, <2>2, Zenon DEF generateTransaction
  <1> QED
    BY <1>1, <1>3, <1>4, <1>5, <1>6, <1>7
    DEF Next, vars, TrackerAlone, ProduceHyperBlock, ExecuteTransaction, CacheNetworkConfigs,
        MoverStep, TakeAddresses, StartSending, SendToNetwork, SendingFails, SendingEnds,
        GenerateNothing, Restart

(* As long as no bunch fails, SendTransactionsAsBunch sends what was added *)
(* in the order in which it was added, each transaction once, for every    *)
(* bunch size and whatever is added while bunches are sent.                *)
THEOREM BunchesAlwaysKeepEverything == Spec => []BunchesKeepEverything
  <1>1. Init => InteractorInv
    BY DEF Init, InteractorInit, InteractorInv, BunchesKeepEverything
  <1>2. InteractorInv => BunchesKeepEverything
    BY Zenon DEF InteractorInv
  <1>3. TrackerInv => LoopInv
    BY Zenon DEF TrackerInv
  <1>4. TrackerInv /\ MoverInv /\ [Next]_vars => MoverInv'
    BY <1>3, NextMover, Zenon
  <1>5. MoverInv /\ MoverInv' /\ InteractorInv /\ [Next]_vars => InteractorInv'
    BY NextInteractor, Zenon
  <1> QED BY <1>1, <1>2, <1>4, <1>5, InitTracker, InitMover, NextTracker, PTL DEF Spec

-----------------------------------------------------------------------------
(* The signing of a transaction: builders/txBuilder.go and the builders of *)
(* relayed transactions.                                                   *)

\* a record with the fields of a FrontendTransaction
IsTx(t) ==
    t = [sender |-> t.sender, guardianAddr |-> t.guardianAddr, options |-> t.options,
         chainID |-> t.chainID, version |-> t.version, value |-> t.value, gasLimit |-> t.gasLimit,
         signature |-> t.signature, guardianSignature |-> t.guardianSignature]

\* the message of a transaction with t's other fields and that sender
MessageFrom(t, sender) ==
    [hashed |-> t.version >= 2 /\ HasBit(t.options, MaskSignedWithHash),
     tx |-> [sender |-> sender, guardianAddr |-> t.guardianAddr, options |-> t.options,
             chainID |-> t.chainID, version |-> t.version, value |-> t.value, gasLimit |-> t.gasLimit,
             signature |-> NoSignature, guardianSignature |-> NoSignature]]

SignedBy(key, t, sender) == [key |-> key, message |-> MessageFrom(t, sender)]

\* a signature was made for the transaction as it is, but for the sender
UserInv(t) == t.signature = NoSignature \/ \E s : t.signature = SignedBy(s, t, s)
\* unless the last ApplyUserSignature failed, it was made for the sender
Fresh(t, err) == ~err /\ t.signature # NoSignature => t.signature = SignedBy(t.sender, t, t.sender)
GuardianInv(t) == t.guardianSignature = NoSignature \/ \E s : t.guardianSignature = SignedBy(Guardian, t, s)

\* the inner transaction of a relayed one was such a transaction, and signed
WasSigned(t) == IsTx(t) /\ \E s : t.signature = SignedBy(s, t, s)
V1Inv(r) == r = NotBuilt \/ \E t : WasSigned(t) /\ r = Relay(t, prepareInnerTxForRelayV1(t), t.value)
V2Inv(r) ==
    r = NotBuilt \/ \E t : /\ WasSigned(t) /\ t.gasLimit = 0
                           /\ r = Relay(t, prepareInnerTxForRelayV2(t), 0)

SigningInv ==
    /\ IsTx(tx) /\ UserInv(tx) /\ GuardianInv(tx) /\ Fresh(tx, userErr)
    /\ relayed = [v1 |-> relayed.v1, v2 |-> relayed.v2]
    /\ V1Inv(relayed.v1) /\ V2Inv(relayed.v2)

LEMMA MessageOfATx ==
    ASSUME NEW t, IsTx(t)
    PROVE  Message(t) = MessageFrom(t, t.sender)
  <1> DEFINE half == [t EXCEPT !.signature = NoSignature]
             unsigned == [sender |-> t.sender, guardianAddr |-> t.guardianAddr, options |-> t.options,
                          chainID |-> t.chainID, version |-> t.version, value |-> t.value, gasLimit |-> t.gasLimit,
                          signature |-> NoSignature, guardianSignature |-> NoSignature]
  <1>1. half = [sender |-> t.sender, guardianAddr |-> t.guardianAddr, options |-> t.options,
                chainID |-> t.chainID, version |-> t.version, value |-> t.value, gasLimit |-> t.gasLimit,
                signature |-> NoSignature, guardianSignature |-> t.guardianSignature]
    BY DEF IsTx
  <1>2. TransactionToUnsignedTx(t) = [half EXCEPT !.guardianSignature = NoSignature]
    BY Zenon DEF TransactionToUnsignedTx
  <1> HIDE DEF half
  <1>3. TransactionToUnsignedTx(t) = unsigned
    BY <1>1, <1>2, Zenon
  <1>4. unsigned.version = t.version /\ unsigned.options = t.options
    BY Zenon
  <1> QED BY <1>3, <1>4, Zenon DEF Message, MessageFrom

\* the message does not depend on the signatures
LEMMA SameMessage ==
    ASSUME NEW t, NEW u, NEW s,
           u.guardianAddr = t.guardianAddr, u.options = t.options, u.chainID = t.chainID,
           u.version = t.version, u.value = t.value, u.gasLimit = t.gasLimit
    PROVE  MessageFrom(u, s) = MessageFrom(t, s)
  BY Zenon DEF MessageFrom

SignatureOf(signature, t, s) ==
    /\ signature # NoSignature
    /\ signature.message.tx.sender = s
    /\ signature.message.tx.chainID = t.chainID
    /\ signature.message.tx.guardianAddr = t.guardianAddr
    /\ signature.message.tx.value = t.value
    /\ signature.message.tx.options = t.options
    /\ signature.message.tx.version = t.version

LEMMA IsASignature ==
    ASSUME NEW k, NEW t, NEW s
    PROVE  SignatureOf(SignedBy(k, t, s), t, s)
  <1>1. DOMAIN SignedBy(k, t, s) = {"key", "message"}
    BY Zenon DEF SignedBy
  <1>2. DOMAIN NoSignature = {"key"}
    BY Zenon DEF NoSignature
  <1>3. SignedBy(k, t, s) # NoSignature
    BY <1>1, <1>2
  <1> QED BY <1>3, Zenon DEF SignatureOf, SignedBy, MessageFrom

LEMMA InitSigningInv == SigningInit => SigningInv
  <1> SUFFICES ASSUME SigningInit PROVE SigningInv
    BY Zenon
  <1>1. IsTx(tx)
    BY Zenon DEF SigningInit, IsTx
  <1>2. tx.signature = NoSignature /\ tx.guardianSignature = NoSignature
    BY Zenon DEF SigningInit
  <1>3. relayed = [v1 |-> NotBuilt, v2 |-> NotBuilt]
    BY Zenon DEF SigningInit
  <1> QED BY <1>1, <1>2, <1>3, Zenon DEF SigningInv, UserInv, GuardianInv, Fresh, V1Inv, V2Inv

\* what a signer changes of a transaction, and what it leaves
LEMMA UserSigns ==
    ASSUME NEW key, IsTx(tx), UserInv(tx), GuardianInv(tx), ApplyUserSignature(key)
    PROVE  IsTx(tx') /\ UserInv(tx') /\ GuardianInv(tx') /\ Fresh(tx', userErr')
  <1> DEFINE withSender == [tx EXCEPT !.sender = key]
             signature == signTx(withSender, key)
  <1>1. withSender = [sender |-> key, guardianAddr |-> tx.guardianAddr, options |-> tx.options,
                      chainID |-> tx.chainID, version |-> tx.version, value |-> tx.value, gasLimit |-> tx.gasLimit,
                      signature |-> tx.signature, guardianSignature |-> tx.guardianSignature]
    BY DEF IsTx
  <1>2. \/ tx' = [withSender EXCEPT !.signature = signature] /\ userErr' = FALSE
        \/ tx' = withSender /\ userErr' = TRUE
    BY Zenon DEF ApplyUserSignature
  <1> HIDE DEF withSender
  <1>3. IsTx(withSender) /\ withSender.sender = key
    BY <1>1, Zenon DEF IsTx
  <1>4. signature = SignedBy(key, withSender, key)
    BY <1>3, MessageOfATx, Zenon DEF signTx, SignedBy
  <1> HIDE DEF signature
  <1>5. /\ IsTx(tx')
        /\ tx'.guardianAddr = tx.guardianAddr /\ tx'.options = tx.options /\ tx'.chainID = tx.chainID
        /\ tx'.version = tx.version /\ tx'.value = tx.value /\ tx'.gasLimit = tx.gasLimit
        /\ tx'.sender = key /\ tx'.guardianSignature = tx.guardianSignature
        /\ tx'.signature = signature \/ (tx'.signature = tx.signature /\ userErr' = TRUE)
    <2>1. CASE tx' = withSender /\ userErr' = TRUE
      BY <1>1, <2>1, Zenon DEF IsTx
    <2>2. CASE tx' = [withSender EXCEPT !.signature = signature] /\ userErr' = FALSE
      BY <1>1, <2>2, Zenon DEF IsTx
    <2> QED BY <1>2, <2>1, <2>2, Zenon
  <1>6. \A s : MessageFrom(tx', s) = MessageFrom(tx, s) /\ MessageFrom(withSender, s) = MessageFrom(tx, s)
    BY <1>1, <1>5, SameMessage
  <1>7. \A k, s : /\ SignedBy(k, tx', s) = SignedBy(k, tx, s)
                  /\ SignedBy(k, withSender, s) = SignedBy(k, tx, s)
    BY <1>6, Zenon DEF SignedBy
  <1>8. UserInv(tx')
    BY <1>4, <1>5, <1>7 DEF UserInv
  <1>9. GuardianInv(tx')
    BY <1>5, <1>7, Zenon DEF GuardianInv
  <1>10. Fresh(tx', userErr')
    <2>1. CASE tx'.signature = signature
      <3>1. signature = SignedBy(key, tx', key)
        BY <1>4, <1>7, Zenon
      <3> QED BY <1>5, <2>1, <3>1, Zenon DEF Fresh
    <2>2. CASE userErr' = TRUE
      BY <2>2, Zenon DEF Fresh
    <2> QED BY <1>5, <2>1, <2>2, Zenon
  <1> QED BY <1>5, <1>8, <1>9, <1>10, Zenon

LEMMA GuardianSigns ==
    ASSUME IsTx(tx), UserInv(tx), GuardianInv(tx), Fresh(tx, userErr), ApplyGuardianSignature
    PROVE  IsTx(tx') /\ UserInv(tx') /\ GuardianInv(tx') /\ Fresh(tx', userErr')
  <1> DEFINE signature == signTx(tx, Guardian)
  <1>1. tx' = [tx EXCEPT !.guardianSignature = signature] /\ userErr' = userErr
    BY Zenon DEF ApplyGuardianSignature
  <1>2. signature = SignedBy(Guardian, tx, tx.sender)
    BY MessageOfATx, Zenon DEF signTx, SignedBy
  <1> HIDE DEF signature
  <1>3. /\ IsTx(tx')
        /\ tx'.guardianAddr = tx.guardianAddr /\ tx'.options = tx.options /\ tx'.chainID = tx.chainID
        /\ tx'.version = tx.version /\ tx'.value = tx.value /\ tx'.gasLimit = tx.gasLimit
        /\ tx'.sender = tx.sender /\ tx'.signature = tx.signature /\ tx'.guardianSignature = signature
    BY <1>1, Zenon DEF IsTx
  <1>4. \A k, s : SignedBy(k, tx', s) = SignedBy(k, tx, s)
    BY <1>3, SameMessage, Zenon DEF SignedBy
  <1>5. UserInv(tx')
    BY <1>3, <1>4, Zenon DEF UserInv
  <1>6. GuardianInv(tx')
    BY <1>2, <1>3, <1>4, Zenon DEF GuardianInv
  <1>7. Fresh(tx', userErr')
    BY <1>1, <1>3, <1>4, Zenon DEF Fresh
  <1> QED BY <1>3, <1>5, <1>6, <1>7, Zenon

LEMMA NextSigningInv == SigningInv /\ [SigningNext]_signingVars => SigningInv'
  <1> SUFFICES ASSUME SigningInv, [SigningNext]_signingVars PROVE SigningInv'
    BY Zenon
  <1>1. IsTx(tx) /\ UserInv(tx) /\ GuardianInv(tx) /\ Fresh(tx, userErr)
    BY Zenon DEF SigningInv
  <1>2. /\ relayed = [v1 |-> relayed.v1, v2 |-> relayed.v2]
        /\ V1Inv(relayed.v1) /\ V2Inv(relayed.v2)
    BY Zenon DEF SigningInv
  <1>3. ASSUME tx' = tx, userErr' = userErr, relayed' = [v1 |-> relayed'.v1, v2 |-> relayed'.v2],
               V1Inv(relayed'.v1), V2Inv(relayed'.v2)
        PROVE  SigningInv'
    BY <1>1, <1>3, Zenon DEF SigningInv, UserInv, GuardianInv, Fresh, IsTx, V1Inv, V2Inv, WasSigned
  <1>4. ASSUME relayed' = relayed, IsTx(tx'), UserInv(tx'), GuardianInv(tx'), Fresh(tx', userErr')
        PROVE  SigningInv'
    BY <1>2, <1>4, Zenon DEF SigningInv, UserInv, GuardianInv, Fresh, IsTx, V1Inv, V2Inv
  <1>5. CASE UNCHANGED signingVars
    BY <1>1, <1>4, <1>5, Zenon DEF signingVars
  <1>6. ASSUME NEW key \in Users, ApplyUserSignature(key) PROVE SigningInv'
    <2>1. IsTx(tx') /\ UserInv(tx') /\ GuardianInv(tx') /\ Fresh(tx', userErr')
      BY <1>1, <1>6, UserSigns, Zenon
    <2>2. relayed' = relayed
      BY <1>6, Zenon DEF ApplyUserSignature
    <2> QED BY <1>4, <2>1, <2>2, Zenon
  <1>7. CASE ApplyGuardianSignature
    <2>1. IsTx(tx') /\ UserInv(tx') /\ GuardianInv(tx') /\ Fresh(tx', userErr')
      BY <1>1, <1>7, GuardianSigns, Zenon
    <2>2. relayed' = relayed
      BY <1>7, Zenon DEF ApplyGuardianSignature
    <2> QED BY <1>4, <2>1, <2>2, Zenon
  <1>8. CASE BuildV1
    <2> DEFINE r == Relay(tx, prepareInnerTxForRelayV1(tx), tx.value)
    <2>1. relayed' = [relayed EXCEPT !.v1 = r] /\ tx' = tx /\ userErr' = userErr /\ tx.signature # NoSignature
      BY <1>8, Zenon DEF BuildV1
    <2>2. WasSigned(tx)
      BY <1>1, <2>1, Zenon DEF WasSigned, UserInv
    <2>3. V1Inv(r)
      BY <2>2, Zenon DEF V1Inv
    <2> HIDE DEF r
    <2>4. relayed' = [v1 |-> r, v2 |-> relayed.v2]
      BY <1>2, <2>1, Zenon
    <2> QED BY <1>2, <1>3, <2>1, <2>3, <2>4, Zenon
  <1>9. CASE BuildV2
    <2> DEFINE r == Relay(tx, prepareInnerTxForRelayV2(tx), 0)
    <2>1. /\ relayed' = [relayed EXCEPT !.v2 = r] /\ tx' = tx /\ userErr' = userErr /\ tx.signature # NoSignature
          /\ tx.gasLimit = 0
      BY <1>9, Zenon DEF BuildV2
    <2>2. WasSigned(tx)
      BY <1>1, <2>1, Zenon DEF WasSigned, UserInv
    <2>3. V2Inv(r)
      BY <2>1, <2>2, Zenon DEF V2Inv
    <2> HIDE DEF r
    <2>4. relayed' = [v1 |-> relayed.v1, v2 |-> r]
      BY <1>2, <2>1, Zenon
    <2> QED BY <1>2, <1>3, <2>1, <2>3, <2>4, Zenon
  <1> QED BY <1>5, <1>6, <1>7, <1>8, <1>9, Zenon DEF SigningNext

LEMMA OwnSignatures == ASSUME SigningInv PROVE OwnSignaturesVerify
  <1>1. IsTx(tx) /\ UserInv(tx) /\ GuardianInv(tx) /\ Fresh(tx, userErr)
    BY Zenon DEF SigningInv
  <1>2. ASSUME tx.signature # NoSignature, userErr => tx.signature.key = tx.sender
        PROVE  VerifyTransactionSignature(tx, tx.sender, tx.signature)
    <2>1. tx.signature = SignedBy(tx.sender, tx, tx.sender)
      <3>1. CASE ~userErr
        BY <1>1, <1>2, <3>1, Zenon DEF Fresh
      <3>2. CASE userErr
        <4>1. PICK s : tx.signature = SignedBy(s, tx, s)
          BY <1>1, <1>2, Zenon DEF UserInv
        <4>2. tx.signature.key = s
          BY <4>1 DEF SignedBy
        <4> QED BY <1>2, <3>2, <4>1, <4>2, Zenon
      <3> QED BY <3>1, <3>2, Zenon
    <2> QED BY <1>1, <1>2, <2>1, MessageOfATx, Zenon DEF VerifyTransactionSignature, SignedBy
  <1>3. ASSUME tx.guardianSignature # NoSignature, tx.guardianSignature.message.tx.sender = tx.sender
        PROVE  VerifyTransactionSignature(tx, Guardian, tx.guardianSignature)
    <2>1. PICK s : tx.guardianSignature = SignedBy(Guardian, tx, s)
      BY <1>1, <1>3, Zenon DEF GuardianInv
    <2>2. s = tx.sender
      <3>1. SignatureOf(tx.guardianSignature, tx, s)
        BY <2>1, IsASignature, Zenon
      <3> QED BY <1>3, <3>1, Zenon DEF SignatureOf
    <2> QED BY <1>1, <1>3, <2>1, <2>2, MessageOfATx, Zenon DEF VerifyTransactionSignature, SignedBy
  <1> QED BY <1>2, <1>3, Zenon DEF OwnSignaturesVerify

\* what the receiver of a relayed transaction takes out of it has the message that was signed
LEMMA UnpackedVerifies ==
    ASSUME NEW t, NEW fields, WasSigned(t), t.signature.message.tx.sender = t.sender,
           t.guardianAddr = NoKey, fields.sender = t.sender, fields.options = t.options,
           fields.chainID = t.chainID, fields.version = t.version, fields.value = t.value, fields.gasLimit = t.gasLimit
    PROVE  VerifyTransactionSignature(Unguarded(fields), t.sender, t.signature)
  <1>1. PICK s : t.signature = SignedBy(s, t, s)
    BY Zenon DEF WasSigned
  <1>0. SignatureOf(t.signature, t, s)
    BY <1>1, IsASignature, Zenon
  <1>2. s = t.sender
    BY <1>0, Zenon DEF SignatureOf
  <1> DEFINE u == Unguarded(fields)
  <1>3. /\ IsTx(u) /\ u.sender = t.sender /\ u.guardianAddr = t.guardianAddr /\ u.options = t.options
        /\ u.chainID = t.chainID /\ u.version = t.version /\ u.value = t.value /\ u.gasLimit = t.gasLimit
    BY Zenon DEF Unguarded, IsTx
  <1> HIDE DEF u
  <1>4. Message(u) = MessageFrom(t, t.sender)
    <2>1. Message(u) = MessageFrom(u, u.sender)
      BY <1>3, MessageOfATx, Zenon
    <2>2. MessageFrom(u, t.sender) = MessageFrom(t, t.sender)
      BY <1>3, SameMessage
    <2> QED BY <1>3, <2>1, <2>2, Zenon
  <1>5. t.signature # NoSignature
    BY <1>0, Zenon DEF SignatureOf
  <1> QED BY <1>1, <1>2, <1>4, <1>5, Zenon DEF VerifyTransactionSignature, SignedBy, u

LEMMA InnerSignatures == ASSUME SigningInv PROVE InnerSignaturesVerify
  <1>1. ASSUME NEW r, V1Inv(r), r # NotBuilt,
               r.inner.signature.message.tx.guardianAddr = NoKey,
               r.inner.signature.message.tx.sender = r.receiver
        PROVE  VerifyTransactionSignature(UnpackV1(r), r.receiver, r.inner.signature)
    <2>1. PICK t : WasSigned(t) /\ r = Relay(t, prepareInnerTxForRelayV1(t), t.value)
      BY <1>1, Zenon DEF V1Inv
    <2>2. r.receiver = t.sender /\ r.inner = Fields(t)
      BY <2>1, Zenon DEF Relay, prepareInnerTxForRelayV1
    <2>3. /\ Fields(t).sender = t.sender /\ Fields(t).options = t.options /\ Fields(t).version = t.version
          /\ Fields(t).chainID = t.chainID
          /\ Fields(t).value = t.value /\ Fields(t).gasLimit = t.gasLimit /\ Fields(t).signature = t.signature
      BY Zenon DEF Fields
    <2>4. t.guardianAddr = NoKey
      <3>1. PICK s : t.signature = SignedBy(s, t, s)
        BY <2>1, Zenon DEF WasSigned
      <3>2. SignatureOf(t.signature, t, s)
        BY <3>1, IsASignature, Zenon
      <3> QED BY <1>1, <2>2, <2>3, <3>2, Zenon DEF SignatureOf
    <2>5. VerifyTransactionSignature(Unguarded(Fields(t)), t.sender, t.signature)
      BY <1>1, <2>1, <2>2, <2>3, <2>4, UnpackedVerifies
    <2> QED BY <2>2, <2>3, <2>5, Zenon DEF UnpackV1
  <1>2. ASSUME NEW r, V2Inv(r), r # NotBuilt,
               r.inner.signature.message.tx.guardianAddr = NoKey,
               r.inner.signature.message.tx.sender = r.receiver,
               r.inner.signature.message.tx.value = 0,
               r.inner.signature.message.tx.options = 0,
               r.inner.signature.message.tx.chainID = NetworkChain,
               r.inner.signature.message.tx.version = NetworkVersion
        PROVE  VerifyTransactionSignature(UnpackV2(r), r.receiver, r.inner.signature)
    <2>1. PICK t : /\ WasSigned(t) /\ t.gasLimit = 0
                   /\ r = Relay(t, prepareInnerTxForRelayV2(t), 0)
      BY <1>2, Zenon DEF V2Inv
    <2>2. /\ r.receiver = t.sender /\ r.inner.signature = t.signature /\ r.version = NetworkVersion
          /\ r.chainID = NetworkChain
      BY <2>1, Zenon DEF Relay, prepareInnerTxForRelayV2
    <2>3. /\ t.guardianAddr = NoKey /\ t.value = 0 /\ t.options = 0
          /\ t.chainID = NetworkChain /\ t.version = NetworkVersion
      <3>1. PICK s : t.signature = SignedBy(s, t, s)
        BY <2>1, Zenon DEF WasSigned
      <3>2. SignatureOf(t.signature, t, s)
        BY <3>1, IsASignature, Zenon
      <3> QED BY <1>2, <2>2, <3>2, Zenon DEF SignatureOf
    <2> DEFINE fields == [sender |-> r.receiver, options |-> 0, chainID |-> r.chainID, version |-> r.version,
                          value |-> 0, gasLimit |-> 0, signature |-> r.inner.signature]
    <2>4. /\ fields.sender = t.sender /\ fields.options = t.options /\ fields.version = t.version
          /\ fields.chainID = t.chainID /\ fields.value = t.value /\ fields.gasLimit = t.gasLimit
      BY <2>1, <2>2, <2>3, Zenon
    <2>5. UnpackV2(r) = Unguarded(fields)
      BY Zenon DEF UnpackV2
    <2> HIDE DEF fields
    <2>6. VerifyTransactionSignature(Unguarded(fields), t.sender, t.signature)
      BY <1>2, <2>1, <2>2, <2>3, <2>4, UnpackedVerifies
    <2> QED BY <2>2, <2>5, <2>6, Zenon
  <1>3. V1Inv(relayed.v1) /\ V2Inv(relayed.v2)
    BY Zenon DEF SigningInv
  <1> QED BY <1>1, <1>2, <1>3, Zenon DEF InnerSignaturesVerify

(* Whatever the order in which user and guardian sign, and sign again, the *)
(* user's signature verifies unless the last ApplyUserSignature failed for *)
(* another user, the guardian's as long as the sender is the one it was    *)
(* made for, and an inner one on what the payload carries: the message     *)
(* that txBuilder signs is the transaction without its signatures, so that *)
(* neither depends on the other.  It holds for any keys, and any version   *)
(* and chain of the network, also where two of the roles share a key.      *)
THEOREM SignaturesAlwaysVerify == SigningSpec => []SignaturesVerify
  <1>1. SigningInv => SignaturesVerify
    BY OwnSignatures, InnerSignatures, Zenon DEF SignaturesVerify
  <1> QED BY <1>1, InitSigningInv, NextSigningInv, PTL DEF SigningSpec

-----------------------------------------------------------------------------
(* The header check                                                        *)

\* the requests for an epoch that the coordinator does not know
Asking == {"GetStartOfEpochMetaBlock", "GetValidatorsInfoByEpoch", "SetNodesConfigFromValidatorsInfo"}

WithHeader == Asking \cup {"IsEpochInConfig", "VerifySignature", "true", "invalidSignature"}

\* what a call knows at each of its steps, and of the coordinator
VerificationInv(job, known) ==
    /\ job = [pc |-> job.pc, header |-> job.header, randomness |-> job.randomness]
    /\ job.pc \in WithHeader => job.header \in Headers
    /\ job.pc \in Asking => job.header.epoch # 0
    /\ job.pc \in Asking \ {"GetStartOfEpochMetaBlock"} =>
          job.randomness = GetPrevRandSeed(job.header.epoch)
    /\ job.pc = "VerifySignature" => known[job.header.epoch] # NotInConfig
    /\ job.pc = "true" => job.header.signed = job.header.epoch
    /\ job.pc = "invalidSignature" => job.header.signed # job.header.epoch

\* the coordinator knows the right thing of an epoch or nothing, and the
\* genesis epoch before there is a verifier
ConfigInv(known) ==
    /\ known = [e \in Epochs |-> known[e]]
    /\ \A e \in Epochs : known[e] \in {NotInConfig, SignersOf(e)}

HeaderInv ==
    /\ ConfigInv(nodesConfig)
    /\ created = "verifier" => nodesConfig[0] # NotInConfig
    /\ check = [c \in Verifications |-> check[c]]
    /\ \A c \in Verifications : VerificationInv(check[c], nodesConfig)

\* what the coordinator was given for an epoch names the epoch
LEMMA SignersNameTheEpoch ==
    ASSUME NEW e \in Nat, NEW f \in Nat
    PROVE  /\ SignersOf(e) = SignersOf(f) <=> e = f
           /\ SignersOf(e) # NotInConfig
  <1>1. \A n \in Nat : SignersOf(n).validators = n
    BY Zenon DEF SignersOf, genesisNodes
  <1>2. NotInConfig.validators = -1
    BY Zenon DEF NotInConfig
  <1> QED BY <1>1, <1>2

LEMMA EpochsAreNatural == Epochs \subseteq Nat /\ 0 \in Epochs
  BY HeadersHaveEpochs DEF Epochs

LEMMA HeadersInEpochs ==
    ASSUME NEW h \in Headers
    PROVE  h.epoch \in Epochs /\ h.signed \in Epochs
  BY Zenon DEF Epochs

LEMMA IdleCall ==
    ASSUME NEW known, NEW label \in {"idle", "error"}
    PROVE  VerificationInv([Idle EXCEPT !.pc = label], known)
  BY DEF VerificationInv, Idle, WithHeader, Asking

LEMMA InitHeaderInv == HeadersInit => HeaderInv
  <1> SUFFICES ASSUME HeadersInit PROVE HeaderInv
    BY Zenon
  <1>1. ConfigInv(nodesConfig)
    BY Zenon DEF HeadersInit, ConfigInv
  <1>2. VerificationInv(Idle, nodesConfig)
    BY Zenon DEF VerificationInv, Idle, WithHeader, Asking
  <1> QED BY <1>1, <1>2, Zenon DEF HeadersInit, HeaderInv

\* a step of one call: the others keep what they know
LEMMA VerificationMoves ==
    ASSUME HeaderInv, NEW c \in Verifications, NEW job, Becomes(c, job),
           UNCHANGED created, ConfigInv(nodesConfig'),
           \A e \in Epochs : nodesConfig[e] # NotInConfig => nodesConfig'[e] # NotInConfig,
           VerificationInv(job, nodesConfig')
    PROVE  HeaderInv'
  <1>1. check' = [d \in Verifications |-> IF d = c THEN job ELSE check[d]]
    BY Zenon DEF HeaderInv, Becomes
  <1>2. ASSUME NEW d \in Verifications PROVE VerificationInv(check'[d], nodesConfig')
    <2>1. CASE d = c
      BY <1>1, <2>1, Zenon
    <2>2. CASE d # c
      <3>1. check'[d] = check[d] /\ VerificationInv(check[d], nodesConfig)
        BY <1>1, <2>2, Zenon DEF HeaderInv
      <3>2. check[d].pc = "VerifySignature" => nodesConfig'[check[d].header.epoch] # NotInConfig
        BY <3>1, HeadersInEpochs, Zenon DEF VerificationInv, WithHeader
      <3> QED BY <3>1, <3>2, Zenon DEF VerificationInv
    <2> QED BY <2>1, <2>2, Zenon
  <1>3. nodesConfig[0] # NotInConfig => nodesConfig'[0] # NotInConfig
    BY EpochsAreNatural, Zenon
  <1> QED BY <1>1, <1>2, <1>3, Zenon DEF HeaderInv

LEMMA VerificationKeepsInv ==
    ASSUME HeaderInv, NEW c \in Verifications, VerificationStep(c)
    PROVE  HeaderInv'
  <1> DEFINE job == check[c]
  <1>0. VerificationInv(job, nodesConfig) /\ ConfigInv(nodesConfig)
    BY Zenon DEF HeaderInv
  <1>1. ASSUME NEW s \in HeaderShards, NEW h \in Headers, fetchHeaderByHashAndShard(c, s, h)
        PROVE  HeaderInv'
    <2>1. CASE Becomes(c, [Idle EXCEPT !.pc = "error"])
      BY <1>0, <1>1, <2>1, VerificationMoves, IdleCall, Zenon DEF fetchHeaderByHashAndShard
    <2>2. CASE Becomes(c, [Idle EXCEPT !.pc = "IsEpochInConfig", !.header = h])
      <3>1. [Idle EXCEPT !.pc = "IsEpochInConfig", !.header = h] =
                [pc |-> "IsEpochInConfig", header |-> h, randomness |-> <<"none", 0>>]
        <4> DEFINE moved == [Idle EXCEPT !.pc = "IsEpochInConfig"]
        <4>1. moved = [pc |-> "IsEpochInConfig", header |-> NoHeader, randomness |-> <<"none", 0>>]
          BY DEF Idle
        <4> HIDE DEF moved
        <4>2. [moved EXCEPT !.header = h] = [pc |-> "IsEpochInConfig", header |-> h, randomness |-> <<"none", 0>>]
          BY <4>1
        <4> QED BY <4>2, Zenon DEF moved
      <3>2. VerificationInv([pc |-> "IsEpochInConfig", header |-> h, randomness |-> <<"none", 0>>], nodesConfig')
        BY Zenon DEF VerificationInv, WithHeader, Asking
      <3> QED BY <1>0, <1>1, <2>2, <3>1, <3>2, VerificationMoves, Zenon DEF fetchHeaderByHashAndShard
    <2> QED BY <1>1, <2>1, <2>2, Zenon DEF fetchHeaderByHashAndShard
  <1>2. CASE lookAtConfig(c)
    <2> DEFINE next == [job EXCEPT !.pc = IF IsEpochInConfig(job.header.epoch)
                                          THEN "VerifySignature" ELSE "GetStartOfEpochMetaBlock"]
    <2>1. job.header.epoch = 0 => IsEpochInConfig(job.header.epoch)
      BY <1>2, Zenon DEF lookAtConfig, Verifying, HeaderInv, IsEpochInConfig
    <2>2. VerificationInv(next, nodesConfig')
      BY <1>0, <1>2, <2>1 DEF VerificationInv, lookAtConfig, Verifying, WithHeader, Asking, IsEpochInConfig
    <2> QED BY <1>0, <1>2, <2>2, VerificationMoves, Zenon DEF lookAtConfig
  <1>3. CASE GetStartOfEpochMetaBlock(c)
    <2> DEFINE next == [pc |-> "GetValidatorsInfoByEpoch", header |-> job.header,
                        randomness |-> GetPrevRandSeed(job.header.epoch)]
    <2>1. /\ job = [pc |-> job.pc, header |-> job.header, randomness |-> job.randomness]
          /\ job.header \in Headers /\ job.header.epoch # 0
      BY <1>0, <1>3, Zenon DEF VerificationInv, GetStartOfEpochMetaBlock, Verifying, WithHeader, Asking
    <2>2. [job EXCEPT !.pc = "GetValidatorsInfoByEpoch",
                      !.randomness = GetPrevRandSeed(job.header.epoch)] = next
      <3> DEFINE moved == [job EXCEPT !.pc = "GetValidatorsInfoByEpoch"]
      <3>1. moved = [pc |-> "GetValidatorsInfoByEpoch", header |-> job.header, randomness |-> job.randomness]
        BY <2>1
      <3> HIDE DEF moved
      <3>2. [moved EXCEPT !.randomness = GetPrevRandSeed(job.header.epoch)] = next
        BY <3>1
      <3> QED BY <3>2, Zenon DEF moved
    <2>3. VerificationInv(next, nodesConfig')
      BY <2>1, Zenon DEF VerificationInv, WithHeader, Asking
    <2> QED BY <1>0, <1>3, <2>2, <2>3, VerificationMoves, Zenon DEF GetStartOfEpochMetaBlock
  <1>4. CASE GetValidatorsInfoByEpoch(c)
    <2>1. VerificationInv([job EXCEPT !.pc = "SetNodesConfigFromValidatorsInfo"], nodesConfig')
      BY <1>0, <1>4 DEF VerificationInv, GetValidatorsInfoByEpoch, Verifying, WithHeader, Asking
    <2> QED BY <1>0, <1>4, <2>1, VerificationMoves, Zenon DEF GetValidatorsInfoByEpoch
  <1>5. CASE SetNodesConfigFromValidatorsInfo(c)
    <2> DEFINE epoch == job.header.epoch
    <2>1. /\ job.header \in Headers /\ epoch # 0
          /\ job.randomness = GetPrevRandSeed(epoch)
      BY <1>0, <1>5, Zenon DEF VerificationInv, SetNodesConfigFromValidatorsInfo, Verifying, WithHeader, Asking
    <2>2. epoch \in Epochs /\ epoch \in Nat
      BY <2>1, HeadersInEpochs, EpochsAreNatural, Zenon
    <2>3. nodesConfig' = [nodesConfig EXCEPT ![epoch] = SignersOf(epoch)]
      BY <1>5, <2>1, Zenon DEF SetNodesConfigFromValidatorsInfo, SignersOf, GetPrevRandSeed
    <2>4. ConfigInv(nodesConfig')
      BY <1>0, <2>2, <2>3, Zenon DEF ConfigInv
    <2>5. /\ nodesConfig'[epoch] # NotInConfig
          /\ \A e \in Epochs : nodesConfig[e] # NotInConfig => nodesConfig'[e] # NotInConfig
      BY <1>0, <2>2, <2>3, SignersNameTheEpoch, Zenon DEF ConfigInv
    <2>6. VerificationInv([job EXCEPT !.pc = "VerifySignature"], nodesConfig')
      BY <1>0, <2>1, <2>5 DEF VerificationInv, WithHeader, Asking
    <2> QED BY <1>5, <2>4, <2>5, <2>6, VerificationMoves, Zenon DEF SetNodesConfigFromValidatorsInfo
  <1>6. CASE CheckFails(c)
    BY <1>0, <1>6, VerificationMoves, IdleCall, Zenon DEF CheckFails
  <1>7. CASE VerifySignature(c)
    <2> DEFINE epoch == job.header.epoch
               signed == job.header.signed
               matches == nodesConfig[epoch] = SignersOf(signed)
    <2>1. job.header \in Headers /\ nodesConfig[epoch] # NotInConfig
      BY <1>0, <1>7, Zenon DEF VerificationInv, VerifySignature, Verifying, WithHeader
    <2>2. epoch \in Epochs /\ epoch \in Nat /\ signed \in Nat
      BY <2>1, HeadersInEpochs, EpochsAreNatural, Zenon
    <2>3. matches <=> epoch = signed
      BY <1>0, <2>1, <2>2, SignersNameTheEpoch DEF ConfigInv
    <2>4. VerificationInv([job EXCEPT !.pc = IF matches THEN "true" ELSE "invalidSignature"], nodesConfig')
      BY <1>0, <2>1, <2>3 DEF VerificationInv, WithHeader, Asking
    <2> QED BY <1>0, <1>7, <2>4, VerificationMoves, Zenon DEF VerifySignature
  <1>8. CASE Again(c)
    <2>1. VerificationInv(Idle, nodesConfig')
      BY Zenon DEF VerificationInv, Idle, WithHeader, Asking
    <2>2. Becomes(c, Idle) /\ UNCHANGED <<created, nodesConfig>>
      BY <1>8, Zenon DEF Again
    <2>3. ConfigInv(nodesConfig')
      BY <1>0, <2>2, Zenon
    <2> QED BY <1>0, <2>1, <2>2, <2>3, VerificationMoves, Zenon
  <1> QED BY <1>1, <1>2, <1>3, <1>4, <1>5, <1>6, <1>7, <1>8, SMTT(30) DEF VerificationStep

LEMMA CreationKeepsInv ==
    ASSUME HeaderInv, NewHeaderCheckHandler \/ NewHeaderCheckHandlerFails
    PROVE  HeaderInv'
  <1>1. CASE UNCHANGED nodesConfig /\ created' # "verifier"
    BY <1>1, Zenon DEF HeaderInv, NewHeaderCheckHandler, NewHeaderCheckHandlerFails
  <1>2. CASE CreateNodesCoordinator
    <2>1. nodesConfig' = [nodesConfig EXCEPT ![0] = SignersOf(0)]
      BY <1>2, Zenon DEF CreateNodesCoordinator, SignersOf
    <2>2. ConfigInv(nodesConfig')
      BY <2>1, EpochsAreNatural, Zenon DEF HeaderInv, ConfigInv
    <2>3. /\ nodesConfig'[0] # NotInConfig
          /\ \A e \in Epochs : nodesConfig[e] # NotInConfig => nodesConfig'[e] # NotInConfig
      BY <2>1, EpochsAreNatural, SignersNameTheEpoch, Zenon DEF HeaderInv, ConfigInv
    <2>4. ASSUME NEW c \in Verifications PROVE VerificationInv(check[c], nodesConfig')
      BY <2>3, HeadersInEpochs, Zenon DEF HeaderInv, VerificationInv, WithHeader
    <2>5. UNCHANGED check
      BY Zenon DEF NewHeaderCheckHandler, NewHeaderCheckHandlerFails
    <2> QED BY <2>2, <2>3, <2>4, <2>5, Zenon DEF HeaderInv
  <1> QED BY <1>1, <1>2, Zenon DEF NewHeaderCheckHandler, NewHeaderCheckHandlerFails

LEMMA NextHeaderInv == HeaderInv /\ [HeadersNext]_headerVars => HeaderInv'
  <1> SUFFICES ASSUME HeaderInv, [HeadersNext]_headerVars PROVE HeaderInv'
    BY Zenon
  <1>1. CASE UNCHANGED headerVars
    BY <1>1, Zenon DEF HeaderInv, headerVars
  <1>2. CASE HeadersNext
    BY <1>2, CreationKeepsInv, VerificationKeepsInv DEF HeadersNext
  <1> QED BY <1>1, <1>2, Zenon

(* A verification of a block header answers true exactly for a header that *)
(* was signed for its own epoch: the nodes coordinator that the concurrent *)
(* calls of VerifyHeaderSignatureByHash share holds, for each epoch, the   *)
(* right validators with the right randomness or nothing, and a call looks *)
(* at the signature only when it holds something.                          *)
THEOREM HeaderVerdictsAlwaysTrue == HeadersSpec => []HeaderVerdictsAreTrue
  <1>1. HeaderInv => HeaderVerdictsAreTrue
    BY Zenon DEF HeaderInv, VerificationInv, HeaderVerdictsAreTrue
  <1> QED BY <1>1, InitHeaderInv, NextHeaderInv, PTL DEF HeadersSpec

=============================================================================
