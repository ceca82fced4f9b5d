----------------------- MODULE NonceRegistryV3Proofs ------------------------
(***************************************************************************)
(* Proofs about the map of handlers of nonceHandlerV3, for any finite set  *)
(* of concurrent calls with any transactions.                              *)
(***************************************************************************)
EXTENDS NonceRegistryV3, FiniteSetTheorems, TLAPS

-----------------------------------------------------------------------------
(* There are as many handlers as senders met, so that Instances suffices.  *)

Senders == {TxsOf[s[1]][s[2]] : s \in Slots}

LEMMA TransactionsOfACall ==
    ASSUME NEW c \in Calls
    PROVE  /\ Len(TxsOf[c]) \in Nat \ {0}
           /\ DOMAIN TxsOf[c] = 1..Len(TxsOf[c])
           /\ \A i \in DOMAIN TxsOf[c] : TxsOf[c][i] \in Addresses \cup {Invalid}
  <1>1. ASSUME NEW S, NEW s \in Seq(S), s # <<>>
        PROVE  /\ Len(s) \in Nat \ {0} /\ DOMAIN s = 1..Len(s)
               /\ \A i \in DOMAIN s : s[i] \in S
    BY <1>1
  <1> QED BY <1>1, CallsHaveTransactions, Zenon

LEMMA SlotsOfACall ==
    ASSUME NEW s \in Slots
    PROVE  s[1] \in Calls /\ s[2] \in DOMAIN TxsOf[s[1]] /\ s = <<s[1], s[2]>>
  BY DEF Slots

LEMMA SlotIsASlot ==
    ASSUME NEW c \in Calls, NEW i \in DOMAIN TxsOf[c]
    PROVE  <<c, i>> \in Slots
  BY DEF Slots

LEMMA SenderOfASlot ==
    ASSUME NEW c, NEW i, <<c, i>> \in Slots
    PROVE  TxsOf[c][i] \in Senders
  <1> DEFINE s == <<c, i>>
  <1>1. s \in Slots /\ s[1] = c /\ s[2] = i
    BY Zenon
  <1> HIDE DEF s
  <1> QED BY <1>1, Zenon DEF Senders

LEMMA SlotsAreFinite == IsFiniteSet(Slots)
  <1> DEFINE slotsOf(c) == {c} \X DOMAIN TxsOf[c]
             All == {slotsOf(c) : c \in Calls}
             f == [c \in Calls |-> slotsOf(c)]
  <1>1. \A c \in Calls : IsFiniteSet(slotsOf(c))
    <2> TAKE c \in Calls
    <2>1. IsFiniteSet(DOMAIN TxsOf[c])
      BY TransactionsOfACall, FS_Interval
    <2>2. IsFiniteSet({c})
      BY FS_Singleton, Zenon
    <2> QED BY <2>1, <2>2, FS_Product, Zenon
  <1>2. f \in Surjection(Calls, All)
    BY Zenon DEF Surjection
  <1>3. IsFiniteSet(All)
    BY <1>2, CallsAreFinite, FS_Surjection, Zenon
  <1>4. \A T \in All : IsFiniteSet(T)
    BY <1>1, Zenon
  <1>5. IsFiniteSet(UNION All)
    BY <1>3, <1>4, FS_UNION, Zenon
  <1> QED BY <1>5, Zenon DEF Slots

LEMMA FewSenders ==
    /\ Cardinality(Slots) \in Nat
    /\ IsFiniteSet(Senders)
    /\ Cardinality(Senders) \in Nat
    /\ Cardinality(Senders) <= Cardinality(Slots)
  <1> DEFINE f == [s \in Slots |-> TxsOf[s[1]][s[2]]]
  <1>1. f \in Surjection(Slots, Senders)
    BY Zenon DEF Surjection, Senders
  <1>2. IsFiniteSet(Senders) /\ Cardinality(Senders) <= Cardinality(Slots)
    BY <1>1, SlotsAreFinite, FS_Surjection, Zenon
  <1> QED BY <1>2, SlotsAreFinite, FS_CardinalityType, Zenon

-----------------------------------------------------------------------------
(* The map: one handler for each sender, and the calls and goroutines work *)
(* with the handler of their sender.                                       *)

Applying == {"apply", "createToApply", "computeNonce"}
Sending == {"send", "createToSend", "go"}
Labels == Applying \cup Sending \cup {"wait", "returned"}

Goroutines == [state : {"none", "started", "waiting", "sent", "failed"}, anh : Nat,
               request : {"none", "queued", "inHand", "ok", "error", "lost"}]

DataShape ==
    /\ handlers \in [Addresses -> Nat] /\ created \in Nat
    /\ nonce \in [Instances -> Nat \cup {NotSet}]
    /\ txNonce = [c \in Calls |-> txNonce[c]]
    /\ send = [c \in Calls |-> send[c]]
    /\ \A c \in Calls : /\ txNonce[c] \in [DOMAIN TxsOf[c] -> Nat \cup {NotSet}]
                        /\ send[c] \in [DOMAIN TxsOf[c] -> Goroutines]

CallShape ==
    /\ pc \in [Calls -> Labels]
    /\ index \in [Calls -> Nat]
    /\ anh \in [Calls -> Nat]
    /\ returned \in [Calls -> {"no", "refused", "ok", "failed"}]
    /\ \A c \in Calls : index[c] \in DOMAIN TxsOf[c]

Registered == {a \in Addresses : handlers[a] # None}

MapInv ==
    /\ IsFiniteSet(Registered) /\ Registered \subseteq Senders
    /\ created = Cardinality(Registered)
    /\ \A a \in Addresses : handlers[a] <= created
    /\ \A a, b \in Registered : handlers[a] = handlers[b] => a = b
    /\ \A h \in 1..created : \E a \in Addresses : handlers[a] = h

CallInv ==
    \A c \in Calls :
        /\ pc[c] \in {"createToApply", "computeNonce", "createToSend", "go"} => Sender(c) \in Addresses
        /\ pc[c] \in {"computeNonce", "go"} => Sender(c) \in Registered /\ anh[c] = handlers[Sender(c)]

GoroutineInv ==
    \A c \in Calls : \A i \in DOMAIN TxsOf[c] :
        /\ send[c][i].state \in {"none", "started"} => send[c][i].request = "none"
        /\ send[c][i].state # "none" =>
              TxsOf[c][i] \in Registered /\ send[c][i].anh = handlers[TxsOf[c][i]]

RegistryInv == DataShape /\ CallShape /\ MapInv /\ CallInv /\ GoroutineInv

-----------------------------------------------------------------------------
(* What SendTransactions returns                                           *)

Hashes ==
    [c \in Calls |-> [i \in DOMAIN TxsOf[c] |-> IF send[c][i].state = "sent" THEN <<c, i>> ELSE NoHash]]

NotStarted(c, from) == \A i \in DOMAIN TxsOf[c] : i >= from => send[c][i].state = "none"

ReturnInv ==
    /\ sentHashes = Hashes
    /\ \A c \in Calls :
        /\ pc[c] \in Applying => NotStarted(c, 1)
        /\ pc[c] \in Sending => NotStarted(c, index[c])
        /\ returned[c] # "no" => pc[c] = "returned"
        /\ returned[c] \in {"ok", "failed"} => \A i \in DOMAIN TxsOf[c] :
              send[c][i].state \in (IF returned[c] = "ok" THEN {"sent"} ELSE {"sent", "failed"})

-----------------------------------------------------------------------------
(* Nonces: the handler's nonce is the highest that a sender got, until a   *)
(* request of the sender fails.                                            *)

SenderOf(s) == TxsOf[s[1]][s[2]]
Request(s) == send[s[1]][s[2]].request
NonceOf(s) == txNonce[s[1]][s[2]]

FailedSender(a) == \E u \in Slots : SenderOf(u) = a /\ Request(u) \in {"error", "lost"}

NonceInv ==
    \A a \in Addresses : ~FailedSender(a) =>
        \A s \in Slots : SenderOf(s) = a /\ NonceOf(s) # NotSet =>
            /\ a \in Registered
            /\ nonce[handlers[a]] # NotSet
            /\ NonceOf(s) <= nonce[handlers[a]]

ApplicantInv == \A s \in Slots : NonceOf(s) # NotSet => SenderOf(s) \in Addresses

-----------------------------------------------------------------------------
(* The initial state                                                       *)

LEMMA InitRegistry == Init => RegistryInv
  <1> SUFFICES ASSUME Init PROVE RegistryInv
    BY Zenon
  <1> DEFINE resting == [state |-> "none", anh |-> None, request |-> "none"]
  <1>1. resting \in Goroutines /\ resting.state = "none" /\ resting.request = "none"
    BY Zenon DEF Goroutines, None
  <1> HIDE DEF resting
  <1>2. /\ send = [c \in Calls |-> [i \in DOMAIN TxsOf[c] |-> resting]]
        /\ txNonce = [c \in Calls |-> [i \in DOMAIN TxsOf[c] |-> NotSet]]
    BY Zenon DEF Init, resting
  <1>3. \A c \in Calls : 1 \in DOMAIN TxsOf[c]
    BY TransactionsOfACall
  <1>4. DataShape /\ CallShape
    BY <1>1, <1>2, <1>3 DEF Init, DataShape, CallShape, None, Labels, Applying, Sending
  <1>5. Registered = {}
    BY Zenon DEF Init, Registered, None
  <1>6. MapInv
    BY <1>5, FS_EmptySet DEF Init, MapInv, None
  <1>7. CallInv
    BY SMTT(30) DEF Init, CallInv
  <1>8. GoroutineInv
    BY <1>1, <1>2, Zenon DEF GoroutineInv
  <1> QED BY <1>4, <1>6, <1>7, <1>8, Zenon DEF RegistryInv

LEMMA InitReturn == Init => ReturnInv
  <1> SUFFICES ASSUME Init PROVE ReturnInv
    BY Zenon
  <1>1. \A c \in Calls : \A i \in DOMAIN TxsOf[c] : send[c][i].state = "none"
    BY Zenon DEF Init
  <1>2. sentHashes = Hashes
    BY <1>1, Zenon DEF Init, Hashes
  <1>3. \A c \in Calls : returned[c] = "no"
    BY Zenon DEF Init
  <1> QED BY <1>1, <1>2, <1>3, Zenon DEF ReturnInv, NotStarted

LEMMA InitNonce == Init => NonceInv /\ ApplicantInv /\ SenderNoncesDiffer
  <1> SUFFICES ASSUME Init PROVE NonceInv /\ ApplicantInv /\ SenderNoncesDiffer
    BY Zenon
  <1>1. \A s \in Slots : txNonce[s[1]][s[2]] = NotSet
    BY SlotsOfACall, SMTT(30) DEF Init
  <1> QED BY <1>1, Zenon DEF NonceInv, ApplicantInv, SenderNoncesDiffer, NonceOf

-----------------------------------------------------------------------------
(* The steps of goroutines and workers have this in common: they change    *)
(* neither the map nor the calls, a request that failed stays a failed     *)
(* one, and a goroutine that has ended stays as it is.                     *)

GoroutineStep ==
    /\ UNCHANGED <<handlers, created, pc, index, anh, returned, txNonce>>
    /\ send' = [c \in Calls |-> send'[c]]
    /\ \A c \in Calls : send'[c] \in [DOMAIN TxsOf[c] -> Goroutines]
    /\ \A c \in Calls : \A i \in DOMAIN TxsOf[c] :
        /\ send'[c][i].anh = send[c][i].anh
        /\ send'[c][i].state = "none" <=> send[c][i].state = "none"
        /\ send'[c][i].state \in {"none", "started"} => send'[c][i].request = "none"
        /\ Ended(c, i) => send'[c][i].state = send[c][i].state
        /\ send[c][i].request \in {"error", "lost"} => send'[c][i].request = send[c][i].request
    /\ sentHashes = Hashes => sentHashes' = Hashes'
    /\ \/ UNCHANGED nonce
       \/ \E c \in Calls : \E i \in DOMAIN TxsOf[c] :
            /\ send[c][i].request \in {"error", "lost"} /\ send[c][i].state # "none"
            /\ nonce' = [nonce EXCEPT ![send[c][i].anh] = NotSet]

\* one goroutine changes, or what the worker does with its request
LEMMA OneGoroutine ==
    ASSUME RegistryInv, NEW c \in Calls, NEW i \in DOMAIN TxsOf[c], NEW record \in Goroutines,
           send' = [send EXCEPT ![c][i] = record],
           UNCHANGED <<handlers, created, pc, index, anh, returned, txNonce>>,
           record.anh = send[c][i].anh,
           send[c][i].state # "none", record.state \notin {"none", "started"},
           Ended(c, i) => record.state = send[c][i].state,
           send[c][i].request \in {"error", "lost"} => record.request = send[c][i].request,
           sentHashes' = IF record.state = "sent" /\ send[c][i].state # "sent"
                         THEN [sentHashes EXCEPT ![c][i] = <<c, i>>] ELSE sentHashes,
           \/ UNCHANGED nonce
           \/ /\ send[c][i].request \in {"error", "lost"}
              /\ nonce' = [nonce EXCEPT ![send[c][i].anh] = NotSet]
    PROVE  GoroutineStep
  <1>1. /\ send' = [d \in Calls |-> send'[d]]
        /\ \A d \in Calls : send'[d] \in [DOMAIN TxsOf[d] -> Goroutines]
        /\ \A d \in Calls : \A j \in DOMAIN TxsOf[d] :
              send'[d][j] = IF d = c /\ j = i THEN record ELSE send[d][j]
    BY Zenon DEF RegistryInv, DataShape, CallShape
  <1>2. \A d \in Calls : \A j \in DOMAIN TxsOf[d] :
            send[d][j].state \in {"none", "started"} => send[d][j].request = "none"
    BY Zenon DEF RegistryInv, GoroutineInv
  <1>3. ASSUME sentHashes = Hashes PROVE sentHashes' = Hashes'
    <2>1. CASE record.state = "sent" /\ send[c][i].state # "sent"
      <3>1. /\ Hashes = [d \in Calls |-> Hashes[d]]
            /\ \A d \in Calls : Hashes[d] = [j \in DOMAIN TxsOf[d] |-> Hashes[d][j]]
            /\ \A d \in Calls : \A j \in DOMAIN TxsOf[d] :
                  Hashes[d][j] = IF send[d][j].state = "sent" THEN <<d, j>> ELSE NoHash
        BY Zenon DEF Hashes
      <3>2. sentHashes' = [Hashes EXCEPT ![c] = [Hashes[c] EXCEPT ![i] = <<c, i>>]]
        BY <1>3, <2>1, Zenon
      <3> DEFINE hash(d, j) == IF send'[d][j].state = "sent" THEN <<d, j>> ELSE NoHash
      <3>3. ASSUME NEW d \in Calls PROVE sentHashes'[d] = [j \in DOMAIN TxsOf[d] |-> hash(d, j)]
        <4>1. CASE d = c
          <5>1. sentHashes'[c] = [Hashes[c] EXCEPT ![i] = <<c, i>>]
            BY <3>1, <3>2, Zenon
          <5>2. \A j \in DOMAIN TxsOf[c] : hash(c, j) = IF j = i THEN <<c, i>> ELSE Hashes[c][j]
            BY <1>1, <2>1, <3>1
          <5> HIDE DEF hash
          <5> QED BY <3>1, <4>1, <5>1, <5>2
        <4>2. CASE d # c
          <5>1. sentHashes'[d] = Hashes[d]
            BY <3>1, <3>2, <4>2, Zenon
          <5>2. \A j \in DOMAIN TxsOf[d] : hash(d, j) = Hashes[d][j]
            BY <1>1, <3>1, <4>2
          <5> HIDE DEF hash
          <5> QED BY <3>1, <5>1, <5>2, Zenon
        <4> QED BY <4>1, <4>2, Zenon
      <3>4. sentHashes' = [d \in Calls |-> sentHashes'[d]]
        BY <3>1, <3>2, Zenon
      <3> QED BY <3>3, <3>4, Zenon DEF Hashes
    <2>2. CASE ~(record.state = "sent" /\ send[c][i].state # "sent")
      <3>1. record.state = "sent" <=> send[c][i].state = "sent"
        BY <2>2, Zenon DEF Ended
      <3>2. \A d \in Calls : \A j \in DOMAIN TxsOf[d] : send'[d][j].state = "sent" <=> send[d][j].state = "sent"
        BY <1>1, <3>1, Zenon
      <3>3. Hashes' = Hashes
        BY <3>2, Zenon DEF Hashes
      <3> QED BY <1>3, <2>2, <3>3, Zenon
    <2> QED BY <2>1, <2>2, Zenon
  <1>4. \A d \in Calls : \A j \in DOMAIN TxsOf[d] :
        /\ send'[d][j].anh = send[d][j].anh
        /\ send'[d][j].state = "none" <=> send[d][j].state = "none"
        /\ send'[d][j].state \in {"none", "started"} => send'[d][j].request = "none"
        /\ Ended(d, j) => send'[d][j].state = send[d][j].state
        /\ send[d][j].request \in {"error", "lost"} => send'[d][j].request = send[d][j].request
    BY <1>1, <1>2
  <1>5. \/ UNCHANGED nonce
        \/ \E d \in Calls : \E j \in DOMAIN TxsOf[d] :
             /\ send[d][j].request \in {"error", "lost"} /\ send[d][j].state # "none"
             /\ nonce' = [nonce EXCEPT ![send[d][j].anh] = NotSet]
    BY Zenon
  <1> QED BY <1>1, <1>3, <1>4, <1>5, Zenon DEF GoroutineStep

LEMMA GoroutinesStep ==
    ASSUME RegistryInv, NEW c \in Calls, NEW i \in DOMAIN TxsOf[c],
           AddTransaction(c, i) \/ ReceiveHash(c, i) \/ ReceiveError(c, i) \/ ContextDone(c, i)
    PROVE  GoroutineStep
  <1> DEFINE g == send[c][i]
             Becomes(state, request) == [state |-> state, anh |-> g.anh, request |-> request]
  <1>1. g \in Goroutines /\ g = Becomes(g.state, g.request)
    BY DEF RegistryInv, DataShape, CallShape, Goroutines
  <1>2. CASE AddTransaction(c, i)
    <2>1. PICK request \in {"error", "queued"} : send' = [send EXCEPT ![c][i] = Becomes("waiting", request)]
      BY <1>2, Zenon DEF AddTransaction
    <2> DEFINE record == Becomes("waiting", request)
    <2>2. /\ record \in Goroutines /\ record.state = "waiting" /\ record.anh = g.anh
          /\ g.state = "started" /\ g.request = "none"
      BY <1>1, <1>2, Zenon DEF Goroutines, RegistryInv, GoroutineInv, AddTransaction
    <2>3. UNCHANGED <<handlers, created, pc, index, anh, returned, txNonce, sentHashes, nonce>>
      BY <1>2, Zenon DEF AddTransaction, handlerVars, callVars
    <2>4. send' = [send EXCEPT ![c][i] = record]
      BY <2>1, Zenon
    <2> HIDE DEF record
    <2> QED BY <2>2, <2>3, <2>4, OneGoroutine, Zenon DEF Ended
  <1>3. CASE ReceiveHash(c, i)
    <2> DEFINE record == [g EXCEPT !.state = "sent"]
    <2>1. send' = [send EXCEPT ![c][i] = record]
      BY <1>3, Zenon DEF ReceiveHash
    <2>2. /\ record \in Goroutines /\ record.state = "sent" /\ record.anh = g.anh
          /\ g.state = "waiting" /\ record.request = g.request
      BY <1>1, <1>3, Zenon DEF Goroutines, ReceiveHash
    <2>3. /\ sentHashes' = [sentHashes EXCEPT ![c][i] = <<c, i>>]
          /\ UNCHANGED <<handlers, created, pc, index, anh, returned, txNonce, nonce>>
      BY <1>3, Zenon DEF ReceiveHash, handlerVars, callVars
    <2> HIDE DEF record
    <2> QED BY <2>1, <2>2, <2>3, OneGoroutine, Zenon DEF Ended
  <1>4. CASE ReceiveError(c, i)
    <2> DEFINE record == [g EXCEPT !.state = "failed"]
    <2>1. send' = [send EXCEPT ![c][i] = record]
      BY <1>4, Zenon DEF ReceiveError
    <2>2. /\ record \in Goroutines /\ record.state = "failed" /\ record.anh = g.anh
          /\ g.state = "waiting" /\ record.request = g.request
      BY <1>1, <1>4, Zenon DEF Goroutines, ReceiveError
    <2>3. /\ g.request \in {"error", "lost"}
          /\ nonce' = [nonce EXCEPT ![g.anh] = NotSet]
          /\ UNCHANGED <<handlers, created, pc, index, anh, returned, txNonce, sentHashes>>
      BY <1>4, Zenon DEF ReceiveError, callVars
    <2> HIDE DEF record
    <2> QED BY <2>1, <2>2, <2>3, OneGoroutine, Zenon DEF Ended
  <1>5. CASE ContextDone(c, i)
    <2> DEFINE record == [g EXCEPT !.state = "failed"]
    <2>1. send' = [send EXCEPT ![c][i] = record]
      BY <1>5, Zenon DEF ContextDone
    <2>2. /\ record \in Goroutines /\ record.state = "failed" /\ record.anh = g.anh
          /\ g.state = "waiting" /\ record.request = g.request
      BY <1>1, <1>5, Zenon DEF Goroutines, ContextDone
    <2>3. UNCHANGED <<handlers, created, pc, index, anh, returned, txNonce, sentHashes, nonce>>
      BY <1>5, Zenon DEF ContextDone, handlerVars, callVars
    <2> HIDE DEF record
    <2> QED BY <2>1, <2>2, <2>3, OneGoroutine, Zenon DEF Ended
  <1> QED BY <1>2, <1>3, <1>4, <1>5, Zenon

\* the worker changes a request it holds
LEMMA RequestStep ==
    ASSUME RegistryInv, NEW c \in Calls, NEW i \in DOMAIN TxsOf[c],
           NEW request \in {"inHand", "ok", "error", "lost"},
           send[c][i].request \in {"queued", "inHand"},
           send' = [send EXCEPT ![c][i].request = request],
           UNCHANGED <<handlerVars, callVars, txNonce, sentHashes>>
    PROVE  GoroutineStep
  <1> DEFINE g == send[c][i]
             record == [g EXCEPT !.request = request]
  <1>1. g \in Goroutines
    BY Zenon DEF RegistryInv, DataShape, CallShape
  <1>2. g.request \in {"queued", "inHand"} /\ g.state \notin {"none", "started"}
    BY Zenon DEF RegistryInv, GoroutineInv
  <1>3. send' = [send EXCEPT ![c][i] = record]
    BY Zenon
  <1>4. /\ record \in Goroutines /\ record.state = g.state /\ record.anh = g.anh
    BY <1>1, Zenon DEF Goroutines
  <1>5. UNCHANGED <<handlers, created, pc, index, anh, returned, txNonce, sentHashes, nonce>>
    BY Zenon DEF handlerVars, callVars
  <1> HIDE DEF record
  <1>6. /\ send[c][i].state # "none" /\ record.state \notin {"none", "started"}
        /\ Ended(c, i) => record.state = send[c][i].state
        /\ send[c][i].request \in {"error", "lost"} => record.request = send[c][i].request
        /\ sentHashes' = IF record.state = "sent" /\ send[c][i].state # "sent"
                         THEN [sentHashes EXCEPT ![c][i] = <<c, i>>] ELSE sentHashes
    BY <1>2, <1>4, <1>5, Zenon
  <1> QED BY <1>3, <1>4, <1>5, <1>6, OneGoroutine, Zenon

LEMMA WorkerStep ==
    ASSUME RegistryInv, NEW h, TakeNext(h) \/ ProxySendTransaction(h) \/ closeAllChannels(h)
    PROVE  GoroutineStep
  <1>1. ASSUME NEW s \in Slots, NEW request \in {"inHand", "ok", "error", "lost"},
               Request(s) \in {"queued", "inHand"},
               send' = [send EXCEPT ![s[1]][s[2]].request = request],
               UNCHANGED <<handlerVars, callVars, txNonce, sentHashes>>
        PROVE  GoroutineStep
    <2>1. s[1] \in Calls /\ s[2] \in DOMAIN TxsOf[s[1]] /\ send[s[1]][s[2]].request \in {"queued", "inHand"}
      BY <1>1, SlotsOfACall, Zenon DEF Request
    <2> QED BY <1>1, <2>1, RequestStep, Zenon
  <1>2. CASE TakeNext(h)
    <2>1. PICK s \in Lowest(Holds(h, "queued")) : send' = [send EXCEPT ![s[1]][s[2]].request = "inHand"]
      BY <1>2, Zenon DEF TakeNext
    <2>2. s \in Slots /\ Request(s) = "queued"
      BY <2>1, Zenon DEF Lowest, Holds, Request
    <2>3. UNCHANGED <<handlerVars, callVars, txNonce, sentHashes>>
      BY <1>2, Zenon DEF TakeNext
    <2> QED BY <1>1, <2>1, <2>2, <2>3, Zenon
  <1>3. CASE ProxySendTransaction(h)
    <2>1. PICK s \in Holds(h, "inHand") : \E answer \in {"ok", "error", "lost"} :
            send' = [send EXCEPT ![s[1]][s[2]].request = answer]
      BY <1>3, Zenon DEF ProxySendTransaction
    <2>2. PICK answer \in {"ok", "error", "lost"} : send' = [send EXCEPT ![s[1]][s[2]].request = answer]
      BY <2>1, Zenon
    <2>3. s \in Slots /\ Request(s) = "inHand"
      BY <2>1, Zenon DEF Holds, Request
    <2>4. UNCHANGED <<handlerVars, callVars, txNonce, sentHashes>>
      BY <1>3, Zenon DEF ProxySendTransaction
    <2> QED BY <1>1, <2>2, <2>3, <2>4, ZenonT(30)
  <1>4. CASE closeAllChannels(h)
    <2> DEFINE Refused(c, i) == <<c, i>> \in Holds(h, "queued")
    <2>1. send' = [c \in Calls |-> [i \in DOMAIN TxsOf[c] |->
                    IF Refused(c, i) THEN [send[c][i] EXCEPT !.request = "error"] ELSE send[c][i]]]
      BY <1>4, Zenon DEF closeAllChannels
    <2>2. ASSUME NEW c \in Calls, NEW i \in DOMAIN TxsOf[c], Refused(c, i)
          PROVE  send[c][i].request = "queued" /\ send[c][i].state \notin {"none", "started"}
      BY <2>2, Zenon DEF Holds, RegistryInv, GoroutineInv
    <2> HIDE DEF Refused
    <2>3. ASSUME NEW c \in Calls, NEW i \in DOMAIN TxsOf[c]
          PROVE  /\ send'[c][i] \in Goroutines
                 /\ send'[c][i].anh = send[c][i].anh
                 /\ send'[c][i].state = send[c][i].state
                 /\ send'[c][i].state \in {"none", "started"} => send'[c][i].request = "none"
                 /\ send[c][i].request \in {"error", "lost"} => send'[c][i].request = send[c][i].request
      <3>1. send[c][i] \in Goroutines /\ (send[c][i].state \in {"none", "started"} => send[c][i].request = "none")
        BY Zenon DEF RegistryInv, DataShape, CallShape, GoroutineInv
      <3>2. CASE Refused(c, i)
        <4>1. send'[c][i] = [send[c][i] EXCEPT !.request = "error"]
          BY <2>1, <3>2, Zenon
        <4> QED BY <2>2, <3>1, <3>2, <4>1, Zenon DEF Goroutines
      <3>3. CASE ~Refused(c, i)
        BY <2>1, <3>1, <3>3, Zenon
      <3> QED BY <3>2, <3>3, Zenon
    <2>4. /\ send' = [c \in Calls |-> send'[c]]
          /\ \A c \in Calls : send'[c] \in [DOMAIN TxsOf[c] -> Goroutines]
      BY <2>1, <2>3, Zenon
    <2>5. Hashes' = Hashes
      BY <2>3 DEF Hashes
    <2>6. UNCHANGED <<handlers, created, pc, index, anh, returned, txNonce, sentHashes, nonce>>
      BY <1>4, Zenon DEF closeAllChannels, callVars
    <2> QED BY <2>3, <2>4, <2>5, <2>6 DEF GoroutineStep
  <1> QED BY <1>2, <1>3, <1>4, Zenon

LEMMA GoroutineKeepsRegistry ==
    ASSUME RegistryInv, GoroutineStep
    PROVE  RegistryInv'
  <1>1. nonce' \in [Instances -> Nat \cup {NotSet}]
    BY SMTT(30) DEF RegistryInv, DataShape, CallShape, GoroutineStep
  <1>2. DataShape' /\ CallShape'
    BY <1>1, Zenon DEF RegistryInv, DataShape, CallShape, GoroutineStep
  <1>3. MapInv' /\ Registered' = Registered
    BY ZenonT(30) DEF RegistryInv, MapInv, Registered, GoroutineStep
  <1>4. CallInv'
    BY <1>3, Zenon DEF RegistryInv, CallInv, Sender, GoroutineStep
  <1>5. GoroutineInv'
    BY <1>3 DEF RegistryInv, GoroutineInv, GoroutineStep
  <1> QED BY <1>2, <1>3, <1>4, <1>5, Zenon DEF RegistryInv

LEMMA GoroutineKeepsReturn ==
    ASSUME ReturnInv, GoroutineStep
    PROVE  ReturnInv'
  <1>1. sentHashes' = Hashes'
    BY Zenon DEF ReturnInv, GoroutineStep
  <1>2. ASSUME NEW c \in Calls, NEW n PROVE NotStarted(c, n) => NotStarted(c, n)'
    BY Zenon DEF NotStarted, GoroutineStep
  <1>3. ASSUME NEW c \in Calls
        PROVE  /\ pc'[c] \in Applying => NotStarted(c, 1)'
               /\ pc'[c] \in Sending => NotStarted(c, index[c])'
               /\ returned'[c] # "no" => pc'[c] = "returned"
               /\ returned'[c] \in {"ok", "failed"} => \A i \in DOMAIN TxsOf[c] :
                    send'[c][i].state \in (IF returned'[c] = "ok" THEN {"sent"} ELSE {"sent", "failed"})
    <2>1. UNCHANGED <<pc, index, returned>>
      BY Zenon DEF GoroutineStep
    <2>2. pc'[c] \in Applying => NotStarted(c, 1)'
      BY <1>2, <2>1, Zenon DEF ReturnInv
    <2>3. pc'[c] \in Sending => NotStarted(c, index[c])'
      BY <2>1, Zenon DEF ReturnInv, NotStarted, GoroutineStep
    <2>4. ASSUME returned[c] \in {"ok", "failed"}, NEW i \in DOMAIN TxsOf[c]
          PROVE  send'[c][i].state = send[c][i].state
      BY <2>4 DEF ReturnInv, GoroutineStep, Ended
    <2> QED BY <2>1, <2>2, <2>3, <2>4, Zenon DEF ReturnInv
  <1> QED BY <1>1, <1>3, Zenon DEF ReturnInv

-----------------------------------------------------------------------------
(* A step of one call                                                      *)

Moves(c, label, i, h, result) ==
    /\ pc' = [pc EXCEPT ![c] = label]
    /\ index' = [index EXCEPT ![c] = i]
    /\ anh' = [anh EXCEPT ![c] = h]
    /\ returned' = [returned EXCEPT ![c] = result]

LEMMA CallKeepsRegistry ==
    ASSUME RegistryInv, NEW c \in Calls, NEW label \in Labels, NEW i \in DOMAIN TxsOf[c], NEW h \in Nat,
           NEW result \in {"no", "refused", "ok", "failed"}, Moves(c, label, i, h, result),
           DataShape', MapInv', GoroutineInv',
           \A a \in Registered : a \in Registered' /\ handlers'[a] = handlers[a],
           label \in {"createToApply", "computeNonce", "createToSend", "go"} => TxsOf[c][i] \in Addresses,
           label \in {"computeNonce", "go"} => TxsOf[c][i] \in Registered' /\ h = handlers'[TxsOf[c][i]]
    PROVE  RegistryInv'
  <1>1. i \in Nat
    BY TransactionsOfACall
  <1>2. CallShape'
    BY <1>1, Zenon DEF RegistryInv, CallShape, Moves
  <1>3. ASSUME NEW d \in Calls
        PROVE  /\ pc'[d] \in {"createToApply", "computeNonce", "createToSend", "go"} =>
                      TxsOf[d][index'[d]] \in Addresses
               /\ pc'[d] \in {"computeNonce", "go"} =>
                      TxsOf[d][index'[d]] \in Registered' /\ anh'[d] = handlers'[TxsOf[d][index'[d]]]
    <2>1. CASE d = c
      <3>1. pc'[d] = label /\ index'[d] = i /\ anh'[d] = h
        BY <2>1, Zenon DEF RegistryInv, CallShape, Moves
      <3> QED BY <2>1, <3>1, Zenon
    <2>2. CASE d # c
      <3>1. pc'[d] = pc[d] /\ index'[d] = index[d] /\ anh'[d] = anh[d]
        BY <2>2, Zenon DEF RegistryInv, CallShape, Moves
      <3> QED BY <3>1, Zenon DEF RegistryInv, CallInv, Sender
    <2> QED BY <2>1, <2>2, Zenon
  <1>4. CallInv'
    BY <1>3, Zenon DEF CallInv, Sender
  <1> QED BY <1>2, <1>4, Zenon DEF RegistryInv

\* a step of one call that leaves map, goroutines and nonces alone
LEMMA CallAlone ==
    ASSUME RegistryInv, NEW c \in Calls, NEW label \in Labels, NEW i \in DOMAIN TxsOf[c], NEW h \in Nat,
           NEW result \in {"no", "refused", "ok", "failed"}, Moves(c, label, i, h, result),
           UNCHANGED <<handlers, created, nonce, txNonce, send>>,
           label \in {"createToApply", "computeNonce", "createToSend", "go"} => TxsOf[c][i] \in Addresses,
           label \in {"computeNonce", "go"} => TxsOf[c][i] \in Registered /\ h = handlers[TxsOf[c][i]]
    PROVE  RegistryInv'
  <1>1. DataShape' /\ Registered' = Registered
    BY Zenon DEF RegistryInv, DataShape, Registered
  <1>2. MapInv' /\ GoroutineInv'
    BY <1>1 DEF RegistryInv, MapInv, GoroutineInv
  <1> QED BY <1>1, <1>2, CallKeepsRegistry, Zenon

LEMMA CallKeepsReturn ==
    ASSUME RegistryInv, ReturnInv, NEW c \in Calls, NEW label \in Labels, NEW i \in DOMAIN TxsOf[c], NEW h,
           NEW result \in {"no", "refused", "ok", "failed"}, Moves(c, label, i, h, result),
           UNCHANGED <<send, sentHashes>>,
           label \in Applying => NotStarted(c, 1),
           label \in Sending => NotStarted(c, i),
           result # "no" => label = "returned",
           result \in {"ok", "failed"} => \A j \in DOMAIN TxsOf[c] :
              send[c][j].state \in (IF result = "ok" THEN {"sent"} ELSE {"sent", "failed"})
    PROVE  ReturnInv'
  <1>1. sentHashes' = Hashes'
    BY Zenon DEF ReturnInv, Hashes
  <1>2. ASSUME NEW d \in Calls
        PROVE  /\ pc'[d] \in Applying => NotStarted(d, 1)'
               /\ pc'[d] \in Sending => NotStarted(d, index[d])'
               /\ returned'[d] # "no" => pc'[d] = "returned"
               /\ returned'[d] \in {"ok", "failed"} => \A j \in DOMAIN TxsOf[d] :
                    send'[d][j].state \in (IF returned'[d] = "ok" THEN {"sent"} ELSE {"sent", "failed"})
    <2>1. CASE d = c
      <3>1. pc'[d] = label /\ index'[d] = i /\ returned'[d] = result
        BY <2>1, Zenon DEF RegistryInv, CallShape, Moves
      <3> QED BY <2>1, <3>1, Zenon DEF NotStarted
    <2>2. CASE d # c
      <3>1. pc'[d] = pc[d] /\ index'[d] = index[d] /\ returned'[d] = returned[d]
        BY <2>2, Zenon DEF RegistryInv, CallShape, Moves
      <3> QED BY <3>1 DEF ReturnInv, NotStarted
    <2> QED BY <2>1, <2>2, Zenon
  <1> QED BY <1>1, <1>2, Zenon DEF ReturnInv

\* a call that has not returned knows no result
LEMMA CallFacts ==
    ASSUME RegistryInv, ReturnInv, NEW c \in Calls
    PROVE  /\ pc[c] \in Labels /\ index[c] \in DOMAIN TxsOf[c] /\ anh[c] \in Nat
           /\ returned[c] \in {"no", "refused", "ok", "failed"}
           /\ pc[c] # "returned" => returned[c] = "no"
           /\ pc[c] \in Applying => NotStarted(c, 1)
           /\ pc[c] \in Sending => NotStarted(c, index[c])
           /\ pc = [pc EXCEPT ![c] = pc[c]] /\ index = [index EXCEPT ![c] = index[c]]
           /\ anh = [anh EXCEPT ![c] = anh[c]] /\ returned = [returned EXCEPT ![c] = returned[c]]
  BY Zenon DEF RegistryInv, CallShape, ReturnInv

LEMMA VisitSenderKeepsInv ==
    ASSUME RegistryInv, ReturnInv, NEW c \in Calls, VisitSender(c)
    PROVE  RegistryInv' /\ ReturnInv'
  <1>1. PICK a \in todo[c] :
          \/ a = Invalid /\ Return(c, "refused") /\ UNCHANGED <<anh, index>>
          \/ /\ a # Invalid
             /\ getAddressNonceHandler(c, a, "computeNonce", "createToApply")
             /\ \E i \in FirstFrom(c, a, 1) : index' = Set(index, c, i)
             /\ UNCHANGED returned
    BY Zenon DEF VisitSender
  <1>2. UNCHANGED <<handlers, created, nonce, txNonce, send, sentHashes>> /\ pc[c] = "apply"
    BY Zenon DEF VisitSender, handlerVars, txVars
  <1>3. NotStarted(c, 1) /\ returned[c] = "no"
    BY <1>2, CallFacts, Zenon DEF Applying
  <1>4. CASE a = Invalid /\ Return(c, "refused") /\ UNCHANGED <<anh, index>>
    <2>1. Moves(c, "returned", index[c], anh[c], "refused")
      BY <1>4, CallFacts, Zenon DEF Moves, Return, Set
    <2> QED BY <1>2, <2>1, CallFacts, CallAlone, CallKeepsReturn, Zenon DEF Labels, Applying, Sending
  <1>5. CASE /\ a # Invalid
             /\ getAddressNonceHandler(c, a, "computeNonce", "createToApply")
             /\ \E i \in FirstFrom(c, a, 1) : index' = Set(index, c, i)
             /\ UNCHANGED returned
    <2>1. PICK i \in FirstFrom(c, a, 1) : index' = Set(index, c, i)
      BY <1>5, Zenon
    <2>2. i \in DOMAIN TxsOf[c] /\ TxsOf[c][i] = a /\ a \in Addresses
      BY <1>5, TransactionsOfACall, Zenon DEF FirstFrom, FromSender
    <2> DEFINE label == IF handlers[a] # None THEN "computeNonce" ELSE "createToApply"
    <2>3. Moves(c, label, i, handlers[a], "no")
      BY <1>3, <1>5, <2>1, CallFacts, Zenon DEF Moves, getAddressNonceHandler, Set
    <2>4. handlers[a] \in Nat /\ label \in Labels /\ label \in Applying /\ label \notin Sending
      BY <2>2, Zenon DEF RegistryInv, DataShape, Labels, Applying, Sending
    <2>5. label \in {"computeNonce", "go"} => a \in Registered
      BY <2>2, Zenon DEF Registered
    <2> HIDE DEF label
    <2>6. RegistryInv'
      BY <1>2, <2>2, <2>3, <2>4, <2>5, CallAlone, Zenon
    <2>7. ReturnInv'
      BY <1>2, <1>3, <2>2, <2>3, <2>4, CallKeepsReturn, Zenon
    <2> QED BY <2>6, <2>7, Zenon
  <1> QED BY <1>1, <1>4, <1>5, Zenon

LEMMA ComputeNonceFailsKeepsInv ==
    ASSUME RegistryInv, ReturnInv, NEW c \in Calls, computeNonceFails(c)
    PROVE  RegistryInv' /\ ReturnInv'
  <1>1. UNCHANGED <<handlers, created, nonce, txNonce, send, sentHashes>>
    BY Zenon DEF computeNonceFails, handlerVars, txVars
  <1>2. Moves(c, "returned", index[c], anh[c], "refused")
    BY CallFacts, Zenon DEF Moves, computeNonceFails, Return, Set
  <1> QED BY <1>1, <1>2, CallFacts, CallAlone, CallKeepsReturn, Zenon DEF Labels, Applying, Sending

LEMMA NextTransactionKeepsInv ==
    ASSUME RegistryInv, ReturnInv, NEW c \in Calls, NextTransaction(c)
    PROVE  RegistryInv' /\ ReturnInv'
  <1>1. /\ UNCHANGED <<handlers, created, nonce, txNonce, send, sentHashes, index>> /\ pc[c] = "send"
        /\ index[c] \in DOMAIN TxsOf[c]
    BY CallFacts, Zenon DEF NextTransaction, handlerVars, txVars
  <1>2. NotStarted(c, index[c]) /\ returned[c] = "no"
    BY <1>1, CallFacts, Zenon DEF Sending
  <1>3. CASE Sender(c) = Invalid
    <2>1. Moves(c, "returned", index[c], anh[c], "refused")
      BY <1>1, <1>3, CallFacts, Zenon DEF Moves, NextTransaction, Return, Set
    <2> QED BY <1>1, <2>1, CallFacts, CallAlone, CallKeepsReturn, Zenon DEF Labels, Applying, Sending
  <1>4. CASE Sender(c) # Invalid
    <2> DEFINE a == Sender(c)
               label == IF handlers[a] # None THEN "go" ELSE "createToSend"
    <2>1. TxsOf[c][index[c]] = a /\ a \in Addresses
      BY <1>1, <1>4, TransactionsOfACall, Zenon DEF Sender
    <2>2. Moves(c, label, index[c], handlers[a], "no")
      BY <1>1, <1>2, <1>4, CallFacts, Zenon DEF Moves, NextTransaction, getAddressNonceHandler, Set
    <2>3. handlers[a] \in Nat /\ label \in Labels /\ label \in Sending /\ label \notin Applying
      BY <2>1, Zenon DEF RegistryInv, DataShape, Labels, Applying, Sending
    <2>4. label \in {"computeNonce", "go"} => a \in Registered
      BY <2>1, Zenon DEF Registered
    <2> HIDE DEF label, a
    <2>5. RegistryInv'
      BY <1>1, <2>1, <2>2, <2>3, <2>4, CallAlone, Zenon
    <2>6. ReturnInv'
      BY <1>1, <1>2, <2>2, <2>3, CallKeepsReturn, Zenon
    <2> QED BY <2>5, <2>6, Zenon
  <1> QED BY <1>3, <1>4, Zenon

LEMMA WaitKeepsInv ==
    ASSUME RegistryInv, ReturnInv, NEW c \in Calls, Wait(c)
    PROVE  RegistryInv' /\ ReturnInv'
  <1> DEFINE result == IF \E i \in DOMAIN TxsOf[c] : send[c][i].state = "failed" THEN "failed" ELSE "ok"
  <1>1. UNCHANGED <<handlers, created, nonce, txNonce, send, sentHashes>>
    BY Zenon DEF Wait, Waited, handlerVars, txVars
  <1>2. Moves(c, "returned", index[c], anh[c], result)
    BY CallFacts, Zenon DEF Moves, Wait, Waited, Return, Set
  <1>3. \A j \in DOMAIN TxsOf[c] :
            send[c][j].state \in (IF result = "ok" THEN {"sent"} ELSE {"sent", "failed"})
    BY Zenon DEF Wait, Ended
  <1>4. result \in {"no", "refused", "ok", "failed"}
    BY Zenon
  <1> HIDE DEF result
  <1> QED BY <1>1, <1>2, <1>3, <1>4, CallFacts, CallAlone, CallKeepsReturn DEF Labels, Applying, Sending

\* there are never more handlers than transactions
LEMMA HandlersAreInstances ==
    ASSUME MapInv, DataShape
    PROVE  /\ created \in Nat /\ 1..created \subseteq Instances
           /\ \A a \in Registered : handlers[a] \in 1..created
           /\ 0..Cardinality(Slots) \subseteq Nat
  <1>1. Cardinality(Registered) <= Cardinality(Senders)
    BY FewSenders, FS_Subset, Zenon DEF MapInv
  <1>2. created <= Cardinality(Slots) /\ created \in Nat /\ Cardinality(Slots) \in Nat
    BY <1>1, FewSenders, FS_CardinalityType, SlotsAreFinite DEF MapInv, DataShape
  <1>3. \A a \in Registered : handlers[a] \in 1..created
    BY <1>2 DEF MapInv, DataShape, Registered, None
  <1> QED BY <1>2, <1>3 DEF Instances

LEMMA NewHandlerKeepsMap ==
    ASSUME RegistryInv, NEW a \in Addresses, a \in Senders, handlers[a] = None,
           created' = created + 1, handlers' = [handlers EXCEPT ![a] = created'],
           UNCHANGED <<nonce, txNonce, send>>
    PROVE  /\ DataShape' /\ MapInv' /\ GoroutineInv'
           /\ Registered' = Registered \cup {a} /\ a \notin Registered
           /\ \A b \in Registered : handlers'[b] = handlers[b]
  <1>1. DataShape'
    BY DEF RegistryInv, DataShape
  <1>2. created \in Nat /\ handlers \in [Addresses -> Nat]
    BY Zenon DEF RegistryInv, DataShape
  <1>3. Registered' = Registered \cup {a} /\ a \notin Registered
    BY <1>2 DEF Registered, None
  <1>4. \A b \in Registered : handlers'[b] = handlers[b] /\ handlers[b] \in 1..created
    BY <1>2, <1>3, HandlersAreInstances, Zenon DEF RegistryInv, Registered
  <1>5. IsFiniteSet(Registered') /\ Cardinality(Registered') = created'
    BY <1>3, FS_AddElement, Zenon DEF RegistryInv, MapInv
  <1>6. Registered' \subseteq Senders
    BY <1>3, Zenon DEF RegistryInv, MapInv
  <1>7. \A b \in Addresses : handlers'[b] <= created'
    BY <1>2 DEF RegistryInv, MapInv
  <1>8. handlers'[a] = created + 1
    BY <1>2, Zenon
  <1>9. \A b, d \in Registered' : handlers'[b] = handlers'[d] => b = d
    BY <1>2, <1>3, <1>4, <1>8 DEF RegistryInv, MapInv
  <1>10. ASSUME NEW h \in 1..created' PROVE \E b \in Addresses : handlers'[b] = h
    <2>1. CASE h = created + 1
      BY <1>8, <2>1, Zenon
    <2>2. CASE h # created + 1
      <3>1. h \in 1..created /\ h # None
        BY <1>2, <2>2 DEF None
      <3>2. PICK b \in Addresses : handlers[b] = h
        BY <3>1, Zenon DEF RegistryInv, MapInv
      <3> QED BY <1>4, <3>1, <3>2, Zenon DEF Registered
    <2> QED BY <2>1, <2>2, Zenon
  <1>11. MapInv'
    BY <1>5, <1>6, <1>7, <1>9, <1>10, Zenon DEF MapInv
  <1>12. GoroutineInv'
    BY <1>3, <1>4, Zenon DEF RegistryInv, GoroutineInv
  <1> QED BY <1>1, <1>3, <1>4, <1>11, <1>12, Zenon

LEMMA CreateKeepsInv ==
    ASSUME RegistryInv, ReturnInv, NEW c \in Calls, Create(c)
    PROVE  RegistryInv' /\ ReturnInv'
  <1> DEFINE a == Sender(c)
             label == IF pc[c] = "createToApply" THEN "computeNonce" ELSE "go"
  <1>1. /\ pc[c] \in {"createToApply", "createToSend"} /\ a \in Addresses /\ index[c] \in DOMAIN TxsOf[c]
        /\ a = TxsOf[c][index[c]] /\ a \in Senders
    <2>1. index[c] \in DOMAIN TxsOf[c] /\ a = TxsOf[c][index[c]]
      BY CallFacts, Zenon DEF Sender
    <2>2. a \in Senders
      BY <2>1, SlotIsASlot, SenderOfASlot, Zenon
    <2> QED BY <2>1, <2>2, Zenon DEF Create, RegistryInv, CallInv
  <1>2. UNCHANGED <<nonce, txNonce, send, sentHashes, index, returned>> /\ pc' = [pc EXCEPT ![c] = label]
    BY Zenon DEF Create, txVars, Set
  <1>3. /\ label \in Labels
        /\ label \in Applying => NotStarted(c, 1)
        /\ label \in Sending => NotStarted(c, index[c])
        /\ returned[c] = "no"
    BY <1>1, CallFacts, Zenon DEF Labels, Applying, Sending
  <1> HIDE DEF label
  <1>4. CASE handlers[a] # None /\ anh' = Set(anh, c, handlers[a]) /\ UNCHANGED <<handlers, created>>
    <2>1. Moves(c, label, index[c], handlers[a], returned[c])
      BY <1>2, <1>4, CallFacts, Zenon DEF Moves, Set
    <2>2. a \in Registered /\ handlers[a] \in Nat
      BY <1>1, <1>4, Zenon DEF Registered, RegistryInv, DataShape
    <2>3. RegistryInv'
      BY <1>1, <1>2, <1>3, <1>4, <2>1, <2>2, CallAlone, Zenon
    <2>4. ReturnInv'
      BY <1>1, <1>2, <1>3, <2>1, CallKeepsReturn, Zenon
    <2> QED BY <2>3, <2>4, Zenon
  <1>5. CASE handlers[a] = None /\ NewAddressNonceHandlerV3(c)
    <2>1. created' = created + 1 /\ handlers' = [handlers EXCEPT ![a] = created'] /\ anh' = [anh EXCEPT ![c] = created']
      BY <1>5, Zenon DEF NewAddressNonceHandlerV3, Set
    <2>2. /\ DataShape' /\ MapInv' /\ GoroutineInv' /\ a \in Registered'
          /\ \A b \in Registered : b \in Registered' /\ handlers'[b] = handlers[b]
      BY <1>1, <1>2, <1>5, <2>1, NewHandlerKeepsMap, ZenonT(30)
    <2>3. created' \in Nat /\ handlers'[a] = created'
      BY <1>1, <2>1 DEF RegistryInv, DataShape
    <2>4. Moves(c, label, index[c], created', returned[c])
      BY <1>2, <2>1, CallFacts, Zenon DEF Moves
    <2>5. RegistryInv'
      BY <1>1, <1>3, <2>2, <2>3, <2>4, CallKeepsRegistry, Zenon
    <2>6. ReturnInv'
      BY <1>1, <1>2, <1>3, <2>4, CallKeepsReturn, Zenon
    <2> QED BY <2>5, <2>6, Zenon
  <1> QED BY <1>4, <1>5, Zenon DEF Create, createAddressNonceHandler

\* a nonce is applied: where it comes from, and where it goes
LEMMA AppliedNonce ==
    ASSUME RegistryInv, NEW c \in Calls, computeNonce(c)
    PROVE  \E n \in Nat :
             LET h == handlers[Sender(c)] IN
             /\ Sender(c) \in Registered /\ h \in Instances /\ index[c] \in DOMAIN TxsOf[c]
             /\ nonce[h] = NotSet \/ n = nonce[h] + 1
             /\ nonce' = [nonce EXCEPT ![h] = n]
             /\ txNonce' = [txNonce EXCEPT ![c][index[c]] = n]
  <1>1. Sender(c) \in Registered /\ anh[c] = handlers[Sender(c)] /\ index[c] \in DOMAIN TxsOf[c]
    BY Zenon DEF computeNonce, RegistryInv, CallInv, CallShape
  <1>2. anh[c] \in Instances /\ nonce[anh[c]] \in Nat \cup {NotSet} /\ 0..Cardinality(Slots) \subseteq Nat
    BY <1>1, HandlersAreInstances, Zenon DEF RegistryInv, DataShape
  <1>3. PICK n \in IF nonce[anh[c]] = NotSet THEN AccountNonces(Sender(c)) ELSE {nonce[anh[c]] + 1} :
            /\ nonce' = [nonce EXCEPT ![anh[c]] = n]
            /\ txNonce' = [txNonce EXCEPT ![c][index[c]] = n]
    BY Zenon DEF computeNonce
  <1>4. AccountNonces(Sender(c)) \subseteq Nat
    BY <1>2, Zenon DEF AccountNonces
  <1>5. n \in Nat /\ (nonce[anh[c]] = NotSet \/ n = nonce[anh[c]] + 1)
    BY <1>2, <1>3, <1>4 DEF NotSet
  <1> QED BY <1>1, <1>2, <1>3, <1>5, Zenon

LEMMA ComputeNonceKeepsInv ==
    ASSUME RegistryInv, ReturnInv, NEW c \in Calls, computeNonce(c)
    PROVE  RegistryInv' /\ ReturnInv'
  <1>1. PICK n \in Nat : /\ nonce' = [nonce EXCEPT ![handlers[Sender(c)]] = n]
                         /\ txNonce' = [txNonce EXCEPT ![c][index[c]] = n]
                         /\ index[c] \in DOMAIN TxsOf[c]
    BY AppliedNonce, Zenon
  <1>2. UNCHANGED <<handlers, created, anh, returned, send, sentHashes>> /\ pc[c] = "computeNonce"
    BY Zenon DEF computeNonce
  <1>3. /\ nonce' \in [Instances -> Nat \cup {NotSet}]
        /\ txNonce' = [d \in Calls |-> txNonce'[d]]
        /\ \A d \in Calls : txNonce'[d] \in [DOMAIN TxsOf[d] -> Nat \cup {NotSet}]
    BY <1>1, Zenon DEF RegistryInv, DataShape
  <1>4. DataShape' /\ Registered' = Registered
    BY <1>2, <1>3, Zenon DEF RegistryInv, DataShape, Registered
  <1>5. MapInv' /\ GoroutineInv'
    BY <1>2, <1>4, Zenon DEF RegistryInv, MapInv, GoroutineInv
  <1>6. NotStarted(c, 1) /\ returned[c] = "no" /\ anh[c] \in Nat /\ index[c] \in DOMAIN TxsOf[c]
    BY <1>2, CallFacts, Zenon DEF Applying
  <1>7. CASE \E i \in FirstFrom(c, Sender(c), index[c] + 1) : index' = Set(index, c, i) /\ UNCHANGED pc
    <2>1. PICK i \in FirstFrom(c, Sender(c), index[c] + 1) : index' = Set(index, c, i) /\ UNCHANGED pc
      BY <1>7, Zenon
    <2>2. i \in DOMAIN TxsOf[c] /\ TxsOf[c][i] = Sender(c)
      BY <2>1, Zenon DEF FirstFrom, FromSender
    <2>3. Moves(c, "computeNonce", i, anh[c], "no")
      BY <1>2, <1>6, <2>1, CallFacts, SMTT(30) DEF Moves, Set
    <2>4. Sender(c) \in Addresses /\ Sender(c) \in Registered' /\ anh[c] = handlers'[Sender(c)]
      BY <1>2, <1>4, SMTT(30) DEF RegistryInv, CallInv
    <2>5. RegistryInv'
      <3>1. "computeNonce" \in Labels
        BY Zenon DEF Labels, Applying
      <3>2. \A b \in Registered : b \in Registered' /\ handlers'[b] = handlers[b]
        BY <1>2, <1>4, Zenon
      <3>3. TxsOf[c][i] \in Addresses /\ TxsOf[c][i] \in Registered' /\ anh[c] = handlers'[TxsOf[c][i]]
        BY <2>2, <2>4, Zenon
      <3> QED BY <1>4, <1>5, <1>6, <2>2, <2>3, <3>1, <3>2, <3>3, CallKeepsRegistry
    <2>6. ReturnInv'
      BY <1>2, <1>6, <2>2, <2>3, CallKeepsReturn, Zenon DEF Labels, Applying, Sending
    <2> QED BY <2>5, <2>6, Zenon
  <1>8. CASE index' = Set(index, c, 1) /\ pc' = Set(pc, c, IF todo[c] = {} THEN "send" ELSE "apply")
    <2> DEFINE label == IF todo[c] = {} THEN "send" ELSE "apply"
    <2>1. Moves(c, label, 1, anh[c], "no") /\ 1 \in DOMAIN TxsOf[c]
      BY <1>2, <1>6, <1>8, CallFacts, TransactionsOfACall DEF Moves, Set
    <2>2. label \in Labels /\ label \in {"send", "apply"}
      BY SMTT(30) DEF Labels, Applying, Sending
    <2> HIDE DEF label
    <2>3. RegistryInv'
      BY <1>2, <1>4, <1>5, <1>6, <2>1, <2>2, CallKeepsRegistry, ZenonT(30)
    <2>4. ReturnInv'
      BY <1>2, <1>6, <2>1, <2>2, CallKeepsReturn, Zenon
    <2> QED BY <2>3, <2>4, Zenon
  <1> QED BY <1>7, <1>8, Zenon DEF computeNonce

\* the goroutine that is started was not started before
LEMMA Started ==
    ASSUME RegistryInv, ReturnInv, NEW c \in Calls, Go(c)
    PROVE  /\ index[c] \in DOMAIN TxsOf[c] /\ send[c][index[c]].state = "none"
           /\ send[c][index[c]].request = "none"
           /\ send' = [d \in Calls |-> send'[d]]
           /\ \A d \in Calls : send'[d] \in [DOMAIN TxsOf[d] -> Goroutines]
           /\ \A d \in Calls : \A j \in DOMAIN TxsOf[d] :
                IF d = c /\ j = index[c]
                THEN /\ send'[d][j].state = "started" /\ send'[d][j].request = "none"
                     /\ send'[d][j].anh = handlers[TxsOf[d][j]] /\ TxsOf[d][j] \in Registered
                ELSE send'[d][j] = send[d][j]
  <1> DEFINE record == [state |-> "started", anh |-> anh[c], request |-> "none"]
  <1>1. index[c] \in DOMAIN TxsOf[c] /\ index[c] \in Nat /\ NotStarted(c, index[c]) /\ anh[c] \in Nat
    BY CallFacts, TransactionsOfACall DEF Go, Sending
  <1>2. send[c][index[c]].state = "none"
    BY <1>1, SMTT(30) DEF NotStarted
  <1>3. send[c][index[c]].request = "none"
    BY <1>1, <1>2, Zenon DEF RegistryInv, GoroutineInv
  <1>4. record \in Goroutines /\ record.state = "started" /\ record.request = "none" /\ record.anh = anh[c]
    BY <1>1, Zenon DEF Goroutines
  <1>5. send' = [send EXCEPT ![c][index[c]] = record]
    BY Zenon DEF Go
  <1> HIDE DEF record
  <1>6. /\ send' = [d \in Calls |-> send'[d]]
        /\ \A d \in Calls : send'[d] \in [DOMAIN TxsOf[d] -> Goroutines]
        /\ \A d \in Calls : \A j \in DOMAIN TxsOf[d] :
              send'[d][j] = IF d = c /\ j = index[c] THEN record ELSE send[d][j]
    BY <1>1, <1>4, <1>5, Zenon DEF RegistryInv, DataShape
  <1>7. TxsOf[c][index[c]] \in Registered /\ anh[c] = handlers[TxsOf[c][index[c]]]
    BY Zenon DEF Go, RegistryInv, CallInv, Sender
  <1> QED BY <1>1, <1>2, <1>3, <1>4, <1>6, <1>7, SMTT(30)

LEMMA GoKeepsRegistry ==
    ASSUME RegistryInv, ReturnInv, NEW c \in Calls, Go(c)
    PROVE  RegistryInv'
  <1>1. UNCHANGED <<handlers, created, nonce, txNonce, anh, returned>>
    BY Zenon DEF Go, handlerVars
  <1>2. DataShape' /\ Registered' = Registered
    BY <1>1, Started DEF RegistryInv, DataShape, Registered
  <1>3. MapInv'
    BY <1>1, <1>2, Zenon DEF RegistryInv, MapInv
  <1>4. GoroutineInv'
    BY <1>1, <1>2, Started DEF RegistryInv, GoroutineInv
  <1>5. PICK label \in {"send", "wait"} : \E i \in DOMAIN TxsOf[c] : Moves(c, label, i, anh[c], returned[c])
    <2>1. CASE index[c] < Len(TxsOf[c]) /\ index' = Set(index, c, index[c] + 1) /\ pc' = Set(pc, c, "send")
      <3>1. index[c] + 1 \in DOMAIN TxsOf[c]
        BY <2>1, CallFacts, TransactionsOfACall
      <3> QED BY <1>1, <2>1, <3>1, CallFacts, Zenon DEF Moves, Set
    <2>2. CASE pc' = Set(pc, c, "wait") /\ UNCHANGED index
      BY <1>1, <2>2, CallFacts, Zenon DEF Moves, Set
    <2> QED BY <2>1, <2>2, Zenon DEF Go
  <1>6. PICK i \in DOMAIN TxsOf[c] : Moves(c, label, i, anh[c], returned[c])
    BY <1>5, Zenon
  <1>7. label \in Labels /\ label \notin {"createToApply", "computeNonce", "createToSend", "go"}
    BY <1>5, Zenon DEF Labels, Sending
  <1> QED BY <1>1, <1>2, <1>3, <1>4, <1>6, <1>7, CallFacts, CallKeepsRegistry

LEMMA GoKeepsReturn ==
    ASSUME RegistryInv, ReturnInv, NEW c \in Calls, Go(c)
    PROVE  ReturnInv'
  <1>1. UNCHANGED <<returned, sentHashes>> /\ pc[c] = "go" /\ returned[c] = "no" /\ index[c] \in Nat
    BY CallFacts, TransactionsOfACall DEF Go
  <1>2. \A d \in Calls : \A j \in DOMAIN TxsOf[d] : send'[d][j].state = "sent" <=> send[d][j].state = "sent"
    BY Started, SMTT(30)
  <1>3. sentHashes' = Hashes'
    <2>1. ASSUME NEW d \in Calls
          PROVE  [j \in DOMAIN TxsOf[d] |-> IF send'[d][j].state = "sent" THEN <<d, j>> ELSE NoHash]
                   = [j \in DOMAIN TxsOf[d] |-> IF send[d][j].state = "sent" THEN <<d, j>> ELSE NoHash]
      <3>1. \A j \in DOMAIN TxsOf[d] : send'[d][j].state = "sent" <=> send[d][j].state = "sent"
        BY <1>2, Zenon
      <3> QED BY <3>1, Zenon
    <2>2. Hashes' = Hashes
      BY <2>1, Zenon DEF Hashes
    <2>3. sentHashes' = sentHashes /\ sentHashes = Hashes
      BY <1>1, Zenon DEF ReturnInv
    <2> QED BY <2>2, <2>3, Zenon
  <1>4. ASSUME NEW d \in Calls
        PROVE  /\ pc'[d] \in Applying => NotStarted(d, 1)'
               /\ pc'[d] \in Sending => NotStarted(d, index[d])'
               /\ returned'[d] # "no" => pc'[d] = "returned"
               /\ returned'[d] \in {"ok", "failed"} => \A j \in DOMAIN TxsOf[d] :
                    send'[d][j].state \in (IF returned'[d] = "ok" THEN {"sent"} ELSE {"sent", "failed"})
    <2>1. CASE d = c
      <3>1. NotStarted(c, index[c])
        BY <1>1, CallFacts, Zenon DEF Sending
      <3>2. \/ pc'[c] = "send" /\ index'[c] = index[c] + 1
            \/ pc'[c] = "wait"
        BY Zenon DEF Go, Set, RegistryInv, CallShape
      <3>3. \A j \in DOMAIN TxsOf[c] : j \in Nat
        BY TransactionsOfACall
      <3>4. pc'[c] \in Sending => NotStarted(c, index[c])'
        BY <1>1, <3>1, <3>2, <3>3, Started, SMTT(30) DEF NotStarted, Sending
      <3> QED BY <1>1, <2>1, <3>2, <3>4, Zenon DEF Applying
    <2>2. CASE d # c
      <3>1. pc'[d] = pc[d] /\ index'[d] = index[d] /\ \A j \in DOMAIN TxsOf[d] : send'[d][j] = send[d][j]
        <4>1. pc'[d] = pc[d] /\ index'[d] = index[d]
          BY <2>2, Zenon DEF Go, Set, RegistryInv, CallShape
        <4>2. \A j \in DOMAIN TxsOf[d] : send'[d][j] = send[d][j]
          BY <2>2, Started
        <4> QED BY <4>1, <4>2, Zenon
      <3>2. /\ pc[d] \in Applying => NotStarted(d, 1)
            /\ pc[d] \in Sending => NotStarted(d, index[d])
            /\ returned[d] # "no" => pc[d] = "returned"
            /\ returned[d] \in {"ok", "failed"} => \A j \in DOMAIN TxsOf[d] :
                 send[d][j].state \in (IF returned[d] = "ok" THEN {"sent"} ELSE {"sent", "failed"})
        BY Zenon DEF ReturnInv
      <3>3. NotStarted(d, 1)' <=> NotStarted(d, 1)
        BY <3>1, Zenon DEF NotStarted
      <3>4. NotStarted(d, index[d])' <=> NotStarted(d, index[d])
        BY <3>1, Zenon DEF NotStarted
      <3> QED BY <1>1, <3>1, <3>2, <3>3, <3>4, Zenon
    <2> QED BY <2>1, <2>2, Zenon
  <1> QED BY <1>3, <1>4, Zenon DEF ReturnInv

LEMMA QuietKeepsInv ==
    ASSUME RegistryInv, ReturnInv,
           UNCHANGED <<handlers, created, nonce, pc, index, anh, returned, txNonce, send, sentHashes>>
    PROVE  RegistryInv' /\ ReturnInv'
  <1>1. DataShape' /\ CallShape' /\ Registered' = Registered
    BY SMTT(30) DEF RegistryInv, DataShape, CallShape, Registered
  <1>2. MapInv' /\ CallInv' /\ GoroutineInv'
    <2>1. MapInv'
      BY <1>1, Zenon DEF RegistryInv, MapInv
    <2>2. CallInv'
      BY <1>1, Zenon DEF RegistryInv, CallInv, Sender
    <2>3. GoroutineInv'
      BY <1>1, Zenon DEF RegistryInv, GoroutineInv
    <2> QED BY <2>1, <2>2, <2>3, Zenon
  <1>3. ReturnInv'
    <2>1. Hashes' = Hashes
      BY Zenon DEF Hashes
    <2>2. \A c \in Calls, from \in Nat : NotStarted(c, from)' <=> NotStarted(c, from)
      BY Zenon DEF NotStarted
    <2>3. \A c \in Calls : index[c] \in Nat
      BY Zenon DEF RegistryInv, CallShape
    <2> QED BY <2>1, <2>2, <2>3, Zenon DEF ReturnInv
  <1> QED BY <1>1, <1>2, <1>3, Zenon DEF RegistryInv

LEMMA NextKeepsInv ==
    ASSUME RegistryInv, ReturnInv, [Next]_vars
    PROVE  RegistryInv' /\ ReturnInv'
  <1>1. ASSUME NEW c \in Calls,
               \/ VisitSender(c) \/ Create(c) \/ computeNonce(c) \/ computeNonceFails(c)
               \/ NextTransaction(c) \/ Go(c) \/ Wait(c)
        PROVE  RegistryInv' /\ ReturnInv'
    BY <1>1, VisitSenderKeepsInv, CreateKeepsInv, ComputeNonceKeepsInv, ComputeNonceFailsKeepsInv,
       NextTransactionKeepsInv, GoKeepsRegistry, GoKeepsReturn, WaitKeepsInv
  <1>2. ASSUME NEW c \in Calls, NEW i \in DOMAIN TxsOf[c],
               AddTransaction(c, i) \/ ReceiveHash(c, i) \/ ReceiveError(c, i) \/ ContextDone(c, i)
        PROVE  RegistryInv' /\ ReturnInv'
    BY <1>2, GoroutinesStep, GoroutineKeepsRegistry, GoroutineKeepsReturn, Zenon
  <1>3. ASSUME NEW h \in 1..created, TakeNext(h) \/ ProxySendTransaction(h) \/ closeAllChannels(h)
        PROVE  RegistryInv' /\ ReturnInv'
    BY <1>3, WorkerStep, GoroutineKeepsRegistry, GoroutineKeepsReturn, Zenon
  <1>4. CASE Close
    BY <1>4, QuietKeepsInv, Zenon DEF Close, callVars, txVars
  <1>5. CASE UNCHANGED vars
    BY <1>5, QuietKeepsInv, Zenon DEF vars, handlerVars, callVars, txVars
  <1> QED BY <1>1, <1>2, <1>3, <1>4, <1>5, Zenon DEF Next

-----------------------------------------------------------------------------
(* Nonces                                                                  *)

DifferentNonces == NonceInv /\ ApplicantInv /\ SenderNoncesDiffer

\* what SenderNoncesDiffer says, in the short names used here
LEMMA DifferInShort ==
    ASSUME SenderNoncesDiffer, NEW s \in Slots, NEW t \in Slots, s # t,
           SenderOf(s) = SenderOf(t), NonceOf(s) # NotSet, NonceOf(s) = NonceOf(t)
    PROVE  FailedSender(SenderOf(s))
  BY Zenon DEF SenderNoncesDiffer, FailedSender, NonceOf, SenderOf, Request

\* no nonce is applied, and a nonce is lost only by the handler of a sender that has failed
LEMMA NothingApplied ==
    ASSUME DifferentNonces, UNCHANGED txNonce,
           \A a \in Registered : /\ a \in Registered' /\ handlers'[a] = handlers[a]
                                 /\ ~FailedSender(a) => nonce'[handlers[a]] = nonce[handlers[a]],
           \A u \in Slots : Request(u) \in {"error", "lost"} => Request(u)' \in {"error", "lost"}
    PROVE  DifferentNonces'
  <1>1. \A a : FailedSender(a) => FailedSender(a)'
    BY Zenon DEF FailedSender, SenderOf
  <1>2. NonceInv'
    BY <1>1, Zenon DEF DifferentNonces, NonceInv, NonceOf, SenderOf
  <1>3. ApplicantInv'
    BY Zenon DEF DifferentNonces, ApplicantInv, NonceOf, SenderOf
  <1>4. SenderNoncesDiffer'
    <2>1. ASSUME NEW s \in Slots, NEW t \in Slots, s # t, SenderOf(s) = SenderOf(t),
                 NonceOf(s)' # NotSet, NonceOf(s)' = NonceOf(t)'
          PROVE  FailedSender(SenderOf(s))'
      <3>1. NonceOf(s)' = NonceOf(s) /\ NonceOf(t)' = NonceOf(t)
        BY Zenon DEF NonceOf
      <3>2. FailedSender(SenderOf(s))
        BY <2>1, <3>1, DifferInShort, Zenon DEF DifferentNonces
      <3>3. SenderOf(s)' = SenderOf(s)
        BY Zenon DEF SenderOf
      <3> QED BY <1>1, <3>2, <3>3, Zenon
    <2> QED BY <2>1 DEF SenderNoncesDiffer, FailedSender, NonceOf, SenderOf, Request
  <1> QED BY <1>2, <1>3, <1>4, Zenon DEF DifferentNonces

LEMMA GoroutineKeepsNonces ==
    ASSUME RegistryInv, DifferentNonces, GoroutineStep
    PROVE  DifferentNonces'
  <1>1. ASSUME NEW u \in Slots, Request(u) \in {"error", "lost"} PROVE Request(u)' \in {"error", "lost"}
    BY <1>1, SlotsOfACall DEF Request, GoroutineStep
  <1>2. UNCHANGED <<txNonce, handlers>> /\ Registered' = Registered
    BY Zenon DEF GoroutineStep, Registered
  <1>3. ASSUME NEW a \in Registered, ~FailedSender(a) PROVE nonce'[handlers[a]] = nonce[handlers[a]]
    <2>1. CASE UNCHANGED nonce
      BY <2>1, Zenon
    <2>2. ASSUME NEW c \in Calls, NEW i \in DOMAIN TxsOf[c],
                 send[c][i].request \in {"error", "lost"}, send[c][i].state # "none",
                 nonce' = [nonce EXCEPT ![send[c][i].anh] = NotSet]
          PROVE  nonce'[handlers[a]] = nonce[handlers[a]]
      <3>1. TxsOf[c][i] \in Registered /\ send[c][i].anh = handlers[TxsOf[c][i]]
        BY <2>2, Zenon DEF RegistryInv, GoroutineInv
      <3>2. <<c, i>> \in Slots /\ Request(<<c, i>>) \in {"error", "lost"} /\ SenderOf(<<c, i>>) = TxsOf[c][i]
        BY <2>2, SlotIsASlot, Zenon DEF Request, SenderOf
      <3>3. TxsOf[c][i] # a
        BY <1>3, <3>2, Zenon DEF FailedSender
      <3>4. handlers[a] # handlers[TxsOf[c][i]] /\ handlers[a] \in Instances
        BY <3>1, <3>3, HandlersAreInstances, Zenon DEF RegistryInv, MapInv
      <3> QED BY <2>2, <3>1, <3>4, Zenon DEF RegistryInv, DataShape
    <2> QED BY <2>1, <2>2, Zenon DEF GoroutineStep
  <1> QED BY <1>1, <1>2, <1>3, NothingApplied, Zenon

LEMMA ComputeNonceKeepsNonces ==
    ASSUME RegistryInv, DifferentNonces, NEW c \in Calls, computeNonce(c)
    PROVE  DifferentNonces'
  <1> DEFINE a == Sender(c)
             h == handlers[a]
             here == <<c, index[c]>>
  <1>1. PICK n \in Nat : /\ a \in Registered /\ h \in Instances /\ index[c] \in DOMAIN TxsOf[c]
                         /\ nonce[h] = NotSet \/ n = nonce[h] + 1
                         /\ nonce' = [nonce EXCEPT ![h] = n]
                         /\ txNonce' = [txNonce EXCEPT ![c][index[c]] = n]
    BY AppliedNonce, Zenon
  <1>2. UNCHANGED <<handlers, send>> /\ Registered' = Registered /\ a \in Addresses
    BY <1>1, Zenon DEF computeNonce, Registered
  <1>3. here \in Slots /\ SenderOf(here) = a
    BY <1>1, SlotIsASlot, Zenon DEF SenderOf, Sender
  <1>4. ASSUME NEW s \in Slots
        PROVE  /\ txNonce'[s[1]][s[2]] = IF s = here THEN n ELSE NonceOf(s)
               /\ NonceOf(s) \in Nat \cup {NotSet}
    <2>1. s[1] \in Calls /\ s[2] \in DOMAIN TxsOf[s[1]] /\ s = <<s[1], s[2]>>
      BY SlotsOfACall, Zenon
    <2>2. s = here <=> s[1] = c /\ s[2] = index[c]
      BY <2>1
    <2> HIDE DEF here
    <2> QED BY <1>1, <2>1, <2>2, Zenon DEF NonceOf, RegistryInv, DataShape
  <1> HIDE DEF here
  <1>5. \A b : FailedSender(b)' <=> FailedSender(b)
    BY <1>2, Zenon DEF FailedSender, Request, SenderOf
  <1>6. ASSUME ~FailedSender(a), NEW s \in Slots, SenderOf(s) = a, NonceOf(s) # NotSet
        PROVE  NonceOf(s) < n
    <2>1. nonce[h] # NotSet /\ NonceOf(s) <= nonce[h]
      BY <1>2, <1>6, Zenon DEF DifferentNonces, NonceInv
    <2>2. nonce[h] \in Nat \cup {NotSet}
      BY <1>1, Zenon DEF RegistryInv, DataShape
    <2> QED BY <1>1, <1>4, <1>6, <2>1, <2>2 DEF NotSet
  <1>7. nonce'[h] = n /\ n # NotSet
    BY <1>1 DEF RegistryInv, DataShape, NotSet
  <1>8. ASSUME NEW b \in Registered, b # a PROVE nonce'[handlers[b]] = nonce[handlers[b]]
    <2>1. handlers[b] # h /\ handlers[b] \in Instances
      BY <1>1, <1>8, HandlersAreInstances, Zenon DEF RegistryInv, MapInv
    <2> QED BY <1>1, <2>1, Zenon DEF RegistryInv, DataShape
  <1>9. ASSUME NEW b \in Addresses, ~FailedSender(b), NEW s \in Slots, SenderOf(s) = b, NonceOf(s)' # NotSet
        PROVE  b \in Registered /\ nonce'[handlers[b]] # NotSet /\ NonceOf(s)' <= nonce'[handlers[b]]
    <2>1. NonceOf(s)' = IF s = here THEN n ELSE NonceOf(s)
      BY <1>4, Zenon DEF NonceOf
    <2>2. CASE b = a
      <3>1. CASE s = here
        BY <1>1, <1>7, <2>1, <2>2, <3>1
      <3>2. CASE s # here
        <4>1. NonceOf(s)' = NonceOf(s) /\ NonceOf(s) < n
          BY <1>6, <1>9, <2>1, <2>2, <3>2
        <4> QED BY <1>1, <1>4, <1>7, <1>9, <2>2, <4>1
      <3> QED BY <3>1, <3>2, Zenon
    <2>3. CASE b # a
      <3>1. NonceOf(s)' = NonceOf(s)
        BY <1>3, <1>9, <2>1, <2>3, Zenon
      <3>2. b \in Registered /\ nonce[handlers[b]] # NotSet /\ NonceOf(s) <= nonce[handlers[b]]
        BY <1>9, <3>1, Zenon DEF DifferentNonces, NonceInv
      <3> QED BY <1>8, <2>3, <3>1, <3>2, Zenon
    <2> QED BY <2>2, <2>3, Zenon
  <1>10. NonceInv'
    BY <1>2, <1>5, <1>9, Zenon DEF NonceInv, SenderOf
  <1>11. ApplicantInv'
    BY <1>2, <1>3, <1>4, Zenon DEF DifferentNonces, ApplicantInv, NonceOf, SenderOf
  <1>12. ASSUME NEW s \in Slots, NEW t \in Slots, s # t, SenderOf(s) = SenderOf(t),
                NonceOf(s)' # NotSet, NonceOf(s)' = NonceOf(t)'
         PROVE  FailedSender(SenderOf(s))
    <2>1. /\ NonceOf(s)' = IF s = here THEN n ELSE NonceOf(s)
          /\ NonceOf(t)' = IF t = here THEN n ELSE NonceOf(t)
          /\ NonceOf(s) \in Nat \cup {NotSet} /\ NonceOf(t) \in Nat \cup {NotSet}
      BY <1>4, Zenon DEF NonceOf
    <2>2. ASSUME NEW u \in Slots, SenderOf(u) = a, NonceOf(u) = n PROVE FailedSender(a)
      <3>1. NonceOf(u) # NotSet /\ ~(NonceOf(u) < n)
        BY <1>7, <2>2
      <3> QED BY <1>6, <2>2, <3>1, Zenon
    <2>3. CASE s = here
      <3>1. NonceOf(t) = n /\ SenderOf(t) = a /\ SenderOf(s) = a
        BY <1>3, <1>12, <2>1, <2>3, Zenon
      <3> QED BY <2>2, <3>1, Zenon
    <2>4. CASE t = here
      <3>1. NonceOf(s) = n /\ SenderOf(s) = a
        BY <1>3, <1>12, <2>1, <2>4, Zenon
      <3> QED BY <2>2, <3>1, Zenon
    <2>5. CASE s # here /\ t # here
      <3>1. NonceOf(s) # NotSet /\ NonceOf(s) = NonceOf(t)
        BY <1>12, <2>1, <2>5, Zenon
      <3> QED BY <1>12, <3>1, DifferInShort, Zenon DEF DifferentNonces
    <2> QED BY <2>3, <2>4, <2>5, Zenon
  <1>13. SenderNoncesDiffer'
    BY <1>2, <1>12 DEF SenderNoncesDiffer, FailedSender, NonceOf, SenderOf, Request
  <1> QED BY <1>10, <1>11, <1>13, Zenon DEF DifferentNonces

LEMMA NextKeepsNonces ==
    ASSUME RegistryInv, ReturnInv, DifferentNonces, [Next]_vars
    PROVE  DifferentNonces'
  <1>1. ASSUME UNCHANGED <<handlers, nonce, txNonce, send>> PROVE DifferentNonces'
    BY <1>1, NothingApplied, Zenon DEF Registered, Request
  <1>2. ASSUME NEW c \in Calls, Create(c) PROVE DifferentNonces'
    <2>1. UNCHANGED <<nonce, txNonce, send>>
      BY <1>2, Zenon DEF Create, txVars
    <2>2. CASE UNCHANGED handlers
      BY <1>1, <2>1, <2>2, Zenon
    <2>3. CASE handlers[Sender(c)] = None /\ NewAddressNonceHandlerV3(c)
      <3>1. handlers' = [handlers EXCEPT ![Sender(c)] = created'] /\ Sender(c) \notin Registered
        BY <2>3, Zenon DEF NewAddressNonceHandlerV3, Registered
      <3>2. \A a \in Registered : a \in Registered' /\ handlers'[a] = handlers[a]
        BY <3>1, Zenon DEF Registered, RegistryInv, DataShape
      <3> QED BY <2>1, <3>2, NothingApplied, Zenon DEF Request
    <2> QED BY <1>2, <2>2, <2>3, Zenon DEF Create, createAddressNonceHandler
  <1>3. ASSUME NEW c \in Calls, Go(c) PROVE DifferentNonces'
    <2>1. UNCHANGED <<handlers, nonce, txNonce>> /\ Registered' = Registered
      BY <1>3, Zenon DEF Go, handlerVars, Registered
    <2>2. ASSUME NEW u \in Slots, Request(u) \in {"error", "lost"} PROVE Request(u)' \in {"error", "lost"}
      BY <1>3, <2>2, SlotsOfACall, Started, SMTT(30) DEF Request
    <2> QED BY <2>1, <2>2, NothingApplied, Zenon
  <1>4. ASSUME NEW c \in Calls, VisitSender(c) \/ computeNonceFails(c) \/ NextTransaction(c) \/ Wait(c)
        PROVE  DifferentNonces'
    BY <1>1, <1>4, Zenon DEF VisitSender, computeNonceFails, NextTransaction, Wait, Waited, handlerVars, txVars
  <1>5. ASSUME NEW c \in Calls, computeNonce(c) PROVE DifferentNonces'
    BY <1>5, ComputeNonceKeepsNonces, Zenon
  <1>6. ASSUME NEW c \in Calls, NEW i \in DOMAIN TxsOf[c],
               AddTransaction(c, i) \/ ReceiveHash(c, i) \/ ReceiveError(c, i) \/ ContextDone(c, i)
        PROVE  DifferentNonces'
    BY <1>6, GoroutinesStep, GoroutineKeepsNonces, Zenon
  <1>7. ASSUME NEW h \in 1..created, TakeNext(h) \/ ProxySendTransaction(h) \/ closeAllChannels(h)
        PROVE  DifferentNonces'
    BY <1>7, WorkerStep, GoroutineKeepsNonces, Zenon
  <1>8. CASE Close
    BY <1>1, <1>8, Zenon DEF Close, txVars
  <1>9. CASE UNCHANGED vars
    BY <1>1, <1>9, Zenon DEF vars, handlerVars, txVars
  <1> QED BY <1>2, <1>3, <1>4, <1>5, <1>6, <1>7, <1>8, <1>9, Zenon DEF Next

-----------------------------------------------------------------------------

\* Concurrent calls of ApplyNonceAndGasPrice give the transactions of one
\* sender different nonces, whatever the calls and however the creations of
\* handlers interleave, as long as no send of the sender failed.
THEOREM SenderNoncesAlwaysDiffer == Spec => []SenderNoncesDiffer
  <1>1. Init => RegistryInv /\ ReturnInv /\ DifferentNonces
    BY InitRegistry, InitReturn, InitNonce, Zenon DEF DifferentNonces
  <1>2. RegistryInv /\ ReturnInv /\ DifferentNonces /\ [Next]_vars =>
            (RegistryInv /\ ReturnInv /\ DifferentNonces)'
    BY NextKeepsInv, NextKeepsNonces, Zenon
  <1>3. DifferentNonces => SenderNoncesDiffer
    BY Zenon DEF DifferentNonces
  <1> QED BY <1>1, <1>2, <1>3, PTL DEF Spec

\* The slice that SendTransactions returns after its wait is final and holds
\* the hash of its own transaction at the index of every one that was sent.
THEOREM HashesAlwaysFinal == Spec => []HashesAreFinal
  <1>1. Init => RegistryInv /\ ReturnInv
    BY InitRegistry, InitReturn, Zenon
  <1>2. RegistryInv /\ ReturnInv /\ [Next]_vars => (RegistryInv /\ ReturnInv)'
    BY NextKeepsInv, Zenon
  <1>3. ReturnInv => HashesAreFinal
    <2> SUFFICES ASSUME ReturnInv PROVE HashesAreFinal
      BY Zenon
    <2>1. ASSUME NEW c \in Calls, NEW i \in DOMAIN TxsOf[c]
          PROVE  sentHashes[c][i] = IF send[c][i].state = "sent" THEN <<c, i>> ELSE NoHash
      <3>1. sentHashes = Hashes
        BY Zenon DEF ReturnInv
      <3>2. Hashes[c][i] = IF send[c][i].state = "sent" THEN <<c, i>> ELSE NoHash
        BY Zenon DEF Hashes
      <3> QED BY <3>1, <3>2, Zenon
    <2>2. ASSUME NEW c \in Calls, returned[c] \in {"ok", "failed"}, NEW i \in DOMAIN TxsOf[c]
          PROVE  send[c][i].state \in (IF returned[c] = "ok" THEN {"sent"} ELSE {"sent", "failed"})
      BY <2>2, Zenon DEF ReturnInv
    <2> QED BY <2>1, <2>2, Zenon DEF HashesAreFinal
  <1> QED BY <1>1, <1>2, <1>3, PTL DEF Spec

-----------------------------------------------------------------------------
(* Close: a worker that has noticed it holds no request                    *)

Held(c, i) == send[c][i].request \in {"queued", "inHand"}

WorkerInv ==
    /\ workerClosed \in [Instances -> BOOLEAN]
    /\ \A c \in Calls : \A i \in DOMAIN TxsOf[c] : Held(c, i) => ~workerClosed[send[c][i].anh]

LEMMA InitWorkers == Init => WorkerInv
  <1> SUFFICES ASSUME Init PROVE WorkerInv
    BY Zenon
  <1>1. \A c \in Calls : \A i \in DOMAIN TxsOf[c] : send[c][i].request = "none"
    BY SMTT(30) DEF Init
  <1>2. workerClosed \in [Instances -> BOOLEAN]
    BY Zenon DEF Init
  <1> QED BY <1>1, <1>2 DEF WorkerInv, Held

LEMMA SameWorkers ==
    ASSUME WorkerInv, UNCHANGED workerClosed,
           \A c \in Calls : \A i \in DOMAIN TxsOf[c] : Held(c, i)' =>
                /\ send'[c][i].anh = send[c][i].anh
                /\ Held(c, i) \/ ~workerClosed[send[c][i].anh]
    PROVE  WorkerInv'
  <1>1. ASSUME NEW c \in Calls, NEW i \in DOMAIN TxsOf[c], Held(c, i)'
        PROVE  ~workerClosed'[send'[c][i].anh]
    BY <1>1, Zenon DEF WorkerInv
  <1> QED BY <1>1, Zenon DEF WorkerInv

LEMMA OneRequest ==
    ASSUME RegistryInv, WorkerInv, NEW c \in Calls, NEW i \in DOMAIN TxsOf[c], NEW record,
           send' = [send EXCEPT ![c][i] = record], UNCHANGED workerClosed,
           record.anh = send[c][i].anh,
           record.request \in {"queued", "inHand"} => Held(c, i) \/ ~workerClosed[send[c][i].anh]
    PROVE  WorkerInv'
  <1>1. \A d \in Calls : \A j \in DOMAIN TxsOf[d] :
              send'[d][j] = IF d = c /\ j = i THEN record ELSE send[d][j]
    BY Zenon DEF RegistryInv, DataShape
  <1>2. ASSUME NEW d \in Calls, NEW j \in DOMAIN TxsOf[d], Held(d, j)'
        PROVE  /\ send'[d][j].anh = send[d][j].anh
               /\ Held(d, j) \/ ~workerClosed[send[d][j].anh]
    <2>1. CASE d = c /\ j = i
      <3>1. send'[d][j] = record
        BY <1>1, <2>1, Zenon
      <3> QED BY <1>2, <2>1, <3>1, Zenon DEF Held
    <2>2. CASE ~(d = c /\ j = i)
      <3>1. send'[d][j] = send[d][j]
        BY <1>1, <2>2, Zenon
      <3> QED BY <1>2, <3>1, Zenon DEF Held
    <2> QED BY <2>1, <2>2, Zenon
  <1> QED BY <1>2, SameWorkers, Zenon

\* a worker that is closed takes nothing, and one that answers holds less
LEMMA GoroutinesKeepWorkers ==
    ASSUME RegistryInv, WorkerInv, NEW c \in Calls, NEW i \in DOMAIN TxsOf[c],
           AddTransaction(c, i) \/ ReceiveHash(c, i) \/ ReceiveError(c, i) \/ ContextDone(c, i)
    PROVE  WorkerInv'
  <1> DEFINE g == send[c][i]
  <1>1. g \in Goroutines
    BY Zenon DEF RegistryInv, DataShape
  <1>2. UNCHANGED workerClosed
    BY Zenon DEF AddTransaction, ReceiveHash, ReceiveError, ContextDone, handlerVars
  <1>3. CASE AddTransaction(c, i)
    <2>1. PICK request \in {"error", "queued"} :
            /\ send' = [send EXCEPT ![c][i] = [state |-> "waiting", anh |-> g.anh, request |-> request]]
            /\ request = "queued" => ~workerClosed[g.anh]
      BY <1>3, Zenon DEF AddTransaction
    <2> DEFINE record == [state |-> "waiting", anh |-> g.anh, request |-> request]
    <2>2. record.anh = g.anh /\ record.request = request
      BY Zenon
    <2>3. send' = [send EXCEPT ![c][i] = record]
      BY <2>1, Zenon
    <2>4. record.request \in {"queued", "inHand"} => ~workerClosed[g.anh]
      BY <2>1, <2>2
    <2> HIDE DEF record
    <2> QED BY <1>2, <2>2, <2>3, <2>4, OneRequest, Zenon
  <1>4. CASE ReceiveHash(c, i) \/ ReceiveError(c, i) \/ ContextDone(c, i)
    <2>1. PICK state \in {"sent", "failed"} : send' = [send EXCEPT ![c][i].state = state]
      BY <1>4, Zenon DEF ReceiveHash, ReceiveError, ContextDone
    <2> DEFINE record == [g EXCEPT !.state = state]
    <2>2. record.anh = g.anh /\ record.request = g.request
      BY <1>1, Zenon DEF Goroutines
    <2>3. send' = [send EXCEPT ![c][i] = record]
      BY <2>1, Zenon
    <2> HIDE DEF record
    <2> QED BY <1>2, <2>2, <2>3, OneRequest, Zenon DEF Held
  <1> QED BY <1>3, <1>4, Zenon

LEMMA WorkerKeepsWorkers ==
    ASSUME RegistryInv, WorkerInv, NEW h \in 1..created,
           TakeNext(h) \/ ProxySendTransaction(h) \/ closeAllChannels(h)
    PROVE  WorkerInv'
  <1>1. ASSUME NEW s \in Slots, NEW request \in {"inHand", "ok", "error", "lost"},
               Request(s) \in {"queued", "inHand"},
               send' = [send EXCEPT ![s[1]][s[2]].request = request], UNCHANGED workerClosed
        PROVE  WorkerInv'
    <2> DEFINE c == s[1]
               i == s[2]
               record == [send[c][i] EXCEPT !.request = request]
    <2>1. c \in Calls /\ i \in DOMAIN TxsOf[c] /\ Held(c, i)
      BY <1>1, SlotsOfACall, Zenon DEF Request, Held
    <2>2. send[c][i] \in Goroutines
      BY <2>1, Zenon DEF RegistryInv, DataShape
    <2>3. record.anh = send[c][i].anh
      BY <2>2, Zenon DEF Goroutines
    <2>4. send' = [send EXCEPT ![c][i] = record]
      BY <1>1, Zenon
    <2>5. UNCHANGED workerClosed
      BY <1>1, Zenon
    <2> HIDE DEF c, i, record
    <2> QED BY <2>1, <2>3, <2>4, <2>5, OneRequest, Zenon
  <1>2. CASE TakeNext(h)
    <2>1. PICK s \in Lowest(Holds(h, "queued")) : send' = [send EXCEPT ![s[1]][s[2]].request = "inHand"]
      BY <1>2, Zenon DEF TakeNext
    <2>2. s \in Slots /\ Request(s) \in {"queued", "inHand"}
      BY <2>1, Zenon DEF Lowest, Holds, Request
    <2>3. UNCHANGED workerClosed
      BY <1>2, Zenon DEF TakeNext, handlerVars
    <2> QED BY <1>1, <2>1, <2>2, <2>3, Zenon
  <1>3. CASE ProxySendTransaction(h)
    <2>0. PICK s \in Holds(h, "inHand") : \E answer \in {"ok", "error", "lost"} :
            send' = [send EXCEPT ![s[1]][s[2]].request = answer]
      BY <1>3, Zenon DEF ProxySendTransaction
    <2>1. PICK answer \in {"ok", "error", "lost"} : send' = [send EXCEPT ![s[1]][s[2]].request = answer]
      BY <2>0, Zenon
    <2>2. s \in Slots /\ Request(s) \in {"queued", "inHand"}
      BY <2>0, Zenon DEF Holds, Request
    <2>3. UNCHANGED workerClosed
      BY <1>3, Zenon DEF ProxySendTransaction, handlerVars
    <2> QED BY <1>1, <2>1, <2>2, <2>3, ZenonT(30)
  <1>4. CASE closeAllChannels(h)
    <2> DEFINE Refused(c, i) == <<c, i>> \in Holds(h, "queued")
    <2>1. \A c \in Calls : \A i \in DOMAIN TxsOf[c] :
            send'[c][i] = IF Refused(c, i) THEN [send[c][i] EXCEPT !.request = "error"] ELSE send[c][i]
      BY <1>4, Zenon DEF closeAllChannels
    <2>2. workerClosed' = [workerClosed EXCEPT ![h] = TRUE] /\ Holds(h, "inHand") = {}
      BY <1>4, Zenon DEF closeAllChannels
    <2>3. ASSUME NEW c \in Calls, NEW i \in DOMAIN TxsOf[c], Held(c, i)'
          PROVE  ~workerClosed'[send'[c][i].anh]
      <3>1. ~Refused(c, i)
        <4>1. ASSUME Refused(c, i) PROVE send'[c][i].request = "error"
          <5>1. send[c][i] \in Goroutines
            BY Zenon DEF RegistryInv, DataShape
          <5>2. send'[c][i] = [send[c][i] EXCEPT !.request = "error"]
            BY <2>1, <4>1, Zenon
          <5> QED BY <5>1, <5>2, Zenon DEF Goroutines
        <4> QED BY <2>3, <4>1 DEF Held
      <3>2. send'[c][i] = send[c][i] /\ Held(c, i)
        BY <2>1, <2>3, <3>1, Zenon DEF Held
      <3>3. send[c][i].anh # h
        <4> DEFINE s == <<c, i>>
        <4>1. s \in Slots /\ s[1] = c /\ s[2] = i
          BY SlotIsASlot, Zenon
        <4>2. s \notin Holds(h, "queued") /\ s \notin Holds(h, "inHand")
          BY <2>2, <3>1, Zenon
        <4> HIDE DEF s
        <4> QED BY <3>2, <4>1, <4>2, Zenon DEF Holds, Held
      <3>4. send[c][i].anh \in Instances
        <4>1. send[c][i].state # "none"
          BY <3>2 DEF RegistryInv, GoroutineInv, Held
        <4> QED BY <4>1, HandlersAreInstances, Zenon DEF RegistryInv, GoroutineInv
      <3>5. workerClosed'[send[c][i].anh] = workerClosed[send[c][i].anh]
        BY <2>2, <3>3, <3>4, Zenon DEF WorkerInv
      <3> QED BY <3>2, <3>5, Zenon DEF WorkerInv
    <2>4. workerClosed' \in [Instances -> BOOLEAN]
      BY <2>2, Zenon DEF WorkerInv
    <2> QED BY <2>3, <2>4, Zenon DEF WorkerInv
  <1> QED BY <1>2, <1>3, <1>4, Zenon

LEMMA NextKeepsWorkers ==
    ASSUME RegistryInv, ReturnInv, WorkerInv, [Next]_vars
    PROVE  WorkerInv'
  <1>1. ASSUME UNCHANGED <<workerClosed, send>> PROVE WorkerInv'
    BY <1>1, Zenon DEF WorkerInv, Held
  <1>2. ASSUME NEW c \in Calls,
               \/ VisitSender(c) \/ Create(c) \/ computeNonce(c) \/ computeNonceFails(c)
               \/ NextTransaction(c) \/ Wait(c)
        PROVE  UNCHANGED <<workerClosed, send>>
    <2> USE DEF handlerVars, txVars
    <2>1. CASE VisitSender(c) \/ Create(c)
      BY <2>1, Zenon DEF VisitSender, Create
    <2>2. CASE computeNonce(c)
      BY <2>2, Zenon DEF computeNonce
    <2>3. CASE computeNonceFails(c) \/ NextTransaction(c) \/ Wait(c)
      BY <2>3, Zenon DEF computeNonceFails, NextTransaction, Wait, Waited
    <2> QED BY <1>2, <2>1, <2>2, <2>3, Zenon
  <1>3. ASSUME NEW c \in Calls, Go(c) PROVE WorkerInv'
    <2>1. UNCHANGED workerClosed
      BY <1>3, Zenon DEF Go, handlerVars
    <2>2. ASSUME NEW d \in Calls, NEW j \in DOMAIN TxsOf[d], Held(d, j)'
          PROVE  send'[d][j].anh = send[d][j].anh /\ Held(d, j)
      <3>1. send'[d][j].request = "none" \/ send'[d][j] = send[d][j]
        <4>1. IF d = c /\ j = index[c] THEN send'[d][j].request = "none" ELSE send'[d][j] = send[d][j]
          BY <1>3, Started
        <4> QED BY <4>1, Zenon
      <3> QED BY <2>2, <3>1 DEF Held
    <2> QED BY <2>1, <2>2, SameWorkers, Zenon
  <1>4. CASE Close \/ UNCHANGED vars
    BY <1>1, <1>4, Zenon DEF Close, vars, handlerVars, txVars
  <1> QED BY <1>1, <1>2, <1>3, <1>4, GoroutinesKeepWorkers, WorkerKeepsWorkers, Zenon DEF Next

\* Close of nonceTransactionsHandlerV3 finds every worker: a handler that
\* was ever created is in the map, also when it is created after a Close,
\* and a worker that has noticed its Close has answered all its requests.
THEOREM CloseAlwaysReachesEveryWorker == Spec => []CloseReachesEveryWorker
  <1>1. Init => RegistryInv /\ ReturnInv /\ WorkerInv
    BY InitRegistry, InitReturn, InitWorkers, Zenon
  <1>2. RegistryInv /\ ReturnInv /\ WorkerInv /\ [Next]_vars => (RegistryInv /\ ReturnInv /\ WorkerInv)'
    BY NextKeepsInv, NextKeepsWorkers, Zenon
  <1>3. RegistryInv /\ WorkerInv => CloseReachesEveryWorker
    <2> SUFFICES ASSUME RegistryInv, WorkerInv, NEW h \in 1..created
                 PROVE  /\ h \in Range(handlers)
                        /\ workerClosed[h] => Holds(h, "queued") \cup Holds(h, "inHand") = {}
      BY Zenon DEF CloseReachesEveryWorker
    <2>1. \E a \in Addresses : handlers[a] = h
      BY Zenon DEF RegistryInv, MapInv
    <2>2. h \in Range(handlers)
      BY <2>1, Zenon DEF Range, RegistryInv, DataShape
    <2>3. ASSUME NEW s \in Slots, send[s[1]][s[2]].anh = h, Request(s) \in {"queued", "inHand"}
          PROVE  ~workerClosed[h]
      BY <2>3, SlotsOfACall, Zenon DEF WorkerInv, Held, Request
    <2>4. workerClosed[h] => Holds(h, "queued") \cup Holds(h, "inHand") = {}
      BY <2>3, Zenon DEF Holds, Request
    <2> QED BY <2>2, <2>4, Zenon
  <1> QED BY <1>1, <1>2, <1>3, PTL DEF Spec
=============================================================================
