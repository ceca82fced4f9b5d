--------------------------- MODULE PriceNotifier ----------------------------
(***************************************************************************)
(* aggregator: one call of priceNotifier.Execute, from the concurrent      *)
(* queries of priceAggregator.FetchPrice to the transaction that           *)
(* mxNotifee.PriceChanged sends.                                           *)
(*                                                                         *)
(* External: what the exchanges show (quote), which changes at any time,   *)
(* and the contract that receives the prices (delivered).                  *)
(***************************************************************************)
EXTENDS PriceFetchers

CONSTANTS
    NumPairs,
    Fetchers,           \* names of the price fetchers
    Exchanges,          \* Exchanges[p]: the fetchers pair p was added to
    Percent,            \* Percent[p]: percentDifferenceToNotify of pair p
    MinResultsNum,
    Epsilon,            \* below it a last notified price counts as none
    InitialQuote,
    Quotes,             \* Quotes[p][f]: what f may show for p later
    MaxChanges,         \* bound: changes of what the exchanges show
    MaxFaults           \* bound: failed requests and signatures

ASSUME PairsAndFetchers ==
    /\ NumPairs \in Nat \ {0}
    /\ Exchanges \in [1..NumPairs -> SUBSET Fetchers]
    /\ Percent \in [1..NumPairs -> Nat]
    /\ MinResultsNum \in 1..Cardinality(Fetchers)
    /\ Epsilon \in Nat \ {0}

Pairs == 1..NumPairs

QuoteSet == [kind : {"number", "garbled", "blank", "emptyList", "unlisted"}, value : Int]

\* the fetchers refuse prices below zero, except the one for gas prices
ASSUME QuotesAreShown ==
    /\ InitialQuote \in [Pairs -> [Fetchers -> QuoteSet]]
    /\ \A p \in Pairs : \A f \in Exchanges[p] : \A q \in Quotes[p][f] : q \in QuoteSet
    /\ \A p \in Pairs : \A f \in Exchanges[p] : f = "EVM gas price station" =>
        \A q \in Quotes[p][f] \cup {InitialQuote[p][f]} : q.value >= 0

VARIABLES
    quote, changes, faults, delivered,  \* the outside
    pc, result,                         \* of Execute; result is "ok" or "error"
    asking, prices,                     \* FetchPrice: fetchers still asked, prices so far
    fetched,                            \* fetchedPrices
    toNotify,                           \* notifyArgsSlice: the indexes of its pairs
    lastNotifiedPrices,
    autoDue                             \* timeSince(lastTimeAutoSent) > autoSendInterval

outsideVars == <<quote, changes, faults, delivered>>
callVars == <<pc, result, asking, prices, fetched, toNotify>>
notifierVars == <<outsideVars, callVars, lastNotifiedPrices, autoDue>>

NotifierTypeOK ==
    /\ changes \in 0..MaxChanges
    /\ faults \in 0..MaxFaults
    /\ delivered \in [Pairs -> Nat]
    /\ pc \in {"idle", "fetch", "compute", "notify", "PriceChanged",
               "returned", "crashed"}
    /\ result \in {"ok", "error"}
    /\ asking \subseteq Fetchers
    /\ Len(prices) <= Cardinality(Fetchers \ asking)
    /\ Len(fetched) <= NumPairs
    /\ \A i \in DOMAIN fetched : fetched[i] % Precision = 0
    /\ toNotify \subseteq DOMAIN fetched
    /\ lastNotifiedPrices \in [Pairs -> Nat]

NotifierInit ==
    /\ quote = InitialQuote
    /\ changes = 0
    /\ faults = 0
    /\ delivered = [p \in Pairs |-> 0]
    /\ pc = "idle"
    /\ result = "ok"
    /\ asking = {}
    /\ prices = <<>>
    /\ fetched = <<>>
    /\ toNotify = {}
    /\ lastNotifiedPrices = [p \in Pairs |-> 0]
    /\ autoDue = FALSE

-----------------------------------------------------------------------------
(* External                                                                *)

ChangeQuote ==
    /\ changes < MaxChanges
    /\ changes' = changes + 1
    /\ \E p \in Pairs : \E f \in Exchanges[p] : \E q \in Quotes[p][f] :
        /\ q # quote[p][f]
        /\ quote' = [quote EXCEPT ![p][f] = q]
    /\ UNCHANGED <<faults, delivered, callVars, lastNotifiedPrices, autoDue>>

AutoSendIntervalElapses ==
    /\ ~autoDue
    /\ autoDue' = TRUE
    /\ UNCHANGED <<outsideVars, callVars, lastNotifiedPrices>>

-----------------------------------------------------------------------------
(* getAllPrices                                                            *)

Execute ==
    /\ pc = "idle"
    /\ pc' = "fetch"
    /\ asking' = Exchanges[1]
    /\ UNCHANGED <<outsideVars, result, prices, fetched, toNotify, lastNotifiedPrices, autoDue>>

Pair == Len(fetched) + 1        \* the pair whose price is being fetched

\* A fetcher the pair was not added to answers ErrPairNotSupported at once and
\* adds nothing: only the others are asked.  A panic in the goroutine of a
\* fetcher ends the process.
FetcherAnswers(f) ==
    /\ pc = "fetch"
    /\ f \in asking
    /\ LET r == FetchPrice(f, quote[Pair][f])
       IN  /\ pc' = IF r.err = "panic" THEN "crashed" ELSE pc
           /\ prices' = IF r.err = "none" THEN Append(prices, r.price) ELSE prices
    /\ asking' = asking \ {f}
    /\ UNCHANGED <<outsideVars, result, fetched, toNotify, lastNotifiedPrices, autoDue>>

\* a request that fails on the way, or because its context is done
Fault(ctxDone) ==
    \/ /\ ctxDone
       /\ UNCHANGED faults
    \/ /\ faults < MaxFaults
       /\ faults' = faults + 1

FetcherFails(f, ctxDone) ==
    /\ pc = "fetch"
    /\ f \in asking
    /\ Fault(ctxDone)
    /\ asking' = asking \ {f}
    /\ UNCHANGED <<quote, changes, delivered, pc, result, prices, fetched, toNotify,
                   lastNotifiedPrices, autoDue>>

FetchPriceReturns ==
    /\ pc = "fetch"
    /\ asking = {}
    /\ prices' = <<>>
    /\ \/ /\ Len(prices) < MinResultsNum
          /\ pc' = "returned"
          /\ result' = "error"
          /\ UNCHANGED <<asking, fetched>>
       \/ /\ Len(prices) >= MinResultsNum
          /\ fetched' = Append(fetched, trim(computeMedian(prices)))
          /\ IF Pair = NumPairs THEN pc' = "compute" /\ UNCHANGED asking
             ELSE asking' = Exchanges[Pair + 1] /\ UNCHANGED pc
          /\ UNCHANGED result
    /\ UNCHANGED <<outsideVars, toNotify, lastNotifiedPrices, autoDue>>

-----------------------------------------------------------------------------
(* computeNotifyArgsSlice and notify                                       *)

Distance(m, n) == IF m > n THEN m - n ELSE n - m

\* mutant: only a rise counts as a change
shouldNotifyRisesOnly(p) ==
    \/ lastNotifiedPrices[p] < Epsilon
    \/ Percent[p] = 0
    \/ (fetched[p] - lastNotifiedPrices[p]) * 100 >= Percent[p] * lastNotifiedPrices[p]

shouldNotify(p) ==
    \/ lastNotifiedPrices[p] < Epsilon
    \/ Percent[p] = 0
    \/ Distance(lastNotifiedPrices[p], fetched[p]) * 100 >= Percent[p] * lastNotifiedPrices[p]

\* mutant: the elapsed interval is noted but not acted on
computeNeverAll ==
    /\ pc = "compute"
    /\ pc' = "notify"
    /\ toNotify' = {p \in Pairs : shouldNotify(p)}
    /\ autoDue' = FALSE
    /\ UNCHANGED <<outsideVars, result, asking, prices, fetched, lastNotifiedPrices>>

computeNotifyArgsSlice ==
    /\ pc = "compute"
    /\ pc' = "notify"
    /\ toNotify' = {p \in Pairs : autoDue \/ shouldNotify(p)}
    /\ autoDue' = FALSE
    /\ UNCHANGED <<outsideVars, result, asking, prices, fetched, lastNotifiedPrices>>

\* the prices count as notified before PriceChanged is called
notify ==
    /\ pc = "notify"
    /\ lastNotifiedPrices' = [p \in Pairs |-> IF p \in toNotify THEN trim(fetched[p])
                                              ELSE lastNotifiedPrices[p]]
    /\ pc' = IF toNotify = {} THEN "returned" ELSE "PriceChanged"
    /\ result' = "ok"
    /\ UNCHANGED <<outsideVars, asking, prices, fetched, toNotify, autoDue>>

-----------------------------------------------------------------------------
(* mxNotifee.PriceChanged                                                  *)

\* GetNetworkConfig, ApplyNonceAndGasPrice, ApplyUserSignature and SendTransaction
\* follow one another and the first that fails ends the call; the nonce handler's
\* side of them is modelled in NonceHandlerV1, V2 and V3.
\* DenominatedPrice is uint64(priceTrimmed * denominationFactor): the float64
\* product may lie just below the integer it stands for
PriceChanged ==
    /\ pc = "PriceChanged"
    /\ \E short \in {0, 1} :
        delivered' = [p \in Pairs |->
            IF p \notin toNotify THEN delivered[p]
            ELSE LET steps == lastNotifiedPrices[p] \div Precision
                 IN  IF steps = 0 THEN 0 ELSE steps - short]
    /\ pc' = "returned"
    /\ result' = "ok"
    /\ UNCHANGED <<quote, changes, faults, asking, prices, fetched, toNotify,
                   lastNotifiedPrices, autoDue>>

PriceChangedFails(ctxDone) ==
    /\ pc = "PriceChanged"
    /\ Fault(ctxDone)
    /\ pc' = "returned"
    /\ result' = "error"
    /\ UNCHANGED <<quote, changes, delivered, asking, prices, fetched, toNotify,
                   lastNotifiedPrices, autoDue>>

\* Execute has returned to the polling loop, its local variables are gone
Returned ==
    /\ pc = "returned"
    /\ pc' = "idle"
    /\ result' = "ok"
    /\ fetched' = <<>>
    /\ toNotify' = {}
    /\ UNCHANGED <<outsideVars, asking, prices, lastNotifiedPrices, autoDue>>
=============================================================================
