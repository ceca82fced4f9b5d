----------------------------- MODULE PriceFeed ------------------------------
(***************************************************************************)
(* The price feed as examples/examplesPriceAggregator builds it: a         *)
(* pollingHandler whose executor is a priceNotifier.  The handler may be   *)
(* closed and started again at any time, while Execute is running too.     *)
(***************************************************************************)
EXTENDS PollingHandler, PriceNotifier

vars == <<pollingVars, notifierVars>>

Init == PollingInit /\ NotifierInit

Alive == pc # "crashed"

CtxDone == cancel # 0 /\ loop[cancel].done

\* one step of the goroutine that runs loop l
LoopStep(l) ==
    \/ loop[l].pc = "execute" /\ Execute /\ UNCHANGED pollingVars
    \/ Returned /\ ExecuteReturns(l)
    \/ Alive /\ (SelectTimer(l) \/ cleanup(l)) /\ UNCHANGED notifierVars

ExecuteStep ==
    /\ \/ \E f \in Fetchers : FetcherAnswers(f)
       \/ FetchPriceReturns
       \/ computeNotifyArgsSlice
       \/ notify
       \/ PriceChanged
    /\ UNCHANGED pollingVars

Faults ==
    /\ \/ \E f \in Fetchers : FetcherFails(f, CtxDone)
       \/ PriceChangedFails(CtxDone)
    /\ UNCHANGED pollingVars

ClosesLoop(l) == Alive /\ SelectDone(l) /\ UNCHANGED notifierVars

Timer(l) == Alive /\ TimerFires(l) /\ UNCHANGED notifierVars

Owner == Alive /\ (StartProcessingLoop \/ Close) /\ UNCHANGED notifierVars

Outside == Alive /\ (ChangeQuote \/ AutoSendIntervalElapses) /\ UNCHANGED pollingVars

Next ==
    \/ \E l \in Loops : LoopStep(l) \/ ClosesLoop(l) \/ Timer(l)
    \/ ExecuteStep
    \/ Faults
    \/ Owner
    \/ Outside

Spec == Init /\ [][Next]_vars

\* The goroutine (there is one at a time) runs, timers fire, time passes and requests are answered.
\* The select of processLoop takes the Done branch sooner or later when it
\* is ready again and again, because Go chooses among ready cases at random.
FairSpec ==
    /\ Spec
    /\ WF_vars(ExecuteStep)
    /\ WF_vars(Alive /\ AutoSendIntervalElapses /\ UNCHANGED pollingVars)
    /\ WF_vars(\E l \in Loops : LoopStep(l))
    /\ WF_vars(\E l \in Loops : Timer(l))
    /\ SF_vars(\E l \in Loops : ClosesLoop(l))

-----------------------------------------------------------------------------
(* Properties                                                              *)

TypeOK == PollingTypeOK /\ NotifierTypeOK

\* However the answers of the fetchers interleave, computeMedian applied to
\* what FetchPrice has collected is a median of it.
MedianOfAnswers == prices # <<>> => IsMedian(computeMedian(prices), prices)

\* As long as no request has failed, an Execute that returns nil leaves the
\* notifee with a price of every pair that differs from the one just fetched
\* by less than the pair's percentage (up to the one step that the conversion
\* to the denominated price may lose), although only some of the pairs are
\* notified and the notifier remembers prices by their index.
NotifeeIsUpToDate ==
    (pc = "returned" /\ result = "ok" /\ faults = 0 /\ \A l \in Loops : ~loop[l].done) =>
        \A p \in Pairs :
            LET known == delivered[p] * Precision
                off == Distance(known, fetched[p])
            IN  \/ off <= Precision
                \/ (off - Precision) * 100 < Percent[p] * (known + Precision)

AnswersNow(p) ==
    {f \in Exchanges[p] : FetchPrice(f, quote[p][f]).err = "none"}

PriceNow(p) ==
    LET answers == SetToSeq(AnswersNow(p))
    IN  trim(computeMedian([i \in DOMAIN answers |-> quote[p][answers[i]].value]))

Pollable ==
    /\ cancel # 0
    /\ ~loop[cancel].done
    /\ \A p \in Pairs : Cardinality(AnswersNow(p)) >= MinResultsNum

DeliveredIsShown ==
    Pollable => \A p \in Pairs : Distance(delivered[p] * Precision, PriceNow(p)) <= Precision

\* A handler that is left running delivers the price of every pair once the
\* exchanges settle: prices that were marked as notified before PriceChanged
\* failed are made good by the automatic send.
DeliversSettledPrices ==
    \/ []<>~(Alive /\ Pollable)
    \/ <>[]DeliveredIsShown

\* After Close the processing loop ends and the handler can be started again.
ClosedLoopEnds ==
    \A l \in Loops : loop[l].done ~> (~Alive \/ (loop[l].pc = "ended" /\ cancel # l))
=============================================================================
