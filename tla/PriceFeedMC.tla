---------------------------- MODULE PriceFeedMC -----------------------------
(***************************************************************************)
(* Two pairs: one on three exchanges with a threshold, and one on a single *)
(* exchange that is notified whenever it is polled.                        *)
(***************************************************************************)
EXTENDS PriceFeed

AllFetchers == {"Binance", "Kraken", "XExchange"}
OnExchanges == <<AllFetchers, {"Binance"}>>
Thresholds == <<25, 0>>
FirstQuote == <<[f \in AllFetchers |-> IF f = "Binance" THEN Quote(10) ELSE Quote(30)],
                [f \in AllFetchers |-> Quote(4)]>>
NextQuotes == <<[f \in AllFetchers |-> CASE f = "Kraken" -> {Quote(10)}
                                         [] f = "XExchange" -> {EmptyList}
                                         [] OTHER -> {}],
                [f \in AllFetchers |-> {}]>>
=============================================================================
