--------------------------- MODULE PriceFetchers ----------------------------
(***************************************************************************)
(* aggregator/fetchers and the arithmetic of the aggregator: what a price  *)
(* fetcher makes of an exchange's answer, the median of the answers, and   *)
(* the rounding of a price to the decimals of its pair.                    *)
(*                                                                         *)
(* Prices are fixed-point integers.  A pair's precision (10^-decimals) is  *)
(* Precision units; the unit is fine enough to hold the mean of two        *)
(* prices, so the arithmetic here is exact where the code's float64 is     *)
(* correct to rounding.                                                    *)
(*                                                                         *)
(* What an exchange shows for a pair is a quote [kind, value]: a number,   *)
(* a string that is no number, an empty string, an entry with an empty     *)
(* list of prices, or no entry at all.                                     *)
(***************************************************************************)
EXTENDS Integers, Sequences, FiniteSets, SequencesExt

CONSTANT Precision      \* units per step of a trimmed price

ASSUME PrecisionIsPositive == Precision \in Nat \ {0}

Quote(n) == [kind |-> "number", value |-> n]
Garbled == [kind |-> "garbled", value |-> 0]
Blank == [kind |-> "blank", value |-> 0]
EmptyList == [kind |-> "emptyList", value |-> 0]
Unlisted == [kind |-> "unlisted", value |-> 0]

Price(n) == [err |-> "none", price |-> n]
Failure(e) == [err |-> e, price |-> 0]

-----------------------------------------------------------------------------

StrToPositiveFloat64(q) ==
    IF q.kind = "number" /\ q.value > 0 THEN Price(q.value) ELSE Failure("invalid")

\* binance, bitfinex, gemini, hitbtc: one field, "" when it is missing
FetchField(q) ==
    IF q.kind \in {"unlisted", "emptyList", "blank"} THEN Failure("invalid")
    ELSE StrToPositiveFloat64(q)

\* cryptocom, okx: the first entry of a list that is checked for emptiness
FetchFirstEntry(q) ==
    IF q.kind \in {"unlisted", "emptyList"} THEN Failure("invalid") ELSE FetchField(q)

\* huobi, the last price of xExchange: a JSON number, 0 when it is missing; a string
\* in its place does not unmarshal
FetchNumber(q) ==
    IF q.kind = "number" /\ q.value > 0 THEN Price(q.value) ELSE Failure("invalid")

\* kraken: Price[0] of an entry is read before its length is looked at
FetchKraken(q) ==
    CASE q.kind = "unlisted" -> Failure("invalid")
      [] q.kind = "emptyList" -> Failure("panic")
      [] OTHER -> FetchField(q)

\* xExchange: Price[0] is read from whatever list was unmarshalled, an absent one too
FetchXExchange(q) ==
    IF q.kind \in {"unlisted", "emptyList"} THEN Failure("panic") ELSE FetchNumber(q)

\* evm gas station: an integer, whatever its sign
FetchGasPrice(q) ==
    IF q.kind = "number" THEN Price(q.value) ELSE Failure("invalid")

\* createFetcher chooses the implementation by the exchange's name
FetchPrice(exchange, q) ==
    CASE exchange \in {"Crypto.com", "Okx"} -> FetchFirstEntry(q)
      [] exchange = "Huobi" -> FetchNumber(q)
      [] exchange = "Kraken" -> FetchKraken(q)
      [] exchange = "XExchange" -> FetchXExchange(q)
      [] exchange = "EVM gas price station" -> FetchGasPrice(q)
      [] OTHER -> FetchField(q)

-----------------------------------------------------------------------------

\* mutant: the middle of the answers in the order they arrived
computeMedianUnsorted(nums) ==
    LET mid == Len(nums) \div 2
    IN  IF Len(nums) % 2 # 0 THEN nums[mid + 1] ELSE (nums[mid] + nums[mid + 1]) \div 2

\* an order of the indexes in which the numbers do not decrease
Sorts(order, nums) == \A i, j \in DOMAIN nums : i <= j => nums[order[i]] <= nums[order[j]]

\* sort.Float64s on a copy
sortedCopy(nums) ==
    LET order == CHOOSE o \in Bijection(DOMAIN nums, DOMAIN nums) : Sorts(o, nums)
    IN  [i \in DOMAIN nums |-> nums[order[i]]]

computeMedian(nums) ==
    LET sorted == sortedCopy(nums)
        mid == Len(nums) \div 2
    IN  IF Len(nums) % 2 # 0 THEN sorted[mid + 1] ELSE (sorted[mid] + sorted[mid + 1]) \div 2

\* math.Round on prices that are not negative
trim(v) == ((2 * v + Precision) \div (2 * Precision)) * Precision

\* what a median is: at least half of the numbers are no larger than it and
\* at least half are no smaller
IsMedian(m, nums) ==
    /\ 2 * Cardinality({i \in DOMAIN nums : nums[i] <= m}) >= Len(nums)
    /\ 2 * Cardinality({i \in DOMAIN nums : nums[i] >= m}) >= Len(nums)
=============================================================================
