----------------------------- MODULE FilterLogs -----------------------------
(***************************************************************************)
(* blockchain/proxy.go: the pure parts of FilterLogs, the range of blocks  *)
(* a filter asks for and the events it selects.  Block numbers are         *)
(* unsigned and wrap at Width (2^64 in the code).                          *)
(***************************************************************************)
EXTENDS Integers, Sequences

CONSTANTS
    Width,                  \* number of unsigned integers
    MaximumBlocksDelta

ASSUME WidthIsLarge == Width \in Nat /\ MaximumBlocksDelta \in 0..(Width - 1)

None == -1                  \* an optional value that is not set

NoFilter == [blockHash |-> None, fromBlock |-> None, toBlock |-> None,
             addresses |-> <<>>, shardID |-> None, topics |-> <<>>]

Minus(a, b) == (a - b) % Width

BlockRange(from, to) ==
    IF Minus(to, from) <= MaximumBlocksDelta THEN <<from, to>> ELSE <<>>

\* mutant: the distance is computed on signed integers
resolveBlockRangeSigned(filter, latestBlock) ==
    LET from == IF filter.fromBlock # None THEN filter.fromBlock ELSE 0
        to == IF filter.toBlock # None THEN filter.toBlock ELSE latestBlock
    IN  IF to > latestBlock \/ (filter.fromBlock = None /\ filter.toBlock = None) THEN <<>>
        ELSE IF to - from <= MaximumBlocksDelta THEN <<from, to>> ELSE <<>>

\* <<from, to>>, or <<>> when the range is refused
resolveBlockRange(filter, latestBlock) ==
    CASE filter.toBlock # None /\ filter.toBlock > latestBlock -> <<>>
      [] filter.fromBlock # None /\ filter.toBlock # None -> BlockRange(filter.fromBlock, filter.toBlock)
      [] filter.fromBlock # None /\ filter.toBlock = None -> BlockRange(filter.fromBlock, latestBlock)
      [] filter.fromBlock = None /\ filter.toBlock # None -> BlockRange(0, filter.toBlock)
      [] OTHER -> <<>>

contains(addresses, address) ==
    addresses = <<>> \/ \E i \in DOMAIN addresses : addresses[i] = address

\* mutant: a filter longer than the event's topics is compared as far as they go
topicsMatchShorter(filterTopics, eventTopics) ==
    \A i \in DOMAIN filterTopics \cap DOMAIN eventTopics : filterTopics[i] = eventTopics[i]

topicsMatch(filterTopics, eventTopics) ==
    /\ Len(filterTopics) <= Len(eventTopics)
    /\ \A i \in DOMAIN filterTopics : filterTopics[i] = eventTopics[i]

matchesFilter(filter, event) ==
    /\ contains(filter.addresses, event.address)
    /\ Len(filter.topics) > 0 => topicsMatch(filter.topics, event.topics)

extractMatchingEvents(events, filter) ==
    SelectSeq(events, LAMBDA e : matchesFilter(filter, e))
=============================================================================
