----------------------------- MODULE FilterQuery -----------------------------
(***************************************************************************)
(* What FilterLogs of the proxy promises: the comments of core.FilterQuery *)
(* (core/types.go) say which blocks a filter asks for and which events of  *)
(* them it selects.                                                        *)
(***************************************************************************)
EXTENDS Proxy, SequencesExt

CONSTANT EmptyTopic         \* a topic of no bytes

OfContracts(filter, event) == filter.addresses = <<>> \/ event.address \in ToSet(filter.addresses)

\* "Topics matches a prefix of that list", "An empty element slice matches any
\* topic", "The order of the topics is not important"
Documented(filter, event) ==
    /\ OfContracts(filter, event)
    /\ Len(filter.topics) <= Len(event.topics)
    /\ \E p \in Permutations(DOMAIN filter.topics) : \A i \in DOMAIN filter.topics :
            filter.topics[p[i]] \in {EmptyTopic, event.topics[i]}

\* the events that start with the very topics of the filter, in its order
Literal(filter, event) == OfContracts(filter, event) /\ IsPrefix(filter.topics, event.topics)

\* the blocks a filter asks for, given the latest one when FilterLogs looked
Asked(f, latest) ==
    IF f.blockHash # None THEN <<f.blockHash>>
    ELSE LET from == IF f.fromBlock = None THEN 0 ELSE f.fromBlock
             to == IF f.toBlock = None THEN latest ELSE f.toBlock
         IN  [i \in 1..(to - from + 1) |-> from + i - 1]

\* the events of the blocks that the call was asked for
AskedEvents(c) ==
    LET blocks == Asked(call[c].filter, call[c].read)
    IN  FlattenSeq([i \in DOMAIN blocks |-> EventsOf(call[c].shard, blocks[i])])

\* no other call for logs is about another shard
OneShardOnly(c) == \A d \in Clients : call[d].op = "logs" => call[d].shard \in {None, call[c].shard}

\* The blocks FilterLogs goes through exist and are no more than the allowed
\* number, for inverted and open ranges too.  As long as the calls that share
\* the cache are about one shard, what it returns is what core.FilterQuery
\* documents: only events the filter selects, and of every block that it was
\* asked for all those that start with the filter's topics, each once and in
\* order, whichever of the blocks came from the cache, also when several
\* calls missed one together and each put a response.
LogsAreComplete ==
    /\ \A c \in Clients : call[c].pc \in {"blocks", "fetch"} =>
        /\ call[c].from <= call[c].to
        /\ call[c].to <= observed[call[c].shard]
        /\ call[c].to - call[c].from <= MaximumBlocksDelta
    /\ \A c \in Clients : Succeeded(c, "logs") /\ OneShardOnly(c) =>
        LET Start(e) == Literal(call[c].filter, e)
        IN  /\ \A e \in ToSet(call[c].events) : Documented(call[c].filter, e)
            /\ SelectSeq(call[c].events, Start) = SelectSeq(AskedEvents(c), Start)

\* core.FilterQuery: ShardID "identifies the shard to query".
LogsFromItsShard ==
    \A c \in Clients : Succeeded(c, "logs") =>
        \A i \in DOMAIN call[c].events : call[c].events[i].shard = call[c].shard

\* core.FilterQuery on topics, both ways.  It does not hold: topicsMatch compares
\* the topics as they are, in the order they are given.
TopicsAsDocumented ==
    \A c \in Clients : Succeeded(c, "logs") /\ OneShardOnly(c) =>
        call[c].events = SelectSeq(AskedEvents(c), LAMBDA e : Documented(call[c].filter, e))
==============================================================================
