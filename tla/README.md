# A TLA+ model of mx-sdk-erdgo

This directory holds TLA+ specifications of the concurrent and long-running parts
of the MultiversX Go SDK, the TLC configurations that model-check them, and TLAPS
proofs about eleven of the parts. `PROJECT.json` maps every definition to the
lines of Go it models, lists hazards at their lines, and names for each checked
property a plausible bug (a *mutant*) that breaks it.

## 1. The system

The SDK is a library. A program that uses it talks to a network of nodes through a
gateway or an observer, and shares the SDK's objects among goroutines.

| part | state | operations | what is hard about it |
|---|---|---|---|
| nonce handlers V1, V2, V3 (`interactors/nonceHandlerV*`) | stored nonce, cached transactions, gas price, gap mark | get or apply a nonce, send, resend, drop, re-fetch, close | callers run concurrently; the account is read outside the lock; a resend goroutine works on the same cache; the chain executes and loses transactions meanwhile |
| transaction worker of V3 (`workers/transactionWorker.go`) | heap of transactions, map of promised channels, closed flag | add, take the lowest, answer, close | two critical sections per transaction; cancellation races with additions; channels of capacity one |
| registry of V3 (`nonceTransactionsHandler.go`) | map of handlers | apply, send many, close | two callers create the handler of one sender; early return while sends are under way; handlers created after close |
| wallets tracker, move balance handler, transaction interactor (`workflows`, `interactors/transaction.go`) | last processed hyper block, accumulated addresses, accumulated transactions | poll, notify, take addresses, generate, send in bunches | crash between processing and reporting; failing requests; two goroutines |
| polling handler (`core/polling`) | cancel function | start, loop, close | start and close race with the end of the loop; timer and context ready together |
| price fetchers, aggregator, notifier, notifee (`aggregator`) | last notified prices, time of the automatic send | fetch, median, compare, notify | answers in any order; partial failures; prices recorded before they are delivered; truncation |
| proxy (`blockchain`) | network configuration cache, block cache | account query, log filter, and many stateless requests | cache expiry under two locks; finality read in several steps while the network moves; caches shared by callers; unsigned ranges |
| native authentication | client token, server cache of block timestamps | create token, validate | client and server count the life of a token from different moments and in different units; validations share a cache |
| header check (`headerCheck`) | nodes configuration per epoch (in another library) | create the verifier, verify a header | the configuration of an epoch is fetched on demand, in two requests, by calls that share it |
| wallet interactor (`interactors/wallet.go`) | keystore and `.pem` files | derive, save and load a key | files are overwritten in place; a save may be cut short |
| VM query getter, requests of the proxy, HTTP client (`blockchain`, `core/http`) | none | one request, one answer | answers without data, with another status or from a gateway; some of several transactions accepted; numbers that do not fit |
| serde | offset into a byte buffer | read, skip, back up, decode a struct | a nested struct is decoded from a copy of the rest, and the outer offset moved after it |
| builders, signature check | collected arguments, first error; a transaction and its signatures | add, build, sign, relay, verify | errors are kept for the last call of a chain; two signers in any order, each signing without the other's signature; relaying copies part of the fields |
| command line tool (`cmd/cli`) | the options selected by its flags | one transaction of the flags, perhaps after funding four wallets | defaults replaced flag by flag before signing; requests fail between funding and sending; others use the accounts |
| address generator, crypto provider, endpoint providers, data types, disabled components, web API | none, or files and sockets | conversions, cryptography, input and output | out of a model checker's reach or without state |

How the parts interact: the worker is owned by V3's handler of one address; a nonce
handler queries the proxy for accounts and configurations and sends transactions
through it; the notifee of the price feed sends its transaction through a nonce
handler; the polling handler drives the price notifier, which asks the aggregator,
which asks every fetcher in a goroutine of its own; the move balance handler takes
the addresses the tracker has accumulated and gives its transactions to the
interactor. A query takes its request from a query builder and goes through the proxy.

## 2. Modules

| module | models |
|---|---|
| `AccountChain` | external: one account of the network, the pool of transactions and their execution in nonce order |
| `NonceSource` | what the three nonce handlers promise: transactions get the account's nonce and the numbers after it, one each, and the chain uses no other, until the count is disturbed |
| `ResponsePromise` | what the worker promises: a request waits, then is completed, refused or cancelled, exactly once |
| `TransactionWorker` | `transactionWorker.go`: the heap (a set that is popped at its minimum), the map of channels, the goroutine, `AddTransaction` and cancellation; a critical section is one step |
| `NonceHandlerV3`, `NonceHandlerV3Proofs` | V3's handler of one address with its callers, composed with `TransactionWorker` (INSTANCE) and `AccountChain` |
| `NonceHandlerV1`, `NonceHandlerV1MC`, `NonceHandlerV1Proofs` | V1: `GetNonce`, `SendTransaction` with the duplicate check, the resend goroutine, `ForceNonceReFetch`, `Close` |
| `NonceHandlerV2`, `NonceHandlerV2Proofs` | V2: each step of `ApplyNonceAndGasPrice`, `SendTransaction`, the resend goroutine, `DropTransactions`, `Close` |
| `WalletsTracker`, `TransactionInteractor`, `WalletFlow`, `WalletFlowMC` | the tracker, the interactor, and their composition with the move balance handler as in `examples/examplesFlowWalletTracker` |
| `PollingHandler`, `PriceFetchers`, `PriceNotifier`, `PriceFeed`, `PriceFeedMC`, `PriceFeedProofs` | the polling loop, the pure parts of fetchers and aggregator, one `Execute` of the notifier, and their composition as in `examples/examplesPriceAggregator` |
| `NetworkConfigCache`, `FinalityProvider`, `FilterLogs`, `Proxy`, `FilterQuery`, `ProxyMC`, `ProxyProofs` | the configuration cache, the decisions of the finality providers, the pure parts of the log filter, the calls of goroutines that share a proxy, and (`FilterQuery`) what a filter promises of the logs it returns |
| `NonceRegistryV3`, `NonceRegistryV3MC`, `NonceRegistryV3Proofs` | V3's registry with the handlers and workers it creates: `ApplyNonceAndGasPrice` sender by sender, `SendTransactions` with one goroutine per transaction, `Close` |
| `SeparatedText` | external: `strings.Join` and `strings.Split` |
| `NativeAuth` | the client with the token it keeps, the token's two encodings, the server with its cache of block timestamps |
| `HeaderCheck` | the requests that create the verifier, and concurrent calls of `VerifyHeaderSignatureByHash` that look at the shared nodes coordinator, fetch what is missing, set it and verify; the coordinator itself is external: what it was given for each epoch |
| `VerifiersMC` | the last two together; they share no state, so a behaviour is one of either |
| `CallBuilders` | the data builder and the query builder: one action per setter |
| `TxSigning` | signing by user and guardian, verification, relayed transactions of both versions |
| `Deserializer` | the source buffer and `CreateStruct`, `CreatePrimitiveDataType` |
| `KeyFiles` | `wallet.go`: keys as paths of the mnemonic, a keystore (truncated, then written) and a `.pem` file (overwritten line by line), saves that are cut short at any line, and the loads with their checks |
| `ProxyRequests` | the requests of `proxy.go` that keep nothing, and the HTTP client: refusal of arguments, the node's answer, what is made of it; the node and the connection are external |
| `VmQueryGetter` | the getter on top of `ExecuteVMQuery`, by request and by builder |
| `CliTool` | `cmd/cli/main.go`: the options made from the flags, funding, signing, printing or sending; each request may fail before or after the network acted |
| `ContractCalls`, `ContractCallsMC` | the last seven together; only a query and its builder share state, so a behaviour is one of a single part, or of these two |
| `WorkflowProofs` | theorems about `WalletFlow`, `TxSigning` and `HeaderCheck` |
| `InteractorsProofs` | theorems about `TransactionWorker` and `KeyFiles` |

Conventions. State variables and actions carry the names of the Go fields and
functions. An action is what happens between two points where another goroutine can
act: a critical section, or a request together with the local steps after it. A
request either succeeds or fails; failures are nondeterministic, and bounded by a
`Max...` constant where unbounded ones would blow up the state space. A variable
described as history is never read by an action. Apart from `WorkflowProofs` and
`InteractorsProofs`, a module `...Proofs` holds the theorems about the module of that
name (section 4). `account.Nonce` is the next nonce
to be executed; the handlers' `computedNonce` is the last one handed out. Definitions
introduced by `mutant:` are used by no specification; they are the bugs of the
mutation runs.

Abstractions of data: a transaction is a model value with a nonce and, where it
matters, a gas price or a payload class; a block is its nonce, or the sequence of its
transfers or events; a configuration is the time at which it was fetched; a price is
a fixed-point integer; a quote is one of five kinds of answer an exchange can give.

## 3. Runs

Passing runs (TLC explores every reachable state of the instance):

| run | instance | what it shows |
|---|---|---|
| `worker` | 3 calls over 3 nonces, cancellation at any point; 191k states | heap and map agree across the two critical sections (`QueueMatchesMap`); no channel send blocks (`SendsNeverBlock`); at most one answer, and one's own (`OneAnswerOfItsOwn`); nobody is forgotten at close (`ClosedAnswersEveryone`); lower nonces first (`SentLowestNonceFirst`); the worker implements `ResponsePromise` with its liveness (`KeepsPromise`) |
| `v3` | 3 callers, 6 nonces, failing sends, an abandoned call, close; 522k states | the nonces handed out after a fetch start with the account's nonce that was fetched, and none is left out or given twice until the next fetch (`ConsecutiveSinceFetch`); without trouble what is handed to `SendTransaction` is executed (`SentIsExecuted`); until a failed send makes it count anew, the handler implements `NonceSource` (`NoncesFollowEachOther`) |
| `v1` | 3 callers, two with the same payload, one forced re-fetch, one foreign transaction; 5.8M states | while nothing disturbs the count, the handler implements `NonceSource` (`NoncesFollowEachOther`); a transaction that waits behind lower nonces is in the cache, where the duplicate check and the sweep see it (`WaitingIsStored`); refused duplicates keep the count right (`RefusalReturnsNonce`) |
| `v2` | 2 callers, one drop, one failing configuration request, one lost transaction; 792k states | the same refinement of `NonceSource` (`NoncesFollowEachOther`); a transaction gets a price below the network's minimum only after a failed configuration request or the increase of a price that was not known (`GasPriceCoversMinimum`); lost transactions come back (`StuckIsResent`) |
| `wallet_flow` | 2 hyper blocks, 2 addresses, one crash, bunches of one; 386k states | no deposit of a reported block is passed over, and a deposit is notified again only after a crash (`ProcessedWereFound`); `MovesArePaidFor`, `BunchesKeepEverything`; the receiver of every deposit gets to the goroutine that moves balances, unless the tracker is closed or a crash comes between (`DepositsReachTheMover`) |
| `price_feed` | 2 pairs, 3 exchanges, 2 starts, one change of a quote, one failing request; 255k states | `OneLoopAndCloseReachesIt`, `MedianOfAnswers` (against the definition of a median), `NotifeeIsUpToDate`, `DeliversSettledPrices`, `ClosedLoopEnds` |
| `proxy` | 2 goroutines, a shard and the metachain, gateway and observer, with and without finality check, one failing request; 3.5M states | `ConfigIsFresh`, `FetchesAreSpaced`; an account is not older than what was final when the call began, where a check is made at all (`AccountNotOlderThanFinal`); while the calls are about one shard, logs are complete, over a range of bounded length (`LogsAreComplete`) |
| `registry` | 2 callers (3 and 2 transactions) over 2 senders, one transaction that cannot be parsed, one failing request, one context that may end, close at any point; 1.2M states | creation races give a sender one handler: as long as no send of the sender failed, its transactions get different nonces (`SenderNoncesDiffer`); a call that has waited returns the hash of every transaction whose sending succeeded, at its index, and nothing else (`HashesAreFinal`); every worker was cancelled or is one that the next `Close` cancels, and a worker that has ended left no transaction waiting (`CloseReachesEveryWorker`) |
| `authentication` | one client, 2 concurrent validations, 2 hyper blocks, 4 half seconds, one failing request, a cache that may hold values of another type; or 3 concurrent header checks over 5 headers of 3 epochs, two failing requests; 639k states | a token handed out, new or kept, is one the server accepts, if its block was recent when it was made (`HandedOutIsAccepted`); verdicts are those of a server without a cache (`VerdictsAreTrue`); a header is accepted exactly if it was signed for its own epoch, whichever calls fill the coordinator in which order (`HeaderVerdictsAreTrue`) |
| `contract_calls` | chains of 3 argument or address calls; every order of signing and relaying; every buffer of up to 7 bytes of 3 values for 13 types; 3 saves of 3 wallets; 2 requests with every kind of answer; 18,432 command lines, one transaction of another program; 730k states | no call of a chain is dropped silently and no argument changed, but for the sign of a number (`BuiltIsGiven`); both signatures verify in every order of signing, also after a signing that failed if the sender did sign, and those of an inner transaction where the relayed payload and the network's chain are what was signed (`SignaturesVerify`); what is decoded is what was encoded (`DecodedIsEncoded`); a key that is loaded is that of one wallet the file was asked to hold, and of the last one if its save went through (`KeysComeBack`); a call without an error returns what the node answered, a Boolean by its first byte (`ResultsAreTheNodes`); what the command line tool prints or sends is signed for its final fields with the nonce that was read, comes after all of the funding, and the funding counts on from the nonce of its own account (`ToolSignsWhatItSends`) |

Runs that end in a counterexample because code and comment disagree:

| run | property | the comment | what the code does |
|---|---|---|---|
| `v2_gap_stays` | `DropClearsGap` | `nonceHandlerV2/nonceTransactionsHandler.go:186-188` | `DropTransactions` leaves `lowestNonce`; later calls get `ErrGapNonce` for ever |
| `proxy_shards` | `LogsFromItsShard` | `core/types.go:22` | caches blocks by nonce, whatever the shard |

Six further disagreements are stated as properties and have TLC counterexamples, but
no configuration here:

- `NoDuplicatePayloadSent` of `NonceHandlerV1` (`nonceHandlerV1/nonceTransactionsHandler.go:41`):
  the check and the insertion are two critical sections, so two equal transactions pass
  together.
- `NonceNotTooLow` of `NonceHandlerV3` (`nonceHandlerV3/addressNonceHandler.go:18-21`): after
  an invalidation it counts on from a nonce fetched early, without the maximum; four
  transactions show it.
- `TopicsAsDocumented` of `FilterQuery` (`core/types.go:24-29`, an empty topic matches any and
  "The order of the topics is not important"): `topicsMatch` compares topic by topic, in
  order, and an empty one like any other. `LogsAreComplete` therefore says that no event is
  returned which the comments exclude, and that none is missed which starts with the
  filter's topics as they are.
- `NumbersKeepTheirSign` of `CallBuilders` (`builders/txDataBuilder.go:47,54`,
  `vmQueryBuilder.go:45,52`): a negative number is added as its absolute value, without an
  error, since `big.Int.Bytes` has no sign.
- `PrintsWithoutSend` of `CliTool` (`cmd/cli/main.go:93`, "just printed"): the funding
  transactions are sent without `--send` too.
- `NonceIsTheSenders` of `CliTool` (`cmd/cli/main.go:57`, "it replaces the default sender
  with the given one"): the nonce stays that of alice's account, line 410.

Further disagreements and oddities met while modelling, not given a run: V1's sweep forgets the
transaction whose nonce equals the account's, which has not been executed
(`nonceHandlerV1/addressNonceHandler.go:76`, comment at 20-21); a nonce V1 gives back
may already be held by another caller (`nonceTransactionsHandler.go:103`); when the
account ran ahead, V1 and V2 return the account's nonce twice because the maximum is
not stored; V2 reports `ErrGapNonce` while the pool holds the transaction; a
configuration request answered after V2's `DropTransactions` undoes the gas increase;
V3 dereferences a nil configuration when `GetNetworkConfig` fails
(`addressNonceHandler.go:120`); the worker accepts a nonce that is being sent
(`transactionWorker.go:109`); `FilterQuery` without a range is refused although the
comments promise defaults; the client's `tokenExpire` adds a
number of seconds as nanoseconds (`client.go:119`), so a token is made anew for nearly
every call (correcting the unit alone would hand out tokens that the server, which
counts from the block, regards as expired: that is the mutant of
`HandedOutIsAccepted`); `ApplyUserSignature` sets the sender before a signing that may
fail, so that an earlier signature no longer belongs to the sender; a handler the registry creates after `Close` stays open; `SendTransaction` of the proxy
does not look at the status of the answer and may return an empty hash without an error
(`proxy.go:265`); `GetDefaultTransactionArguments` and the query getter dereference an
answer without data; `SavePrivateKeyToPemFile` does not truncate the file, so a shorter
new content leaves the old end, and two saves cut short in a row can mix two keys under
one name (`KeysComeBack` excepts that); the command line tool looks at `--value` only if a guardian
signs, after the funding was sent; accounts of the metachain asked for through a gateway
are not checked for finality, because `proxyFinalityProvider` considers them final
(`proxyFinalityProvider.go:39-42`), and may be as old as the observer is;
`DropTransactions` of V2 before the first price is known makes it 1, and nobody asks for
the network's (`nonceHandlerV2/addressNonceHandler.go:184`); a relayed transaction of V2
carries no chain, so an inner transaction signed for another chain does not verify
(`relayedTxV2Builder.go:95`); `parseBool` looks at the first byte of an answer of any
length. The refinement of `NonceSource` by V1, V2 and V3
therefore carries its conditions in the mapping of `disturbed`: a foreign transaction,
a re-fetch or a refused duplicate (V1), a drop (V2), a failed send (V3).

### Bounds

Two concurrent callers are enough for every pairwise race; V1 has three because a
refused duplicate needs a partner and a bystander, and V3 because a count needs a third
transaction to show a gap; there the transactions are begun in a fixed order
(`OrderedSpec`), which loses nothing since they differ in name only. Three nonces let one transaction
wait behind another. One crash, one drop, one forced
re-fetch and one fault each are placed by TLC at every point of every behaviour. The
hyper blocks of `WalletFlowMC` hold deposits, a transfer below the minimum, one to a
stranger and an unparsable value. The quotes of `PriceFeedMC` make one change move
the median past the threshold. `Width = 8` makes an inverted block range wrap as
2^64 does. The chains of `ProxyMC` have two blocks in the shard and one in the metachain, whose
observer starts behind, so that an unchecked account is old; a lookup in the block cache
and the request after a miss are two steps, between which the other goroutine may fill
the cache. In `registry` one caller applies to two transactions of one sender with
another sender in between, so that each of its loops is interrupted; failures and
ending contexts are bounded by `MaxFailures` and `Cancellable`. An instance with three
callers (5.8M states, eleven minutes) was checked once without error and is not among
the runs. `Second = 2` gives `authentication` moments between two full seconds; the
token lives one. Three header checks let one call set an epoch while a second is between
its requests and a third verifies. In `contract_calls` a byte of `Deserializer` has `Base = 4` values
instead of 256, so that numbers stay within TLC's; the widths are the real ones. A number of a query has
two bytes of four values where the code has eight of 256, and answers have up to three.
The command lines of `CliTool` combine names, an address without a key and an unparsable
one, a value that is no number, and gas that is given or counted.
`HardenedBit` is above every index that is used, like 0x80000000.
Symmetry (equal payloads in V1, clients in `proxy`, validations and header checks in `authentication`) is used only where safety and action properties are checked.

Deadlock checking is off in every run because the programs may stop: callers finish,
handlers are closed, and the bounds end the chain.

### Fairness

- `worker`, `v3`: the goroutine is scheduled, its ticker fires, a proxy call returns;
  some caller of V3 that can move does, unless one has panicked (each has finitely many steps, so all of them run to the end of their call); the chain executes what it can.
- `v2`: the resend ticker keeps firing, and the proxy does not fail for ever (strong
  fairness of the successful resend). `DropClearsGap` adds a sequential program that
  tries again after an error; it is violated under these assumptions.
- `wallet_flow`: the tracker goroutine runs, requests do not fail for ever, and the
  node does not lag for ever; the goroutine of the mover, a ticker of the example program, runs.
- `price_feed`: the goroutine runs, timers fire, requests are answered, time passes.
  The `Done` case of the select gets strong fairness because Go chooses among ready
  cases at random. The worker's `Done` case needs only weak fairness, because an
  instance has finitely many transactions to prefer to it.
- `v1`, `proxy`, `registry`, `authentication` and `contract_calls` check safety only.

## 4. Proofs

TLC explores one instance of each specification. The theorems below hold for every
value of the constants that satisfies the module's named assumptions.

| module | theorem | establishes |
|---|---|---|
| `InteractorsProofs`: worker | `TypeCorrect` | `TypeOK` (proved only) |
| | `QueueMatchesMapAlways` | `QueueMatchesMap` |
| | `OneAnswer` | `OneAnswerOfItsOwn` |
| | `CloseAnswers` | `ClosedAnswersEveryone` |
| | `NoSendBlocks` | `SendsNeverBlock` |
| | `LowestNonceFirst` | `SentLowestNonceFirst` |
| | `ImplementsPromise` | every step of the worker is a step or a stutter of `ResponsePromise` |
| `InteractorsProofs`: key files | `KeysAlwaysComeBack` | `KeysComeBack` |
| `NonceHandlerV1Proofs` | `ImplementsNonceSource` | `NoncesFollowEachOther` |
| | `WaitingAlwaysStored` | `WaitingIsStored` |
| | `RefusalAlwaysReturnsNonce` | `RefusalReturnsNonce` |
| `NonceHandlerV2Proofs` | `ImplementsNonceSource` | `NoncesFollowEachOther` |
| | `GasPriceAlwaysCoversMinimum` | `GasPriceCoversMinimum` |
| `NonceHandlerV3Proofs` | `AlwaysConsecutiveSinceFetch` | `ConsecutiveSinceFetch` |
| | `ImplementsNonceSource` | `NoncesFollowEachOther` |
| `NonceRegistryV3Proofs` | `SenderNoncesAlwaysDiffer` | `SenderNoncesDiffer` |
| | `HashesAlwaysFinal` | `HashesAreFinal` |
| | `CloseAlwaysReachesEveryWorker` | `CloseReachesEveryWorker` |
| `WorkflowProofs`: wallet flow | `AlwaysProcessedWereFound` | `ProcessedWereFound` |
| | `MovesAlwaysPaidFor` | `MovesArePaidFor` |
| | `BunchesAlwaysKeepEverything` | `BunchesKeepEverything` |
| `WorkflowProofs`: signing | `SignaturesAlwaysVerify` | `SignaturesVerify` |
| `WorkflowProofs`: header check | `HeaderVerdictsAlwaysTrue` | `HeaderVerdictsAreTrue` |
| `PriceFeedProofs` | `OneLoopAlways` | `OneLoopAndCloseReachesIt` |
| | `AlwaysMedianOfAnswers` | `MedianOfAnswers` |
| | `NotifeeAlwaysUpToDate` | `NotifeeIsUpToDate` |
| `ProxyProofs` | `ConfigAlwaysFresh` | `ConfigIsFresh` |
| | `FetchesAlwaysSpaced` | `FetchesAreSpaced` |
| | `AccountNeverOlderThanFinal` | `AccountNotOlderThanFinal` |

Every proof has the same layout: an inductive invariant, a lemma that `Init`
establishes it, one case (or lemma) for each action, and a theorem that reads the
property off. What follows says why the property alone is not inductive.

The theorems about key files, signing and the header check are about these parts' own
specifications, `KeysSpec`, `SigningSpec` and `HeadersSpec`. The runs check the same
properties in the compositions `ContractCalls` and `VerifiersMC`. There every initial state
is one of each part, and every step is a step of one part that leaves the variables of
the others alone, so a behaviour of the composition is one of each part. This last
argument is not machine-checked: `ContractCalls` uses `Deserializer`, whose RECURSIVE
operator keeps the provers out of every module that reaches it.

**Transaction worker** (any requests, any natural nonces: `NoncesAreNaturals`,
`NilIsNoRequest`). That a send does not block depends on the channel being empty, which
depends on where an unanswered request can be. `IInv` says it: an unanswered request
is in the map under one nonce (and then in the heap or in the worker's hand), or it is
the worker's local variable after `retrieveChannel` (`OneNonceEach`, `LocalsMatch`,
`Answered`). The order of sending needs a second invariant, `Order`: whatever is still
queued or in hand was added after every already sent transaction of a higher or equal
nonce had left the heap. The refinement uses `IInv` to see that an answer is appended
to an empty channel, so that the status of a request changes once.

**V1** (any finite set of transactions: `TxsAreFinite`, `FirstNoncesAreNatural`,
`NoTxIsNoTx`, and `NoncesSuffice`, which makes the bounded set of nonces large enough
for all of them). The refinement maps the nonces of callers to numbers of the source;
it needs that these are distinct and without holes. `CountInv` counts instead: the
handler's nonce is the first one plus the number of transactions that hold a nonce,
less one, which every action changes by one or not at all; a refused duplicate gives
up the nonce it holds and lowers the count in one step, which is
`RefusalReturnsNonce`. `NonceInv` bounds the nonces by that number
and makes them distinct, `CacheInv` keeps what was stored in the cache until the account
has passed it, and `FlowInv` connects cache, pool and the sweep's list with the
transactions that went through `sendTransaction`. Each of these holds under its own
condition: until a re-fetch or a foreign transaction (`CountInv`), and until a nonce is
given back as well (the other two). The last condition is not an accident of the proof:
a nonce given back may be held by another caller.

**V2** (`TxsAreFinite`, `FirstNoncesAreNatural`, `NoTxIsNoTx`, `MinGasPriceIsPositive`). A
caller takes the maximum of what the handler has counted and an account it has read
earlier, so the refinement needs that this account is never ahead of the count.
`NonceInv` says it, for as long as nothing is dropped: the chain executes only nonces
that were handed out. That rests on `ItemsInv` (what is cached, pooled or about to be
resent was handed to `SendTransaction` and carries its caller's nonce) and on `CountInv`,
the count of V1 without its exceptions. `AccountInv` keeps what a caller has read between
the first nonce and the account. The gas price is an
action property, and `GasInv` says where the handler's price can come from (the history
variable `gasFrom`): from nowhere, and then it is 0 and no caller is past the fetch; from
the network, and then it covers the minimum; from a failed request, or from an increase of
a price that was not known. A caller past the fetch therefore uses one of the last three.

**V3** (`TxsAreFinite`, `FirstNoncesAreNatural`). `ConsecutiveSinceFetch` speaks about
callers and the sequence `fetched` of the account's nonces that were taken; `CountInv` adds
what the handler knows: its nonce is the highest of those handed out since the last of
them was taken, and every number from that one on has a caller. The refinement adds `FlowInv`
(what queue, worker and pool carry is what a caller was given) and `SourceInv` (until a
send fails, nonce and number of holders agree).

**Registry of V3** (any finite set of calls with any transactions: `CallsAreFinite`,
`CallsHaveTransactions`). `RegistryInv` says that the map is injective and complete, and
that a caller between looking a handler up and using it still has the one of the map:
this is where the second look, under the lock of `createAddressNonceHandler`, is
needed. With it, `NonceInv` (a handler's nonce is at least that of every transaction of
its sender) makes nonces differ. `ReturnInv` says what goroutines have written to the
hashes when `SendTransactions` returns after waiting. `CloseReachesEveryWorker` follows from
the map being complete and from `WorkerInv`: no request is queued at, or in the hand of, a
worker that has noticed its cancellation.

**Wallet flow** (any blocks, addresses, crashes, bunch size: `BlocksHoldTransfers`,
`BunchSizeIsPositive`, `FeeIsPositive`). `TrackerInv` follows the loop: a deposit is
passed when its block is reported or when the loop is beyond it in the current block,
it is then accumulated, and it was notified at most once more than there were crashes.
`MoverInv` says that a transaction stays affordable on its way through accumulator,
bunches and pool: the balance it was made from shrinks only when the account's nonce
moves past it. `InteractorInv` adds to `BunchesKeepEverything` that nothing is left
between two calls.

**Price feed** (any pairs, fetchers, loops and quotes: `PairsAndFetchers`,
`QuotesAreShown`, `PrecisionIsPositive`, `StartsAreBounded`). `PollingInv`: `ph.cancel` is
set exactly while a goroutine runs. `MedianOfAnswers` rests on lemmas about sorting for
sequences of any length, `CollectInv` only says that what was collected are prices.
`NotifyInv` is what makes the notifee up to date: pairs left out of a notification are
near the remembered price, the others are remembered before they are delivered, and as
long as no request failed and no loop was closed what is remembered is delivered once
`PriceChanged` has returned. `QuotesAreShown` assumes of one exchange, the gas station,
that it shows no negative price; the other fetchers refuse one.

**Proxy** (any goroutines, shards, accounts and filters, any expiry: `TimesAreNatural`,
`ClientsAreSomebody`, `DeltaIsAllowed`, `AccountsHaveShards`). `CInv`: what is cached was
fetched at the time noted for it, and who fetches holds the write lock; both properties
of the cache follow, the second from the second look at the time under that lock.
`AccountInv` follows a guarded query through the finality check: what was final when it
began stays final, and the nonce the check has compared is a lower bound for what the
same observer answers later. It claims nothing of the metachain behind a gateway
(`Unchecked`), of which no nonce is compared.

**Signing** (no assumptions: any keys, and any chain and transaction version of the network,
even where two roles share a key). `SignaturesVerify` compares a signature with the transaction of the moment.
`SigningInv` says what does not change with later steps: each signature was made for the
transaction as it is, but for the sender, which a second user may have replaced
(`MessageFrom`); unless the last `ApplyUserSignature` failed, the user's was made for the
sender (`Fresh`); and a relayed payload was made from a transaction that was signed. The
lemma `SameMessage`, that the message does not depend on the signatures, is why the order
of signing does not matter.

**Key files** (`IndexesBelowTheBit`: a wallet is a pair of indexes below the bit that
`derivePrivateKey` sets in each, so that different wallets have different keys).
`KeysInv` describes the file at every line of every save: the lines written so far are
those of the wallet being saved, the rest of the first block those of the last save that
went through (`Mixed`), and behind it at most one more block, that of a
file with two keys, which a save of one key does not remove. With one cut the name in the first line and the
key in the second and third can disagree, which the load notices, or agree. Every number
of cuts is covered: after two the property makes no claim, but the shape of the file
(`PemFile`, `Half`) still has to be kept for the next save that goes through.

**Header check** (`HeadersHaveEpochs`). `HeaderInv`: the coordinator knows of an epoch
the right configuration or nothing, and a call that goes on with a randomness has that
of its own epoch. Nothing a call knows can be invalidated by another, because an epoch
is only ever set to the one right value.

The assumptions that are not just types: `TxsAreFinite` and `CallsAreFinite` (a program
makes finitely many calls; the counting arguments use cardinalities), `NoncesSuffice`
and `StartsAreBounded` (about bounds of the models), `DeltaIsAllowed` (the constructor of
the proxy checks it where it checks finality), `QuotesAreShown` and `IndexesBelowTheBit`
(above), `MinGasPriceIsPositive` (a price of 0 is V2's mark for a price not yet fetched).

Only model-checked:

- all liveness (the fair half of `KeepsPromise`, `SentIsExecuted`, `StuckIsResent`,
  `DepositsReachTheMover`, `DeliversSettledPrices`, `ClosedLoopEnds`), which the installed
  provers do not handle;
- `LogsAreComplete`: the logs are chosen by `SelectSeq`, about which the provers know
  nothing without induction over sequences;
- `VerdictsAreTrue` and `HandedOutIsAccepted`: a token is encoded and decoded through a
  fold over its parts;
- `BuiltIsGiven`, `ResultsAreTheNodes` and `ToolSignsWhatItSends`: each compares with a
  definition that selects from, joins or folds over a sequence of any length, and needs
  induction over it;
- `DecodedIsEncoded`: structs are decoded by a RECURSIVE operator.

## 5. What is left out

- Real time: intervals and timeouts are steps that may happen at any time.
- Byte formats, URLs, JSON, cryptography and sockets; files except those of `KeyFiles`.
- Several addresses in V1 and V2: the handlers of different addresses share only the
  registry's map and its lock. For V3 see `NonceRegistryV3`, which leaves the gas price
  to `NonceHandlerV3`, takes popping a transaction and finding its channel as one step
  (`TransactionWorker` has two) and lets `Invalid` stand for a nil transaction too.
- In `NativeAuth`, tokens that cannot be decoded, and a block answer without a
  timestamp, which the server would cache as 0.
- `ComputeTxHash`, the gas limits of relayed transactions, the nil checks of their
  `Build`, and the fields that signing and relaying carry along unchanged. What the
  receiver of a relayed transaction makes of it is external.
- `BackUp`, `NextHash` and the overflow branch of the source buffer (an offset within
  the buffer plus a 32-bit count does not overflow), and named types in `setValue`.
- Separators in function names given to the data builder.
- Several observers behind one gateway: the model has one observer per shard, so the
  check and the query see the same one. A gateway that switches observers between the
  two can answer with an older account.
- A network configuration answer without a configuration, which the proxy would
  return as nil without an error.
- float64 beyond what `PriceNotifier` states: prices are exact to the pair's
  precision, and the truncation of the denominated price is a choice of losing one
  step.
- In `PriceNotifier`, the four calls of `PriceChanged` are one step.
- In `HeaderCheck`, the shuffling of validators and the eviction of old epochs by the nodes
  coordinator of the other library, and the construction of core and crypto components.
- In `KeyFiles`, lines are written whole, and there is one file of each kind. The `append`
  in `SavePrivateKeyToPemFile` may write behind the caller's slice; callers' memory is not
  modelled.
- `mapCacher` beyond `Put` and `Get`: `SizeInBytesContained` never resets its buffer and
  counts earlier values again, and `Keys` returns the order of a Go map, not "from oldest
  to newest". No component of the SDK uses either. A second `StartHttpServer` of the web API
  forgets the first server.
- The parts marked not modelled in `PROJECT.json`, each with its reason.

## 6. Plan

1. `extractNonceOfShardID` as a pure algorithm; the hash of a transaction.
2. The notifee's transaction composed with a nonce handler.

## 7. Running

    tlc -workers 2 -config TransactionWorker.cfg TransactionWorker
    tlc -workers 2 -config NonceHandlerV1MC.cfg NonceHandlerV1MC
    tlapm InteractorsProofs.tla

and likewise for the other pairs of module and configuration in `PROJECT.json`, and for
the other modules whose name ends in `Proofs`. Every run ends within five minutes on two
cores; the proofs of a module take from one to fifteen.
