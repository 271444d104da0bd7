# A verification development for stellar-extract

stellar-extract turns one Stellar ledger (a `LedgerCloseMeta`) into the rows of
twenty-one tables. This directory holds TLA+ models of its core, the TLC runs
that check them on small instances, and TLAPS proofs of what matters most for
every instance. Line numbers refer to the Go sources of the repository.

## 1. Inventory

| Component | State | Operations | Interacts with | What is hard | What makes it correct |
| --- | --- | --- | --- | --- | --- |
| `LedgerInput` (extract.go) | two streams, each a `sync.Once`, a slice and an error | `Transactions`, `Changes`, constructors | called by eighteen extractors at once; reads the SDK's ledger readers | blocking in `Once.Do`, partial slice on a read error, panic in the decode function | one walk per stream; every caller gets what a walk of its own would return |
| `ExtractAll` (extract.go) | `LedgerData`, error slice, mutex, `WaitGroup` | `run`, `collect`, recover, `Wait` | starts one goroutine per extractor | lost append, report after return, never returning | every extractor accounted for exactly once; result final; returns |
| `LedgerViewInput` (view_input.go) | borrowed bytes, one `sync.Once` cache | `NewLedgerViewInput`, `Decode`, `ExtractAllFromXDR`, `ExtractAllView`, `transactionViews` | feeds `ExtractAll` and the event view walk | buffer lifetime (caller's rule) | the view path yields the rows of the parsed path |
| Contract events (soroban.go) | counters of a nested walk | `ExtractContractEvents`, `ExtractContractEventsView` | the transaction stream or the view cache | one index across three streams, skipped transactions, two copies of the walk | key, density and transaction identity of rows; agreement of the walks |
| Per-transaction tables (transactions.go, operations.go, effects.go, trades.go, token_transfers.go, contract creations) | loop counters | one extractor each | share the transaction stream; joined by consumers on TOIDs and hashes | identities derived in several places, one bad transaction failing a table | identities agree; child rows have parents; positional indices are stable |
| Effects of an operation (effects.go) | a list of records | a generator per operation type; sponsorship and pool lifecycle per change | reads the changes of the operation from the SDK | changes in any order or unreadable, removals, sponsors that go with their entry | whoever folds the effects gets the ledger's accounts, entries, balances, signers and sponsors |
| Call graph (call_graph.go, contract_error.go) | call stack, call list, an atomic counter of skipped edges | `extractCallGraph`, authorisation tree, dedupe | called per operation by operations.go; errors by transactions.go | unbalanced traces, two readings of a fn_call, depth limit, de-duplication | caller/callee edges are those of the trace and the authorisations; the error is the cause |
| Snapshot tables (accounts.go, market.go, state.go, contract data, code and restored keys in soroban.go) | a map per table, then a sort | one extractor each | share the change stream (TTL walks the transactions) | last write wins, removals, key collisions, stale rows | the row of a key is its last state in the ledger |
| Ledger row (ledgers.go) | counters | `ExtractLedgers` | reads the close meta itself | three meta versions, failed transactions | counts agree with the tables |
| Evicted keys (evicted_keys.go) | none | `ExtractEvictedKeys` | reads the close meta | meta version | every evicted key once |
| WASM metadata (soroban.go) | byte offset | section walk, LEB128 | called by contract code | signedness, truncated input | counts of a well-formed module; termination on any bytes |
| ScVal conversion (scval_converter.go) | none (recursive) | `ConvertScValToJSON` | contract events, contract data | map keys that collide, recursion | no data lost in conversion |
| Ordering (ordering.go) | none | `sortedMapValues`, `sortedSetKeys` | every de-duplicating extractor | map iteration order | output order is a function of the ledger |
| Row types (types_*.go, stubs.go) | none | none | | | declarations only |
| Stellar SDK | external | readers, views, XDR | | may fail or panic | its answers are inputs of the models |

Nothing is persisted and nothing is sent: there are no crashes to recover from,
no messages and no timeouts. Concurrency is confined to `ExtractAll` and the
two shared streams; the other parts are sequential walks whose difficulty is
the agreement between rows written by different code.

## 2. Modules

| Module | Models | EXTENDS |
| --- | --- | --- |
| `ExtractorTable` | the table of extractors: order, stream, error habits | |
| `LedgerInput` | both `sync.Once` streams and their callers | `ExtractorTable` |
| `ExtractAll` | the parallel run around it | `LedgerInput` |
| `IndependentExtraction` | abstract specification: each extractor on its own | `ExtractorTable` |
| `MCExtractAll` | TLC instances of the above | `ExtractAll` |
| `ExtractAllProofs` | TLAPS proofs | `ExtractAll` |
| `ContractEvents` | the parsed and the view event walk | |
| `MCContractEvents` | ledgers for TLC | `ContractEvents` |
| `ContractEventsProofs` | TLAPS proofs | `ContractEvents`, `SelectionProofs` |
| `SnapshotTables` | the twelve tables folded from ledger-entry changes | |
| `MCSnapshotTables` | ledger entries for TLC | `SnapshotTables` |
| `SnapshotTablesProofs` | TLAPS proofs | `SnapshotTables` |
| `Selection` | loops that keep some elements of a slice or add up all of them, and sorted key lists | |
| `SelectionProofs` | TLAPS proofs | `Selection` |
| `EffectRules` | the effects of one operation, generator by generator | |
| `EffectRulesProofs` | TLAPS proofs | `EffectRules`, `SelectionProofs` |
| `EffectReplay` | a network and a consumer that reads only its effects | `EffectRules` |
| `MCEffectReplay` | accounts and assets for TLC | `EffectReplay` |
| `EffectReplayProofs` | TLAPS proofs | `EffectReplay`, `EffectRulesProofs` |
| `TransactionTables` | eight tables over the transactions of a ledger, composed | `EffectRules`, `Selection` |
| `MCTransactionTables` | ledgers for TLC | `TransactionTables` |
| `TransactionTablesProofs` | TLAPS proofs | `TransactionTables`, `EffectRulesProofs` |
| `CallGraph` | call graph and contract error of an invocation, with the host that leaves the trace | `Selection` |
| `MCCallGraph` | authorisation trees for TLC | `CallGraph` |
| `CallGraphProofs` | TLAPS proofs | `CallGraph`, `SelectionProofs` |
| `WasmMetadata` | the section walk over a contract's code, with the compiler that writes it | |

### LedgerInput

What the reader finds in the ledger is chosen in `StreamInit` and never
changes: `items[s]` elements, then `ending[s]` -- end of stream, an error or a
panic, when the reader is opened or when it reads. Per stream, `once` is the
`sync.Once`, `rows` the length of the slice and `serr` whether an error is
remembered. Per caller, `at` is its position in the call, `on` the stream and
`answer` what it got.

`Claim` is `Once.Do` electing the decoder; `OpenReader`, `ReadNext`, `ReadEnd`
are the decode function; `FinishDo` is its end, which marks the `Once` done on a
panic too, because Go does so in a defer; `Return` hands out the remembered
slice and error to anybody who finds the `Once` done. A caller that finds it
running is blocked: it has no enabled step.

### ExtractAll

`main` is the caller's goroutine, `pc[e]` the goroutine of extractor `e`.
`Unmarshal` is the byte-level entry point in front (`ExtractAllFromXDR`,
`ExtractAllView`); a ledger that does not unmarshal starts nothing. `Spawn` is
`run` with its `wg.Add`, in the order of the `collect` calls; `Wait` is
`wg.Wait` and the return. An extractor asks for its stream (`Start`, `Fetch`),
looks at the error (`Fetched`: hand on, swallow, or a panic coming out of the
call), does its own work (`Body`: rows, an error where it has one, or a panic),
takes the mutex (`Lock`), stores or reports (`Store`, `Report`) and counts
itself out (`Done`).

The append to `errs` is not atomic in the model: `Lock` reads the slice into
`loaded`, `Report` writes it back with one more element. So the mutex does real
work, and dropping it loses reports (mutant `LockMissing`).

The abstract specification `IndependentExtraction` has no goroutines, streams,
locks or wait group. Each extractor settles once, on a result that depends on
the ledger alone. The refinement mapping reads an extractor's result off
`table` and `errs`. `Safety` and `Fairness` of the specification are named
apart, because the first is proved and both together are model-checked.

### Selection

The code's loops with an `append` under a condition, with a `+=`, and its sorted
key lists, as recursive functions over the positions of a sequence. The
community modules have operators for them whose definitions the proof system
cannot expand; these can be reasoned about.

### ContractEvents

A ledger is a sequence of transactions, each readable or not, with its event
lists in the order both walks visit them: diagnostic, one per operation,
transaction-level. Variables are functions of the walk, `"parsed"` or `"view"`,
and the two walks interleave freely, so that each is compared with the other in
every state. The parsed walk takes its TransactionID from a counter beside the
loop that moves before the `continue` of an unreadable transaction; the view
walk takes it from the loop position. The view walk unmarshals each event as it
comes (`EventUndecodable`); the parsed one got them decoded.

### SnapshotTables

Twelve extractors are one loop: take the next change, turn it into rows, put
the rows into a map under their keys, and at the end write the map out in key
order. They differ in what they make of one change, and that is one operator
each (`AccountRows` ... `RestoredKeyRows`), built on three treatments: `LiveRow`
(a row of the post state, removals ignored), `FlaggedRow` (post state, or pre
state with `deleted` set), and a row per signer. A behaviour runs one table,
chosen in `Init`; the extractors share nothing but the change stream, which
`LedgerInput` models.

The ledger is in the model too: `latest`, `live` and `archived` are its state up
to the change last read, and `Create`, `Update`, `Remove` and `Restore` are the
changes it can make, each followed in the same step by the iteration that reads
it (`Read`). Changes are read in the order they were made, so nothing is lost by
letting the ledger make a change when it is read, and there is no bound on their
number. `touched`, `restored` and `lost` are history.

An entry is its signers and one `value` for everything else. `RowKey` is the
identity the code chose for a row; it drops the pool of a pool-share trustline.
`WriteRow` is `sortedMapValues`. A change stream that cannot be read gives no
rows at all; that is the `Fetched` step of `ExtractAll` and not repeated here.

### EffectRules and EffectReplay

`EffectRules` has no state. It is what `ExtractEffects` makes of one operation:
an operator for each generator of effects.go, `OperationEffects` for the switch
over operation types, `EffectsOf` for a generator's records followed by the
sponsorship and pool effects of every change. Generators that differ in details
only share an operator (the two path payments, three offers, deposit and
withdrawal, both trustline flag operations, both footprint operations). An
operation whose changes cannot be read has none, which is what every generator
makes of the error except those in `ReturnOnError`, which would have an effect
without a change and return before it. The effects of an invocation come from
its contract events, and there are none if these cannot be read or if the
passphrase of the network is not known (effects.go:766-772). `WellFormed` says what the SDK's answers
about an operation have in common: lists are lists, changes that cannot be read
are none, and the pool of a claim that moved something is among the changes that
can be read.

No property of a list of effects alone says that it is right: it is right if it
tells what happened. `EffectReplay` puts it to that use. The network, external,
performs operations on a ledger of accounts, trustlines, data, claimable
balances, a pool and a contract's balance, with sponsors; a consumer folds the
effects of each operation into its copy (`Apply`, `Consumed`) and must arrive at
the ledger.
The changes of an operation come in every order. Some operations are not read
whole: a transaction meta of a version that the SDK does not support gives
neither changes nor contract events, and an invocation may be read without the
passphrase of the network. Then the generators report less and no error, and the
properties say what may drift and what may not: balances, for one, only by such
an invocation or by a claimable balance that comes or goes without its changes.

The network keeps the rules of the protocol that the generators rely on (an account
is merged without its subentries, a pool comes with its first share line and
touches the lines of its assets, a claimable balance always has a sponsor). It
is not the whole protocol. It has no revocation of a trustline's authorization
(AllowTrust, SetTrustLineFlags), which removes pool shares and creates claimable
balances, and the generators of these operations report neither, so that a
consumer would not see them; and no deposits, withdrawals, offers and path
payments, whose effects tell of a trade and not of balances. What the replay
shows is about the thirteen kinds of operations it has.

### TransactionTables

One ledger, and the loops of eight extractors with the counters they keep:
`txIndex` beside the loop for transactions and operations, the position `t` of
the reader (tx.Index) for effects, the SDK's numbers for token transfers. A TOID
is the pair of numbers packed into it. The extractors share no variable, so they
run one after the other here; that they may run side by side is the subject of
`ExtractAll`. `FailTransactions` is the error of a populate function, which
takes the whole table with it. Rows have the columns that identify, join and
count. The properties relate tables written by different code: ids, parents,
trades against trade effects, creations against operations, and the counts of
the ledger row against the other seven.

### CallGraph

The host runs first and leaves `trace`, its diagnostic events: a contract is not
entered while it is on the stack; a frame that fails leaves an error and no
fn_return, and its caller catches the failure or fails too. Whether a fn_call
event is filed under the caller or under the callee is left open (`convention`),
since the code has a pattern for each. Then `WalkEvent` is one iteration of the
loop over the events, `WalkInvocation` one call of the recursion over the
authorised invocations (in preorder, with `callerAt` for the `fromContract` of
each level), and `Integrate` puts the calls of both together. `made`, `cause`
and `caught` are history of the host.

A call is its two contracts, its function and its depth, which is the key of
`deduplicateCalls`. The function is where the two patterns differ: one asks the
next event, then its own, then its arguments for the name (`NameByMain`), the
other its own event and its arguments (`NameOfOther`). A function name may be
illegible in its event (`Legible`; bytes that are no text), and what a search of
the arguments for an `fn_name` finds is the constant `InArguments`. So a call
that both patterns match is stored once if they agree on its name, and twice
otherwise, and what can be said of names depends on the trace: `NamesTold` holds
where fn_call is filed under the callee and all names are legible. There the
properties compare whole calls, and `CallsStoredOnce` says that the graph is the
set of calls made and authorised, each once; elsewhere a call can get the name
of its caller or of what its callee calls next, and contracts and depth are
compared. A contract may put an error value into an event of its own
(`error_value`): `ContractError` takes the first error of any event, as the code
does, and `ErrorIsTheCause` is about traces without such an event.

### WasmMetadata

A compiler writes sections; their sizes and counts are unsigned LEB128 numbers,
some sizes padded to five bytes as linkers do. `ReadSection` is one iteration of
the walk, `DecodeLEB128` the decoder as the code has it.

## 3. Runs

| Run | Instance | Shows |
| --- | --- | --- |
| `extract_all` | `transactions` (hands errors on), `contract_events` (swallows them, same stream), `accounts` (other stream); streams of 0..1 elements; all five endings | types, `ResultIsFinal`, `Returns`, `ExtractsIndependently` |
| `extract_all_contention` | three callers of one stream of 0..2 elements, and `ledgers`, which uses none | `SharedWalkIsPrivateWalk`, `EveryExtractorAccounted`, `DecodedOnce` |
| `decode_panic` | two callers of one stream, reader may panic | `BrokenLedgerFailsForEveryCaller` is violated |
| `broken_stream` | one extractor that hands errors on, one that swallows | `BrokenStreamReported` is violated |
| `contract_events` | all ledgers of up to three transactions out of four kinds (unreadable, no events, two with events in different lists) | the five event properties |
| `snapshot_tables` | for each table two or three entries of which at least two can collide, be confused or be skipped (two accounts with two signer keys, two pool shares and a credit line, listed and unlisted contract data, data, code and TTL for restorations), two values | types and the six snapshot properties |
| `dropped_signer` | the same | `UndeletedSignersSign` is violated |
| `pool_shares` | the same | `TrustlinesKeptApart` is violated |
| `effect_replay` | two users beside a funding account and a sponsor, of which both or none exist at the start; one credit asset, one pool, one claimable balance, one contract; three operations in a row of thirteen kinds, changes in every order, one operation at most not read whole | types and the five replay properties |
| `transaction_tables` | all ledgers of up to three transactions out of seven kinds (applied, failed, rejected before its operations, unfit for the transactions table, Soroban), the three versions of the close meta, token transfers in the SDK's order with unknown ones, a key evicted twice | types and the eight join and count properties |
| `call_graph` | three contracts, three functions of which one is illegible, with another's name among its arguments; traces of up to eight events, both readings of a fn_call, trace kept or not; three lists of authorisations, depth limit three | the six call-graph properties |
| `wasm_metadata` | modules of up to two sections out of four types, counts and sizes on both sides of 64 and 128, padded or not | `ElementsAreCounted` is violated |

Bounds. Two callers of one stream are needed for a race in `Once.Do`, a third
for a caller that arrives after the decode while another is still blocked; one
element is needed to tell a partial slice from an empty one, two to tell it from
a whole one. A third stream or a fourth kind of extractor does not exist. For
the events, three transactions allow an unreadable one between two others, and
the two kinds with events put several events in one list, events in several
lists, and an empty list between two others.

For the snapshot tables there is no bound on the number of changes; two entries
of a table show interference of keys, a third one an entry the table must
ignore, and two values tell an older state from a newer one.

Three operations are enough for an entry to come, change and go, and for an
account to be created again where one was merged; a fourth would repeat one of
these on another entry. Three transactions put a failed, a rejected or an
unreadable one before, between and after others. In the call graph eight events
make a call below a call, two calls of one contract that differ in the function
only, an event between two calls, and a failure two frames deep that is
caught at any level; contracts beyond the third behave like it, and two legible
functions and one that is not tell every source of a name apart. The code's depth
limit of ten is the constant `AuthDepthLimit`, three in the run, with
invocations at the limit and below it.

Deadlock is checked in every run; the finished program is the explicit
`Terminated` step. In `EffectReplay`, whose network never finishes, it is the
stuttering at the bound `MaxOps`.

Fairness. `WF_vars(Main)` and `WF_vars(Goroutine(e))` for every extractor: the
Go scheduler is preemptive and starves no runnable goroutine. A goroutine
blocked in `Once.Do`, on the mutex or in `wg.Wait` has no enabled step, and no
fairness is assumed of the blocking itself; that it ends is what `Returns`
says. Weak fairness is enough for the mutex in `Returns` because every extractor
takes it once.

Findings.

- `decode_panic`: after a panic of the decode function `sync.Once` is done and
  the error is nil (extract.go:54-74, 87-107). The goroutine that ran it reports
  the panic; every other extractor on the stream takes the partial slice for the
  whole ledger. The comment at extract.go:51-52 promises the opposite of every
  decode failure.
- `broken_stream`: fourteen of the eighteen extractors on the shared streams
  log a failed walk and return empty rows with a nil error (accounts.go:19-22
  is the first of them), so the errors `ExtractAll` returns do not name them,
  although extract.go:159 says that errors of individual extractors are
  collected.
- `dropped_signer`: a signer present in one change of an account and gone in a
  later one of the same ledger keeps the undeleted row of the first
  (accounts.go:311-334): the map of signer rows only gains rows. The comments at
  accounts.go:260-261 and 310 say that the last write wins across all stages.
- `wasm_metadata`: `decodeLEB128` reads a signed number (soroban.go:882-884)
  where sizes and counts of WASM sections are unsigned. A one-byte number from 64
  to 127 is negative: as a size it ends the walk and the sections after it stay
  without counts, as a count it is stored. The comment at soroban.go:862 says
  that the elements of the section are counted.
- `pool_shares`: two pool-share trustlines of an account have the same map key
  (accounts.go:189, 215-217), so one row hides the other, although ordering.go:10
  calls the key the row's identity.

Each property of a passing run has a mutant: an operator beside the definition
it replaces, commented `Mutation:`, under which TLC finds the property violated.

## 4. Proofs

Every module of proofs is about its component for all values of the constants;
each theorem is a property of a run, unless said otherwise. No invariant is
inductive as a run states it; what each proof adds is named below.

### Lists (`SelectionProofs`)

What `Selected`, `Total` and `Ascending` return: elements, order, number,
behaviour when the sequence or the selection grows, when two sequences are
joined, and when the same positions are selected from two sequences. The
library's induction theorems take an operator as a parameter, which the provers
cannot instantiate. `Induction` says the same of a set instead -- one that holds
0 and with each number the next -- and is proved from the fact that a finite set
of numbers has a least element, which in turn rests on the well-foundedness of
strict inclusion among finite sets.

### Extraction (`ExtractAllProofs`)

For every finite set of extractors from the table, every bound on the streams
and every set of endings: `TypeCorrect` (`TypeOK`), `Accounted`
(`EveryExtractorAccounted`), `SharedWalk` (`SharedWalkIsPrivateWalk`), `Final`
(`ResultIsFinal`), `Decoded` (`DecodedOnce`), and `Refinement`, which is
`Spec => Independent!Safety`: the safety part of `ExtractsIndependently`.

`Inv` adds: what the cache holds before, during and after the walk and that one
caller at most decodes a stream (`StreamInv`); that the goroutine in the
critical section is alone there and its copy of `errs` is current (`MutexInv`),
without which an append could lose a report; that an extractor is accounted for
exactly when it is past its critical section (`AccountInv`); and that the
`WaitGroup` counts the goroutines between `go` and `Done` (`MainInv`), without
which `Wait` could return too early. For the refinement `ResultInv` says that
what a goroutine carries from its body to its critical section is a result that
the abstract extractor may settle on; `Store` and `Report` are then its step, and
all others stutter. Assumptions: `LedgerInputAssumption` (the bound is a natural
number, the endings are known ones) and `ExtractAllAssumption` (the extractors
are finitely many, from the table).

### Contract events (`ContractEventsProofs`)

For ledgers of any number of transactions with any event lists: `TypeCorrect`,
`EventKeys`, `EventIndices`, `TransactionIDs` and `Parity` (`ViewParity`).
`CounterInv` says how far the counters are: the transaction counter is one ahead
of the cursor, no row is of a later transaction than the cursor, rows of the
current transaction have indices below the event counter, and the last row has
the index before it. For `Parity`, `PlacesInv` says that the rows of each walk
enumerate, in order, exactly the events it has passed. So two walks that are at
the end have a row for the same events in the same order; the index of a row
then agrees because the indices of a transaction are dense and increase.
Assumption: `LedgersAssumption` (a ledger is a sequence of transactions).

### Snapshot tables (`SnapshotTablesProofs`)

For any set of ledger-entry keys, entry values and signer keys and any number of
changes: `TypeCorrect`, `LatestState`, `Complete`, `Deleted`, `SignersComplete`,
`Restored` and `Sorted`, every property of `snapshot_tables`. The properties
about rows are inductive once `RowsHaveKeys` is added -- every row has an entry
of the table behind it that changed in this ledger. Without it a removal could be
the first change of an entry that already has a row, with a value from nowhere.
`OutInv` says that what is written precedes what is left. `RowsOfChange` reduces
the twelve treatments to one statement about a single change, so that the step is
proved once. Assumption: `SnapshotAssumption` (keys are told apart by owner and
id, accounts by owner, `value` 0 is reserved for the missing entry).

### Per-transaction tables (`TransactionTablesProofs`, `EffectRulesProofs`)

For ledgers of any number of transactions of any number of operations, with any
claims, changes and events, every property of `transaction_tables`:

- `TypeCorrect`, `AllOrNothing`, `Parents`, from `IInv`: the counter beside the
  loop is at the transaction of the loop (`Counters`), the transactions table has
  the rows of exactly the transactions read so far, or none and an error
  (`TransactionRowsInv`), and the operations table has a row for every operation
  already walked and for no other, in the order of the ids (`OperationRowsInv`).
- `Dense` (`TransferIndexDense`), from `TransferRowsInv`: the index of a new row
  is the number of rows of its transaction, and these count from zero.
- `NamesClaim` (`TradeIndexNamesClaim`), from `TradeRowsInv`: a trade row is of
  an operation already walked, so the rows of the current one are all new.
- `Creations` (`CreationsAgree`), from `CreationRowsInv`: the creation rows are
  those of the create operations walked, as selected from the operations table,
  one for one.
- `LedgerCounts` (`LedgerCountsAgree`), from `LedgerTablesInv`: the ledger row
  and the evicted keys are functions of the ledger; the operation rows that pass
  a test are in bijection with the places of the operations that pass it, and
  sums over the one list are sums over the other.
- `Trades` (`TradesMatchEffects`) and `IDsJoin` (`OperationIDsJoin`), from
  `PlacesInv`: the rows of an operation, among all rows of the effects or of the
  trades table, are the ones its own iteration made, if it was walked, and none
  before. What is left for `Trades` is about one operation: the effects of a
  claim tell of its trade (`ClaimTells`), two lists that tell of two lists of
  trades do so when joined (`TellsJoined`), and every other effect of the
  operation is about no trade (`Plain`), whichever generator or change it is
  from.

Assumptions: `LedgersAssumption` (a ledger is a sequence of transactions, each a
sequence of operations that are `WellFormed`; a transaction that succeeded has
operation results; the token-transfer processor makes events of applied
operations only; an operation that creates a contract creates a persistent entry,
the contract's instance) and `SignerOrderAssumption` (a sequence).

### Call graph (`CallGraphProofs`)

For any set of contracts, any trace the host can leave, any trees of
authorised invocations and any depth limit, every property of `call_graph`:

- `Sound` (`StackSound`): the stack of the walk keeps its root, has no contract
  on top of itself, and its depth is counted right.
- `Reported` (`ErrorIsTheCause`), from `ErrorInv`: unless a failure was caught,
  or a contract has put an error into an event of its own, the first error event
  is of the frame that is failing, and everything after it is that failure
  unwinding.
- `Authorized` (`AuthorizedCallsRecorded`), from `AuthInv`: what the recursion
  has visited is the preorder up to its position, and `callerAt` holds the
  nearest contract above for every level.
- `WereMade` and `AreRecorded` (`RecordedCallsWereMade`,
  `MadeCallsAreRecorded`), from `WalkInv`: without a failure the stack of the
  walk follows the stack the host had when it left the event, under either
  reading of a fn_call; the host's stacks are history, told from the trace alone.
- `StoredOnce` (`CallsStoredOnce`), from `WalkInv` and `AuthInv` together: where
  the names can be told, both patterns give a call its own function, so the calls
  stored are those made and those authorised, and what the patterns or the
  authorisations repeat is stored once.

Assumptions: `MainAssumption`, `FunctionAssumption` and `AuthAssumption`:
contracts are named by integers, since the code orders them, "unknown" is no
function, and the list of an authorisation tree is a preorder.

### Effect replay (`EffectReplayProofs`, `EffectRulesProofs`)

For any accounts, signers and claimable balances, any starting set of users and
any number of operations, read or not, their changes in any order, every property
of `effect_replay`: `TypeCorrect` (`TypeOK`), `AccountsFollow`
(`ReplayAccounts`), `EntriesFollow` (`ReplayEntries`), `BalancesFollow`
(`ReplayBalances`), `SignersFollowLedger` (`ReplaySigners`) and `SponsorsFollow`
(`ReplaySponsors`).

`Inv` adds to the properties that the ledger is well formed (`Ledger`: every
entry has its type, the root account and the contract's balance are never
removed, a pool share is never sponsored), that the copy has its shape
(`Replicas`), and the bounds. No property follows from the earlier value of the
copy alone: what an effect says is right only in the ledger it is about.

The argument has three layers. What the consumer makes of two lists joined is
what it makes of the second after the first (`ConsumedJoined`), so an operation
is taken in two steps: its own effects (`Halfway`), then those its changes add.
For the second step, the effects of the changes come one group per change, each
about the key of its change; keys differ, so the order of the changes is of no
consequence to accounts, entries, balances and signers, and sponsors and the
count of sponsored trustlines are as the changes leave them. For the first
step, one lemma per operation (`CreateAccountOutcome`, `MergeOutcome`,
`ClaimOutcome`, ...) shows `Outcome`: which entries its own effects make or
remove, by how much they change which balance, which signers they set, in
agreement with what it does to the ledger. `OutcomeKeeps` draws the invariant
from that, once for all operations.

An operation that is not read whole adds its kind to `unread`, which weakens the
properties that need what is missing (`Marked`; for an invocation that says
nothing, `UntoldOutcome`); `ReadEnough` says that what is
still promised after an operation was promised before it.

Assumptions: `NamesAssumption` (the names that stand for different things are
different; the code's order of signers ranges over all accounts),
`BoundsAssumption` (the bounds are numbers) and `SignerOrderAssumption`.

### Only model-checked

- `Returns`, and that part of `ExtractsIndependently` which says that every
  extractor settles eventually: liveness.

Every other invariant and action property of a passing run is stated by a
theorem. The five runs that expect a violation have a counterexample, which TLC
shows. What `WasmMetadata` reads is left to TLC: its numbers and its walk are
folds over bytes.

## 5. Not modelled, and the plan

Left out, with the reason:

- The ScVal conversion (scval_converter.go): a pure recursion with one case per
  type, no state and no interaction; what it does with two map keys of equal
  text depends on the texts alone. The payload of event and contract-data rows
  goes through it and is left out with it.
- Arguments and success flag of recorded calls, the search for an `fn_name` in
  nested arguments (call_graph.go:406-457; its answer is a constant of
  `CallGraph`) and the credentials columns of an operation row
  (call_graph.go:575-648): values read off one event or entry, on which no other
  call depends.
- What no document promises of the call graph, and no property claims: the calls
  of a trace with a failed frame, which stays on the stack; that a call whose
  callee's name is illegible, and which both patterns match, is stored once (the
  first gives it the caller's name); and names under a host that files fn_call
  under the caller. Failures that were caught, and error values in contracts' own
  events, are out of the scope of `ErrorIsTheCause`.
- Columns that are copied or formatted: memo, preconditions, XDR blobs, resource
  limits, the operation columns of each type, header fields, prices and amounts
  of trades, token metadata, flags and reserves in effect details.
- The cache of `LedgerViewInput`: the `sync.Once` of `LedgerInput` a second
  time. The duty not to reuse the borrowed bytes is the caller's.
- The SDK and the packing of a TOID into 64 bits: external. Its readers are
  sources of elements, errors and panics; its token-transfer processor is a list
  of events.
- Row types, versions, the wording of errors and logs: nothing to check.
- WASM code that no compiler writes, and LEB128 numbers of 2^28 and more.

Planned:

1. The auth credentials of an operation row beside the call graph, if a second
   column comes to depend on them.
2. Effect details that have no reader yet (flags, home domain, pool reserves), each
   with the ledger value in `EffectReplay` that it must reproduce.
