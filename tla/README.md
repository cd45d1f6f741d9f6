# Formal models of eth-extended-client

TLA+ models of the Ethereum client in `src/client`, checked with TLC and, for
the results listed under *Proofs*, proved with TLAPS for every value of the
constants. All line numbers refer to the files under `src/`.

## The system

| Part | Code | State | Operations |
|---|---|---|---|
| Nonce cache | `client/cache.go:88-135` | an LRU map from private key to a counter object, one mutex | `Nonce`, `Current`, `AddFailedNonce` |
| Sending | `client/client.go:128-171, 298-371` | none of its own | `sinedTx`, `SendTx`, `AsyncSend`, `SyncSend` up to the hand-over |
| Synchronous wait | `client/client.go:173-194, 373-394`, `client/map.go` | two sets of hashes, `unconfirmedTx` and `sentTx`, each with its own mutex | the poll loop of `SyncSend`; the hooks `afterTxSent`, `afterTxConfirmed`, `errHandle` |
| Confirmation | `client/client.go:196-228` | the queue and workers of the confirmer (a library) | `ConfirmTx`, `EnqueueTxHash` |
| Gas caches | `client/cache.go:20-86` | value, ttl, expiry and mutex, twice | `GasTipCap`, `GasFee` |
| Lifecycle | `client/client.go:23-114` | package-level durations, the cancel function | `NewClient`, `Start`, `Stop` |
| Options | `client/opt.go` | none | setters used by `NewClient` |
| Unit conversion | `client/util.go` | none | `ToWei`, `GenerateAddr` |
| Queries | `client/client.go:230-268` | none | `Receipt`, `BalanceOf`, `LatestBlockNumber`, `QueryContract` |
| Binding events | `contract/*.go` (generated), e.g. `contract/erc20.go:664-816` | an iterator, a watch with its goroutine | `Filter*`, `Next`, `Error`, `Close`, `Watch*`, `Parse*`, for seven events |
| Binding calls | `contract/*.go` (generated) | none | calls, transactions, sessions, deployment |

**How they interact.** A caller of `AsyncSend` or `SyncSend` asks the nonce
cache for a nonce (which may ask the node), then the gas caches for tip and
base fee (which may ask the node), signs, and hands the transaction over:
`AsyncSend` to the node directly, `SyncSend` to the confirmer, which calls
back `Client.SendTx`, calls the hook `afterTxSent` and queues the hash. On an
error both give the nonce back with `AddFailedNonce`. Workers of the confirmer
take hashes from the queue, call `Client.ConfirmTx` until it says neither "not
found" nor "pending", and then call `afterTxConfirmed` or `errHandle`. The
call of `SyncSend` polls the two sets that the hooks write until the hash is in
`sentTx` and no longer in `unconfirmedTx`, or its timeout passes.

**What is hard about it.** Any number of goroutines share one client. Nonces
have to be handed out without a gap and without a duplicate while sends fail at
any point, replies are lost, entries are evicted and the process restarts. The
poll loop reads two separately locked sets that two other goroutines write.
`ConfirmTx` draws its conclusion from two round trips between which the chain
moves. The gas caches are refreshed outside their mutex by several callers at
once. The durations every call works with are package variables that each
`NewClient` overwrites. Events and the end of their subscription reach a reader
on two channels, and a watch may hold an event nobody takes any more.
`PROJECT.json` lists each of these hazards with its line.

**What makes each part correct.**
* Nonce cache: a nonce has one owner at a time; none is lost; none is one that
  the node refuses; the map stays bounded, and dropping one key's entry harms no
  other key; nobody waits for the mutex forever.
* Synchronous wait: an answer without an error comes after the hook, and, as
  the README promises, when the transaction is x blocks deep; every call
  returns; nothing of a successful call stays in the sets.
* Confirmation: a hash is reported confirmed only when it is deep enough.
* Gas caches: a price is a real answer of bounded age, and only a cached base fee
  is outgrown by the one of the latest block.
* Lifecycle: a call works with positive durations, those of the client built
  last; `Stop` ends the workers, and none goes on with a closed connection.
* Binding events: in order, none twice, none left out; an end without an error
  means that there was nothing more; nobody waits forever.
* Unit conversion: the amount is cut to whole units, never more than asked for,
  and no more digits are lost than the floating point numbers on the way explain.

## Modules

| Module | What it is |
|---|---|
| `NonceCash` | the nonce cache, the calls that use it, the node's rule for nonces, restarts |
| `NonceDesk` | what `NonceCash` promises for one key: a desk that hands out numbers |
| `NonceCashProofs` | its proofs, and that `NonceCash` implements the desk of every key |
| `SyncSend` | the synchronous wait, the hooks, `ConfirmTx`, the confirmer's queue and workers, the chain |
| `TxTicket` | what `SyncSend` promises: a ticket that somebody else settles before it is redeemed |
| `SyncSendProofs` | its proofs, and that `SyncSend` implements `TxTicket` |
| `SyncDepthProofs` | proofs of what the answers of `SyncSend` mean on the chain |
| `GasCash` | both gas caches and the calls that price a transaction |
| `GasCashProofs` | its proofs |
| `Lifecycle` | the clients of a process: construction, options, the package-level durations, `Start` and `Stop` |
| `LifecycleProofs` | its proofs |
| `Events` | the iterators and watches of the contract bindings, their channel and subscription |
| `Feed` | what a reader of events may rely on |
| `EventsProofs` | proofs about `Events`, and that it implements `Feed` |
| `ToWei` | the unit conversion |
| `ToWeiProofs` | its proofs, for all amounts and decimals |
| `MCNonceCash`, `MCSyncSend`, `MCGasCash`, `MCLifecycle`, `MCEvents`, `MCToWei` | model values and symmetry for TLC |

Definitions whose comment starts with "Faulty variant" are the code with a
plausible mistake in it. No specification uses them; put in the place of the
definition that follows them they make a property fail.

### NonceCash and NonceDesk

A caller is a goroutine inside `AsyncSend` or `SyncSend`. `Nonce` is one step
when the key has an entry (`NonceHit`) and three when it has not
(`NonceMiss`, `ClientNonce`, `NonceStore`): the mutex is held but other
goroutines and the node go on. Everything `sinedTx` does after the nonce was
drawn is one step that succeeds (`SinedTx`) or fails (`SinedTxFails`); the
failing one drops the nonce, as the code does. `SendTx`, `SendTxRefused` and
`SendTxReplyLost` are the three ways a send ends; the last two are followed by
`AddFailedNonce` as a step of its own, before which any other step can happen.
`NewClient` is a restart: the cache is empty, what the node has stays.

Three history variables name what the code cannot help, so that the properties
can hold under every fault and still say that nothing else goes wrong.
`forgotten` has the nonces a failing `sinedTx` dropped, `dropped` the keys whose
entry the full map dropped for another one, `stale` the keys for which the node
has a transaction their entry does not know of: because the counter began while
transactions of an earlier one were pending, or because a reply was lost.

`NonceDesk` is the abstract specification, for one key: it opens at a number the
account has reached, hands out returned numbers first and new ones without a
gap, and may be lost as a whole. `Desk(k)` maps the cache to the desk of `k`: a
lookup that misses, which takes the mutex, a round trip and a store, opens the
desk in one step, and nobody sees a part of it.

External and modelled from their use: the counter (`Assign`: a nonce given back
goes before a new one; that it may return an error, `cache.go:99` and `110`, is
left out, since no nonce is drawn then), the LRU map (`CacheAfterAdd`: on a full
map any other entry may be the victim, which covers every order of use), the
node (`Acceptable`, `Mine`).

### SyncSend and TxTicket

A call and the hash of its transaction are one value; that different calls
have different hashes is what `NonceCash` is about. The call goes through
signing, sending, the queue, and the loop, where a tick is two steps, one for
each set it reads, followed by the delete. The hook `afterTxSent` is a process
of its own with a step for each of its two writes. The workers go through
`ConfirmTx` with its two round trips (`Receipt`, `Depth`) and one of the hooks.
Deleting a hash that is not there changes nothing, so that the `has` before the
`delete` in the hooks is part of the same step. Ticks that find nothing change
nothing and are stutters. `Stop` also closes the connection: from then on a send
and the round trips of `ConfirmTx` may fail whatever the faults are.

Two things about the confirmer cannot be read off `client.go` and are left
open. One is in which goroutine and when it calls `afterTxSent`; that a tick may
find a hash that is not in `sentTx` yet (`client.go:185`) shows that the code
reckons with one of its own. For the calls in `HookFirst` the confirmer waits
for the hook before it queues the hash; for the others the hook runs at any time
after the node took the transaction, also while a worker confirms the hash and
the call polls for it. A worker that confirms such a hash before the hook has
recorded it has overtaken the hook (`Overtaken`): nothing removes the hash any
more and the call polls until its timeout. `sync_safe` and `sync_late` have a
call of each kind, `sync_deep` one of the second. The other is whether a pending
hash is asked for again by the same worker or after another pass through the
queue (both in `Retry`).

`Reorg` takes back any number of the latest blocks; what they held is to be mined
again. The history variable `misled` has the hashes whose block was taken back
when a worker had read their receipt and would not read it again, or the hook
had been called.

`TxTicket` is the abstract specification. `TicketOf` maps a call to its ticket:
the first hook called for its hash settles it, the answer redeems or voids it.

### GasCash

`TipCapCash` and `BaseFeeCash` are the same machine; `sinedTx` goes through the
first and then the second. Lookup, round trip and store are separate steps. Time
is counted in blocks, and an answer of the node is represented by the height it
was given at, so that its age is part of the state; 0 is the nil of an empty
cache. `GasFee` leaves the tip out of the fee cap: twice the base fee is the
part that is there for the base fee (`cache.go:85`), and the tip is what the
miner is to get on top. The round trip of `isSupportEIP1559` has no effect on
the caches and only starts the call.

### Lifecycle

`NewClient` makes its options (two of the three durations panic for a value that
is not positive, the interval takes any), dials, applies them, and then
publishes the three durations one `Publish` at a time, so that calls and other
constructions get in between. `Duration` is the product of two `int64` values,
cut to their width. A call is reduced to its reads of the durations: the
deadline of the send, that of the wait, and the interval of the ticker, which
panics if it is not positive. `Start` makes a context and replaces the cancel
function of an earlier one; `Stop` cancels with the one it finds, of which there
is none before the first `Start`, and closes the connection. They are called in
any order (`turns` is the log of the calls, a context is named by the position
of its `Start`). Nothing opens a closed connection again, so that a client that
is started after a `Stop` has workers without a working connection; over http
closing has no effect. A panic ends the process.

### Events and Feed

The generated code is the same for every event but for its name and the types of
its fields, so one set of actions stands for the seven copies, and `copy` says
which one a behaviour is about; they differ in which logs unpack (an ERC20
`Transfer` has two indexed fields, an ERC721 one three, and both have the same
topic). External are the contract, and the library's source of the logs, which
puts them into a bounded channel and ends or fails the subscription on another
channel. A watched subscription ends without an error when its connection is
closed (`hungup`), for instance by `Stop`. `NextTake`, `NextDrained`, `NextErr`
and `NextFailed` are the branches of `Next`; `WatchTake`, `WatchSink`,
`WatchErr` and `WatchQuit` those of the two nested `select` statements of a
watch. `StopReading` is a user who no longer receives from the sink.

`Feed` is the abstract specification: an offer of logs, events handed over one
by one, and an end that is complete or an error. It is complete only when every
log was handed over, when the reader left (it called `Close` or unsubscribed) or
when the connection was cut. `Reader` maps `Events` to it: `left` and `cut` are
what the user and the connection did, not what the code made of it, so that a
watch that ends without an error for another reason, as at a log that does not
parse, is no step of `Feed`.

### ToWei

A pure function: the argument by its type (`Amount`), the power of ten by
squaring (`Pow`, a recursive function, as is `TenTo`, the integer powers of
ten), the product (`Mul`), and `SetString` on its text, which stops at the
decimal point and reports a failure that `util.go:42` ignores. A decimal is a
coefficient and an exponent. An `int64` is rounded twice on its way
(`util.go:31`): to the next `float64` (`Float64`, half to even, with the unit in
the last place among `Ulps`), and by `NewFromFloat` to the shortest decimal that
reads back as the same `float64` (`Shortest`). 4611686018427394560 becomes
4611686018427394048 by the first and 4611686018427394000 by the second. The
properties compare the result with exact integer arithmetic.

## What is checked

| Run | Configuration | Shows |
|---|---|---|
| `nonce_owner` | three callers, two keys, every fault, one restart, four calls per history | `TypeOK`, `SingleOwner`, `GiveBackPossible`, `NoGap`, `HeldUpHasReason`, `NoSelfConflict`, `DeskSpec` |
| `nonce_clean` | two callers, two keys, refusals only, four calls, fair | `CountersCurrent`, `HeldUpByReturned` |
| `nonce_evict` | a map of one entry for two keys, every fault, fair | `SingleOwner`, `GiveBackPossible`, `NoSelfConflict`, `CallsReturn`, `DeskSpec` |
| `nonce_test_gap` | two calls, refusals, fair | `AcceptedIsMined` is violated |
| `sync_safe` | two calls, one whose hook comes before the queue and one whose hook runs at any time, two workers, a queue of one, depth 1, every fault | `TypeOK`, `OkIsSettled`, `OkLeavesNoTrace`, `HookFirstNotOvertaken`, `ConfirmedIsDeep` |
| `sync_deep` | one call whose hook runs at any time and a foreign hash, reverts and failing round trips, neither timeout nor Stop, blocks taken back once, depth 1, fair | `ConfirmedIsDeep`, `OkIsDeepOrExcused`, `TicketSpec`, `EverySendSettles` |
| `sync_late` | two calls, one of each kind, timeouts, failing round trips, Stop, depth 1, fair | `EveryCallReturns`, `LateAnswerCleansUp` |
| `sync_revert_ok` | one call that may revert, depth 1 | `OkIsDeep` is violated |
| `gas` | two callers, ttl 1 for the tip and 3 for the base fee, calls of at most three blocks, a chain of nine | `TypeOK`, `AgeBounded`, `UnderpricedOnlyFromCash` |
| `lifecycle` | two clients, two calls, options at and beyond the limits, up to four calls of `Start` and `Stop` each in any order | `TypeOK`, `DeadlineAhead`, `TickerPanicHasCulprit`, `LastClientDecides`, `StopReachesWorkers` |
| `events` | an iterator or a watch of each of the seven events, three logs, a channel of two, fair | `TypeOK`, `FeedSpec`, `NextReturns`, `ClosingReturns`, `WatchDelivers` |
| `to_wei` | coefficients -99 to 99, exponents -3 to 1, up to four decimals, every type of argument | `CutsTowardsZero`, `IntegersNearlyExact` |

**Two disagreements** between the code and what the repository says of it:

1. `nonce_test_gap`: caller A draws nonce 0, caller B draws 1 and its
   transaction is accepted, then A's is refused and 0 is given back. Unless
   somebody calls again, B's transaction waits forever (and its `SyncSend`
   times out). `TestConcurrent` (`client_test.go:141-143, 163`) expects every
   valid transaction to succeed beside refused ones; it passes when later calls
   happen to take the returned nonces. `HeldUpByReturned` shows that this is
   the only way an accepted transaction can be held up.
2. `sync_revert_ok`: `errHandle` makes the waiting call return its hash with a
   nil error, for a reverted transaction as well as for a failed round trip.
   `README.md:3` promises "confirming x blocks mined". `OkIsDeepOrExcused` shows
   that `errHandle`, and a block taken back, are the only ways in which the
   promise is broken.

Some limitations nothing in the repository denies are no disagreements, but a
user should know them. `ConfirmTx` reads the receipt once: if its block is taken
back afterwards the call succeeds all the same. A nonce whose send reached the
node while its reply was lost is given back, drawn and refused by every later
call of its key until the process restarts. And after a restart or an eviction a
counter begins at the account nonce, without what is still pending.
`ConfirmedIsDeep` and `NoSelfConflict` leave out exactly the hashes and the keys
this happened to (`misled`, `stale`, `dropped`). If the confirmer does not wait
for `afterTxSent`, a worker can overtake it and `SyncSend` times out although its
transaction is confirmed (`Overtaken` in `EverySendSettles`). A fee out of the
cache can be too low when the base fee has risen for more than five blocks, which
the default ttl allows (`UnderpricedOnlyFromCash`). And a client that was stopped
does not work again after another `Start`, except over http.

**Bounds and why they are enough.** `MaxCalls` 4 lets three callers create an
entry, draw, fail and draw a returned nonce; ownership conflicts need two
callers and gaps two nonces of one key. `MaxRestarts` 1 gives an old and a new
process; `MaxReorgs` 1 a receipt of a block that is gone. `Capacity` 1 with two
keys is the smallest map that evicts. Two calls and two workers give every
overlap of two hooks and two polls; a queue of one is full as soon as the other
hash is in it. `Word` is 64 in the runs, beyond every height they reach;
`UintSum` wraps as a `uint64` does, and the two depth properties say that they
hold short of the wrap (`NoWrap`). The chain of `GasCash` is long enough for the
largest age its parameters allow (six for the tip, eight for the base fee). The
base fee rises by one eighth per block there (`Swings`), the worst case for a
fee cap; five such rises stay below the doubling, six do not, so that the run
has calls that are underpriced and calls that are not. Two clients and two calls
are what an interleaved construction needs; durations have six bits in the run
of `Lifecycle`, so that four seconds of eight ticks overflow them, and four
calls of `Start` and `Stop` per client are enough to forget a cancel function
before and after a `Stop`. Three logs and a channel of two let the channel fill
up, drain and hold what arrived before the end of the subscription. The mantissa
of `ToWei` has four bits there (`Exact` 16), so that two digits exceed it by up
to three bits and both roundings happen. `sync_deep` leaves out `Stop` and the
timeout, which are the ways out that `EverySendSettles` does not count on; it
has only a call whose hook runs at any time, because a call whose hook is
awaited behaves as one of these does when its hook happens to be early. All
configurations switch the deadlock check off: a client nobody calls is done.

**Fairness and why the code has it.** `NonceCash`: a goroutine waiting for a
`sync.Mutex` gets it in the end, since Go hands a mutex over to a starved waiter
(strong fairness of the steps that take it); the context ends every round trip
and runnable goroutines run (weak fairness); the node mines what is executable.
Nothing obliges a caller to call. `SyncSend`: goroutines run (weak); when the
deadline has passed, `select` picks it in the end, even if ticks keep coming
(strong fairness of `TimeOut`); the client is started as in the repository's
README; the chain grows and includes what the node accepted. `Stop` and the
faults are never forced. `Events`: the source of the logs, a called `Next` or
`Close` and the goroutine of a watch run (weak); among the ready cases of a
`select` Go picks one at random, so that `quit` does not stay ready forever
unseen; a filter comes to its end, while a watched subscription need not. No
receiver is obliged to receive. The other modules need no fairness.

## Proofs

| Theorem | Says | Assumes |
|---|---|---|
| `NonceCashProofs!TypeCorrect` | `Spec => []TypeOK` | - |
| `NonceCashProofs!OneOwner` | `Spec => []SingleOwner` | - |
| `NonceCashProofs!GiveBackNeverFails` | `Spec => []GiveBackPossible` | - |
| `NonceCashProofs!NoNonceLost` | `Spec => []NoGap` | - |
| `NonceCashProofs!NoConflict` | `Spec => []NoSelfConflict` | - |
| `NonceCashProofs!HeldUpOnlyWithReason` | `Spec => []HeldUpHasReason` | - |
| `NonceCashProofs!ImplementsDesk` | `Spec => DeskSpec` | - |
| `NonceCashProofs!NothingDropped` | `Spec => [](dropped = {})` | the keys fit the map |
| `NonceCashProofs!CountersStayCurrent` | `Spec => []CountersCurrent` | the same, no lost replies, no restarts |
| `SyncSendProofs!TypeCorrect` | `Spec => []TypeOK` | - |
| `SyncSendProofs!SuccessIsSettled` | `Spec => []OkIsSettled` | - |
| `SyncSendProofs!HookIsNotOvertaken` | `Spec => []HookFirstNotOvertaken` | - |
| `SyncSendProofs!ImplementsTicket` | `Spec => TicketSpec` | - |
| `SyncDepthProofs!ConfirmedMeansDeep` | `Spec => []ConfirmedIsDeep` | - |
| `SyncDepthProofs!SuccessMeansDeepOrExcused` | `Spec => []OkIsDeepOrExcused` | - |
| `SyncDepthProofs!SuccessMeansDeep` | `Spec => []OkIsDeep` | no block is taken back, nothing reverts, `ConfirmTx` gets its answers, no `Stop` |
| `SyncDepthProofs!SuccessLeavesNoTrace` | `Spec => []OkLeavesNoTrace` | - |
| `GasCashProofs!TypeCorrect` | `Spec => []TypeOK` | - |
| `GasCashProofs!AgeIsBounded` | `Spec => []AgeBounded` | - |
| `GasCashProofs!UnderpricedMeansCashed` | `Spec => []UnderpricedOnlyFromCash` | - |
| `LifecycleProofs!TypeCorrect` | `Spec => []TypeOK` | - |
| `LifecycleProofs!DeadlineIsAhead` | `Spec => []DeadlineAhead` | - |
| `LifecycleProofs!TickerPanics` | `Spec => []TickerPanicHasCulprit` | - |
| `LifecycleProofs!LatestDecides` | `Spec => []LastClientDecides` | - |
| `LifecycleProofs!StopsWhatItReaches` | `Spec => []StopReachesWorkers` | - |
| `EventsProofs!TypeCorrect` | `Spec => []TypeOK` | - |
| `EventsProofs!ImplementsFeed` | `Spec => FeedSpec` | - |
| `ToWeiProofs!AlwaysCutsTowardsZero` | `Spec => []CutsTowardsZero` | - |
| `ToWeiProofs!AlwaysNearlyExact` | `Spec => []IntegersNearlyExact` | - |

The assumptions of the modules on their constants (finitely many keys, a
positive capacity, and so on) hold throughout; TLC evaluates them in the runs.

*NonceCash.* `SingleOwner` alone is not inductive: that a new counter does not
repeat a nonce somebody holds follows from `GiveBackPossible` (a holder's key
has an entry) and from `LockInv` (while a counter is made its key has no entry
and nobody else makes one), that a new nonce is fresh from `BackBelow` and the
second half of `GiveBackPossible` (everything handed out is below the counter).
Each of them leaves out the dropped keys, and a key that was not dropped keeps
its entry whatever the map drops; no room in the map has to be assumed. `NoGap`
adds `ReadBehind`: the account nonce read under the lock is at most the present
one. `NoSelfConflict` adds that the counter is ahead of the node
(`CounterAhead`), which a pending transaction the counter does not know of would
break: such a key is stale. `HeldUpHasReason` follows from the two, because the
nonce the account is at lies below the counter then. `NoEviction` is where the
capacity is used, for `NothingDropped`; `CountersCurrent` needs besides that an
account without an entry has nothing pending (`Untouched`). For `ImplementsDesk`
the same invariants make every step one of `NonceDesk` or a stutter, for every
key: what changes at the desk of a key is its entry, its account and the
nonces of its holders, one of whom moves (`HeldExcept`).

*SyncSend.* `Tracked` ties the hook to the sets: a hash is in `sentTx` only when
its hook is through, one the hook has recorded stays in `unconfirmedTx` or is
settled, and no hook runs before the node took the transaction. So
a tick that finds the hash in `sentTx` and not in `unconfirmedTx` finds it
settled, whenever the hook runs (`SuccessIsSettled`), and nobody writes it again
(`Cleared`, for `SuccessLeavesNoTrace`). `Known` adds that a hash is not queued,
held by a worker or settled while it is `Early`: before its call has signed it,
or before its hook is through where the confirmer waits for that, which is
`HookIsNotOvertaken`. With it each step moves at most one ticket, in a way
`TxTicket` allows (`OneMove`). What an answer means on the
chain rests on `Once`, that a transaction still to be sent or mined is not mined
yet: a mined one then stays where it is until its block is taken back, and
whoever relied on it is misled from then on (`Grows`, `ReorgGrows`). For all
others the receipt a worker holds remains true while it asks for the head
(`Judged`), and what was deep stays deep. `OkIsDeepOrExcused` joins this with
`SuccessIsSettled`; with nothing dropped (`NothingDropped`) and nobody misled
(`NobodyMisledNext`) it is the promise of `README.md:3`.

*GasCash.* `CashInv` bounds the age of an unexpired entry by what is left of its
ttl, `CallerInv` the age of a call's answer by how long the call has been
running. They hold for any ttl, also the zero and negative ones the options
admit. `Gentle` says that no block's fee is more than an eighth above the one
before: five such steps, written out, stay below the doubling (`FiveRises`), so
that an underpriced answer is more than five blocks old, and by `CallerInv` older
than a call of at most five blocks.

*Lifecycle.* What a call reads is what some client published. `Positive` says
that a published field is positive or some client's option is unsound, which
stays so because options are never taken back (`Accepted`); `InTurn` that the
variables are the latest client's, up to the one that is publishing, as long as
constructions did not overlap; `QuietReads` carries that over to what a call has
read so far. Of `Start` and `Stop` it is enough to know that `Client.cancel`
belongs to the last `Start` (`TurnsInv`); that the running workers are those of
`Unreached` is then kept by each of the two calls.

*Events.* `Position` says how many of the logs taken from the channel were
handed over (all but the one a watch holds), `AtEnd` that an iterator that says
it is complete has seen the end of a subscription that had sent everything, and
an empty channel after that, and that the subscription of a running watch ends
without an error only when its connection is closed. With the types these make
every step one of `Feed` or a stutter.

*ToWei.* `Pow` and `TenTo` are recursive functions, and what they compute for
every argument needs an induction. The induction theorems of the library take an
operator, which the provers cannot instantiate; here a property of the natural
numbers is given as the set of those that have it (`SetInduction`), which rests
on the least element of a set, and so on the library's theorem about
well-founded orders (`Least`). With the equations of the two functions this
gives that squaring computes the power (`PowIsTenTo`) and that powers multiply
(`TenToSum`). What `SetString` leaves is then a division by a power of ten,
compared with what was asked for (`CallInvariant`). For an `int64` the rounding
is off by at most half a unit (`NearestNear`), a number and its `float64` lie in
the same binade or at its upper end (`Binade`), so that two numbers with the same
`float64`, such as the argument and the shortest decimal, are no more than one
unit apart (`SameFloat`, `FloatsNear`); a unit is two parts in `Exact` of the
number at most.

Only model-checked: the liveness properties (`CallsReturn`, `HeldUpByReturned`,
`EveryCallReturns`, `EverySendSettles`, `LateAnswerCleansUp`, `NextReturns`,
`ClosingReturns`, `WatchDelivers`), because the prover cannot reason about
fairness. `HeldUpHasReason` and `OkIsDeepOrExcused` are the safety side of two of
the questions they ask.

## What is not modelled

* Transaction contents, amounts, keys and signatures; errors carry no text.
* Reading operations without state (`Current`, `BalanceOf`, `QueryContract`).
  `Current` panics for a key without an entry, which an eviction can cause.
* The inside of the libraries (confirmer, nonce counter, LRU map): they are
  modelled from the way the client uses them.
* Transactions the user sends for the same keys past the client, and the
  replacement of pending transactions.
* The calls, transactions, sessions and deployment of the contract bindings:
  generated delegations to the library, without a state of their own.
* Options that only set a field (gas price, queue size, logger, ttl); the ttl and
  the queue size are constants of `GasCash` and `SyncSend`, which hold for all
  their values. Options of the confirmer that replace the client's own hooks
  (`client.go:91`).
* Clients used although `NewClient` returned an error; `Start` on such a client
  dereferences a nil confirmer. `GenerateAddr`, which draws a random key.
* In `ToWei`, a negative number of decimals, and a NaN or an infinity, for which the
  library panics.
* The error of `Assign` (`cache.go:99, 110`), after which no nonce is drawn.
* A wrap of the sum at `client.go:216`: `UintSum` wraps, but the depth properties
  hold short of that (`NoWrap`). An interval longer than the timeout of the wait,
  after which every `SyncSend` times out: `SyncSend` has no durations.
* Durations torn in two by a read beside a write, which a 32-bit build allows.

## Plan

1. *Done:* all modules above with their proofs.
2. A module that composes `NonceCash` with `SyncSend`, so that a nonce given back
   after the confirmer took the transaction is seen on both sides. Today each
   side sees it as a fault of the other: "reply" in `NonceCash`, an error of
   `Push` in `SyncSend`.
