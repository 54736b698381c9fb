# LP Ranger: a verification development

LP Ranger (`src/`) keeps concentrated-liquidity positions on a V3-style
exchange in range. A server manages any number of the wallet's positions; each
has a bot loop that polls the chain, compounds its fees and, when the price has
left its range, removes the liquidity, swaps, and mints a new position around
the price. Every one of these steps is an on-chain transaction from one
wallet, sent over public RPC endpoints that lag, drop replies and go away.

This directory holds TLA+ modules of the parts of the program where the order
of events decides whether coins are safe or figures true, TLC configurations
that check them on small instances, and theorems that TLAPS proves for every
value of the constants.

* [What the program consists of](#1-inventory)
* [Modules and plan](#2-modules-and-plan)
* [How the modules correspond to the code](#3-from-code-to-model)
* [What each run checks, its bounds, its fairness](#4-the-runs)
* [What is proved](#5-proofs)
* [Where the code and its documents part](#6-divergences)
* [What is not modelled](#7-not-modelled)

Run a configuration with `tlc -config TxOneMove.cfg MCTxPipeline` (the table in
section 4 names the module of each), and check the proofs of a module with
`tlapm TxPipelineProofs.tla` and likewise for the other seven `*Proofs.tla`.

## 1. Inventory

Paths are relative to `src/src/lib` unless they say otherwise.

| Component | State it keeps | Operations |
|---|---|---|
| **Transaction pipeline**: `send-transaction.js`, `tx-retry.js`, `tx-speedup.js`, `held-transaction.js`, `nonce-manager-wrapper.js`, `rpc-error-classifier.js` | the NonceManager's cached base nonce and delta; a call's attempt, its signed transaction, the copies it waits on | sign, broadcast, classify a refusal, retry, fail over, recover a used nonce, recover a transaction the endpoint holds, wait, speed up, cancel, settle |
| **RPC endpoints**: `send-transaction.js`, `rpc-out-of-service.js`, `rpc-read-retry.js`, `rpc-request-manager.js`, `rpc-endpoints-exhausted.js` | the endpoint in use, its sticky window, the outcomes of each endpoint in a time window, the pause after exhaustion, the request queue | note an outcome, fail over, walk the list, return to the first, pause, replace the list |
| **Move control**: `bot-loop.js`, `bot-loop-scheduler.js`, `bot-cycle*.js`, `scan-state.js`, `rebalance-lock.js`, `position-manager.js`, `server-positions.js`, `server-stop-managing.js`, `price-moved-stop.js`, `src/server.js`, `src/server/stop-when-all-clear.js` | per position: poll timer, poll under way, scan under way or waiting, the owner's requests, pause and mid-way flags, drain clock, cleanup state; the FIFO lock; the app's phase | poll, scan, gate, acquire and release, Manage, Stop Managing, Rebalance Now, Compound Now, retire, held stop |
| **Swap routes**: `rebalancer-swap.js`, `rebalancer-aggregator.js`, `aggregator-nonce-settle.js`, `rebalancer-swap-balance.js`, `rebalancer-router.js` | the route, chunk and attempt under way, the gas paid so far | quote, send, wait, cancel, settle, try again, next route |
| **Rebalance steps**: `rebalancer*.js`, `spent-gas.js`, `hodl-baseline.js` | the wallet's balances as read, the gas each layer answers for; nothing between attempts but the chain | remove, read, swap, correct, approve, mint, book |
| **Compound steps**: `compounder*.js`, `compound-collect.js`, `compounded-coins.js` | as above, and the fee coins collected and swapped | collect, read, swap, deposit, book |
| **Throttle**: `throttle.js`, and the pool's counts of `position-manager.js` | times of recent rebalances, the doubling wait, the day's counts | tick, may a rebalance run, note one, seed from the log |
| **Position registry and settings**: `position-manager.js`, `server-positions.js`, `pool-already-managed.js`, `server-auto-start.js`, `bot-config-v2.js`, `shared-json-file.js` | managed keys on disk, in memory, in the registry, in the map of bot states and among the claims of starts under way | start, gate, remove, migrate to a new key, save, auto-start |
| **History and P&L**: `deposit-count.js`, `counted-deposits.js`, `lifetime-hodl.js`, `bot-hodl-scan.js`, `event-scanner.js`, `epoch-reconstructor.js`, `pnl-tracker.js`, `bot-recorder.js`, ... | caches of the chain's logs, figures derived from them | count deposits, scan, reconstruct, record, reload |
| **Prices**: `price-fetcher*.js`, `price-*.js`, `gecko-*.js` | caches, back-off per source | look up, pause, back off |
| **Gas monitor**, **Keys and unlocking**, **Notifications**, **Dashboard** | see `PROJECT.json` | |
| **HTTP server**: `src/server/*.js` | the routes; none of its own that matters here | the owner's requests |
| **Outside**: the chain, its endpoints' mempools, the aggregator, the wallet's owner | mined and pending transactions | mine, answer or not, send from elsewhere, ask, put coins in or take some out |

How they interact:

```
 owner --HTTP--> server --flags, kick--> bot loop of each position --poll-->
     gates (throttle, pool's cap) --> rebalance lock (one FIFO, one move at a time)
                   |
                   v
     executeRebalance / executeCompound: remove, collect, swap, mint
                   |                 |
                   |                 +--> swap routes: aggregator, chunks, router
                   v                               |
     sendTransaction (pipeline) <--- router's swap-+   (the aggregator's own
                   |                                    sends bypass it)
                   v
     RPC endpoints: one selection shared by every caller --> chain
 scans of the same position read the chain, and must not overlap a move;
     polls, moves and scans each count the owner's deposits, and save them
 a mint moves the position's key in every table of the registry
 Stop Managing, retirement and the held stop end a loop from outside it
```

The program is single-threaded JavaScript: no two callbacks overlap, but every
`await` is a point where any other callback may run. What is hard about it:

* **Lost replies.** A broadcast that arrived looks like one that did not.
  Nonces are counted before a broadcast; the pending count of an endpoint
  depends on what that endpoint has seen.
* **Competing transactions.** A move, its speed-up and its cancel are at one
  nonce and any of them may be mined, at any later time.
* **State read before an await and used after it.** Range, gates, caps and gas
  are decided before the wait for a lock that may last another position's whole
  rebalance; an endpoint's failure is reported to a selection that has moved
  since; the wallet is read before and after transactions while its owner moves
  coins.
* **Scans against moves.** Both are started from several places (timers, the
  owner, the end of a move), each after awaits, and both save what they found
  over what the other saved.
* **Keys that change.** A mint gives a position a new key in five tables, while
  requests, starts and stops hold the old one.
* **Ends.** A loop can be ended by Stop Managing, by retirement, by a delayed
  timer of a failed re-open and by the app's held stop, while a poll, a scan or
  a move of it is under way, queued or still starting.
* **Fallbacks.** One swap has three routes, and taking the next is right only
  when nothing of the last can be mined any more.
* **Books.** Gas is spent at every step and each may be the last; fees and
  deposits are told from other coins by differences of balances, and by a replay
  of what earlier moves took, of which a failed one leaves no record.

What makes each modelled component correct:

* *Pipeline*: an answer is true of the chain, for good; one move takes effect at
  most once; no transaction waits behind a nonce nobody uses; every call ends.
* *RPC endpoints*: no late report moves the list past an endpoint that has not
  failed; a pause holds the app at the last endpoint, and lets it go at the first.
* *Move control*: one move at a time and no lock held by nobody; no scan reads
  during a move; what waits is started; a running loop never goes quiet; a
  request is made in the end; an exit cuts off nothing.
* *Swap routes*: coins are swapped once, whatever is mined late; the answer is
  true; every transaction's gas is counted once.
* *Rebalance and compound steps*: wherever a move ends, its gas is in the
  records; no coin is booked as a fee that was not one; and the position's coins
  are told from the owner's deposits, whatever attempt took them out.
* *Throttle*: intervals and caps hold across waits, midnights, changed settings
  and crashes; no position is shut out for good.
* *Registry*: one loop to a pool; what runs is listed, under the key it has now;
  what was stopped stays off.
* *Deposits*: each counted once, by whoever finds it, and never lost.

`PROJECT.json` lists the hazards at their lines, each with the properties that
would catch it, or the reason none does.

## 2. Modules and plan

| Module | What it is |
|---|---|
| `TxPipeline` | one wallet transaction from `sendTransaction` to its answer, call after call, against a chain |
| `MoveOutcome` | the abstract specification of the above: what an answer promises |
| `RpcEndpoints` | the selection of an endpoint, shared by reads, broadcasts, estimates and the probe at startup |
| `MoveControl` | every position's loop, scans, requests, the lock, and the ways a loop ends |
| `SwapRoutes` | one `swapIfNeeded`, through all its routes, against a chain |
| `MoveSteps` | rebalances and compounds transaction by transaction, as one of the two coins sees them, with their books |
| `Throttle`, `RebalanceLimits` | the throttle as operators; the positions of a pool under their throttles and the pool's cap |
| `PositionRegistry` | the five tables of what is managed, through launches, requests, key changes and stops |
| `DepositCount` | the owner's deposits as polls, moves and the Lifetime scan count them |
| `MC*` | what TLC instantiates, one for each of the above but `MoveOutcome` and `Throttle` |
| `*Proofs` | theorems and proofs, likewise |

`TxPipeline` implements `MoveOutcome` by a refinement mapping (`Outcome`, at its
end), and `RebalanceLimits` is built on `Throttle`. The other modules meet at
seams, at which one takes as a choice what the other decides:

* `MoveControl` takes a whole move as one step under the lock with the outcomes
  `executeRebalance` can have; `MoveSteps` has the inside of that step.
* `MoveSteps` takes a swap as a step that mines some transactions and names
  them, which is `AnswerIsTrue` and `GasCounted` of `SwapRoutes`; and a
  transaction as one that confirms, reverts or stays unsettled, which is
  `MoveOutcome`.
* `SwapRoutes` takes a router transaction as one that is confirmed, reverted,
  cancelled, refused or given up.
* `TxPipeline` names no endpoint: each answer is one of some endpoint's, and
  `RpcEndpoints` says which.
* `RebalanceLimits`, `PositionRegistry` and `DepositCount` each cut a poll down
  to what moves their state; that the lock is one and first come, first served,
  that a stopped loop begins no move and that no scan starts during a move are
  `MoveControl`'s properties.

The plan, in order. All but item 9 is done.

1. `TxPipeline` with `MoveOutcome`: everything else rests on what a sent
   transaction's answer means.
2. `MoveControl`: when coins may move at all.
3. `SwapRoutes`: the one step of a move that has a protocol of its own.
4. `RpcEndpoints`: late reports against an endpoint no longer selected, the
   sticky window and the pause.
5. `MoveSteps`: what each step leaves behind when the next fails, and what the
   books make of it.
6. `Throttle`, `RebalanceLimits`: limits asked before a wait and counted after it.
7. `DepositCount`: three activities that save over one another.
8. `PositionRegistry`: five tables, and keys that change.
9. `MoveSteps` shown to implement the one-step move of `MoveControl`, and a
   server's pause and restart, which stops loops as the held stop does and
   starts them again.
10. Proofs of every safety property a run checks, and of the refinement of
    `MoveOutcome`.

## 3. From code to model

`PROJECT.json` maps every definition to its lines. What follows is how to read
the mapping.

### TxPipeline

| Variable | In the code |
|---|---|
| `base`, `delta` | `#noncePromise` and `#delta` of ethers' NonceManager inside `FailoverNonceManager`; `None` when no read is cached, `Rejected` when the cached promise is a rejection |
| `call`, `pc`, `job` | which `sendTransaction` runs, where it is awaiting, and whether a move, a speed-up or a cancel is being submitted |
| `attempt`, `recovered`, `rebound` | the counters of `_retrySendTimed`, and the one retry `FailoverNonceManager` makes after a failover |
| `cand`, `err` | the signed transaction, and the class of its refusal |
| `moves`, `cancels`, `deaf` | the transactions the four-phase wait races, and those whose wait fell back to polling one hash |
| `result` | how each call ended |
| `pool`, `mined`, `height` | external: what reached the network, what was mined, the wallet's nonce |

`SignMove` and `SignFails` are `FailoverNonceManager.sendTransaction` up to the
signature: `_sync` (`Synced`) may discard the cache, the base is read from some
endpoint's pending count, and `delta` is counted up before anything is sent.
`Accepted`, `AlreadyKnown`, `ReplyLost` and `Refused` are the broadcast's
outcomes. `FailOver`, `RetryTransient`, `RecoverNonceTooLow` and `GivesUp` are
the branches of the retry loop, and the action a `GivesUp` leads to depends on
the job: a move's error is thrown (`SendFails`), a speed-up's is swallowed
(`SpeedUpFails`), a cancel's either means the nonce is taken (`CancelRefused`)
or ends the call (`CancelFails`); a price that cannot be read ends either job
before it is submitted. `Receipt`, `SpeedUp`, `CancelNonce` and
`CancelReceipt` are `_waitOrSpeedUp` and `_cancelStuckNonce`, and `WaitErrors` a
wait that rejects with an error no class matches, which ends the call
("waitFailed") with its move still pending.

A transaction is its payload, nonce and gas price; the same three are the same
bytes and so the same hash, which is what "already known" turns on. Endpoints
are not named. Each answer is that of an endpoint holding some subset of the
pending transactions (`Stale`), and a timeout may fire whenever something is
awaited. Which endpoint is selected, backoff delays, gas estimation and the
lookup of fees are left out; a fee is a member of `GasLevels`.

### RpcEndpoints

| Variable | In the code |
|---|---|
| `list`, `gen` | `_urls`, and how often `setRpcUrls` rebuilt the providers |
| `sel` | `_activeIdx`, `_stickyUntilMs` and the request manager's hold, the last two as ticks left |
| `tally` | each endpoint's outcomes in the window of `rpc-out-of-service.js` |
| `call` | what each caller awaits, and the provider it chose before it did |
| `refused` | history: the places whose endpoint failed a request since the list last started over |

`Current` is `getCurrentRPC`, which every read of the selection runs;
`FailOver` is `failoverToNextRPC` with the read that follows it, and
`Exhausted` what it does at the last place. `Retries`, `Exhausts` and
`Rejected` are the ends of one attempt of `retryRead`; `BroadcastFails` and
`AgainFails` those of `FailoverNonceManager`'s send; the `Estimate` actions are
one place in the walk of `_estimateWithFailover`, and the `Startup` ones of
`ensureReachable`. `Release` is the queue letting a request go, in any order
and at any pace, but not while it is held.

### MoveControl

One record per position holds its bot state and its loop's local variables. A
step is what runs between two awaits, and the parts of a handler are functions
from the record it finds to the record it leaves, named for the code's own
units: `Triggered` (`claimScanStart`), `PollEnds` (the `finally` of `poll`),
`HeldPoll` (`checkZeroLiquidity`), `Failed` (`_handleError`), `Rebalanced`
(`_handleRebalanceSuccess`) and so on.

| Field | In the code |
|---|---|
| `loop` | whether the position has no loop, one whose first poll runs, one that runs, or one that is stopped (by Stop Managing or retirement: `removing`; by the held stop: `halted`); `disowned`: its record was removed while its first poll ran |
| `pc` | where its poll is; `guard`, `gas` and the steps before and under the lock are the window of `duringMoveInitiation` |
| `scan`, `scanWait`, `orphan` | `_scanRunning` and `_scanWaiting`; a pass left running by a loop that is gone |
| `timer` | a poll is scheduled |
| `force`, `forceC`, `cleanup` | `forceRebalance`, `forceCompound`, `residualCleanupInProgress` |
| `paused`, `midway`, `inProg` | `rebalancePaused`, `rebalanceFailedMidway`, `rebalanceInProgress` |
| `seen`, `drained`, `drain` | no liquidity as the last poll read it, as the chain has it, and the clock of the retirement |
| `used`, `rest` | `residualCleanupUsed`, `lastRebalanceAt` |
| `reopen` | the delayed retirement of a failed re-open is pending |
| `asked` | history only: a request that no move has begun for |

`queue` is `rebalance-lock.js`: its head holds the lock. `app` is
`app-phase.js`. A move is a step that takes the lock (`RebalanceStarts`,
`CompoundStarts`) and one that ends it (`RebalanceEnds`, `CompoundEnds`);
between them anything else may happen. Range, fees, price, throttle, cap, Guard
and gas are choices where their figures are data. A position keeps its name when
a rebalance mints a new NFT; the loss of what was asked during that rebalance,
which the migration of the key causes, is kept.

### SwapRoutes

`slots` is the sequence of nonces the swap has used, each with the coins its
transaction takes, what of it was mined so far, and whether a cancel competes
for it. `pc`, `mode`, `chunk`, `attempt` and `moved` are where `swapIfNeeded`
is; `held` and `hash` are what `_cancelNonce` hands to `settleNonce`: a receipt,
and the cancel's hash. The router's transaction may be cancelled as well, by the
pipeline (`RouterCancel`), whose error then names the cancel's gas
(`RouterSpent`). `gas` counts transactions, not amounts. Each action is
one awaited step of `_sendWithRetry` or of its error handler, and each way to
another route passes `NextRoute` or is barred by `NoFallback`.

`doubt` records history: the code has lost sight of a swap (`lost`), because a
send went out unnoticed, or because the check of its receipt failed with an
error no one recognises and the source decides to take it as failed; or it has
read a landed swap's delivery from an endpoint behind the chain (`stale`).
`NoDoubleSwap` and `AnswerIsTrue` say where they set such swaps aside.

### MoveSteps

`chain` is the wallet and the position in one of the two coins (the other is a
choice wherever it decides), with the balance before the last change, which is
what an endpoint behind may answer. `move` is the move under way: the step it is
at, the balances it has read, what its transaction took out or put in, and the
gas that each layer of the code would put on an error that leaves it now:
`paid` for the steps confirmed, `rounds` for the corrective swap, `approvals`,
and `tx` for a transaction confirmed whose result is still being read.
`unbooked` is the gas mined less the gas booked, so that `GasBooked` is that a
move never ends with any. `loose` is a transaction that a failed move left
unsettled and that may be mined during a later one.

`purse` is what the replay of `deposit-attribution.js` makes of the wallet:
`waiting`, the owner's deposits that no move has taken yet. A mint takes them all
(`took`, the code's `takenAt`), a compound its deposits' share of what it took
beyond its fees (`CompoundTakes`, `_compoundShare`), and a move of which no
record is written none until a scan lists it (`Unrecorded`). The replay itself is
not modelled coin by coin and block by block: `waiting` is its sum, in whole
coins. Beside it `out` is history, which no code has: how many of the wallet's
coins came out of the position, in whatever attempt, since it was last minted,
or `Unknown` once nobody could tell (`Told`).

Each action is one awaited step. `ReadLiquidity` to `RebalanceBooked` are
`executeRebalance` and the bookkeeping of `_handleRebalanceSuccess`, and
`ReadBeforeCollect` to `CompoundBooked` `executeCompound` and
`recordCompound`; `Swap`, `Approve` and the ways to fail are shared. A rebalance
of a position that holds no liquidity, because an earlier attempt drained it,
skips the drain (`ReadLiquidity`), and its first reading is the whole wallet.
`CollectedUnits`, `FeeCoinsAfterSwap`, `CompoundFeeUnits` and
`BeforeRebalance` are the code's own figures. `reported`, `known`, `astray` and
`came` record what a property needs to know of the readings: were receipts read,
was an endpoint behind, did coins leave or come in between. An approval that
stays unsettled is a failure like another, since it moves no coins.

### Throttle and RebalanceLimits

A throttle is a record, and each function of its handle an operator on it: `Ticked`,
`CanRebalance`, `Recorded`, `Configured`, `Rehydrated`. A time stamp is an age,
so that there is no horizon. `RebalanceLimits` has one throttle for each
position that is `Tracked`; an untracked one may pass or not as it likes, which
leaves room for any throttle it may have. `poolCount` is the pool's entry in
`_poolDailyCounts`, and `logged` the entries of the log it is seeded from after
a crash. A poll is cut at the moments the limits meet: the gates, the lock's
queue, the mint, the recording, the log. `today` and `since` are history, which
the properties are stated in.

### DepositCount

| Variable | In the code |
|---|---|
| `mem`, `life`, `fresh` | `lifetimeHodlAmounts` on the bot state, in the epoch cache, and in its fresh-deposit record |
| `overlay`, `seen` | `_depositOverlay` and `_depositWalletSeen` of the bot state |
| `loop` | the position's loop: a poll's count, or a move with its own |
| `scan` | the Lifetime scan, with what it has read |
| `chain`, `wallet` | external: blocks with deposits and mints, the wallet's coins |

A deposit is the block it lands in. `PollReads`, `PollCounted`, `PollPriced`
are a poll's count, `MoveBegins`, `MoveCounted`, `MovePriced` a move's, cut at
their awaits; `ScanStarts` to `ScanEnds` the scan. `CountFrom` is where a count
starts to read, `Added` the union that leaves out what is listed already, and
`WithLaterCounts` what the scan puts back of the counts saved while it ran.
`Reload` clears everything and starts a scan in the same step.

### PositionRegistry

| Variable | In the code |
|---|---|
| `mem`, `disk` | the status in each slot of `diskConfig.positions`, and in `bot-config.json` |
| `entries` | `_positions` of the position manager: the loop recorded under each key |
| `running` | the states in `_positionBotStates` that say they run, by the pool they are in |
| `claims` | `_starting`: the pool that each Manage under way has claimed |
| `asks` | Manage requests still in their gate, which reads the position's pool |
| `loops` | each loop: its step, its key (`keyRef.current`), the handler's `_prevStatus`, its handle and `_stopped` |
| `app` | the app's phase, and the positions the start-up has yet to start |
| `chain` | external: each NFT's pool, and which are open |

`ManagePasses`, `Register`, `Detect`, `StartEnds`, `StartFails` and
`StartDisowned` are `handleManage` with `startPosition` and `startBotLoop`, cut at
their awaits; `Unlock`, `ChoosePositions` and `NextToStart` the start-up.
`MoveRecorded` is the whole of `updatePositionState` after a mint, with its two
saves and both changes of key. `Saved` is the guard of `saveConfig`, which
refuses to write a list that has lost positions without a word.
`StopManagingEarly`, `StopManaging` and `StopEnds` are the routes' two ways to
end a loop. `Relaunch` is a crash at any step, or the end of the process. A
position's polls are cut down to what moves its key.

## 4. The runs

Twelve runs. Eleven pass, each a complete search of its instance. One checks
what a comment says, and ends in a counterexample; section 6 describes it.

| Run | Configuration, module | Instance |
|---|---|---|
| `tx_one_move` | `TxOneMove.cfg`, `MCTxPipeline` | one call, one retry, two prices, two lost replies, stale endpoints, mute waits, unrecognised errors |
| `tx_two_moves` | `TxTwoMoves.cfg`, `MCTxPipeline` | two calls, one retry, two prices, a crash, mute waits; every reply arrives |
| `tx_liveness` | `TxLiveness.cfg`, `MCTxPipeline` | one call under fairness, a lost reply, a foreign transaction, stale endpoints |
| `rpc_endpoints` | `RpcEndpoints.cfg`, `MCRpcEndpoints` | two endpoints and a list with a third, two callers of every kind but the plain read (a bounded one is served and retries as it does, and a broadcast may be rejected), two outcomes in a window, one change of the list (symmetric) |
| `move_one` | `MoveOne.cfg`, `MCMoveControl` | one position under fairness, closed at first, dry run or not, all outcomes, early stops, three requests |
| `move_two` | `MoveTwo.cfg`, `MCMoveControl` | two positions (symmetric), cleanups, two requests |
| `move_early` | `MoveEarly.cfg`, `MCMoveControl` | one position, early stops, one request |
| `swap_routes` | `SwapRoutes.cfg`, `MCSwapRoutes` | two chunks, two attempts, one unnoticed send |
| `move_steps` | `MoveSteps.cfg`, `MCMoveSteps` | three moves, one outside event, one corrective round, a wallet of one coin at first and two at most, endpoints behind |
| `rebalance_limits` | `RebalanceLimits.cfg`, `MCRebalanceLimits` | under fairness: two positions of a pool, one tracked, two intervals, a cap of two, days of three ticks, one request or crash |
| `deposit_count` | `DepositCount.cfg`, `MCDepositCount` | four blocks, two moves, two of reloads, crashes, withdrawals and failed reads |
| `registry` | `PositionRegistry.cfg`, `MCPositionRegistry` | two NFTs and one to be minted, two pools, two loops, one Manage in its gate, unreadable start-ups, any number of relaunches (symmetric); a failed rebalance leaves its NFT open, and any NFT may be closed at first |

What they show:

* **`tx_one_move`**: `ConfirmedMeansMoved`, `CancelledIsFinal`. Through lost
  replies, refusals, speed-ups, cancels and endpoints that know too little, a
  call that answers with a receipt made its move, and one that answers
  "cancelled" never can any more, as long as its copies share one nonce (that
  they may not is described in section 6). There is no foreign transaction in
  this run: with one, `ConfirmedMeansMoved` fails.
* **`tx_two_moves`**: `OneNoncePerMove`, `NoNonceGap`, and `KeepsPromise`, the
  refinement of `MoveOutcome`. Without a lost reply the pipeline puts a move at
  one nonce, leaves no gap when it is refused, and implements its abstract
  specification across two calls and a crash. The run has no fault but the
  crash; the proofs (section 5) say which of the faults each of the three can
  do without: `OneNoncePerMove` fails only with a lost reply, `NoNonceGap` only
  with an unrecognised error.
* **`tx_liveness`**: `EveryCallEnds`. The last phase has no clock, and still a
  call ends whichever of its copies, or a foreign transaction, takes the nonce.
* **`rpc_endpoints`**: `HeldAtTheLast`, `ListSpentByRefusals`. Two callers report
  endpoints that are no longer selected, walk the list while it moves, and see
  it replaced; still the list is spent only by endpoints that failed, and a
  hold and the sticky window end together.
* **`move_one`**: `NoMoveWhileScanRuns` (no scan of the loop reads the chain while
  a move is decided or made), `LoopAlive` (a running loop has a poll, a scan or
  a timer); and under fairness `RequestIsMade` (a request is begun, or turned
  down by a dry run, through failures, gates and scans) and `HeldStopExits`
  (the app's held stop comes to its exit). `RequestIsMade` is stated without
  residual cleanups: an armed one keeps a request behind the automatic gates
  (section 6).
* **`move_two`**: `LockAccounted`, `ExitIsClear`: two positions wait for one lock
  while either is removed or the app stops; the lock is held by none but its
  head, and the exit cuts off neither a move nor a scan. `WaitsOnlyForMoves` (a
  scan held back starts when the poll that clears the move ends) and
  `RequestHoldsScans` (a Rebalance Now keeps scans back), with cleanups.
* **`swap_routes`**: `NoDoubleSwap`, `AnswerIsTrue`, `GasCounted`: a transaction
  may be mined at any later step, and no route, attempt or chunk swaps coins
  that another has swapped, says what is not so, or loses or repeats a cost.
* **`move_steps`**: `GasBooked` (at whatever step a move ends, the records hold the
  gas of all it mined, once), `FeesNeverOver` and `FeesExact` (what a compound
  books as fees put back), `CoinsToldApart` (a rebalance's figure has every coin
  that came out of the position, in this attempt or in one that failed, and none
  of a deposit that still waits), while the owner moves coins, an earlier move's
  transaction is mined late, and an endpoint answers from before. The run has the
  case the last is for: a compound takes a deposit of the owner's into the
  position, a rebalance drains it and fails, and the next mints from a wallet
  that holds those coins beside whatever else it holds. The figure keeps them,
  since the replay counts the deposit as taken by the compound; a replay that
  overlooks the compound breaks the property.
* **`rebalance_limits`**: `PoolCapHolds` (positions that wait together pass the cap
  by no more than one each), `SpacedApart` (the interval holds from rebalance to
  rebalance, however long the wait for the lock), `WaitEnds` (every throttle
  lets its position go again).
* **`deposit_count`**: `CountedOnce`, `CoveredCounted`, `NeverLost`: polls, moves
  and scans find the same deposit in any order and save over each other, and it
  is counted once, where the results say they cover it, and stays counted.
* **`registry`**: `OneLoopPerPool`, `LiveIsListed`, `StoppedStaysOff`: no pool is
  traded by two loops, what runs is recorded and saved under the key it has
  now, and what was stopped does not come back.

**Bounds.** All are constants. `RetryMax` is 1 where the code's default is 3:
the loop's body is the same at each attempt, and 1 has both a retry and a last
attempt. Two prices give a speed-up at a risen and at an unchanged fee.
Two lost replies let both the move and its speed-up go unheard in one call.
`Calls = 2` lets what one call leaves in the NonceManager and the mempool meet
the next. One position shows everything but the lock; two show the lock, since
it is first come, first served and a third only lengthens the queue (the proofs
have any number). Requests are bounded per run; three let the owner ask, ask
again during what follows and stop. Two chunks are a first and a last (the code
has three), two attempts a repeated and a last (the code has four). Two
endpoints are a first and a last, and the proofs have any number; two outcomes
in a window make rates of nothing, half and all against a threshold of half.
Three moves let what one leaves be met by the next, of either kind, and a
compound, a failed rebalance and its retry follow each other; the one corrective
round may go on or be left out, and the one outside event is a deposit, a
withdrawal or a fee between any two steps. The proofs have any number of each. A day of three ticks with
intervals of one and two has waits that end before midnight and after it, and a
cap of two is reached. Four blocks give a deposit before, between and after two
mints, and one beside a mint. Three NFTs in two pools have a conflict, a
position beside it and a key that changes; two loops a conflict of any two. The
counters `lost`, `foreign`, `crashes`, `requests`, `events`, `moves` bound faults
and inputs and nothing else. The theorems drop all these bounds.

Deadlock is not checked: an instance stops when its calls are made and its
faults spent, when the app has exited, or when the swap is done.

**Fairness.** `TxPipeline`: weak fairness of `Submit \/ Await` (a promise the
event loop awaits settles, and a phase's clock runs out) and of `Mine` (the
chain takes something at the wallet's next nonce while there is something). None
is assumed of faults, or of a new call. In `tx_liveness` waits are answered
(`Mute = FALSE`): a wait that hears of no replacement does not end, see
section 6. `MoveControl`: weak fairness of timers (`Tick`), of a poll's next
step (`PollStep`), of a scan's end (`ScanRead`), of a removal's wait
(`RemovalEnds`) and of `Exit`, all awaited by the event loop: ethers ends a
request that is not answered, a failed read ends the poll, and a move ends
because each of its calls does (`EveryCallEnds`). Strong fairness of `ReadOk` and
`GasOk` only: each poll asks the chain anew, and a request is made in the end
only if the chain can be read, and its gas is low enough, again and again. No
fairness makes the owner ask or a rebalance succeed. `RebalanceLimits`: weak
fairness of the clock, of polls (a timer starts one, and it ends or passes its
gates) and of a move's steps; strong fairness of `Starts`, because the lock is
first come, first served and every holder lets it go, which `MoveControl` and
its `LockAccounted` show. None of crashes, requests or scans.

## 5. Proofs

All proofs are checked to the leaf by SMT, Zenon and, for temporal steps, LS4,
from the constants' assumptions alone (the named `ASSUME` of each module)
except where a theorem states its own.

**TxPipelineProofs.** `TypeCorrect`, `CancelledCorrect`, `ConfirmedCorrect`,
`OneNonceCorrect`, `NotMovedCorrect`, `NoGapCorrect`, `EveryReceiptCorrect`,
`PromiseKept`.
`CancelledIsFinal` is not inductive: that a mined cancel shuts the move's
copies out needs that the cancel was at the move's nonce, which needs that
whatever a call waits on is at one nonce and its own. `IInv` is the conjunction
of `TypeOK`, `CallInv` (where a call is and what job it has), `HeldInv` (the
copies it holds are its own, at one nonce, and reached the network), `CandInv`
(the transaction in hand fits its job), `ChainInv` (the chain takes each nonce
once, and only what reached the network) and `CancelInv` (a cancelled call's
move has a copy at a nonce a cancel took). There is one lemma per conjunct, and
one step per action in it. `ConfirmedCorrect` assumes one call and no foreign
transaction, as its run does, and adds `OneCallInv`: only the move and its
cancel ever reach the network, and the cancel only in the last phase. Lost
replies, stale endpoints, mute waits and crashes are unbounded in it.

What the pipeline needs of the network for the rest is in the theorems'
hypotheses, each a choice of the constants that says which fault is absent;
calls, retries, crashes and gas prices are unbounded in all of them.

| Theorem | Assumes | What may still happen |
|---|---|---|
| `OneNonceCorrect`, `NotMovedCorrect` | every reply to a broadcast arrives (`MaxLost = 0`) | stale endpoints, foreign transactions, unrecognised errors, mute waits, crashes |
| `NoGapCorrect` | every refusal is recognised (`Unrecognised = FALSE`) | lost replies, stale endpoints, foreign transactions, mute waits, crashes |
| `EveryReceiptCorrect` | `InTouch`: the same, endpoints that hold what is pending (`Stale = FALSE`), and no transaction from outside the bot (`MaxForeign = 0`) | lost replies, mute waits, crashes |
| `PromiseKept` | `Reliable`: both | mute waits, crashes, every refusal the code knows, transient failures |

`OneNonceCorrect` adds `CopiesInv`: of the call under way, all that reached the
network is in what its wait holds, so that `HeldInv`'s one nonce is the move's.
From that follows what every answer but a receipt promises (`NotMovedCorrect`):
after "reverted", "cancelled", "taken" or "sendFailed" the move has not taken
effect, and no copy of it is left that could. `TakenMeansNotMoved` is part of
it, and `CancelledIsFinal` without its proviso.

`NoGapCorrect` is about the NonceManager, which knows the
chain only by one endpoint's answer. `NextNonceInv` says that every nonce below
the next one to be signed is held by some transaction or mined, with the nonce
given to the move in hand as the one exception; `RefusedInv` says of that
exception what a refusal proves: "nonce too low" that it is mined, "replacement
underpriced" that another holds it, and all else leaves no count to go on from.
The hypothesis is needed there and nowhere else in the proof.

`EveryReceiptCorrect` rests on the gap's absence: the first nonce no pending
transaction holds is then above all that are held, so that the next nonce
signed is one nothing waits at (`FreshInv`), and a call has its nonce to itself
until its cancel goes out (`OwnInv`). `ConfirmedCorrect` has one call, but
endpoints that may be stale.

`PromiseKept` is the refinement, `Spec => KeepsPromise`: an initial state maps to
one of `MoveOutcome`, and each step to a step of it or to none (`BeginRefines`,
`MineRefines`, `EndRefines`). It takes all of these together, and `ResultInv`:
every settled call's copies are below the wallet's nonce, so that the move
cannot take effect once more. Section 6 has what happens to each theorem without
its hypothesis.

**RpcEndpointsProofs.** `TypeCorrect`, `HeldAtTheLastCorrect`,
`ListSpentCorrect`, for any lists, callers, windows and pause, assuming
`MidRun = FALSE`: the list is not replaced, and startup's probe does not run,
while a walk of it is under way (section 6 says what happens otherwise). The
step from "this endpoint failed" to "every endpoint has" is `PassedRefused`: all
places before the selected one have failed a request. It is kept by a
failover because only the endpoint selected now is left, and by a walk because
of `WalkOK`: what a walk has gone past, it has found failing. `HeldOK` needs
`HeldStill`, that after a change of the list during a hold nothing asked of the
new list is on its way, since only an answer could move the selection.

**MoveControlProofs.** `TypeCorrect`, `LockCorrect`, `ScansCorrect`,
`WaitsCorrect`, `LoopAliveCorrect`, `RequestHoldsCorrect`, `ExitCorrect`,
`GatesCorrect`, for any set of positions and any number of requests. The
invariant `Inv` has a half per record and a half for the lock. `Sound(r)` is
what holds of a position between two steps and `Settled(r)` the part of it that
holds even in the middle of a handler: no scan runs that a waiting move should
hold back, a scan waits only while none runs. Since the parts of a handler are
functions of the record, each has one lemma, and the order of these lemmas is
the order in which the code composes them. `LockMoves` is what a step does to
the queue: nothing, join it, or leave it as its head; `GoodKeepsInv` carries
`Queued` (the queue is the positions under the lock, each once) over any such
step. `GatesCorrect` (a Rebalance Now passes the automatic gates,
`RebalanceNowPassesGates`) is an action property that no run states: it follows
from the invariant and what a step can do to a record whose poll is about to
check its range. `ExitCorrect` assumes that Stop Managing reaches no position
that is still starting; section 6 says why.

**SwapRoutesProofs.** `TypeCorrect`, `NoDoubleSwapCorrect`, `AnswerCorrect`,
`GasCountedCorrect`, for any number of chunks, attempts and unnoticed sends. A
slot is `Old` when nothing the swap waits on is behind it: what it sent is
mined, or lost from sight, and if it swapped, it swapped a chunk before the one
under way. Between attempts every slot is `Old` (`AllOld`); while one is awaited
all but the last are (`LastNew`), and the last has exactly the attempt's coins.
That a route is taken only where all slots are old is what `NoDoubleSwap` rests
on, and neither it nor `AnswerIsTrue` says anything of it, so both need the
strengthening. `Covers` says the chunks before the current one are done, which
gives the full answer its truth, and `Rested` that nothing is open when it is
given.

`GasCounted` looks at the end only; `GasInv` says at every step that the number
of transactions mined in sight is the count kept so far, and one more while a
transaction is awaited that has been mined but not noticed (`Owed`). The lemmas
`PaidAppend`, `PaidMined`, `PaidLost` and `PaidSame` say what each change of a
slot does to that number, by the cardinality theorems of the library.

**MoveStepsProofs.** `TypeCorrect`, `GasBookedCorrect`, `FeesNeverOverCorrect`,
`FeesExactCorrect`, `CoinsToldApartCorrect`, for any number of moves, coins, rounds
and transactions of a swap, endpoints behind or not. For the gas, `GasInv` is
that what the records lack is what the layers under way would put on an error
(`Carried`); its step lemmas show each layer hands on exactly what it paid.
For the coins, `Accounts` says of a compound that its fee coins are no more than
its own transactions moved (`CappedCoins`) and, when no reading was astray, how
its readings and the wallet differ by what came in (`RisenCoins`); of a
rebalance, that the wallet holds at least what was drained and was read before
(`DrainedCoins`). `CoinsToldApart` speaks of the figure at its end only;
`PurseInv` is what carries it there over moves. Between moves the wallet holds
the deposits that wait and the coins that came out, apart from each other
(`PurseFits`). A compound leaves them so because the share of the deposits it is
said to have taken is no more than what it took of the wallet and no less than
what the wallet cannot hold any longer: `TakesShare`, the one place with a
product, a division and a rounding, is a lemma of its own about that share, and
`DepositFits` says what a compound about to send its deposit still has. Within
a rebalance `FigureFits` keeps the wallet's readings and the purse together until
the mint, which takes all that waits; a drain of an earlier attempt is in `out`
already, and a drain of this one is added to both.

**RebalanceLimitsProofs.** `TypeCorrect`, `PoolCapCorrect`, `SpacedCorrect`, for
any finite set of positions, caps, days and bounds. `CapInv` counts positions in
three sets: admitted past the cap's check and not minted, minted and not
counted, counted and not logged. `SpaceInv` says that a throttle is no further
from the last rebalance than the chain, and that what passed the gates has
waited long enough already; the wait for the lock only adds to it.
`SpacedCorrect` assumes that no two intervals the owner sets differ by more than
a factor of two, so that a doubled wait outlasts each (`WaitInv`).

**DepositCountProofs.** `TypeCorrect`, `CountedOnceCorrect`, `CoveredCorrect`,
`NeverLostCorrect`, for any number of blocks, moves and events. `RecordsOK`:
memory and both records of the cache list the same deposits, each once and none
after what they cover. `PollOK`: a poll's count under way reads past everything
listed, and what it starts from is what polls had found. `MoveOK`: a move's
count leaves out only what is listed. `ScanOK`: a scan starts from deposits the
record lists. That these hold at once, through every pair of activities that
can overlap, is what each of the three properties needs.

**PositionRegistryProofs.** `TypeCorrect`, `OneLoopPerPoolCorrect`,
`LiveIsListedCorrect`, `StoppedStaysOffCorrect`, for any number of NFTs, pools,
loops and requests, and whether or not a failed rebalance may have drained its
NFT (`Drains`). Each assumes what it needs and no more (section 6 says what the
two constants rule out). `TypeCorrect` assumes nothing: it has an invariant of
its own, `TInv`, which adds that a loop has a key whenever one of its steps
writes a table under it. `OneLoopPerPoolCorrect` assumes finitely many NFTs and
`Overtaken = FALSE`. The other two also assume `LateRecords = FALSE`. Six facts
carry the invariant. `KeysOK`: no two loops have one key, and the key a move
takes is fresh (`MintOK`, `MintedOK`), so that the tables, which are by key, can
tell loops apart. `TablesOK`: the pool rule sees every loop that may move, by
its claim while it starts and by its state once it runs, so that a gate that
finds no conflict is right in the step that makes the claim. These are about
loops, records, states and claims, whatever the settings hold: hence they do
without the second assumption. `SlotsOK`: the file lists no position that memory
does not, so that the guard of `saveConfig` never refuses a save. `HistoryOK`: a
key that a stopped position once had is off the list, or another loop's by now.
Lemmas say what the handlers have in common: a loop that leaves (`LoopLeaves`),
is taken away or halts, a save (`SavedEach`, `SavedAll`), a change of key
(`RekeyedFacts`).

**Left to model checking.** Liveness (`EveryCallEnds`, `RequestIsMade`,
`HeldStopExits`, `WaitEnds`), which is out of this prover's reach under fairness.
Every safety property of a passing run, and the refinement, is a theorem.

## 6. Divergences

Shown by a run, and listed with its lines in `PROJECT.json`:

* `move_early` (`NoMoveUnmanaged`): Stop Managing during a position's first poll
  removes its record and not its loop, and that poll may begin a rebalance
  (`position-manager.js:297`, against `bot-cycle.js:108`).

Each of these has its property in the module and is found by TLC in the instance
given, but takes no run:

* `TakenMeansNotMoved` (`TxPipeline`; one call, one retry, `GasLevels = {2}`, one
  lost reply, no other fault): a move's own speed-up, whose broadcast arrived
  although its reply was lost, is mined during the cancel's wait and reported as
  "taken by another transaction", that is, as a move that did not happen
  (`tx-speedup.js:504`).
* `OneNoncePerMove` (the same instance): a move whose reply was lost is signed
  again, at the next pending nonce, and both may be mined
  (`nonce-manager-wrapper.js:247`, against `docs/security.md:844`).
* `ReopenTimerCutsNoMove` (`MoveControl`; one position, closed,
  `Failures = {"failed"}`, one request): the delayed retirement of a failed
  re-open fires while the owner's retry is being decided or made, because the
  retry has taken down the flag the timer asks for (`bot-loop.js:403`).
* `RouterTakesWhatIsLeft` (`SwapRoutes`; two chunks, two attempts,
  `MaxLost = 0`): a chunk whose delivery was read from an endpoint behind the
  chain counts as nothing moved, and a later failure hands the whole amount to
  the router (`rebalancer-swap.js:488`).
* `TypeOK` (`RpcEndpoints`; `MidRun = TRUE`): a walk that answers after the list
  was replaced commits the place it had in the old list, which the new one may
  not have (`send-transaction.js:670`, against the comment at 126, which makes
  the replacement the operator's exception to a list that does not change);
  `ensureReachable` commits the place it found without asking whether the
  selection moved meanwhile (`send-transaction.js:301`, where 670 asks).
* `SpacedApart` (`RebalanceLimits`; `Intervals = {1, 3}`): a doubled wait outlives
  a change of the interval, and a doubled short interval is shorter than a long
  one (`throttle.js:195`, `throttle.js:261`, against `throttle.js:8`).
* `OneLoopPerPool`, `LiveIsListed` (`PositionRegistry`; `Overtaken = TRUE`): of two
  Manage requests for one NFT, both may be in the gate, which reads the pool,
  before either has claimed it: the second does not count the first as a
  conflict, being of the same key, and its end takes the first one's claim or
  slot with it. The same befalls a Manage of an NFT just minted, whose key the
  rebalance is about to take (`server-positions.js:472`,
  `pool-already-managed.js:84`; `pool-already-managed.js:375`: "one winner rather
  than two").
* `LiveIsListed`, `StoppedStaysOff` (`PositionRegistry`; `LateRecords = TRUE`):
  the scan of a start that was taken off the list may save a record after the
  start has failed, which writes "running" to a slot that is deleted later; the
  guard of `saveConfig` then refuses each save that lowers the list
  (`bot-config-v2.js:308`). `OneLoopPerPool` holds all the same, and its theorem
  does without the assumption.

Met while modelling, each kept in the model as the code has it where it is
within its scope. In the pipeline, the endpoints and the swaps:

* An unrecognised error leaves the NonceManager as it is (`tx-retry.js:265`);
  `rpc-error-classifier.js:25` calls this the safe default. With a broadcast
  that never arrived, the nonce it counted is never used, and what follows waits
  behind the gap. `NoNonceGap` is checked with `Unrecognised = FALSE`.
* A receipt that took a transaction's nonce is returned as the move's, whoever
  sent it (`tx-speedup.js:139`); `docs/security.md:795` promises that a foreign
  one fails the move. That is so only once the cancel is out. Hence no foreign
  transaction where `ConfirmedMeansMoved` is checked. The same befalls a call
  after one that left its move unsettled, if it reads its nonce from an endpoint
  that does not hold that move: the receipt it then answers with is the earlier
  move's. Hence `Stale = FALSE` in `EveryReceiptCorrect`.
* A wait whose endpoint stopped answering polls for its own hash, and hears of
  no replacement; if a speed-up nobody remembers is what mines, the last phase
  has no clock to end it (`tx-speedup.js:483`). Hence `Mute = FALSE` where
  `EveryCallEnds` is checked.
* One failure of an endpoint that was not asked of late is a rate of a hundred
  per cent, and moves the selection; `docs/configuration.md:637` says that "a
  single 502 therefore costs nothing".
* A gas estimate that reverts on one endpoint and succeeds on the next moves the
  selection, with no failure noted against the one it leaves.
* A list replaced during a pause is held until the pause ends, though none of
  its endpoints has failed; hence the second half of `HeldAtTheLast`.
* The retry of a request that was answered 429, and the wait before it, do not
  pass the queue again (`bot-provider.js:173`), so a request already sent goes
  out during a pause; `rpc-request-manager.js:66` calls the halt absolute.
* A swap refused as unused after an earlier attempt went out unnoticed is thrown
  unflagged (`rebalancer-aggregator.js:458`), and a check that fails with an
  unrecognised error is taken as a failed swap by a decision the source records
  (`rebalancer-aggregator.js:618`): in both the router may follow a swap that
  was mined. The swap properties set these aside (`doubt = "lost"`).

* A wait for a receipt that rejects with an unrecognised error ends the call with
  its move pending (`send-transaction.js:827`), though "an endpoint refusing to
  answer is never the move's failure" (line 801). `MoveOutcome` has the answer,
  "waitFailed", among those after which a move may still take effect.

In the control of moves:

* A mint that fails after the drain is told from other failures by the
  liquidity in memory, which only the next poll writes. The failure that
  drained the position is therefore not marked for its automatic retry, and the
  position is held as a closed one (`bot-loop.js:346`, against
  `docs/engineering.md:680`).
* `scan-state.js:79` says `rebalanceInProgress` goes up only under the lock; a
  Rebalance Now raises it at the request (`server.js:589`), and a dry run does
  not take it down, so that a closed position's drain clock stops.
* A Rebalance Now made while a rebalance of the same position executes is
  cleared when the new NFT's key is taken (`server-positions.js:229`).
* A Rebalance Now made while a residual cleanup is armed is taken for the
  cleanup's own, and held to the automatic gates, which `bot-cycle-gates.js:9`
  says it passes (`bot-cycle.js:531`); after a stop for a moved price the
  cleanup stays armed. `RequestHoldsScans`, `RebalanceNowPassesGates` and the run
  of `RequestIsMade` set this case aside.
* Removing a position leaves its scan running with no mark
  (`server-stop-managing.js:73`), so a position managed again may move while it
  reads (`scan-state.js:19`); it is `orphan` in the model, and
  `NoMoveWhileScanRuns` is of the loop's own scans.
* A lifetime view may start a scan of a loop that is stopped, while the held
  stop waits for the scans (`server-routes.js:328`, against
  `stop-when-all-clear.js:9`: "nothing new begins").
* A position whose record an early Stop Managing removed is not waited for by
  the held stop, which may exit in the middle of its move
  (`position-manager.js:320`, against `README.md:232`). Hence `StopEarly = FALSE`
  where `ExitIsClear` is checked and proved.
* A loop's own poll timer is cancelled by a scan and set again only by the poll
  in which the scan ends (`bot-loop-scheduler.js:69`); the first scan starts
  and then a timer is set beside it (`bot-loop.js:753`). The model has both, and
  `LoopAlive` shows that no order of them leaves a loop quiet.
* A dry run sends compounds (`bot-cycle-compound.js:521`);
  `docs/configuration.md:300` says it sends no transaction. In the model, as in
  the code, only a rebalance is turned down.
* A rebalance made by a residual cleanup restarts the clock of the next cleanup
  (`bot-recorder.js:561`); `bot-cycle-residual.js:220` says it does not.

In the limits:

* The pool's cap is asked before the wait for the lock and raised after the
  rebalance (`position-manager.js:152`), so that positions that wait together
  pass it together; `docs/configuration.md:294` has a daily cap per pool.
  `PoolCapHolds` says by how much.
* A crash between a mint and the log loses that rebalance from the count the
  restart is seeded with (`server.js:205`); `PoolCapHolds` allows for it.
* A throttle forgets its waits when the process ends, and a count of the day
  taken from a history scan may be lower than the throttle's own
  (`throttle.js`, `rehydrate`). Midnight between a poll's tick and its record
  loses the rebalance from the new day or the old. `SpacedApart` is of one
  process, and `since` starts over with each.

In the books:

* Gas is lost from the records when the app crashes, when the bookkeeping after
  a move throws (`bot-cycle.js:299`), and when a transaction mines after its move
  gave it up. `GasBooked` sets these aside, by `Cut` and `LooseMines`.
* A compound that sweeps residual coins does not lower what the residual tracker
  holds; `compounder.js:208` says the accounting corrects itself.
* A deposit of the owner between a rebalance's readings of the wallet counts as
  coins the drain brought; and a mint takes all of the wallet's coins, those of
  another drained position included.
* A retry that finds the position drained already has the whole wallet for its
  reading before the drain (`rebalancer-execute.js:46`), so that the cap on the
  deposit set aside (`rebalance-activity-figures.js:295`), which is there to leave
  the position's own coins alone (line 49), caps nothing. What it sets aside is
  then right only as far as the deposits it is told of are. Coins of the position
  are set aside as the owner's when
  - a deposit left the wallet without a move, by the owner's hand or in a failed
    attempt's swaps, and is said to wait still;
  - coins arrive between that attempt's first reading and its mint;
  - coins left the wallet during a compound, or a deposit came during a compound
    into a wallet that held none of the coin before: its share of what the
    compound took is then taken to be nothing (`deposit-attribution.js:139`);
  - a compound or a mint took deposits and is in no record;
  - the states of the wallet's positions are not at hand, or the position is not
    among them, and the deposits counted since the last mint stand in for what
    the rebalance took (`countedCoinsAfter`), those a compound took included.

  `CoinsToldApart` says what is left: it sets aside the first four by `out =
  Unknown`, where only what this attempt drained is claimed. The fifth is not in
  the model, since every position that is managed has those states
  (`server-positions.js:264`). A share is a fraction in the code and a whole
  number of coins, rounded down, in the model, where it is never more than the
  code's. Other positions of the wallet, which take of the same deposits, are
  not in the model either.
* A mint that mines after its call ended unsettled is an NFT that no position
  takes.
* A move's count of deposits drops what polls found, though after a failed
  rebalance with a mint it begins at the new mint (`deposit-count.js:156`): a
  deposit below is missing from the figures until the scan, which `NeverLost`
  allows for.
* A poll's count that straddles Reload and the whole scan after it can leave a
  deposit out until the next move counts; so can a deposit that a withdrawal
  hides between two polls. `CoveredCounted` claims neither.

In the registry:

* A start that fails restores the status its position had when it was asked for
  (`server-positions.js:629`); a position managed and then stopped during its
  first check can come back as "running". `StoppedStaysOff` is of positions
  stopped once they had started.
* Stop Managing frees a pool before the poll under way has ended, and one that
  reaches a Manage during its wait for the signer is overwritten when that
  start is recorded.
* A crash between a mint and the change of key leaves the new NFT unmanaged; the
  next launch finds the old one, closed (`server-positions.js:225`).
* The timer of a failed re-open may retire a loop in the middle of its poll or
  its move (`bot-loop.js:403`). `MoveControl` has that; in `PositionRegistry` a
  loop retires at a poll's end or between polls.
* `saveConfig` also refuses to write settings without any slot over a file with
  some (`bot-config-v2.js:337`), which only the roll-back of a failed start in
  otherwise empty settings can ask of it. `Saved` leaves that guard out: such a
  file lists no managed position (one that did is kept by the other guard), and
  would keep a slot that none of the properties asks about.

## 7. Not modelled

* *The server's pause with its restart*: it stops loops as the held stop does,
  and starts them again; planned.
* *History and P&L* other than deposits, *Prices*, range and impact arithmetic:
  functions over data with large domains and no interleaving of their own; when
  a scan may run is in `MoveControl`. The scan that reads a past compound's
  fees off the chain is of this kind.
* *Settings' values*, the import of another wallet (which stops every loop but
  one whose start begins meanwhile, and forgets the signer), and the clean-up of
  old files. Which positions are
  listed is in `PositionRegistry`.
* *The pacing of requests*, the sharing of one read between callers, and
  backoff delays: the models let requests go in any order and at any pace.
* *Approvals*, but for their gas: transactions of the pipeline that move no
  coins.
* *Gas monitor, Notifications*: nothing a move depends on reads or awaits them.
* *Keys, HTTP plumbing, the dashboard*: cryptography, file and network I/O and
  presentation. The routes by which the owner acts are actions of `MoveControl`,
  `PositionRegistry` and `DepositCount`.
* *Crashes in `MoveControl` and `SwapRoutes`*: in-memory state is gone and the
  chain stays; what is kept on disk is `PositionRegistry`'s. A crash during one
  transaction is in `TxPipeline`, during a move's steps in `MoveSteps`.
* In `PositionRegistry` the start-up reads the chain in one step, and retired
  keys, the purge of phantom positions and the records file are left out. In
  `DepositCount` a log read from an endpoint that is behind, which the code
  takes as empty, is left out.

Most of the repository's lines are the dashboard, price services, figures
derived from logs, and I/O: what is modelled is the part in which the order of
events decides the outcome.
