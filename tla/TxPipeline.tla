------------------------------ MODULE TxPipeline ------------------------------
(*****************************************************************************)
(* How one wallet transaction of a move is sent and settled: sendTransaction *)
(* (src/lib/send-transaction.js) with its retry loop (tx-retry.js), the      *)
(* failover-aware NonceManager under it (nonce-manager-wrapper.js), and the  *)
(* four-phase wait that speeds the transaction up and then cancels its nonce *)
(* (tx-speedup.js).  The holder of the rebalance lock makes Calls such calls,*)
(* one after another.                                                        *)
(*                                                                           *)
(* Abstractions.  A transaction is its payload, its nonce and its gas price; *)
(* two with the same three are the same bytes, hence the same hash.  The     *)
(* endpoints are not named: every answer comes from SOME endpoint, which     *)
(* holds any subset of the pending transactions when Stale, and all of them  *)
(* otherwise.  Time is not modelled: a phase may time out whenever it waits. *)
(* Backoff sleeps, gas estimates and log lines change nothing modelled here. *)
(*****************************************************************************)
EXTENDS Integers, FiniteSets

CONSTANTS
    Calls,         \* transactions the lock holder sends, one after another
    RetryMax,      \* config tx.sendRetries
    GasLevels,     \* network gas prices the fee reads can return
    MaxLost,       \* bound: accepted broadcasts whose reply is lost
    MaxForeign,    \* bound: transactions sent from the wallet outside the bot
    MaxCrash,      \* bound: times the process stops during a call
    Stale,         \* may an endpoint not know a pending transaction?
    Mute,          \* may an endpoint stop answering a receipt wait?
    Unrecognised   \* may an error match no class of the classifier?

ASSUME ConstantsAssumption ==
    /\ Calls \in Nat \ {0} /\ RetryMax \in Nat
    /\ MaxLost \in Nat /\ MaxForeign \in Nat /\ MaxCrash \in Nat
    /\ GasLevels \subseteq Nat \ {0} /\ GasLevels # {}
    /\ {Stale, Mute, Unrecognised} \subseteq BOOLEAN

Cancel  == 0                       \* payload of the zero-value self-transfer
Foreign == -1                      \* payload of a transaction the bot never sent
Moves   == 1 .. Calls              \* payload of each call's move
Tx      == [pay : Moves \cup {Cancel, Foreign}, nonce : Nat, gas : Nat]

None     == -1                     \* NonceManager: no base nonce cached
Rejected == -2                     \* NonceManager: the cached read is a rejection

VARIABLES
    pool,      \* every transaction that ever reached the network
    mined,     \* the wallet's mined transactions, with their receipt status
    height,    \* the wallet's nonce on chain: the next one to be mined
    base,      \* NonceManager #noncePromise
    delta,     \* NonceManager #delta
    call,      \* the call in progress, or the last one made
    pc,        \* where that call is
    job,       \* what is being submitted: "move", "speedup" or "cancel"
    attempt,   \* _retrySendTimed attempt
    recovered, \* _retrySendTimed recoveryUsed
    rebound,   \* FailoverNonceManager is on its one retry after a failover
    cand,      \* the signed transaction in hand
    err,       \* the classified error in hand
    moves,     \* the move's transactions being waited on: original, speed-up
    cancels,   \* the cancel being waited on, if any
    deaf,      \* waits that fell back to polling their own hash
    result,    \* how each call ended
    lost, foreign, crashes   \* uses of the bounded faults

chain    == <<mined, height>>
nonceMgr == <<base, delta>>
loop     == <<attempt, recovered, rebound>>
waiting  == <<moves, cancels, deaf>>
faults   == <<lost, foreign, crashes>>
vars     == <<pool, chain, nonceMgr, call, pc, job, loop, cand, err, waiting,
              result, faults>>

Waits    == {"wait1", "wait3", "wait4"}
Errors   == {"none", "transient", "unused", "tooLow", "underpriced", "unknown"}
Outcomes == {"confirmed", "reverted", "cancelled", "taken", "sendFailed",
             "cancelFailed", "waitFailed", "crashed"}

NoTx == [pay |-> Cancel, nonce |-> 0, gas |-> 0]

-----------------------------------------------------------------------------
(* What the chain and its endpoints hold. *)

Pending == {t \in pool : t.nonce >= height}
Views   == IF Stale THEN SUBSET Pending ELSE {Pending}

\* The transaction count at "pending" of an endpoint that holds view, as the
\* set of that one number: one past the unbroken run of nonces from the
\* chain's own.
PendingCounts(view) ==
    {n \in {height} \cup {t.nonce + 1 : t \in view} :
        /\ \A k \in height .. n - 1 : \E t \in view : t.nonce = k
        /\ \A t \in view : t.nonce # n}

\* What an endpoint holding view answers to the broadcast of t.
Answer(t, view) ==
    IF t.nonce < height THEN "tooLow"
    ELSE IF t \in view THEN "known"
    ELSE IF \E u \in view : u.nonce = t.nonce /\ t.gas <= u.gas
         THEN "underpriced"
    ELSE "accepted"

Higher(a, b) == IF a > b THEN a ELSE b

\* chains.json: speedUpGasBump 1.5, cancelGasBump 2.
BumpedGas(pay, g) == IF pay = Cancel THEN 2 * g ELSE (3 * g + 1) \div 2

-----------------------------------------------------------------------------
Init ==
    /\ pool = {} /\ mined = {} /\ height = 0
    /\ base = None /\ delta = 0
    /\ call = 0 /\ pc = "idle" /\ job = "move"
    /\ attempt = 0 /\ recovered = FALSE /\ rebound = FALSE
    /\ cand = NoTx /\ err = "none"
    /\ moves = {} /\ cancels = {} /\ deaf = {}
    /\ result = [c \in Moves |-> "none"]
    /\ lost = 0 /\ foreign = 0 /\ crashes = 0

ResetNonce == base' = None /\ delta' = 0

FreshLoop ==
    /\ attempt' = 0 /\ recovered' = FALSE /\ rebound' = FALSE /\ err' = "none"

\* The call ends, and the lock holder is free to make its next one.
Finish(outcome) ==
    /\ pc' = "idle" /\ result' = [result EXCEPT ![call] = outcome]
    /\ job' = "move" /\ cand' = NoTx /\ FreshLoop
    /\ moves' = {} /\ cancels' = {} /\ deaf' = {}
    /\ UNCHANGED call

\* A call of sendTransaction begins: its request is populated.
Begin ==
    /\ pc = "idle" /\ call < Calls
    /\ call' = call + 1 /\ pc' = "sign"
    /\ UNCHANGED <<pool, chain, nonceMgr, job, loop, cand, err, waiting,
                   result, faults>>

-----------------------------------------------------------------------------
(* FailoverNonceManager.sendTransaction: nonce, signature, broadcast. *)

\* The base nonce and delta this send works from.  _sync discards both when
\* the selected endpoint is no longer the one they were read from.
Synced(b, d) == \/ b = base /\ d = delta
                \/ b = None /\ d = 0

\* The nonce is the cached base, or a fresh pending count, plus delta; delta
\* is incremented before the transaction is even signed.
SignMove ==
    /\ pc = "sign"
    /\ \E b \in {base, None}, d \in {delta, 0}, view \in Views, g \in GasLevels :
          /\ Synced(b, d) /\ b # Rejected
          /\ base' \in IF b = None THEN PendingCounts(view) ELSE {b}
          /\ delta' = d + 1
          /\ cand' = [pay |-> call, nonce |-> base' + d, gas |-> g]
    /\ pc' = "send"
    /\ UNCHANGED <<pool, chain, call, job, loop, err, waiting, result, faults>>

\* The nonce read is refused.  The NonceManager keeps the rejected promise,
\* and every later use of it meets the same error until it is reset.
SignFails ==
    /\ pc = "sign"
    /\ \E b \in {base, None}, d \in {delta, 0} :
          /\ Synced(b, d) /\ b \in {None, Rejected}
          /\ base' = Rejected /\ delta' = d + 1
          /\ err' \in IF b = Rejected THEN {"unknown"}
                      ELSE {"transient"} \cup (IF Unrecognised THEN {"unknown"} ELSE {})
    /\ pc' = "refused"
    /\ UNCHANGED <<pool, chain, call, job, loop, cand, waiting, result, faults>>

\* What follows a submission the caller can wait on.
Submitted ==
    \/ /\ job = "move" /\ pc' = "wait1" /\ moves' = {cand} /\ UNCHANGED cancels
    \/ /\ job = "speedup" /\ pc' = "wait3" /\ moves' = moves \cup {cand}
       /\ UNCHANGED cancels
    \/ /\ job = "cancel" /\ pc' = "wait4" /\ cancels' = {cand} /\ UNCHANGED moves

\* The endpoint takes the transaction, and says so.
Accepted ==
    /\ pc = "send" /\ \E view \in Views : Answer(cand, view) = "accepted"
    /\ pool' = pool \cup {cand}
    /\ Submitted /\ deaf' = {}
    /\ UNCHANGED <<chain, nonceMgr, call, job, loop, cand, err, result, faults>>

\* The endpoint holds these very bytes: an earlier attempt arrived.  They are
\* rebuilt from the request and waited on like a fresh submission.
AlreadyKnown ==
    /\ pc = "send" /\ \E view \in Views : Answer(cand, view) = "known"
    /\ Submitted /\ deaf' = {}
    /\ UNCHANGED <<pool, chain, nonceMgr, call, job, loop, cand, err, result,
                   faults>>

\* The endpoint takes the transaction, but its reply never arrives.
ReplyLost ==
    /\ pc = "send" /\ lost < MaxLost
    /\ \E view \in Views : Answer(cand, view) = "accepted"
    /\ pool' = pool \cup {cand} /\ lost' = lost + 1
    /\ pc' = "refused" /\ err' = "transient"
    /\ UNCHANGED <<chain, nonceMgr, call, job, loop, cand, waiting, result,
                   foreign, crashes>>

\* The submission is refused, or never arrives.  "unused" stands for the
\* pool-full, funds and gas-limit refusals; "unknown" for an error no class
\* matches, an "already known" whose transaction cannot be rebuilt included.
Refused ==
    /\ pc = "send" /\ pc' = "refused"
    /\ \/ err' \in {"transient", "unused"}
       \/ Unrecognised /\ err' = "unknown"
       \/ \E view \in Views :
             /\ Answer(cand, view) \in {"tooLow", "underpriced"}
             /\ err' = Answer(cand, view)
    /\ UNCHANGED <<pool, chain, nonceMgr, call, job, loop, cand, waiting,
                   result, faults>>

-----------------------------------------------------------------------------
(* _retrySendTimed: what a refusal leads to. *)

\* The broadcast reported its endpoint, and selection has moved off it: one
\* retry, on a NonceManager built afresh for the new endpoint.
FailOver ==
    /\ pc = "refused" /\ job = "move" /\ err = "transient" /\ ~rebound
    /\ rebound' = TRUE /\ err' = "none" /\ pc' = "sign" /\ ResetNonce
    /\ UNCHANGED <<pool, chain, call, job, attempt, recovered, cand, waiting,
                   result, faults>>

\* Where the loop sends again from: a speed-up or a cancel resubmits the same
\* bytes through the base signer, a move is signed anew.
Resend == pc' = IF job = "move" THEN "sign" ELSE "send"

\* _resetSignerNonce: a cancel hands over the base wallet, which has none.
ResetSigner == IF job = "cancel" THEN UNCHANGED nonceMgr ELSE ResetNonce

\* A bug: the last attempt is retried too.
RetriesPastLast == attempt <= RetryMax

RetriesLeft == attempt < RetryMax

RetryTransient ==
    /\ pc = "refused" /\ err = "transient" /\ RetriesLeft
    /\ attempt' = attempt + 1 /\ rebound' = FALSE /\ err' = "none"
    /\ Resend /\ ResetSigner
    /\ UNCHANGED <<pool, chain, call, job, recovered, cand, waiting, result, faults>>

RecoverNonceTooLow ==
    /\ pc = "refused" /\ err = "tooLow" /\ job = "move" /\ ~recovered
    /\ recovered' = TRUE /\ rebound' = FALSE /\ err' = "none"
    /\ pc' = "sign" /\ ResetNonce
    /\ UNCHANGED <<pool, chain, call, job, attempt, cand, waiting, result, faults>>

\* The loop throws.
GivesUp ==
    /\ pc = "refused"
    /\ \/ err = "transient" /\ attempt = RetryMax
       \/ err \in {"unused", "underpriced", "unknown"}
       \/ err = "tooLow" /\ (job # "move" \/ recovered)

\* A bug: nothing is reset by a refusal that ends the loop.
ThrowKeepsNonce == UNCHANGED nonceMgr

\* The NonceManager is reset on the refusals that left the nonce unused, and
\* left alone on the rest.
ThrowReset ==
    IF err \in {"transient", "unused"} THEN ResetSigner ELSE UNCHANGED nonceMgr

SendFails ==
    /\ GivesUp /\ job = "move" /\ ThrowReset /\ Finish("sendFailed")
    /\ UNCHANGED <<pool, chain, faults>>

\* _submitSpeedUp answers null, its submission refused or its gas price not read: the
\* wait goes on with the original alone.
SpeedUpFails ==
    /\ \/ GivesUp /\ job = "speedup" /\ ThrowReset
       \/ pc = "wait1" /\ UNCHANGED nonceMgr
    /\ pc' = "wait3" /\ job' = "speedup" /\ FreshLoop /\ deaf' = {}
    /\ UNCHANGED <<pool, chain, call, cand, moves, cancels, result, faults>>

\* The nonce is taken already: _sendCancel rebuilds the refused cancel, to be
\* recognised should an earlier copy of it be what mined.
CancelRefused ==
    /\ GivesUp /\ job = "cancel" /\ err = "tooLow"
    /\ cancels' \in IF Unrecognised THEN {{}, {cand}} ELSE {{cand}}
    /\ pc' = "wait4" /\ FreshLoop /\ deaf' = {}
    /\ UNCHANGED <<pool, chain, nonceMgr, call, job, cand, moves, result, faults>>

\* Any other failure, a gas price not read included: "TX stuck and cancel failed".
CancelFails ==
    /\ \/ GivesUp /\ job = "cancel" /\ err # "tooLow" /\ ThrowReset
       \/ pc = "wait3" /\ UNCHANGED nonceMgr
    /\ Finish("cancelFailed")
    /\ UNCHANGED <<pool, chain, faults>>

-----------------------------------------------------------------------------
(* _waitOrSpeedUp and _cancelStuckNonce. *)

Waited == IF pc = "wait4" THEN moves \cup cancels ELSE moves
\* A bug: a replacement sent through the NonceManager gets its next nonce.
NextNonce(t) == t.nonce + 1

\* A speed-up or a cancel bypasses the NonceManager: it competes for the
\* nonce of what it replaces.
ReplacementNonce(t) == t.nonce

\* A bug: a wait knows no receipt but that of its own hash.
AnswersOwn(t, m) == m.tx = t

\* A wait on t answers with the receipt of m: t's own, or, while its endpoint
\* still answers, that of the transaction that replaced t at its nonce.
Answers(t, m) == m.tx.nonce = t.nonce /\ (t \in deaf => m.tx = t)

\* The endpoint of one wait stops answering: from then on that wait polls for
\* the receipt of its own hash (_receiptAcrossEndpoints).
WaitFallsBack ==
    /\ Mute /\ pc \in Waits
    /\ \E t \in Waited \ deaf : deaf' = deaf \cup {t}
    /\ UNCHANGED <<pool, chain, nonceMgr, call, pc, job, loop, cand, err, moves,
                   cancels, result, faults>>

\* A bug: a receipt that records a revert is read as a confirmation.
AnyReceiptConfirms(m) == "confirmed"

\* confirmedReceipt: a receipt that records a revert is an error.
ReceiptOutcome(m) == IF m.ok THEN "confirmed" ELSE "reverted"

\* Phases 1 and 3: the first receipt decides.
Receipt ==
    /\ pc \in {"wait1", "wait3"}
    /\ \E t \in Waited, m \in mined :
          /\ Answers(t, m)
          /\ Finish(ReceiptOutcome(m))
    /\ UNCHANGED <<pool, chain, nonceMgr, faults>>

\* An error no class matches ends a wait, and the call, the move still pending.
WaitErrors ==
    /\ Unrecognised /\ pc \in Waits /\ Finish("waitFailed")
    /\ UNCHANGED <<pool, chain, nonceMgr, faults>>

\* The bytes that compete with the move: priced over the network's price and
\* that of the dearest of its transactions the call knows of.
Outbids(pay) ==
    \E g \in GasLevels, t \in moves :
        /\ \A u \in moves : u.gas <= t.gas
        /\ cand' = [pay |-> pay, nonce |-> ReplacementNonce(t),
                    gas |-> BumpedGas(pay, Higher(g, t.gas))]

\* The base signer is reached through _sync, which may rebind it.
BaseSigner ==
    \E b \in {base, None}, d \in {delta, 0} : Synced(b, d) /\ base' = b /\ delta' = d

\* Phase 1 runs out: phase 2 prices the same move at the same nonce.
SpeedUp ==
    /\ pc = "wait1" /\ pc' = "send" /\ job' = "speedup"
    /\ deaf' = {} /\ FreshLoop /\ Outbids(call) /\ BaseSigner
    /\ UNCHANGED <<pool, chain, call, moves, cancels, result, faults>>

\* Phase 3 runs out: phase 4 prices a cancel.
CancelNonce ==
    /\ pc = "wait3" /\ pc' = "send" /\ job' = "cancel"
    /\ deaf' = {} /\ FreshLoop /\ Outbids(Cancel) /\ BaseSigner
    /\ UNCHANGED <<pool, chain, call, moves, cancels, result, faults>>

\* A bug: whatever takes the nonce once a cancel is out is the cancel.
CancelSettles(m) == IF cancels # {} THEN "cancelled" ELSE ReceiptOutcome(m)

\* Which transaction took the nonce, once the cancel was sent or refused.
Settled(m) ==
    IF ~m.ok \/ m.tx \in moves THEN ReceiptOutcome(m)
    ELSE IF m.tx \in cancels THEN "cancelled"
    ELSE "taken"

CancelReceipt ==
    /\ pc = "wait4"
    /\ \E t \in Waited, m \in mined :
          /\ Answers(t, m) /\ Finish(Settled(m))
          /\ IF Settled(m) = "cancelled" THEN ResetNonce ELSE UNCHANGED nonceMgr
    /\ UNCHANGED <<pool, chain, faults>>

-----------------------------------------------------------------------------
(* The environment. *)

\* The process stops: everything but the network's state is gone.
Crash ==
    /\ pc # "idle" /\ crashes < MaxCrash /\ crashes' = crashes + 1
    /\ ResetNonce /\ Finish("crashed")
    /\ UNCHANGED <<pool, chain, lost, foreign>>

\* A block takes a transaction at the wallet's next nonce; any miner may hold
\* any transaction that ever reached the network.  A transfer cannot revert.
Mine ==
    /\ \E t \in pool, ok \in BOOLEAN :
          /\ t.nonce = height /\ (t.pay = Cancel => ok)
          /\ mined' = mined \cup {[tx |-> t, ok |-> ok]}
    /\ height' = height + 1
    /\ UNCHANGED <<pool, nonceMgr, call, pc, job, loop, cand, err, waiting,
                   result, faults>>

\* The wallet's owner sends a transaction from somewhere else.
ForeignSend ==
    /\ foreign < MaxForeign /\ foreign' = foreign + 1
    /\ \E view \in SUBSET Pending, g \in GasLevels :
          \E n \in PendingCounts(view) :
              pool' = pool \cup {[pay |-> Foreign, nonce |-> n, gas |-> g]}
    /\ UNCHANGED <<chain, nonceMgr, call, pc, job, loop, cand, err, waiting,
                   result, lost, crashes>>

Submit == \/ SignMove \/ SignFails \/ Accepted \/ AlreadyKnown \/ ReplyLost
          \/ Refused \/ FailOver \/ RetryTransient \/ RecoverNonceTooLow
          \/ SendFails \/ SpeedUpFails \/ CancelRefused \/ CancelFails

Await  == Receipt \/ WaitErrors \/ SpeedUp \/ CancelNonce \/ CancelReceipt

Next == \/ Begin \/ Submit \/ Await \/ WaitFallsBack
        \/ Crash \/ Mine \/ ForeignSend

Spec == Init /\ [][Next]_vars

\* The event loop keeps running a call it has begun, and the chain keeps
\* taking blocks.  Nothing is assumed of faults.
Fairness == WF_vars(Submit \/ Await) /\ WF_vars(Mine)

FairSpec == Spec /\ Fairness

-----------------------------------------------------------------------------
(* Properties. *)

\* Every variable keeps its type: the state of sendTransaction's call, of the
\* NonceManager and of the chain.
TypeOK ==
    /\ pool \subseteq Tx /\ height \in Nat
    /\ mined \subseteq [tx : Tx, ok : BOOLEAN]
    /\ base \in Nat \cup {None, Rejected} /\ delta \in Nat
    /\ call \in Moves \cup {0}
    /\ pc \in {"idle", "sign", "send", "refused"} \cup Waits
    /\ job \in {"move", "speedup", "cancel"}
    /\ attempt \in 0 .. RetryMax
    /\ recovered \in BOOLEAN /\ rebound \in BOOLEAN
    /\ cand \in Tx /\ err \in Errors
    /\ moves \subseteq Tx /\ cancels \subseteq Tx /\ deaf \subseteq Tx
    /\ result \in [Moves -> Outcomes \cup {"none"}]
    /\ lost \in 0 .. MaxLost /\ foreign \in 0 .. MaxForeign
    /\ crashes \in 0 .. MaxCrash

Copies(c)   == {t \in pool : t.pay = c}
Happened(c) == {m \in mined : m.tx.pay = c /\ m.ok}

\* A call that answers with a receipt made its move: some transaction of that
\* very move is mined and did not revert, whatever was lost, sped up, refused
\* or recovered on the way.
ConfirmedMeansMoved ==
    \A c \in Moves : result[c] = "confirmed" => Happened(c) # {}

\* "tx-speedup: whichever confirms, the other is void": all that was ever
\* broadcast for one move competes for one nonce, so at most one can mine.
OneNoncePerMove ==
    \A c \in Moves : \A t, u \in Copies(c) : t.nonce = u.nonce

\* A call that answers "cancelled" is final: as long as its copies share a
\* nonce, none of them is mined and none can be any more.
CancelledIsFinal ==
    \A c \in Moves :
        /\ result[c] = "cancelled"
        /\ \A t, u \in Copies(c) : t.nonce = u.nonce
        => /\ Happened(c) = {}
           /\ \A t \in Copies(c) : t.nonce < height

\* "Neither the move nor the cancel: something sent from this wallet outside
\* the bot took the nonce.  The move did not happen" (_cancelStuckNonce).
TakenMeansNotMoved ==
    \A c \in Moves : result[c] = "taken" => Happened(c) = {}

\* No transaction waits behind a nonce nobody uses: below each broadcast move,
\* every nonce the chain has not reached is held by something that can mine.
\* The NonceManager counts a nonce before its broadcast, so this is what its
\* resets after a refusal are for.
NoNonceGap ==
    \A t \in pool : \A k \in height .. t.nonce - 1 :
        \E u \in pool : u.nonce = k

\* Every call of sendTransaction ends, and with it the hold on the lock: the
\* last phase has no clock, so this rests on the chain taking something at
\* the nonce and on the wait being told of it.
EveryCallEnds == pc # "idle" ~> pc = "idle"

\* The pipeline is an implementation of what MoveOutcome promises.
Outcome == INSTANCE MoveOutcome WITH
    state <- [c \in Moves |->
                IF c = call /\ pc # "idle" THEN "running" ELSE result[c]],
    times <- [c \in Moves |-> Cardinality(Happened(c))]

KeepsPromise == Outcome!Spec
=============================================================================
