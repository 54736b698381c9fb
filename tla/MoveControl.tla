----------------------------- MODULE MoveControl -----------------------------
(*****************************************************************************)
(* When the bot may move a position's coins.  Each managed position has one  *)
(* poll loop (src/lib/bot-loop.js) whose polls decide compounds and          *)
(* rebalances (bot-cycle.js and its gates, drain and residual modules), and  *)
(* one chain scan at a time, which must not overlap a move (scan-state.js).  *)
(* Every move of every position takes the one FIFO lock (rebalance-lock.js). *)
(* The owner's requests come in through the server's routes, and stops       *)
(* through Stop Managing and the held stop.                                  *)
(*                                                                           *)
(* JavaScript runs one callback at a time, so a step here is what runs       *)
(* between two awaits.  One record per position holds its bot state and the  *)
(* loop's own variables; a handler is a function from the record it finds    *)
(* to the record it leaves.  A position is its pool: the new NFT a rebalance *)
(* mints keeps the name.  Clocks are choices: a delay may end at any time.   *)
(*****************************************************************************)
EXTENDS Naturals, Sequences

CONSTANTS
    Positions,     \* the positions the owner may manage, one per pool
    Closed,        \* those whose NFT holds no liquidity at first
    DryRuns,       \* the settings of config.DRY_RUN considered
    AutoCompound,  \* is auto-compound on?
    Cleanups,      \* may the wallet hold residual coins worth a cleanup?
    Failures,      \* how a rebalance may end, besides success
    StopEarly,     \* may Stop Managing reach a position still starting?
    MaxRequests    \* bound: requests the owner makes of running positions

ASSUME ConstantsAssumption ==
    /\ Closed \subseteq Positions
    /\ {AutoCompound, Cleanups, StopEarly} \cup DryRuns \subseteq BOOLEAN
    /\ Failures \subseteq {"failed", "aborted", "volatile"}
    /\ MaxRequests \in Nat

VARIABLES
    bot,       \* each position's bot state, loop and scan
    queue,     \* the rebalance lock: its holder, then those waiting
    app,       \* app-phase: "up", "stopping" or "exited"
    dry,       \* config.DRY_RUN, set when the app starts
    requests   \* requests made so far

vars == <<bot, queue, app, dry, requests>>

\* Where a poll is.  "read": the chain reads.  "lockC1", "moveC1": a Compound
\* Now.  "range": about to check the range.  "fees", "lockC2", "moveC2": the
\* compound of a position in range.  "guard", "gas", "lockR", "moveR": the
\* rebalance.
Locking   == {"lockC1", "lockC2", "lockR"}
Making    == {"moveC1", "moveC2", "moveR"}
Deciding  == {"fees", "guard", "gas"} \cup Locking \cup Making
PollSteps == {"none", "read", "range"} \cup Deciding

\* loop: no loop; its first poll under way; the same, with its record already
\* removed; running; stopped by Stop Managing or a retire; by the held stop.
Loops == {"off", "starting", "disowned", "on", "removing", "halted"}

\* rest: whether lastRebalanceAt is null, or not yet, or already delayMs old.
\* scan: "read" while the pass reads the chain, "poll" in the poll that ends
\* it.  orphan: a pass of a loop that is gone still runs.  asked only records
\* history: a request no move has begun for.
Record == [loop : Loops, pc : PollSteps, manual : BOOLEAN, began : BOOLEAN,
    scan : {"none", "read", "poll"}, scanWait : BOOLEAN, orphan : BOOLEAN,
    timer : BOOLEAN, force : BOOLEAN, forceC : BOOLEAN,
    cleanup : BOOLEAN, used : BOOLEAN, rest : {"never", "fresh", "long"},
    paused : BOOLEAN, midway : BOOLEAN, inProg : BOOLEAN, seen : BOOLEAN,
    drained : BOOLEAN, drain : {"no", "counting", "elapsed"},
    reopen : BOOLEAN, asked : BOOLEAN]

\* No loop, and no bot state; only the chain and a lost scan remain.
Off(empty, lost) ==
    [loop |-> "off", pc |-> "none", manual |-> FALSE, began |-> FALSE,
     scan |-> "none", scanWait |-> FALSE, orphan |-> lost, timer |-> FALSE,
     force |-> FALSE, forceC |-> FALSE, cleanup |-> FALSE,
     used |-> FALSE, rest |-> "never", paused |-> FALSE, midway |-> FALSE,
     inProg |-> FALSE, seen |-> FALSE, drained |-> empty, drain |-> "no",
     reopen |-> FALSE, asked |-> FALSE]

Init ==
    /\ bot = [p \in Positions |-> Off(p \in Closed, FALSE)]
    /\ queue = <<>> /\ app = "up" /\ dry \in DryRuns /\ requests = 0

-----------------------------------------------------------------------------
(* Scans. *)

Halted(r)     == r.loop \in {"removing", "halted"}
Stopped(r)    == Halted(r) \/ app # "up"
\* A bug: a Rebalance Now does not hold back a scan.
OnlyCompoundWaits(r) == r.forceC

MoveWaiting(r) == r.forceC \/ (r.force /\ ~r.cleanup)
\* A bug: the window of a poll that decides a move is left out.
OnlyWaitingMoves(r) == MoveWaiting(r)

CoinMoveUnderWay(r) == r.pc \in Deciding \/ MoveWaiting(r)

\* A scan is asked for: it starts, cancelling the loop's timer, or waits.
Triggered(r) ==
    IF r.scan # "none" THEN r
    ELSE IF CoinMoveUnderWay(r) THEN [r EXCEPT !.scanWait = TRUE]
    ELSE [r EXCEPT !.scan = "read", !.scanWait = FALSE, !.timer = FALSE]

\* Asked for by the loop itself, which has no trigger until its first poll
\* has ended.
SelfTriggered(r) ==
    IF r.loop \in {"starting", "disowned"} THEN r ELSE Triggered(r)

Rearmed(r) == [r EXCEPT !.timer = TRUE]

Removed(r) == Off(r.drained, r.orphan \/ r.scan # "none")

Idle(r) == [r EXCEPT !.pc = "none", !.manual = FALSE, !.began = FALSE]

\* A bug: the scan that waited is left to the rescan timer.
PollEndsForgets(r) == IF Halted(r) THEN Idle(r)
                      ELSE Rearmed([Idle(r) EXCEPT !.scan = "none"])

\* A bug: a poll that a scan made leaves the next one to its timer, which
\* the scan has cleared.
PollEndsOnce(r) ==
    LET waited == IF r.scanWait THEN SelfTriggered(Idle(r)) ELSE Idle(r) IN
    IF r.scan = "poll" THEN [waited EXCEPT !.scan = "none"]
    ELSE IF Halted(r) THEN waited ELSE Rearmed(waited)

\* A poll ends: the scan that waited starts, the pass this poll was part of
\* ends, and the next poll is set.
PollEnds(r) ==
    LET waited == IF r.scanWait THEN SelfTriggered(Idle(r)) ELSE Idle(r)
        passed == IF r.scan = "poll"
                  THEN [waited EXCEPT !.scan = "none"] ELSE waited
    IN  IF Halted(r) THEN passed ELSE Rearmed(passed)

\* The held stop, or Stop Managing, stops a loop: its timer is cleared.
Halt(r, how) == [r EXCEPT !.loop = how, !.timer = FALSE]

\* The loop's first poll has ended: its first scan starts, and its handle is
\* given back, which the held stop was waiting for.
StartUpEnds(r) ==
    LET s == Rearmed(Triggered([r EXCEPT !.loop = "on"])) IN
    IF app = "up" THEN s ELSE Halt(s, "halted")

Ended(r) ==
    LET e == PollEnds(r) IN
    CASE r.loop = "starting" -> StartUpEnds(e)
      [] r.loop = "disowned" -> Removed(StartUpEnds(e))
      [] OTHER               -> e

\* The loop retires its position.
Retired(r) == IF r.pc = "none" THEN Removed(r)
              ELSE Halt(r, "removing")

-----------------------------------------------------------------------------
(* A position with no liquidity. *)

MidwayFail(r) == r.midway /\ ~r.paused
HeldEmpty(r)  == r.seen /\ ~r.force /\ ~MidwayFail(r)

DrainClocked(r) ==
    IF ~r.seen THEN [r EXCEPT !.drain = "no"]
    ELSE IF HeldEmpty(r) /\ ~r.inProg /\ r.drain = "no"
         THEN [r EXCEPT !.drain = "counting"] ELSE r

RetireDue(r) == HeldEmpty(r) /\ ~r.inProg /\ r.drain = "elapsed"

\* The poll of a position checkZeroLiquidity holds.
HeldPoll(r) ==
    IF RetireDue(r) THEN Removed(Ended(r)) ELSE Ended(DrainClocked(r))

AbortedDrained(r) == r.seen /\ ~r.force /\ r.paused

Polled(r) ==
    IF AbortedDrained(r) THEN HeldPoll(r) ELSE [r EXCEPT !.pc = "read"]

-----------------------------------------------------------------------------
\* A process that has exited does nothing more.
Becomes(p, r) == app # "exited" /\ bot' = [bot EXCEPT ![p] = r]

Quietly       == UNCHANGED <<queue, app, dry, requests>>
KeepLock      == UNCHANGED <<queue, app, dry, requests>>   \* a bug
Release       == queue' = Tail(queue) /\ UNCHANGED <<app, dry, requests>>

\* Take a place in the rebalance lock's queue.
Queue(p, r) ==
    /\ Becomes(p, r) /\ queue' = Append(queue, p)
    /\ UNCHANGED <<app, dry, requests>>

(* The owner's requests. *)

Request == /\ requests < MaxRequests /\ requests' = requests + 1
           /\ UNCHANGED <<queue, app, dry>>

Running(p) == bot[p].loop \in {"starting", "on"}

\* Manage: the loop starts, and makes its first poll.  A closed position is
\* managed to be re-opened.
Manage(p) ==
    /\ app = "up" /\ bot[p].loop = "off"
    /\ Becomes(p, [bot[p] EXCEPT !.loop = "starting", !.pc = "read",
                     !.seen = @ \/ bot[p].drained, !.force = bot[p].drained,
                     !.asked = bot[p].drained])
    /\ Quietly

\* Wake the loop now.  A poll under way only shortens the wait it sets next.
Kicked(r) == IF r.pc = "none" THEN Rearmed(r) ELSE r

RebalanceNow(p) ==
    /\ Running(p) /\ bot[p].scan = "none" /\ Request
    /\ Becomes(p, Kicked([bot[p] EXCEPT !.force = TRUE, !.inProg = TRUE,
                            !.paused = FALSE, !.asked = TRUE]))

CompoundNow(p) ==
    /\ Running(p) /\ bot[p].scan = "none" /\ Request
    /\ Becomes(p, Kicked([bot[p] EXCEPT !.forceC = TRUE]))

\* Manage on a position that already runs retries the re-open.
ManageAgain(p) ==
    /\ Running(p) /\ bot[p].drained /\ bot[p].scan = "none" /\ Request
    /\ Becomes(p, [bot[p] EXCEPT !.force = TRUE, !.paused = FALSE,
                     !.midway = FALSE, !.asked = TRUE])

\* A new slippage setting frees an aborted position.
SlippageChange(p) ==
    /\ bot[p].loop # "off" /\ bot[p].paused /\ Request
    /\ Becomes(p, [bot[p] EXCEPT !.paused = FALSE])

\* Stop Managing stops the loop and waits for its poll; the record of a
\* position still starting is removed at once.
StopManaging(p) ==
    /\ Running(p) /\ Request
    /\ \/ bot[p].loop = "on"
          /\ Becomes(p, Halt(bot[p], "removing"))
       \/ bot[p].loop = "starting" /\ StopEarly
          /\ Becomes(p, [bot[p] EXCEPT !.loop = "disowned"])

RemovalEnds(p) ==
    /\ bot[p].loop = "removing" /\ bot[p].pc = "none"
    /\ Becomes(p, Removed(bot[p])) /\ Quietly

-----------------------------------------------------------------------------
(* Scans: asked for, and their passes. *)

\* The rescan timer finds a figure the last scan left short.
RescanDue(p) ==
    /\ bot[p].loop = "on" /\ bot[p].scan = "none"
    /\ Becomes(p, Triggered(bot[p])) /\ Quietly

\* Reload Current Position or Re-scan Prices.
Reload(p) ==
    /\ app = "up" /\ Running(p) /\ bot[p].scan = "none"
    /\ ~CoinMoveUnderWay(bot[p])
    /\ Becomes(p, SelfTriggered(bot[p])) /\ Quietly

\* The dashboard asks for a position's lifetime figures, of a loop stopped
\* but not yet removed too.
ViewLifetime(p) ==
    /\ bot[p].loop \in {"on", "removing", "halted"} /\ bot[p].scan = "none"
    /\ Request /\ Becomes(p, Triggered(bot[p]))

\* A bug: a pass that finds its loop stopped leaves the scan marked.
ScanLeavesMark(p) ==
    /\ bot[p].scan = "read" /\ ~Halted(bot[p])
    /\ IF bot[p].pc # "none" THEN Becomes(p, [bot[p] EXCEPT !.scan = "none"])
       ELSE Becomes(p, Polled([bot[p] EXCEPT !.scan = "poll"]))
    /\ Quietly

\* The pass has read the chain, and polls on what it found.
ScanRead(p) ==
    /\ bot[p].scan = "read"
    /\ IF Halted(bot[p]) \/ bot[p].pc # "none"
       THEN Becomes(p, [bot[p] EXCEPT !.scan = "none"])
       ELSE Becomes(p, Polled([bot[p] EXCEPT !.scan = "poll"]))
    /\ Quietly

OrphanEnds(p) ==
    /\ bot[p].orphan
    /\ Becomes(p, [bot[p] EXCEPT !.orphan = FALSE]) /\ Quietly

-----------------------------------------------------------------------------
(* Delays that run out. *)

Tick(p) ==
    /\ bot[p].timer
    /\ LET r == [bot[p] EXCEPT !.timer = FALSE] IN
       Becomes(p, IF r.pc = "none" THEN Polled(r) ELSE r)
    /\ Quietly

DrainTime(p) ==
    /\ bot[p].drain = "counting"
    /\ Becomes(p, [bot[p] EXCEPT !.drain = "elapsed"]) /\ Quietly

CleanupDelay(p) ==
    /\ bot[p].rest = "fresh" /\ Cleanups
    /\ Becomes(p, [bot[p] EXCEPT !.rest = "long"]) /\ Quietly

\* A failed re-open retires unless the owner acted meanwhile.
ReopenTimer(p) ==
    /\ bot[p].reopen
    /\ LET r == [bot[p] EXCEPT !.reopen = FALSE] IN
       Becomes(p, IF Halted(r) \/ ~r.paused \/ r.force THEN r ELSE Retired(r))
    /\ Quietly

-----------------------------------------------------------------------------
(* The poll. *)

ReadFails(p) ==
    /\ bot[p].pc = "read" /\ Becomes(p, Ended(bot[p])) /\ Quietly

\* The last scan found token data it cannot heal: the poll retires.
Unhealable(p) ==
    /\ bot[p].pc = "read" /\ bot[p].loop \in {"on", "removing", "halted"}
    /\ Becomes(p, Removed(Ended(bot[p]))) /\ Quietly

\* The pool was read, and the position's liquidity too unless that failed.
ReadOk(p) ==
    /\ bot[p].pc = "read"
    /\ \E seen \in {bot[p].seen, bot[p].drained} :
          LET r == DrainClocked([bot[p] EXCEPT !.seen = seen]) IN
          IF HeldEmpty(r) THEN Becomes(p, HeldPoll(r)) /\ Quietly
          ELSE IF r.forceC THEN Queue(p, [r EXCEPT !.pc = "lockC1"])
          ELSE Becomes(p, [r EXCEPT !.pc = "range"]) /\ Quietly

\* A residual cleanup may be armed: _evaluateArmingGates.
MayArm(r) ==
    /\ Cleanups /\ r.rest = "long"
    /\ ~(r.inProg \/ r.used \/ r.paused \/ r.force \/ r.cleanup)

Armed(r) == [r EXCEPT !.force = TRUE, !.cleanup = TRUE]

\* A Rebalance Now, to the gates.
Forced(r) == r.force /\ ~r.cleanup

StateGates(r) == Forced(r) \/ (~r.paused /\ r.scan = "none")

\* In range, or not far or long enough out of it: an automatic compound, or a
\* Compound Now asked for meanwhile.
NoRebalance(p, r) ==
    \/ Becomes(p, Ended(r))
    \/ /\ r.forceC \/ (AutoCompound /\ r.scan = "none")
       /\ Becomes(p, [r EXCEPT !.pc = "fees", !.manual = r.forceC])

Gates(p, r) ==
    \/ /\ StateGates(r)
       /\ Becomes(p, [r EXCEPT !.pc = "guard", !.manual = Forced(r)])
    \/ /\ ~StateGates(r) \/ ~Forced(r)     \* or the throttle, or the pool's cap
       /\ Becomes(p, Ended(r))

Range(p) ==
    /\ bot[p].pc = "range"
    /\ \E arm \in BOOLEAN, out \in BOOLEAN :
          /\ arm => MayArm(bot[p])
          /\ LET r == IF arm THEN Armed(bot[p]) ELSE bot[p] IN
             IF out \/ r.force THEN Gates(p, r) ELSE NoRebalance(p, r)
    /\ Quietly

\* The fees reach the threshold, or a Compound Now does not ask.
FeesDue(p) ==
    /\ bot[p].pc = "fees" /\ Queue(p, [bot[p] EXCEPT !.pc = "lockC2"])

FeesLow(p) ==
    /\ bot[p].pc = "fees" /\ ~bot[p].manual
    /\ Becomes(p, Ended(bot[p])) /\ Quietly

\* The Impermanent Loss Guard, then the dry-run stop.
GuardPasses(p) ==
    /\ bot[p].pc = "guard" /\ ~dry
    /\ Becomes(p, [bot[p] EXCEPT !.pc = "gas"]) /\ Quietly

\* A bug: the Rebalance Now a dry run turns down is still asked for.
GuardKeepsRequest(p) ==
    /\ bot[p].pc = "guard" /\ (~bot[p].manual \/ dry)
    /\ Becomes(p, Ended(bot[p])) /\ Quietly

GuardRefuses(p) ==
    /\ bot[p].pc = "guard"
    /\ \/ /\ ~bot[p].manual
          /\ Becomes(p, Ended(bot[p]))
       \/ /\ dry /\ bot[p].manual
          /\ Becomes(p, Ended([bot[p] EXCEPT !.force = FALSE, !.asked = FALSE]))
    /\ Quietly

GasTooHigh(p) ==
    /\ bot[p].pc = "gas" /\ Becomes(p, Ended(bot[p])) /\ Quietly

GasOk(p) ==
    /\ bot[p].pc = "gas" /\ Queue(p, [bot[p] EXCEPT !.pc = "lockR"])

-----------------------------------------------------------------------------
(* Moves, under the lock. *)

HoldsLock(p) == queue # <<>> /\ Head(queue) = p

\* After a compound, made or not, the position's liquidity is read again.
Compounded(p) == \E seen \in {bot[p].seen, bot[p].drained} :
    LET r == [bot[p] EXCEPT !.seen = seen] IN
    Becomes(p, IF r.pc \in {"lockC1", "moveC1"} THEN [r EXCEPT !.pc = "range"]
               ELSE Ended(r))

\* The loop or the app was stopped during the wait for the lock.
TurnedBack(p) ==
    /\ HoldsLock(p) /\ bot[p].pc \in Locking /\ Stopped(bot[p])
    /\ IF bot[p].pc = "lockR" THEN Becomes(p, Ended(bot[p])) ELSE Compounded(p)
    /\ Release

RebalanceStarts(p) ==
    /\ HoldsLock(p) /\ bot[p].pc = "lockR" /\ ~Stopped(bot[p])
    /\ Becomes(p, [bot[p] EXCEPT !.pc = "moveR", !.inProg = TRUE,
                     !.force = FALSE, !.asked = FALSE,
                     !.began = bot[p].seen])
    /\ Quietly

CompoundStarts(p) ==
    /\ HoldsLock(p) /\ bot[p].pc \in {"lockC1", "lockC2"}
    /\ ~Stopped(bot[p])
    /\ Becomes(p, [bot[p] EXCEPT !.forceC = FALSE,
                     !.pc = IF @ = "lockC1" THEN "moveC1" ELSE "moveC2"])
    /\ Quietly

CompoundEnds(p) ==
    /\ bot[p].pc \in {"moveC1", "moveC2"}
    /\ Compounded(p) /\ Release

\* A bug: the time of the rebalance is kept as text.
RebalancedStampsText(r) == [r EXCEPT !.used = r.cleanup, !.rest = "text"]

\* A new NFT is minted: the position's record moves to its key, which drops
\* what was asked meanwhile, and a scan is asked for.
Rebalanced(r) ==
    SelfTriggered([r EXCEPT !.used = r.cleanup, !.cleanup = FALSE,
        !.rest = "fresh", !.force = FALSE, !.asked = FALSE,
        !.paused = FALSE, !.midway = FALSE, !.inProg = FALSE,
        !.drained = FALSE, !.seen = FALSE])

\* The price left the new range before the mint.
PriceMoved(r) ==
    [r EXCEPT !.inProg = FALSE, !.paused = TRUE, !.drained = TRUE]

\* A step failed: the swap was aborted, or anything else.  emptied: after the
\* liquidity was removed.  exhausted: tx.midwayRetryLimit is reached.
Failed(r, abort, emptied, exhausted) ==
    LET f == [r EXCEPT !.inProg = FALSE, !.cleanup = FALSE,
                !.drained = @ \/ emptied]
    IN  IF r.began
        THEN [f EXCEPT !.paused = TRUE, !.midway = FALSE, !.reopen = TRUE]
        ELSE [f EXCEPT !.paused = abort \/ (r.seen /\ exhausted),
                       !.midway = r.seen /\ ~exhausted]

RebalanceEnds(p) ==
    /\ bot[p].pc = "moveR"
    /\ \/ Becomes(p, Ended(Rebalanced(bot[p])))
       \/ /\ "volatile" \in Failures
          /\ Becomes(p, Ended(PriceMoved(bot[p])))
       \/ \E why \in Failures \ {"volatile"}, emptied, exhausted \in BOOLEAN :
             Becomes(p, Ended(Failed(bot[p], why = "aborted", emptied,
                                     exhausted)))
    /\ Release

-----------------------------------------------------------------------------
(* The held stop. *)

\* stopAll stops every loop that runs; one still starting stops when it has.
HeldStop ==
    /\ app = "up" /\ app' = "stopping"
    /\ bot' = [p \in Positions |-> IF bot[p].loop = "on"
                  THEN Halt(bot[p], "halted") ELSE bot[p]]
    /\ UNCHANGED <<queue, dry, requests>>

\* A bug: the stop does not wait out the polls.
AllHalted == \A p \in Positions :
    bot[p].loop \in {"off", "disowned"} \/ (Halted(bot[p]) /\ bot[p].scan = "none")

\* Every stop has waited out its poll, and no scan runs.
AllClear == \A p \in Positions :
    \/ bot[p].loop \in {"off", "disowned"}
    \/ Halted(bot[p]) /\ bot[p].pc = "none" /\ bot[p].scan = "none"

Exit ==
    /\ app = "stopping" /\ AllClear
    /\ app' = "exited" /\ UNCHANGED <<bot, queue, dry, requests>>

OwnerStep(p) ==
    \/ Manage(p) \/ ManageAgain(p) \/ RebalanceNow(p) \/ CompoundNow(p)
    \/ SlippageChange(p) \/ StopManaging(p) \/ Reload(p) \/ ViewLifetime(p)

LoopStep(p) ==
    \/ Tick(p) \/ ReadFails(p) \/ Unhealable(p) \/ ReadOk(p) \/ Range(p)
    \/ FeesDue(p) \/ FeesLow(p) \/ GuardPasses(p) \/ GuardRefuses(p) \/ GasTooHigh(p)
    \/ GasOk(p) \/ TurnedBack(p) \/ RebalanceStarts(p) \/ CompoundStarts(p)
    \/ CompoundEnds(p) \/ RebalanceEnds(p) \/ ScanRead(p) \/ OrphanEnds(p)
    \/ RescanDue(p) \/ DrainTime(p) \/ CleanupDelay(p) \/ ReopenTimer(p)
    \/ RemovalEnds(p)

Next == HeldStop \/ Exit \/ \E p \in Positions : OwnerStep(p) \/ LoopStep(p)

Spec == Init /\ [][Next]_vars

PollStep(p) ==
    \/ ReadFails(p) \/ Unhealable(p) \/ ReadOk(p) \/ Range(p) \/ FeesDue(p)
    \/ FeesLow(p) \/ GuardPasses(p) \/ GuardRefuses(p) \/ GasTooHigh(p) \/ GasOk(p)
    \/ TurnedBack(p) \/ RebalanceStarts(p) \/ CompoundStarts(p)
    \/ CompoundEnds(p) \/ RebalanceEnds(p)

\* Timers fire, awaited calls return and moves end; the chain is read, and
\* the gas is low enough, again and again.
Fairness ==
    /\ \A p \in Positions :
          /\ WF_vars(Tick(p)) /\ WF_vars(PollStep(p)) /\ WF_vars(ScanRead(p))
          /\ WF_vars(RemovalEnds(p))
          /\ SF_vars(ReadOk(p)) /\ SF_vars(GasOk(p))
    /\ WF_vars(Exit)

LiveSpec == Spec /\ Fairness

-----------------------------------------------------------------------------
(* Properties. *)

\* The shape of the state.
TypeOK ==
    /\ bot \in [Positions -> Record] /\ queue \in Seq(Positions)
    /\ app \in {"up", "stopping", "exited"} /\ dry \in BOOLEAN
    /\ requests \in Nat

\* The lock's queue is exactly the positions that wait for it or move under
\* it, each once, and only its head moves: no path through a compound, a
\* rebalance or a stop leaves a holder behind or lets two moves overlap.
LockAccounted ==
    /\ \A i, j \in DOMAIN queue : queue[i] = queue[j] => i = j
    /\ \A p \in Positions :
          /\ bot[p].pc \in Locking \cup Making <=> \E i \in DOMAIN queue : queue[i] = p
          /\ bot[p].pc \in Making => HoldsLock(p)

\* No scan of a position's loop reads the chain while a move of it is decided
\* or made (scan-state.js), whatever was asked for in the meantime.
NoMoveWhileScanRuns ==
    \A p \in Positions : bot[p].pc \in Deciding => bot[p].scan = "none"

\* A scan that was held back for a move starts as soon as the poll that
\* clears the move ends: between polls it only waits for a request.
WaitsOnlyForMoves == \A p \in Positions :
    bot[p].scanWait /\ bot[p].pc = "none" => MoveWaiting(bot[p])

\* A running loop never goes quiet: a poll, a scan that ends in one, or a
\* timer is always under way, although scans cancel the timer.
LoopAlive == \A p \in Positions :
    bot[p].loop = "on" => bot[p].timer \/ bot[p].pc # "none" \/ bot[p].scan # "none"

\* A Rebalance Now that waits holds back the position's scans, so it is
\* never made, or turned down, during one (scan-state.js).  Not so one made
\* while a residual cleanup is armed: it is taken for the cleanup's own.
RequestHoldsScans == \A p \in Positions :
    bot[p].asked /\ ~bot[p].cleanup => bot[p].scan = "none"

\* A poll that finds a Rebalance Now goes on past the range check and the
\* gates the automatic rebalances stop at (bot-cycle-gates.js), with the
\* same exception.
RebalanceNowPassesGates == [][\A p \in Positions :
    bot[p].asked /\ ~bot[p].cleanup /\ bot[p].pc = "range"
        => bot'[p].pc \in {"range", "guard"}]_vars

\* When the held stop exits, no move is cut off, and no scan of a position
\* that was still managed.
ExitIsClear == app = "exited" => \A p \in Positions :
    bot[p].pc \notin Making /\ bot[p].scan = "none"

\* A Rebalance Now, or a re-open, is begun in the end, or turned down by the
\* dry run, however often gas, gates and failed moves come between, unless
\* the position is stopped or retired, or the app stops.
RequestIsMade == \A p \in Positions :
    bot[p].asked ~> (~bot[p].asked \/ app # "up")

\* The held stop always ends.
HeldStopExits == app = "stopping" ~> app = "exited"

-----------------------------------------------------------------------------
(* What the documents and comments say, and the code does not keep. *)

\* bot-cycle.js: no rebalance starts after Stop Managing.
NoMoveUnmanaged == [][\A p \in Positions :
    bot[p].pc \notin Making /\ bot'[p].pc \in Making
        => bot[p].loop # "disowned"]_vars

\* bot-loop.js: the timer that retires a failed re-open bails if the owner
\* acted meanwhile, so it never stops a position while a later move of it is
\* decided or made.
ReopenTimerCutsNoMove == [][\A p \in Positions :
    bot[p].reopen /\ ~bot'[p].reopen
        /\ bot[p].loop # "removing" /\ bot'[p].loop = "removing"
            => bot[p].pc \notin Deciding]_vars
=============================================================================
