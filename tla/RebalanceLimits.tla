---------------------------- MODULE RebalanceLimits ----------------------------
(*****************************************************************************)
(* The limits on automatic rebalances of the positions in one pool: each     *)
(* position's throttle (Throttle), and the pool's daily count they share     *)
(* (src/lib/position-manager.js), through polls that pass the gates, wait    *)
(* for the rebalance lock, rebalance, and only then are counted; through     *)
(* midnight at any of these moments; and through a crash, which forgets the  *)
(* throttles and takes the pool's count from the log on disk.                *)
(*                                                                           *)
(* Whether a position is out of range is a choice at each poll, and so is    *)
(* how long anything takes.                                                  *)
(*****************************************************************************)
EXTENDS Throttle

CONSTANTS
    Positions,     \* positions the app manages in the pool
    Tracked,       \* those whose throttle is followed; another's may let
                   \* any poll pass, or none
    DailyMax,      \* maxRebalancesPerDay
    Day,           \* ticks in a day
    MaxEvents      \* bound: Rebalance Now requests and crashes

ASSUME ConstantsAssumption ==
    /\ IsFiniteSet(Positions) /\ Tracked \subseteq Positions
    /\ Intervals \subseteq 1 .. MaxWait /\ Intervals # {}
    /\ {DailyMax, Day, MaxAge, MaxWait} \subseteq Nat \ {0}
    /\ {TriggerCount, TriggerWindowMultiple, QuietWindowMultiple} \subseteq Nat \ {0}
    /\ MaxEvents \in Nat

VARIABLES
    left,          \* ticks to midnight UTC
    thr,           \* each tracked position's throttle
    pc,            \* where its poll is
    forced,        \* is what it decides or makes a Rebalance Now?
    poolCount,     \* _poolDailyCounts, of this pool
    logged,        \* today's entries in the rebalance log on disk
    events,        \* requests and crashes so far
    today,         \* history: today's rebalances on the chain (all), the
                   \* automatic of them, and those a crash cut off
    since          \* history: ticks since a tracked one's last rebalance

vars == <<left, thr, pc, forced, poolCount, logged, events, today, since>>

\* polling: past configure and tick.  gated: past the gates, its figures and gas looked up, or in the lock's queue.
\* moving: the lock is held.  minted: the chain has the new position.  counted: recorded, and not in the log.
PC == {"idle", "polling", "gated", "moving", "minted", "counted"}

NothingToday == [all |-> 0, auto |-> 0, cut |-> 0]

Init ==
    /\ left \in 1 .. Day
    /\ thr \in [Tracked -> {Fresh(i) : i \in Intervals}]
    /\ pc = [p \in Positions |-> "idle"]
    /\ forced = [p \in Positions |-> FALSE]
    /\ poolCount = 0 /\ logged = 0
    /\ events = 0
    /\ today = NothingToday
    /\ since = [p \in Tracked |-> MaxAge]

At(where) == {p \in Positions : pc[p] \in where}
Goes(p, from, to) == pc[p] = from /\ pc' = [pc EXCEPT ![p] = to]
Ends(p, from) ==
    Goes(p, from, "idle") /\ forced' = [forced EXCEPT ![p] = FALSE]

\* p's throttle becomes t, where it is followed.
Throttled(p, t) == thr' = [x \in Tracked |-> IF x = p THEN t ELSE thr[x]]

-----------------------------------------------------------------------------
(* A poll. *)

\* _reloadFromConfig, then pollCycle's throttle.tick().
PollBegins(p) ==
    /\ Goes(p, "idle", "polling")
    /\ \E i \in Intervals : Throttled(p, Ticked(Configured(thr[p], i)))
    /\ \E f \in BOOLEAN :
           /\ f => events < MaxEvents
           /\ forced' = [forced EXCEPT ![p] = f]
           /\ events' = IF f THEN events + 1 ELSE events
    /\ UNCHANGED <<left, poolCount, logged, today, since>>

\* gatesBeforeGuard
PassesLimits(p) ==
    \/ forced[p]
    \/ /\ poolCount < DailyMax
       /\ p \in Tracked => CanRebalance(thr[p], DailyMax)

GatePasses(p) ==
    /\ Goes(p, "polling", "gated") /\ PassesLimits(p)
    /\ UNCHANGED <<left, thr, forced, poolCount, logged, events, today, since>>

\* In range or held back; or turned back later by the Guard, by gas, or by a stop.
PollEnds(p) ==
    /\ Ends(p, "polling") \/ Ends(p, "gated")
    /\ UNCHANGED <<left, thr, poolCount, logged, events, today, since>>

\* A bug: a rebalance does not wait for the lock.
StartsAnyway(p) ==
    /\ Goes(p, "gated", "moving")
    /\ UNCHANGED <<left, thr, forced, poolCount, logged, events, today, since>>

\* _prepareRebalance: the lock is free for it.
Starts(p) ==
    /\ Goes(p, "gated", "moving")
    /\ At({"moving", "minted", "counted"}) = {}
    /\ UNCHANGED <<left, thr, forced, poolCount, logged, events, today, since>>

Fails(p) ==
    /\ Ends(p, "moving")
    /\ UNCHANGED <<left, thr, poolCount, logged, events, today, since>>

Mints(p) ==
    /\ Goes(p, "moving", "minted")
    /\ since' = [x \in Tracked |-> IF x = p THEN 0 ELSE since[x]]
    /\ today' = [today EXCEPT !.all = @ + 1,
                              !.auto = @ + (IF forced[p] THEN 0 ELSE 1)]
    /\ UNCHANGED <<left, thr, forced, poolCount, logged, events>>

\* A bug: only the position's own throttle counts.
CountsOwn == UNCHANGED poolCount

\* recordPoolRebalance
CountsPool == poolCount' = poolCount + 1

\* _handleRebalanceSuccess, to its first await: prices.
Counts(p) ==
    /\ Goes(p, "minted", "counted")
    /\ Throttled(p, Recorded(thr[p])) /\ CountsPool
    /\ UNCHANGED <<left, forced, logged, events, today, since>>

\* appendLog; the lock is let go.
Logs(p) ==
    /\ Ends(p, "counted") /\ logged' = logged + 1
    /\ UNCHANGED <<left, thr, poolCount, events, today, since>>

-----------------------------------------------------------------------------
(* What else happens. *)

\* A history scan of the pool ends, with what its endpoint knows of today.
ScanEnds(p) ==
    /\ p \in Tracked /\ pc[p] = "idle" /\ ~thr[p].due
    /\ \E n \in 1 .. today.all : Throttled(p, Rehydrated(thr[p], n))
    /\ UNCHANGED <<left, pc, forced, poolCount, logged, events, today, since>>

\* The process dies and comes back: seedPoolDailyCounts reads the log.
Crash ==
    /\ events < MaxEvents /\ events' = events + 1
    /\ thr' \in [Tracked -> {Fresh(i) : i \in Intervals}]
    /\ pc' = [p \in Positions |-> "idle"]
    /\ poolCount' = logged
    /\ today' = [today EXCEPT !.cut =
           @ + Cardinality(At({"minted", "counted"}))]
    /\ since' = [p \in Tracked |-> MaxAge]
    /\ forced' = [p \in Positions |-> FALSE]
    /\ UNCHANGED <<left, logged>>

\* Every read of the pool's counts resets them first (_tickPoolDaily).
TimePasses ==
    LET midnight == left = 1 IN
    /\ left' = IF midnight THEN Day ELSE left - 1
    /\ thr' = [p \in Tracked |-> Aged(thr[p], midnight)]
    /\ since' = [p \in Tracked |-> AtMost(since[p] + 1, MaxAge)]
    /\ IF midnight THEN poolCount' = 0 /\ logged' = 0 /\ today' = NothingToday
       ELSE UNCHANGED <<poolCount, logged, today>>
    /\ UNCHANGED <<pc, forced, events>>

Move(p) == Fails(p) \/ Mints(p) \/ Counts(p) \/ Logs(p)

Next ==
    \/ \E p \in Positions :
           \/ PollBegins(p) \/ GatePasses(p) \/ PollEnds(p) \/ Starts(p)
           \/ Move(p) \/ ScanEnds(p)
    \/ Crash \/ TimePasses

\* The clock goes on; polls recur, and a move ends (TxPipeline's
\* EveryCallEnds).  The lock is first come, first served (MoveControl).
Fairness ==
    /\ WF_vars(TimePasses)
    /\ \A p \in Positions :
           /\ WF_vars(PollBegins(p)) /\ WF_vars(PollEnds(p) \/ GatePasses(p))
           /\ SF_vars(Starts(p)) /\ WF_vars(Move(p))

Spec == Init /\ [][Next]_vars
LiveSpec == Spec /\ Fairness

-----------------------------------------------------------------------------
(* Properties. *)

\* Every variable has its type, and one position at a time holds the lock.
TypeOK ==
    /\ left \in 1 .. Day /\ thr \in [Tracked -> Throttles]
    /\ pc \in [Positions -> PC] /\ forced \in [Positions -> BOOLEAN]
    /\ poolCount \in Nat /\ logged \in Nat
    /\ events \in 0 .. MaxEvents
    /\ today \in [all : Nat, auto : Nat, cut : Nat]
    /\ since \in [Tracked -> 0 .. MaxAge]
    /\ \A p, q \in At({"moving", "minted", "counted"}) : p = q

\* configuration.md:294, "Daily cap, counted per pool": the count is asked
\* before the wait for the lock and raised after the rebalance, so positions
\* that wait together may pass the cap together; but by no more than one
\* each, whatever midnight and the owner's requests do meanwhile, and one for
\* each rebalance that a crash kept from the log.
PoolCapHolds ==
    today.auto <= DailyMax - 1 + Cardinality(Positions) + today.cut

\* throttle.js:8, "A minimum interval must elapse between any two
\* rebalances": however long a poll waits for the lock, over midnight, doubled
\* waits and changes of the interval, an automatic rebalance starts no sooner
\* after the position's last than the interval in force.
SpacedApart ==
    [][\A p \in Tracked :
           Starts(p) /\ ~forced[p] => since[p] >= AtMost(thr[p].minInterval, MaxAge)]_vars

\* throttle.js:16: no position is shut out for good; doubled waits run out
\* and days end, while the owner's requests and other positions' rebalances
\* go on.
WaitEnds ==
    \A p \in Tracked : []<>CanRebalance(thr[p], DailyMax)
=============================================================================
