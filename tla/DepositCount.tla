------------------------------ MODULE DepositCount ------------------------------
(*****************************************************************************)
(* How the deposits an owner makes to the wallet are counted into a          *)
(* position's Lifetime results, by three activities that read the chain for  *)
(* seconds to hours and save over one another: a poll's count when the       *)
(* wallet has risen, held in memory; a rebalance's or compound's count       *)
(* before it moves the coins, saved at once (src/lib/deposit-count.js); and  *)
(* the Lifetime scan, which counts what each mint swept in                   *)
(* (src/lib/lifetime-hodl.js, src/lib/bot-hodl-scan.js).  Reload clears all  *)
(* of it to build it again from the chain, and a crash keeps only the cache. *)
(*                                                                           *)
(* At most one deposit lands in a block, and is known by it.                 *)
(*****************************************************************************)
EXTENDS Integers, FiniteSets

CONSTANTS
    MaxBlock,      \* bound: blocks
    MaxMoves,      \* bound: rebalances and compounds
    MaxEvents      \* bound: reloads, crashes, withdrawals and failed reads

ASSUME ConstantsAssumption == {MaxBlock, MaxMoves, MaxEvents} \subseteq Nat

VARIABLES
    chain,     \* the newest block, the blocks with a deposit, those with a mint of ours
    wallet,    \* the wallet's coins
    mem,       \* lifetimeHodlAmounts on the bot state
    life,      \* the same, in the epoch cache
    fresh,     \* its fresh-deposit record, which a scan starts from
    overlay,   \* _depositOverlay: what polls found since
    seen,      \* _depositWalletSeen, or -1
    loop,      \* the position's loop: a poll's count, or a move
    scan,      \* the Lifetime scan
    moves, events

vars == <<chain, wallet, mem, life, fresh, overlay, seen, loop, scan, moves, events>>

-----------------------------------------------------------------------------

Blocks == 1 .. MaxBlock

\* Results: how often each deposit is listed, the newest mint covered (lastBlock), and how
\* far the moves' counts have read (countedThrough, 0 when none has).
Nothing == [b \in Blocks |-> 0]

NoResults == [there |-> FALSE, list |-> Nothing, last |-> 0, through |-> 0]
NoOverlay == [there |-> FALSE, list |-> Nothing, through |-> 0]
NoPlan    == [from |-> 0, overlay |-> NoOverlay, reading |-> 0, found |-> {}, head |-> 0]
AtRest    == [pc |-> "idle", plan |-> NoPlan]
NoScan    == [pc |-> "none", all |-> FALSE, known |-> {}, base |-> NoResults]

Larger(a, b) == IF a > b THEN a ELSE b

Plus(list, found) == [b \in Blocks |-> list[b] + IF b \in found THEN 1 ELSE 0]

Listed(r) == {b \in Blocks : r.list[b] > 0}

Newest(mints) == CHOOSE m \in mints : \A k \in mints : k <= m

\* A deposit in blocks after from, up to to.
DepositsIn(from, to) == {b \in chain.deposits : from < b /\ b <= to}

Init ==
    /\ chain = [head |-> 0, deposits |-> {}, mints |-> {0}]
    /\ wallet = 0
    /\ mem = [NoResults EXCEPT !.there = TRUE] /\ life = mem /\ fresh = mem
    /\ overlay = NoOverlay /\ seen = -1
    /\ loop = AtRest /\ scan = NoScan
    /\ moves = 0 /\ events = 0

results == <<mem, life, fresh>>

-----------------------------------------------------------------------------
(* The count (deposit-count.js).                                             *)

\* A bug: a move's count goes on from where the polls' counts ended.
CountFromOverlay(kind) ==
    LET base == Larger(Larger(mem.through, mem.last), Newest(chain.mints))
    IN  Larger(base, overlay.through)

\* A bug: a count reads its last block again.
CountFromBefore(kind) ==
    LET base == Larger(Larger(mem.through, mem.last), Newest(chain.mints))
    IN  (IF kind = "poll" THEN Larger(base, overlay.through) ELSE base) - 1

\* The block after which a count reads: past the last move's count, the newest mint the
\* results cover and the position's own mint; a poll's goes on from the polls' own.
CountFrom(kind) ==
    LET base == Larger(Larger(mem.through, mem.last), Newest(chain.mints))
    IN  IF kind = "poll" THEN Larger(base, overlay.through) ELSE base

Plan(kind) == [NoPlan EXCEPT !.from = CountFrom(kind), !.overlay = overlay, !.reading = wallet]

\* A poll reads the wallet: it counts when the wallet has risen since the last poll,
\* or no reading is kept.
PollReads ==
    /\ loop = AtRest
    /\ IF seen # -1 /\ wallet <= seen
       THEN seen' = wallet /\ UNCHANGED loop
       ELSE /\ mem.there
            /\ loop' = [pc |-> "counting", plan |-> Plan("poll")]
            /\ UNCHANGED seen
    /\ UNCHANGED <<chain, wallet, results, overlay, scan, moves, events>>

\* The overlay with a poll's finds: after what the overlay held when the count started.
Held(p) == [there |-> TRUE, list |-> Plus(p.overlay.list, p.found),
            through |-> Larger(p.head, p.overlay.through)]

\* The chain has been read: dropped if Reload has cleared the results; else held,
\* once each deposit found is priced.
PollCounted ==
    /\ loop.pc = "counting"
    /\ LET p == [loop.plan EXCEPT !.head = chain.head,
                                  !.found = DepositsIn(loop.plan.from, chain.head)]
       IN  \/ ~mem.there /\ loop' = AtRest /\ UNCHANGED <<overlay, seen>>
           \/ /\ mem.there /\ p.found # {}
              /\ loop' = [pc |-> "pricing", plan |-> p]
              /\ UNCHANGED <<overlay, seen>>
           \/ /\ mem.there /\ p.found = {}
              /\ overlay' = Held(p) /\ seen' = p.reading /\ loop' = AtRest
    /\ UNCHANGED <<chain, wallet, results, scan, moves, events>>

PollPriced ==
    /\ loop.pc = "pricing"
    /\ overlay' = Held(loop.plan) /\ seen' = loop.plan.reading /\ loop' = AtRest
    /\ UNCHANGED <<chain, wallet, results, scan, moves, events>>

\* A rebalance or a compound begins: the wallet's reading is forgotten, and a count
\* planned if there are results to add to.
MoveBegins ==
    /\ loop = AtRest /\ moves < MaxMoves
    /\ moves' = moves + 1
    /\ seen' = -1
    /\ loop' = IF mem.there THEN [pc |-> "moveCounting", plan |-> Plan("move")]
               ELSE [pc |-> "moving", plan |-> NoPlan]
    /\ UNCHANGED <<chain, wallet, results, overlay, scan, events>>

\* A bug: a deposit other results hold already is added again.
AddedAgain(r, found) == [r EXCEPT !.list = Plus(@, found)]

\* The deposits found that the results do not hold yet are added to them.
Added(r, found) == [r EXCEPT !.list = Plus(@, found \ Listed(r))]

\* Its count has read the chain: it joins the results standing now, in memory and in the
\* cache, and the polls' interim count is dropped.  Reload is refused meanwhile, so there
\* are results.
MoveCounted ==
    /\ loop.pc = "moveCounting"
    /\ mem' = [Added(mem, DepositsIn(loop.plan.from, chain.head))
                 EXCEPT !.through = Larger(@, chain.head)]
    /\ life' = mem' /\ fresh' = mem'
    /\ overlay' = NoOverlay
    /\ loop' = [pc |-> "movePricing", plan |-> NoPlan]
    /\ UNCHANGED <<chain, wallet, seen, scan, moves, events>>

\* The results are saved again as they then stand.
MovePriced ==
    /\ loop.pc = "movePricing"
    /\ life' = mem /\ fresh' = mem
    /\ loop' = [pc |-> "moving", plan |-> NoPlan]
    /\ UNCHANGED <<chain, wallet, mem, overlay, seen, scan, moves, events>>

\* A count whose reads fail is not counted: a poll asks again, a move goes on.
CountFails ==
    /\ loop.pc \in {"counting", "moveCounting"} /\ events < MaxEvents
    /\ events' = events + 1
    /\ loop' = IF loop.pc = "counting" THEN AtRest ELSE [pc |-> "moving", plan |-> NoPlan]
    /\ UNCHANGED <<chain, wallet, results, overlay, seen, scan, moves>>

-----------------------------------------------------------------------------
(* The chain.                                                                *)

\* The next block, with or without a deposit of the owner's.
Block ==
    /\ chain.head < MaxBlock
    /\ \E d \in {0, 1} :
         /\ chain' = [chain EXCEPT !.head = @ + 1,
                        !.deposits = IF d = 1 THEN @ \cup {chain.head + 1} ELSE @]
         /\ wallet' = wallet + d
    /\ UNCHANGED <<results, overlay, seen, loop, scan, moves, events>>

\* A rebalance's mint, which takes the wallet; a deposit may share its block.
Mint ==
    /\ loop.pc = "moving" /\ chain.head < MaxBlock
    /\ \E d \in {0, 1} :
         chain' = [head |-> chain.head + 1, mints |-> chain.mints \cup {chain.head + 1},
                   deposits |-> IF d = 1 THEN chain.deposits \cup {chain.head + 1}
                                ELSE chain.deposits]
    /\ wallet' = 0
    /\ loop' = AtRest
    /\ UNCHANGED <<results, overlay, seen, scan, moves, events>>

\* A compound, which takes the wallet or leaves it, or a move that fails.
MoveEnds ==
    /\ loop.pc = "moving"
    /\ wallet' \in {0, wallet}
    /\ loop' = AtRest
    /\ UNCHANGED <<chain, results, overlay, seen, scan, moves, events>>

OwnerWithdraws ==
    /\ wallet > 0 /\ events < MaxEvents
    /\ wallet' = wallet - 1 /\ events' = events + 1
    /\ UNCHANGED <<chain, results, overlay, seen, loop, scan, moves>>

-----------------------------------------------------------------------------
(* The Lifetime scan.  None starts while a move is under way; a Rebalance Now *)
(* or a Compound Now may be made while one runs.                             *)

MoveUnderWay == loop.pc \in {"moveCounting", "movePricing", "moving"}

\* The deposits are recounted when there are no results, when they stop short of the
\* newest mint, or when a full rescan is asked for.
RecountDue == ~life.there \/ life.last < Newest(chain.mints)

ScanStarts ==
    /\ scan = NoScan /\ ~MoveUnderWay
    /\ \E full \in BOOLEAN :
         scan' = [NoScan EXCEPT !.pc = "reading", !.all = full \/ RecountDue]
    /\ UNCHANGED <<chain, wallet, results, overlay, seen, loop, moves, events>>

\* The position's mints have been read.  A scan with nothing to recount leaves the results
\* as they are (_keepHeldResults).
ScanReads ==
    /\ scan.pc = "reading"
    /\ scan' = IF scan.all THEN [scan EXCEPT !.pc = "read", !.known = chain.mints] ELSE NoScan
    /\ UNCHANGED <<chain, wallet, results, overlay, seen, loop, moves, events>>

\* The tally starts from the deposits saved.
ScanTallies ==
    /\ scan.pc = "read"
    /\ scan' = [scan EXCEPT !.pc = "tally", !.base = fresh]
    /\ UNCHANGED <<chain, wallet, results, overlay, seen, loop, moves, events>>

\* The deposits in the windows of the mints not covered yet: after the mint before, up to
\* the mint's own block.
Windows(known, after) ==
    {b \in chain.deposits : \E m \in known :
        /\ m > after /\ b <= m
        /\ \A k \in known : k < m => k < b}

\* computeLifetimeHodl.
Tallied(known, base) ==
    [Added(base, Windows(known, base.last)) EXCEPT
        !.there = TRUE, !.last = Larger(base.last, Newest(known))]

\* A bug: what a count saved during the scan is overwritten.
WithoutLaterCounts(hodl, latest) == hodl

\* The counts saved while the scan ran are put back.
WithLaterCounts(hodl, latest) ==
    LET later == Listed(latest) \ Listed(hodl)
    IN  IF later = {} THEN hodl
        ELSE [Added(hodl, later) EXCEPT !.through = Larger(@, latest.through)]

ScanEnds ==
    /\ scan.pc = "tally"
    /\ LET computed == Tallied(scan.known, scan.base)
           hodl     == WithLaterCounts(computed, fresh)
       IN  /\ mem' = hodl /\ life' = hodl
           /\ fresh' = IF hodl # computed \/ hodl.last > scan.base.last THEN hodl ELSE fresh
    /\ scan' = NoScan
    /\ UNCHANGED <<chain, wallet, overlay, seen, loop, moves, events>>

ScanFails ==
    /\ scan # NoScan /\ events < MaxEvents
    /\ events' = events + 1
    /\ scan' = NoScan
    /\ UNCHANGED <<chain, wallet, results, overlay, seen, loop, moves>>

\* Reload Current Position, refused while a scan or a move is under way: it clears what was
\* counted and starts the scan in the same step.  A poll's count may be reading.
Reload ==
    /\ scan = NoScan /\ ~MoveUnderWay /\ events < MaxEvents
    /\ events' = events + 1
    /\ mem' = NoResults /\ life' = NoResults /\ fresh' = NoResults
    /\ overlay' = NoOverlay /\ seen' = -1
    /\ scan' = [NoScan EXCEPT !.pc = "reading", !.all = TRUE]
    /\ UNCHANGED <<chain, wallet, loop, moves>>

\* The app crashes and starts again: the results come back from the cache.
Restart ==
    /\ events < MaxEvents
    /\ events' = events + 1
    /\ mem' = life
    /\ overlay' = NoOverlay /\ seen' = -1
    /\ loop' = AtRest /\ scan' = NoScan
    /\ UNCHANGED <<chain, wallet, life, fresh, moves>>

Next ==
    \/ PollReads \/ PollCounted \/ PollPriced
    \/ MoveBegins \/ MoveCounted \/ MovePriced \/ MoveEnds \/ CountFails
    \/ Block \/ Mint \/ OwnerWithdraws
    \/ ScanStarts \/ ScanReads \/ ScanTallies \/ ScanEnds \/ ScanFails
    \/ Reload \/ Restart

Spec == Init /\ [][Next]_vars

-----------------------------------------------------------------------------

Lists == [Blocks -> Nat]
Results  == [there : BOOLEAN, list : Lists, last : Nat, through : Nat]
Overlays == [there : BOOLEAN, list : Lists, through : Nat]

TypeOK ==
    /\ chain \in [head : 0 .. MaxBlock, deposits : SUBSET Blocks, mints : SUBSET (0 .. MaxBlock)]
    /\ wallet \in Nat
    /\ {mem, life, fresh} \subseteq Results
    /\ overlay \in Overlays
    /\ seen \in Nat \cup {-1}
    /\ loop \in [pc : {"idle", "counting", "pricing", "moveCounting", "movePricing", "moving"},
                 plan : [from : Nat, overlay : Overlays, reading : Nat,
                         found : SUBSET Blocks, head : Nat]]
    /\ scan \in [pc : {"none", "reading", "read", "tally"}, all : BOOLEAN,
                 known : SUBSET (0 .. MaxBlock), base : Results]
    /\ moves \in 0 .. MaxMoves /\ events \in 0 .. MaxEvents

\* How often the position's figures count a deposit: the results' list, and what polls
\* found after the newest mint the results cover (counted-deposits.js: pollDeposits).
Counted(b) == mem.list[b] + IF b > mem.last THEN overlay.list[b] ELSE 0

\* No deposit is counted twice, by whichever of the polls, moves and scans found it and
\* however their reads and writes interleave with Reload and crashes.
CountedOnce == \A b \in Blocks : Counted(b) <= 1 /\ life.list[b] <= 1 /\ fresh.list[b] <= 1

\* What the results say they cover, they hold: every deposit up to the newest mint they cover,
\* and, past the position's own mint, every one up to where the moves' counts have read;
\* in memory and in both records of the cache.
CoveredCounted ==
    \A r \in {mem, life, fresh} :
        \A b \in chain.deposits :
            r.there /\ (b <= r.last \/ (b > Newest(chain.mints) /\ b <= r.through))
                => r.list[b] > 0

\* A deposit the figures count goes on counting, unless Reload or a crash takes the
\* results or the polls' count with it, or it was swept by a mint whose scan is due.
NeverLost ==
    [][\A b \in Blocks :
         (Counted(b) > 0 /\ Counted(b)' = 0)
            => \/ events' # events
               \/ b <= Newest(chain.mints) /\ mem.last < Newest(chain.mints)]_vars
=============================================================================
