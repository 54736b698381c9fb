------------------------------- MODULE MoveSteps -------------------------------
(*****************************************************************************)
(* A position's rebalances and compounds, step by step, as one of its two    *)
(* coins sees them (src/lib/rebalancer.js, rebalancer-execute.js,            *)
(* rebalancer-correct.js, compounder.js, compound-collect.js): the wallet is *)
(* read before and after the transactions, the owner may move coins in and   *)
(* out of it between any two steps, an endpoint may answer with the balance  *)
(* before the last change, and any step may fail.  Three figures must survive*)
(* all of that: the gas of every mined transaction (spent-gas.js), the fees  *)
(* a compound put back (compounded-coins.js), and the coins a rebalance      *)
(* minted from less the owner's deposits (rebalance-activity-figures.js),    *)
(* which are those that a replay of the moves says still waited in the       *)
(* wallet (deposit-attribution.js).                                          *)
(*                                                                           *)
(* A transaction costs one unit of gas.  The swap's own machinery is         *)
(* SwapRoutes: here it is a step that mines some transactions, and whose     *)
(* result or error names all of them.  What the other coin does is a choice. *)
(*****************************************************************************)
EXTENDS Integers

CONSTANTS
    Behind,        \* may an endpoint answer the balance before the last change?
    Held,          \* bound: what the wallet may hold at first
    MaxIterations, \* _MAX_ITERATIONS of rebalancer-correct.js
    SwapGas,       \* bound: transactions of one swap
    MaxCoins,      \* bound: coins in the wallet
    MaxMoves,      \* bound: moves
    MaxEvents      \* bound: transfers of the owner and fees earned

ASSUME ConstantsAssumption ==
    /\ Behind \in BOOLEAN /\ Held \subseteq Nat
    /\ {MaxIterations, SwapGas, MaxCoins, MaxMoves, MaxEvents} \subseteq Nat

VARIABLES
    chain,     \* the wallet's balance, and the one before; the position's
               \* coins, its fees, and whether it holds liquidity
    move,      \* the move under way
    loose,     \* a transaction left unsettled by a failed move
    unbooked,  \* gas mined, less what the records hold and what is known lost
    purse,     \* the owner's deposits that wait in the wallet, by the replay; and history:
               \* the wallet's coins that came out of the position since it was minted
    result,    \* history: what the last move reported
    moves, events

vars == <<chain, move, loose, unbooked, purse, result, moves, events>>

-----------------------------------------------------------------------------

\* The gas each layer answers for: the confirmed steps (paidWei), the rounds of
\* the corrective swap, the approvals, and a transaction whose result is being read.
NoGas == [paid |-> 0, rounds |-> 0, approvals |-> 0, tx |-> 0]

NoSwap == [sold |-> 0, bought |-> 0, ran |-> FALSE, known |-> TRUE]

Idle == [kind |-> "none", pc |-> "idle", gas |-> NoGas, round |-> 0,
         before |-> 0, after |-> 0, got |-> 0, want |-> 0, put |-> 0, took |-> 0,
         swap |-> NoSwap,
         \* history: the coins the move itself took out, what came between its readings,
         \* and what the purse held when the wallet was read
         own |-> 0, reported |-> TRUE, astray |-> FALSE, came |-> FALSE, out |-> 0]

NoResult == [fees |-> 0, own |-> 0, put |-> 0, known |-> TRUE, quiet |-> FALSE,
             figure |-> 0, drained |-> 0, out |-> 0, rest |-> 0, still |-> FALSE]

NewPurse == [waiting |-> 0, out |-> 0]

Unknown == -1

Init ==
    /\ chain \in [wallet : Held, was : Held, coins : {1}, fees : {1}, open : {TRUE}]
    /\ chain.was = chain.wallet
    /\ move = Idle /\ loose = "none"
    /\ unbooked = 0 /\ purse = NewPurse /\ result = NoResult
    /\ moves = 0 /\ events = 0

At(kind, pc) == move.kind \in kind /\ move.pc = pc
Rebalance == {"rebalance"}
Compound  == {"compound"}
Either    == {"rebalance", "compound"}

Holding(c, amount) == [c EXCEPT !.wallet = amount, !.was = c.wallet]

\* What balanceOf may answer.
Reading == IF Behind THEN {chain.wallet, chain.was} ELSE {chain.wallet}

\* A move that has read b: whether the answer was behind is remembered.
Having(m, b) == [m EXCEPT !.astray = @ \/ b # chain.wallet]

\* Between the move's first reading of the wallet and the last that its figures use.
Between(m) == m.pc \in IF m.kind = "rebalance" THEN {"draining", "took", "drained"}
                       ELSE {"draining", "took", "swapping", "swapped"}

\* The deposits up to its mint count for a rebalance, though its readings end sooner.
BeforeMint(m) == m.kind = "rebalance" /\ m.pc \notin {"started", "sent"}

\* Coins that leave the wallet, or come into it, between the readings are remembered.
Left(m) == [m EXCEPT !.astray = @ \/ Between(m)]
Came(m) == [m EXCEPT !.came = @ \/ Between(m) \/ BeforeMint(m)]

Least(a, b) == IF a < b THEN a ELSE b
Rise(before, after) == IF after > before THEN after - before ELSE 0

\* A compound between its first reading and its deposit.
Compounding == move.kind = "compound" /\ move.pc \notin {"started", "sent"}

\* A purse in a wallet left with so many coins.  What leaves it is of other coins first,
\* then of the position's; once it holds less than the deposits that are said to wait, or
\* less than a compound has read, they can no longer be told apart.
Told(p, left) ==
    [p EXCEPT !.out = IF @ = Unknown \/ Compounding \/ left < p.waiting THEN Unknown
                      ELSE Least(@, left - p.waiting)]

-----------------------------------------------------------------------------
(* How a move ends.                                                          *)

\* A bug: gas the approvals paid does not ride on the error of a failed mint.
CarriedNoApprovals(g) == g.paid + g.rounds + g.tx

\* What an error has gathered by the time it leaves the move: each layer's
\* catch adds what it paid.
Carried(g) == g.paid + g.rounds + g.approvals + g.tx

\* The move ends, and figure is added to the records: recordSpentGas, or a closed
\* period's gas.
Ends(mined, figure) ==
    /\ unbooked' = unbooked + mined - figure
    /\ move' = Idle

\* A step fails having mined gas its own error names.
Fails(mined) ==
    /\ Ends(mined, mined + Carried(move.gas))
    /\ UNCHANGED <<chain, loose, purse, result, moves, events>>

\* A read the move cannot do without fails, or the step finds it cannot go on, or its
\* transaction is not sent.
ReadFails == move.pc \in {"started", "draining", "took", "drained", "swapping", "swapped",
                         "correcting", "sending"} /\ Fails(0)

\* The transaction of this step reverts, is cancelled, or is left unsettled
\* (an approval mined after its move changes nothing here).
SendFails ==
    /\ move.pc \in {"draining", "sending"}
    /\ \/ Fails(1)
       \/ /\ loose = "none"
          /\ loose' = CASE At(Rebalance, "draining") -> "drain"
                        [] At(Compound, "draining") -> "collect"
                        [] At(Rebalance, "sending") -> "mint"
                        [] OTHER -> "deposit"
          /\ Ends(0, Carried(move.gas))
          /\ UNCHANGED <<chain, purse, result, moves, events>>

\* Its transaction confirms: it is paid for, and the move goes on as m.
Confirms(m) ==
    /\ unbooked' = unbooked + 1
    /\ move' = m
    /\ UNCHANGED <<loose, result, moves, events>>

\* A step that sends nothing.
Goes(m) ==
    /\ move' = m
    /\ UNCHANGED <<chain, loose, unbooked, purse, result, moves, events>>

\* A step's gas moves to the confirmed steps'.
Paid(g) == [NoGas EXCEPT !.paid = Carried(g)]

-----------------------------------------------------------------------------
(* The steps both kinds share.                                               *)

Start(kind) ==
    /\ move = Idle /\ moves < MaxMoves
    /\ kind = "compound" => chain.open
    /\ moves' = moves + 1
    /\ move' = [Idle EXCEPT !.kind = kind, !.pc = "started"]
    /\ result' = NoResult
    /\ UNCHANGED <<chain, loose, unbooked, purse, events>>

\* The amounts a swap can sell or buy of this coin.
Swaps(most) ==
    {NoSwap} \cup
    {s \in [sold : {x \in 0 .. most : x <= chain.wallet}, bought : {0, 1}, ran : {TRUE},
            known : BOOLEAN] : s.sold = 0 \/ s.bought = 0}

Swapped(s) == Holding(chain, chain.wallet - s.sold + s.bought)

\* A compound sells what it collected; a rebalance, whatever the wallet held.
AfterSwap(s) ==
    IF move.kind = "compound" /\ s.sold <= move.own THEN purse
    ELSE Told(purse, Swapped(s).wallet)

\* The coins the ratio is computed from: the wallet's, or the fees collected.
SwapsFrom(m) == IF m.kind = "rebalance" THEN m.after ELSE m.got

Swap ==
    /\ At(Either, "swapping")
    /\ \E s \in Swaps(SwapsFrom(move)), mined \in 0 .. SwapGas :
          /\ s = NoSwap => mined = 0
          /\ Swapped(s).wallet <= MaxCoins
          /\ chain' = IF s = NoSwap THEN chain ELSE Swapped(s)
          /\ purse' = IF s = NoSwap THEN purse ELSE AfterSwap(s)
          /\ unbooked' = unbooked + mined
          /\ move' = IF move.kind = "rebalance"
                     THEN [move EXCEPT !.pc = "swapped", !.gas.paid = @ + mined]
                     ELSE [move EXCEPT !.pc = "swapped", !.gas.paid = @ + mined,
                             !.swap = s, !.own = @ - s.sold + s.bought]
    /\ UNCHANGED <<loose, result, moves, events>>

SwapFails ==
    /\ \/ At(Either, "swapping")
       \/ At(Rebalance, "correcting") /\ move.round < MaxIterations
    /\ \E mined \in 1 .. SwapGas : Fails(mined)

\* An approval, of either coin, before the mint or the deposit is sent.
Approve ==
    /\ At(Either, "sending") /\ move.gas.approvals < 2
    /\ Confirms([move EXCEPT !.gas.approvals = @ + 1])
    /\ UNCHANGED <<chain, purse>>

-----------------------------------------------------------------------------
(* executeRebalance.                                                         *)

\* Steps 1 to 3: with liquidity, the wallet before the drain; without, the wallet
\* is what there is to mint from, unless it holds neither coin.
ReadLiquidity ==
    /\ At(Rebalance, "started")
    /\ \E b \in Reading :
         \/ chain.open /\ Goes([Having(move, b) EXCEPT !.pc = "draining", !.before = b])
         \/ ~chain.open /\ Goes([Having(move, b) EXCEPT !.pc = "drained", !.before = b])
         \/ ~chain.open /\ b = 0 /\ Fails(0)

Drained(amount) == [purse EXCEPT !.out = IF @ = Unknown THEN @ ELSE @ + amount]

RemoveLiquidity ==
    /\ At(Rebalance, "draining")
    /\ LET out == chain.coins + chain.fees IN
       /\ chain' = [Holding(chain, chain.wallet + out)
                      EXCEPT !.coins = 0, !.fees = 0, !.open = FALSE]
       /\ purse' = Drained(out)
       /\ Confirms([move EXCEPT !.pc = "took", !.own = out, !.gas.tx = 1])

\* The wallet after the drain: a rise of zero in both coins ends the rebalance.
ReadRemoved ==
    /\ At(Rebalance, "took")
    /\ \E a \in Reading :
         \/ Goes([Having(move, a) EXCEPT !.pc = "drained", !.gas = Paid(move.gas)])
         \/ a = move.before /\ Fails(0)

\* Steps 4 and 5: the range is computed and the wallet read again.
ReadBalances ==
    /\ At(Rebalance, "drained")
    /\ \E a \in Reading :
          Goes([Having(move, a) EXCEPT !.pc = "swapping", !.after = a, !.out = purse.out])

\* Steps 6b and 6c: the range follows the price, which may leave it again before the check.
CheckTick ==
    /\ At(Rebalance, "swapped")
    /\ \/ Goes([move EXCEPT !.pc = "correcting"])
       \/ Ends(0, move.gas.paid) /\ UNCHANGED <<chain, loose, purse, result, moves, events>>

\* Step 6d: one round of the corrective swap.
CorrectiveSwap ==
    /\ At(Rebalance, "correcting") /\ move.round < MaxIterations
    /\ \E b \in Reading, mined \in 0 .. SwapGas : \E s \in Swaps(b) \ {NoSwap} :
          /\ Swapped(s).wallet <= MaxCoins
          /\ chain' = Swapped(s)
          /\ purse' = AfterSwap(s)
          /\ unbooked' = unbooked + mined
          /\ move' = [move EXCEPT !.round = @ + 1, !.gas.rounds = @ + mined]
    /\ UNCHANGED <<loose, result, moves, events>>

\* The coins are in ratio, the rest is too small to swap, or the rounds are spent: the
\* wallet is read for the mint.
ReadMintBalances ==
    /\ At(Rebalance, "correcting")
    /\ \E b \in Reading :
          Goes([move EXCEPT !.pc = "sending", !.gas = Paid(@), !.round = 0, !.want = b])

Mint ==
    /\ At(Rebalance, "sending")
    /\ \E x \in 0 .. move.want :
          /\ x <= chain.wallet
          /\ chain' = Holding(chain, chain.wallet - x)
          /\ purse' = NewPurse
          /\ Confirms([move EXCEPT !.pc = "sent", !.put = x, !.took = purse.waiting, !.gas.tx = 1])

\* The coins before the rebalance's swaps: the wallet after the drain, less the deposits
\* the rebalance took, of which no more can be in it than it held before the drain.
BeforeRebalance(m) == Rise(Least(m.took, m.before), m.after)

\* The mint's receipt names the new position, and the bookkeeping goes through.
RebalanceBooked ==
    /\ At(Rebalance, "sent")
    /\ chain' = [chain EXCEPT !.coins = move.put, !.open = TRUE]
    /\ Ends(0, Carried(move.gas))
    /\ result' = [result EXCEPT
           !.figure = BeforeRebalance(move), !.drained = move.own,
           !.out = IF move.came THEN Unknown ELSE move.out, !.rest = move.after - move.took,
           !.still = ~move.astray]
    /\ UNCHANGED <<loose, purse, moves, events>>

\* Whether a move whose records are not written is found on the chain later, by a scan
\* that lists it for the replay: until then the deposits it took are said to wait.
Unrecorded ==
    \/ UNCHANGED purse
    \/ /\ move.pc = "sent"
       /\ purse' = Told([purse EXCEPT !.waiting = @ + move.took], chain.wallet)

\* The mint's receipt names no position.
MintUnread ==
    /\ At(Rebalance, "sent")
    /\ Ends(0, Carried(move.gas))
    /\ Unrecorded
    /\ UNCHANGED <<chain, loose, result, moves, events>>

-----------------------------------------------------------------------------
(* executeCompound.                                                          *)

ReadBeforeCollect ==
    /\ At(Compound, "started")
    /\ \E b \in Reading : Goes([Having(move, b) EXCEPT !.pc = "draining", !.before = b])

Collect ==
    /\ At(Compound, "draining")
    /\ chain' = [Holding(chain, chain.wallet + chain.fees) EXCEPT !.fees = 0]
    /\ Confirms([move EXCEPT !.pc = "took", !.own = chain.fees, !.gas.tx = 1])
    /\ UNCHANGED purse

\* What the collect brought in: what it reported, but no more than the wallet rose by;
\* the rise alone when its receipt could not be read.
CollectedUnits(m, after, reported) ==
    LET rise == Rise(m.before, after)
    IN  IF reported /\ m.own < rise THEN m.own ELSE rise

ReadCollected ==
    /\ At(Compound, "took")
    /\ \E a \in Reading, reported \in BOOLEAN :
         LET m == [Having(move, a) EXCEPT !.after = a, !.reported = reported,
                     !.got = CollectedUnits(move, a, reported), !.gas = Paid(move.gas)]
         IN  \/ Goes([m EXCEPT !.pc = "swapping"])
             \* no fees in either coin
             \/ /\ m.got = 0
                /\ Ends(0, Carried(m.gas))
                /\ UNCHANGED <<chain, loose, purse, result, moves, events>>

\* After a swap the wallet is read again and all of it is deposited; without one,
\* what was collected.
ResolveDepositAmounts ==
    /\ At(Compound, "swapped")
    /\ IF move.swap.ran
       THEN \E b \in Reading :
              Goes([Having(move, b) EXCEPT !.pc = "sending", !.want = b, !.after = b])
       ELSE Goes([move EXCEPT !.pc = "sending", !.want = move.got])

\* A bug: what the swap bought is forgotten.
FeeCoinsSoldOnly(m) ==
    IF ~m.swap.ran THEN m.got
    ELSE IF m.swap.known THEN Rise(m.swap.sold, m.got) ELSE Unknown

\* The fee coins as the compound's own transactions moved them.
FeeCoinsAfterSwap(m) ==
    IF ~m.swap.ran THEN m.got
    ELSE IF m.swap.known THEN Rise(m.swap.sold, m.got) + m.swap.bought
    ELSE Unknown

\* A bug: the fee coins do not cap what the readings say.
CompoundFeeUnitsUncapped(m) ==
    LET took == Rise(m.after - m.put, m.before)
    IN  IF took >= m.put THEN 0 ELSE m.put - took

\* A bug: coins that left the wallet meanwhile make the fees negative.
CompoundFeeUnitsNegative(m) == m.put - Rise(m.after - m.put, m.before)

\* The fees among the coins the deposit put back: what it took, less what it took of
\* the wallet's earlier balance, and never more than the fee coins.
CompoundFeeUnits(m) ==
    LET took == Rise(m.after - m.put, m.before)
        out  == IF took >= m.put THEN 0 ELSE m.put - took
        cap  == FeeCoinsAfterSwap(m)
    IN  IF cap # Unknown /\ out > cap THEN cap ELSE out

\* A bug: the replay overlooks what a compound takes beyond its fees.
CompoundTakesNone(waiting, take, before) == 0

\* The deposits that a compound takes of those that wait: of the coins it takes beyond its
\* fees, in proportion to their share of the wallet before it; counted here in whole coins,
\* rounded down.
CompoundTakes(waiting, take, before) ==
    IF before = 0 THEN 0
    ELSE Least(Least(waiting, take), (waiting * take) \div before)

\* Every receipt of the compound could be read.
Known(m) == m.reported /\ (m.swap.ran => m.swap.known)

\* What came between the readings is told from fees by the receipts; no coin left.
Quiet(m) == ~m.astray /\ (m.came => Known(m))

\* The deposit confirms.  The replay learns of it by its record; into a wallet that held
\* none of the coin before the collect, it takes no deposit for taken.
AddLiquidity ==
    /\ At(Compound, "sending")
    /\ \E x \in 0 .. move.want :
          LET m    == [move EXCEPT !.pc = "sent", !.put = x, !.gas.tx = 1]
              q    == CompoundTakes(purse.waiting, Rise(CompoundFeeUnits(m), x), m.before)
              told == Quiet(m) /\ (m.came => m.before > 0) /\ purse.out # Unknown
              left == chain.wallet - x
          IN  /\ left >= 0
              /\ chain' = [Holding(chain, left) EXCEPT !.coins = @ + x, !.open = TRUE]
              /\ purse' = [waiting |-> purse.waiting - q,
                           out |-> IF told THEN Least(purse.out, Rise(purse.waiting - q, left))
                                   ELSE Unknown]
              /\ Confirms([m EXCEPT !.took = q])

\* The compound's record is written.
CompoundBooked ==
    /\ At(Compound, "sent")
    /\ Ends(0, Carried(move.gas))
    /\ result' = [result EXCEPT
           !.fees = CompoundFeeUnits(move), !.own = move.own, !.put = move.put,
           !.known = Known(move), !.quiet = Quiet(move)]
    /\ UNCHANGED <<chain, loose, purse, moves, events>>

-----------------------------------------------------------------------------
(* What happens around a move.                                               *)

\* The bookkeeping throws, or the app crashes: the gas of the move is in no record.
Cut ==
    /\ move # Idle
    /\ unbooked' = 0 /\ move' = Idle
    /\ Unrecorded
    /\ UNCHANGED <<chain, loose, result, moves, events>>

\* A transaction left unsettled is mined after all; no record takes its gas.  Of the
\* deposits it took, the replay hears when a scan lists the transaction, or never.
LooseMines ==
    /\ loose # "none" /\ loose' = "none"
    /\ \/ UNCHANGED <<chain, move, purse>>   \* it reverts
       \/ /\ loose = "drain" /\ chain.open
          /\ chain' = [Holding(chain, chain.wallet + chain.coins + chain.fees)
                         EXCEPT !.coins = 0, !.fees = 0, !.open = FALSE]
          /\ purse' = Drained(chain.coins + chain.fees)
          /\ move' = Came(move)
       \/ /\ loose = "collect"
          /\ chain' = [Holding(chain, chain.wallet + chain.fees) EXCEPT !.fees = 0]
          /\ move' = Came(move) /\ UNCHANGED purse
       \/ \E x \in 1 .. chain.wallet, w \in 0 .. purse.waiting :
          /\ loose \in {"mint", "deposit"}
          /\ chain' = [Holding(chain, chain.wallet - x)
                         EXCEPT !.coins = IF loose = "deposit" THEN @ + x ELSE @,
                                !.open = @ \/ loose = "deposit"]
          /\ purse' = Told([purse EXCEPT !.waiting = w], chain.wallet - x)
          /\ move' = Left(move)
    /\ UNCHANGED <<unbooked, result, moves, events>>

\* The owner sends coins to the wallet, or takes some out; the position earns fees.
OwnerDeposits ==
    /\ events < MaxEvents /\ chain.wallet < MaxCoins
    /\ events' = events + 1
    /\ chain' = Holding(chain, chain.wallet + 1)
    /\ purse' = [purse EXCEPT !.waiting = @ + 1]
    /\ move' = Came(move)
    /\ UNCHANGED <<loose, unbooked, result, moves>>

OwnerWithdraws ==
    /\ events < MaxEvents /\ chain.wallet > 0
    /\ events' = events + 1
    /\ chain' = Holding(chain, chain.wallet - 1)
    /\ purse' = Told(purse, chain.wallet - 1)
    /\ move' = Left(move)
    /\ UNCHANGED <<loose, unbooked, result, moves>>

EarnsFees ==
    /\ events < MaxEvents /\ chain.open
    /\ events' = events + 1
    /\ chain' = [chain EXCEPT !.fees = @ + 1]
    /\ UNCHANGED <<move, loose, unbooked, purse, result, moves>>

Next ==
    \/ \E kind \in Either : Start(kind)
    \/ ReadFails \/ SendFails
    \/ Swap \/ SwapFails \/ Approve
    \/ ReadLiquidity \/ RemoveLiquidity \/ ReadRemoved \/ ReadBalances \/ CheckTick
    \/ CorrectiveSwap \/ ReadMintBalances \/ Mint \/ RebalanceBooked \/ MintUnread
    \/ ReadBeforeCollect \/ Collect \/ ReadCollected \/ ResolveDepositAmounts
    \/ AddLiquidity \/ CompoundBooked
    \/ Cut \/ LooseMines \/ OwnerDeposits \/ OwnerWithdraws \/ EarnsFees

Spec == Init /\ [][Next]_vars

-----------------------------------------------------------------------------

Step == {"idle", "started", "draining", "took", "drained", "swapping", "swapped", "correcting",
         "sending", "sent"}

Chains == [wallet : Nat, was : Nat, coins : Nat, fees : Nat, open : BOOLEAN]
Gases  == [paid : Nat, rounds : Nat, approvals : 0 .. 2, tx : {0, 1}]
Sales  == [sold : Nat, bought : {0, 1}, ran : BOOLEAN, known : BOOLEAN]
Moves  == [kind : {"none"} \cup Either, pc : Step, gas : Gases, round : 0 .. MaxIterations,
           before : Nat, after : Nat, got : Nat, want : Nat, put : Nat, took : Nat,
           swap : Sales, own : Int, reported : BOOLEAN, astray : BOOLEAN, came : BOOLEAN,
           out : Nat \cup {Unknown}]
Purses == [waiting : Nat, out : Nat \cup {Unknown}]
Results == [fees : Nat, own : Int, put : Nat, known : BOOLEAN, quiet : BOOLEAN,
            figure : Nat, drained : Nat, out : Nat \cup {Unknown}, rest : Int, still : BOOLEAN]

TypeOK ==
    /\ chain \in Chains
    /\ move \in Moves
    /\ loose \in {"none", "drain", "collect", "mint", "deposit"}
    /\ unbooked \in Int /\ purse \in Purses
    /\ result \in Results
    /\ moves \in 0 .. MaxMoves /\ events \in 0 .. MaxEvents

\* Whatever step a move ends at, and however it ends, the records then hold the
\* gas of every transaction it mined, once (src/lib/spent-gas.js: "each layer adds only
\* the gas it paid itself").  A crash, a bookkeeping that throws and a transaction
\* that mines after its move gave up are the exceptions, and the only ones.
GasBooked == move = Idle => unbooked = 0

\* A compound's record counts no coin as a fee put back that its collect did not
\* bring in, or its swap buy with what the collect brought in, and none its deposit
\* did not take, whatever the owner moved, whatever mined and whatever an endpoint behind
\* the chain answered between the readings, as long as the receipts could be read.
FeesNeverOver ==
    result.known => result.fees <= result.own /\ result.fees <= result.put

\* With readings that are not behind, and no coins leaving the wallet during the compound,
\* the count is exact: every fee coin the deposit had room for.  A deposit of the owner
\* during the compound does not change it if the receipts could be read.
FeesExact ==
    result.quiet =>
        result.fees = IF result.own < result.put THEN result.own ELSE result.put

\* The rebalance's figure before its swaps tells the position's coins from the owner's
\* deposits, whatever compounds, failed attempts and crashes came before it.  What this
\* attempt drained is never set aside as a deposit.  And as long as nothing left the wallet
\* that the replay cannot know of, and nothing came in between this attempt's first reading
\* and its mint, the figure has every coin that came out of the position in this or an
\* earlier attempt, and none of a deposit that still waited.
CoinsToldApart ==
    result.still =>
        /\ result.figure >= result.drained
        /\ result.out # Unknown => result.figure \in result.out .. result.rest
=============================================================================
