---------------------------- MODULE MoveStepsProofs ----------------------------
(*****************************************************************************)
(* Theorems about MoveSteps, for any bounds, any number of corrective        *)
(* rounds and transactions of a swap, and endpoints behind or not.           *)
(*****************************************************************************)
EXTENDS MoveSteps, TLAPS

-----------------------------------------------------------------------------
(* Types. *)

\* Only a compound's swap takes from the coins a move took out.
OwnIsNat == move.kind = "rebalance" \/ move.pc = "took" => move.own \in Nat

Typed == TypeOK /\ OwnIsNat

LEMMA IdleType == Idle \in Moves
BY ConstantsAssumption DEF Idle, Moves, Gases, Sales, NoGas, NoSwap, Step

LEMMA HoldingType ==
    ASSUME NEW c \in Chains, NEW amount \in Nat
    PROVE  Holding(c, amount) \in Chains
BY DEF Holding, Chains

LEMMA ReadingType ==
    ASSUME TypeOK PROVE Reading \subseteq Nat
BY DEF TypeOK, Chains, Reading

LEMMA HavingType ==
    ASSUME NEW m \in Moves, NEW b PROVE Having(m, b) \in Moves
BY DEF Having, Moves

LEMMA LeftCameType ==
    ASSUME NEW m \in Moves PROVE Left(m) \in Moves /\ Came(m) \in Moves
<1>1. \A x, y \in BOOLEAN : (x \/ y) \in BOOLEAN
  OBVIOUS
<1>2. Between(m) \in BOOLEAN
  BY DEF Between
<1> QED
  BY <1>1, <1>2 DEF Left, Came, Moves

LEMMA CarriedType ==
    ASSUME NEW g \in Gases PROVE Carried(g) \in Nat /\ Paid(g) \in Gases
BY DEF Carried, Paid, NoGas, Gases

LEMMA RiseType ==
    ASSUME NEW a \in Int, NEW b \in Int PROVE Rise(a, b) \in Nat
BY DEF Rise

LEMMA LeastType ==
    ASSUME NEW a \in Nat, NEW b \in Nat
    PROVE  Least(a, b) \in Nat /\ Least(a, b) <= a /\ Least(a, b) <= b
BY DEF Least

LEMMA PurseFields ==
    ASSUME NEW p \in Purses
    PROVE  /\ p.waiting \in Nat /\ p.out \in Nat \cup {Unknown} /\ p.out \in Int
           /\ p = [waiting |-> p.waiting, out |-> p.out]
BY DEF Purses, Unknown

LEMMA PurseMade ==
    ASSUME NEW n \in Nat, NEW o \in Nat \cup {Unknown}
    PROVE  [waiting |-> n, out |-> o] \in Purses
BY DEF Purses

\* What is left of a purse: as many deposits wait, and what came out of the position fits
\* beside them.
LEMMA ToldPurse ==
    ASSUME NEW p \in Purses, NEW left \in Nat
    PROVE  /\ Told(p, left) \in Purses /\ Told(p, left).waiting = p.waiting
           /\ Told(p, left).out # Unknown =>
                 /\ p.out # Unknown /\ ~Compounding /\ Told(p, left).out <= p.out
                 /\ p.waiting + Told(p, left).out <= left
<1> DEFINE o == IF p.out = Unknown \/ Compounding \/ left < p.waiting THEN Unknown
                ELSE Least(p.out, left - p.waiting)
<1>1. p.waiting \in Nat /\ p.out \in Nat \cup {Unknown}
  BY PurseFields
<1>2. Told(p, left) = [waiting |-> p.waiting, out |-> o]
  BY PurseFields DEF Told
<1>3. CASE o = Unknown
  BY <1>1, <1>2, <1>3, PurseMade
<1>4. CASE o # Unknown
  <2>1. /\ p.out # Unknown /\ ~Compounding /\ p.out \in Nat /\ left - p.waiting \in Nat
        /\ o = Least(p.out, left - p.waiting)
    BY <1>1, <1>4
  <2>2. o \in Nat /\ o <= p.out /\ o <= left - p.waiting
    BY <2>1, LeastType
  <2> HIDE DEF o
  <2> QED
    BY <1>1, <1>2, <2>1, <2>2, PurseMade
<1> QED
  BY <1>3, <1>4

LEMMA DrainedPurse ==
    ASSUME TypeOK, NEW n \in Nat
    PROVE  /\ Drained(n) \in Purses /\ Drained(n).waiting = purse.waiting
           /\ Drained(n).out # Unknown =>
                 purse.out # Unknown /\ Drained(n).out = purse.out + n
<1> DEFINE o == IF purse.out = Unknown THEN purse.out ELSE purse.out + n
<1>1. purse \in Purses /\ purse.waiting \in Nat /\ purse.out \in Nat \cup {Unknown}
  BY PurseFields DEF TypeOK
<1>2. Drained(n) = [waiting |-> purse.waiting, out |-> o]
  BY <1>1, PurseFields DEF Drained
<1>3. o \in Nat \cup {Unknown} /\ (o # Unknown => purse.out # Unknown /\ o = purse.out + n)
  BY <1>1
<1> HIDE DEF o
<1> QED
  BY <1>1, <1>2, <1>3, PurseMade

LEMMA SwapsType ==
    ASSUME TypeOK, NEW most \in Nat, NEW s \in Swaps(most)
    PROVE  /\ s \in Sales /\ s.sold <= chain.wallet /\ s.sold <= most
           /\ Swapped(s) \in Chains
<1>1. chain.wallet \in Nat /\ chain \in Chains
  BY DEF TypeOK, Chains
<1>2. s \in Sales /\ s.sold <= chain.wallet /\ s.sold <= most
  <2>1. CASE s = NoSwap
    BY <1>1, <2>1 DEF NoSwap, Sales
  <2>2. CASE s # NoSwap
    <3>1. s \in [sold : {x \in 0 .. most : x <= chain.wallet}, bought : {0, 1}, ran : {TRUE},
                 known : BOOLEAN]
      BY <2>2, Zenon DEF Swaps
    <3>2. /\ s.sold \in {x \in 0 .. most : x <= chain.wallet}
          /\ s.bought \in {0, 1} /\ s.ran \in {TRUE} /\ s.known \in BOOLEAN
          /\ s = [sold |-> s.sold, bought |-> s.bought, ran |-> s.ran, known |-> s.known]
      BY <3>1, Zenon
    <3>3. s.sold \in 0 .. most /\ s.sold <= chain.wallet /\ s.ran \in BOOLEAN
      BY <3>2, Zenon
    <3>4. s.sold \in Nat /\ s.sold <= most
      BY <3>3
    <3>5. s \in Sales
      BY <3>2, <3>3, <3>4, Zenon DEF Sales
    <3> QED
      BY <3>3, <3>4, <3>5
  <2> QED
    BY <2>1, <2>2
<1>3. chain.wallet - s.sold + s.bought \in Nat
  BY <1>1, <1>2 DEF Sales
<1> QED
  BY <1>1, <1>2, <1>3, HoldingType DEF Swapped

LEMMA FeeUnitsType ==
    ASSUME NEW m \in Moves PROVE CompoundFeeUnits(m) \in Nat
<1>1. m.after - m.put \in Int /\ m.before \in Int /\ m.put \in Nat /\ m.got \in Nat
      /\ m.swap.sold \in Nat /\ m.swap.bought \in Nat
  BY DEF Moves, Sales
<1>2. Rise(m.after - m.put, m.before) \in Nat /\ Rise(m.swap.sold, m.got) \in Nat
  BY <1>1 DEF Rise
<1>3. FeeCoinsAfterSwap(m) \in Nat \cup {Unknown}
  BY <1>1, <1>2 DEF FeeCoinsAfterSwap
<1> QED
  BY <1>1, <1>2, <1>3 DEF CompoundFeeUnits

LEMMA FigureType ==
    ASSUME NEW m \in Moves PROVE BeforeRebalance(m) \in Nat
<1>1. m.took \in Nat /\ m.before \in Nat /\ m.after \in Nat
  BY DEF Moves
<1> QED
  BY <1>1 DEF BeforeRebalance, Rise, Least

LEMMA DivType ==
    ASSUME NEW a \in Nat, NEW b \in Nat, b # 0
    PROVE  a \div b \in Nat /\ b * (a \div b) <= a /\ a < b * (a \div b) + b
OBVIOUS

\* No more deposits are taken than wait, and none by a compound that takes nothing.
LEMMA TakesType ==
    ASSUME NEW w \in Nat, NEW t \in Nat, NEW b \in Nat
    PROVE  /\ CompoundTakes(w, t, b) \in Nat
           /\ CompoundTakes(w, t, b) <= w /\ CompoundTakes(w, t, b) <= t
<1>1. CASE b = 0
  BY <1>1 DEF CompoundTakes
<1>2. CASE b # 0
  <2>1. w * t \in Nat
    OBVIOUS
  <2>2. (w * t) \div b \in Nat
    BY <1>2, <2>1, DivType
  <2> DEFINE q == (w * t) \div b
  <2> HIDE DEF q
  <2>3. Least(Least(w, t), q) \in Nat /\ Least(Least(w, t), q) <= w /\ Least(Least(w, t), q) <= t
    BY <2>2 DEF q, Least
  <2> QED
    BY <1>2, <2>3 DEF CompoundTakes, q
<1> QED
  BY <1>1, <1>2

LEMMA TypeInit == Init => Typed
<1> SUFFICES ASSUME Init PROVE Typed
  OBVIOUS
<1>1. chain \in Chains
  <2>1. Held \subseteq Nat /\ {1} \subseteq Nat /\ {TRUE} \subseteq BOOLEAN
    BY ConstantsAssumption
  <2>2. [wallet : Held, was : Held, coins : {1}, fees : {1}, open : {TRUE}]
            \subseteq Chains
    BY <2>1 DEF Chains
  <2> QED
    BY <2>2 DEF Init
<1> QED
  BY <1>1, IdleType, ConstantsAssumption
     DEF Init, Typed, TypeOK, OwnIsNat, Idle, NoResult, Results, NewPurse, Purses

\* What every way to end a move leaves.
LEMMA EndsType ==
    ASSUME Typed, NEW mined \in Int, NEW figure \in Int, Ends(mined, figure)
    PROVE  /\ unbooked' \in Int /\ move' \in Moves /\ OwnIsNat'
BY IdleType DEF Ends, Typed, TypeOK, Idle, OwnIsNat

LEMMA FailsType ==
    ASSUME Typed, NEW mined \in Nat, Fails(mined) PROVE Typed'
<1>1. Carried(move.gas) \in Nat
  BY CarriedType DEF Typed, TypeOK, Moves
<1> QED
  BY <1>1, EndsType DEF Fails, Typed, TypeOK

LEMMA GoesType ==
    ASSUME Typed, NEW m \in Moves, m.kind = "rebalance" \/ m.pc = "took" => m.own \in Nat, Goes(m)
    PROVE  Typed'
BY DEF Goes, Typed, TypeOK, OwnIsNat

LEMMA ConfirmsType ==
    ASSUME Typed, NEW m \in Moves, m.kind = "rebalance" \/ m.pc = "took" => m.own \in Nat, Confirms(m),
           chain' \in Chains, purse' \in Purses
    PROVE  Typed'
BY DEF Confirms, Typed, TypeOK, OwnIsNat

LEMMA AfterSwapType ==
    ASSUME TypeOK, NEW most \in Nat, NEW s \in Swaps(most) PROVE AfterSwap(s) \in Purses
<1>1. purse \in Purses /\ Swapped(s).wallet \in Nat
  BY SwapsType DEF TypeOK, Chains
<1> QED
  BY <1>1, ToldPurse DEF AfterSwap

LEMMA SwapTypes ==
    ASSUME Typed, Swap PROVE Typed'
<1>1. move \in Moves /\ chain \in Chains /\ unbooked \in Int /\ SwapGas \in Nat
  BY ConstantsAssumption DEF Typed, TypeOK
<1>2. SwapsFrom(move) \in Nat
  BY <1>1 DEF SwapsFrom, Moves
<1>3. PICK s \in Swaps(SwapsFrom(move)), mined \in 0 .. SwapGas :
          /\ chain' = IF s = NoSwap THEN chain ELSE Swapped(s)
          /\ purse' = IF s = NoSwap THEN purse ELSE AfterSwap(s)
          /\ unbooked' = unbooked + mined
          /\ move' = IF move.kind = "rebalance"
                     THEN [move EXCEPT !.pc = "swapped", !.gas.paid = @ + mined]
                     ELSE [move EXCEPT !.pc = "swapped", !.gas.paid = @ + mined,
                             !.swap = s, !.own = @ - s.sold + s.bought]
  BY DEF Swap
<1>4. s \in Sales /\ Swapped(s) \in Chains
  BY <1>2, <1>3, SwapsType DEF Typed
<1>5. mined \in Nat
  BY <1>1
<1>6. chain' \in Chains /\ unbooked' \in Int /\ purse' \in Purses
  BY <1>1, <1>2, <1>3, <1>4, <1>5, AfterSwapType DEF Typed, TypeOK
<1>7. move' \in Moves /\ OwnIsNat'
  <2>1. move.gas.paid + mined \in Nat /\ move.own - s.sold + s.bought \in Int
    BY <1>1, <1>4, <1>5 DEF Moves, Gases, Sales
  <2>2. [move.gas EXCEPT !.paid = @ + mined] \in Gases
    BY <1>1, <2>1 DEF Moves, Gases
  <2>3. CASE move.kind = "rebalance"
    BY <1>1, <1>3, <2>2, <2>3 DEF Moves, Step, OwnIsNat, Typed
  <2>4. CASE move.kind # "rebalance"
    BY <1>1, <1>3, <1>4, <2>1, <2>2, <2>4 DEF Moves, Step, OwnIsNat, Typed
  <2> QED
    BY <2>3, <2>4
<1> QED
  BY <1>6, <1>7 DEF Swap, Typed, TypeOK

LEMMA CorrectiveSwapType ==
    ASSUME Typed, CorrectiveSwap PROVE Typed'
<1>1. move \in Moves /\ chain \in Chains /\ unbooked \in Int /\ SwapGas \in Nat
      /\ MaxIterations \in Nat
  BY ConstantsAssumption DEF Typed, TypeOK
<1>0. PICK b \in Reading, mined \in 0 .. SwapGas : \E s \in Swaps(b) \ {NoSwap} :
          /\ chain' = Swapped(s) /\ purse' = AfterSwap(s)
          /\ unbooked' = unbooked + mined
          /\ move' = [move EXCEPT !.round = @ + 1, !.gas.rounds = @ + mined]
  BY DEF CorrectiveSwap
<1>2. PICK s \in Swaps(b) \ {NoSwap} :
          /\ chain' = Swapped(s) /\ purse' = AfterSwap(s)
          /\ unbooked' = unbooked + mined
          /\ move' = [move EXCEPT !.round = @ + 1, !.gas.rounds = @ + mined]
  BY <1>0
<1>3. b \in Nat /\ mined \in Nat
  BY <1>1, ReadingType DEF Typed
<1>4. chain' \in Chains /\ purse' \in Purses
  BY <1>2, <1>3, SwapsType, AfterSwapType DEF Typed
<1>5. [move.gas EXCEPT !.rounds = @ + mined] \in Gases
  <2>1. move.gas.rounds + mined \in Nat
    BY <1>1, <1>3 DEF Moves, Gases
  <2> QED
    BY <1>1, <2>1 DEF Moves, Gases
<1>6. move.round + 1 \in 0 .. MaxIterations
  BY <1>1 DEF CorrectiveSwap, Moves
<1>7. /\ move' \in Moves
      /\ move'.kind = move.kind /\ move'.pc = move.pc /\ move'.own = move.own
  BY <1>1, <1>2, <1>5, <1>6 DEF Moves
<1> QED
  BY <1>1, <1>2, <1>3, <1>4, <1>7 DEF CorrectiveSwap, Typed, TypeOK, OwnIsNat

\* The move once the coins collected have been read.
Collecting(a, reported) ==
    [Having(move, a) EXCEPT !.after = a, !.reported = reported,
        !.got = CollectedUnits(move, a, reported), !.gas = Paid(move.gas)]

LEMMA ReadCollectedSteps ==
    ASSUME ReadCollected
    PROVE  \E a \in Reading, reported \in BOOLEAN :
               \/ Goes([Collecting(a, reported) EXCEPT !.pc = "swapping"])
               \/ /\ Collecting(a, reported).got = 0
                  /\ Ends(0, Carried(Collecting(a, reported).gas))
                  /\ UNCHANGED <<chain, loose, purse, result, moves, events>>
BY DEF ReadCollected, Collecting

LEMMA ReadCollectedType ==
    ASSUME Typed, ReadCollected PROVE Typed'
<1>1. move \in Moves /\ move.kind = "compound" /\ move.own \in Nat
  BY DEF Typed, TypeOK, ReadCollected, At, Compound, OwnIsNat
<1>2. PICK a \in Reading, reported \in BOOLEAN :
               \/ Goes([Collecting(a, reported) EXCEPT !.pc = "swapping"])
               \/ /\ Collecting(a, reported).got = 0
                  /\ Ends(0, Carried(Collecting(a, reported).gas))
                  /\ UNCHANGED <<chain, loose, purse, result, moves, events>>
  BY ReadCollectedSteps
<1>3. a \in Nat /\ CollectedUnits(move, a, reported) \in Nat
  <2>1. a \in Nat
    BY ReadingType DEF Typed
  <2>2. move.before \in Nat
    BY <1>1 DEF Moves
  <2>3. Rise(move.before, a) \in Nat
    BY <2>1, <2>2 DEF Rise
  <2> QED
    BY <1>1, <2>1, <2>2, <2>3 DEF CollectedUnits
<1>4. Having(move, a) \in Moves /\ Having(move, a).kind = "compound" /\ Paid(move.gas) \in Gases
  <2>1. move.gas \in Gases
    BY <1>1 DEF Moves
  <2> QED
    BY <1>1, <2>1, HavingType, CarriedType DEF Having, Moves
<1>5. Collecting(a, reported) \in Moves /\ Collecting(a, reported).kind = "compound"
  <2> DEFINE h == Having(move, a)
             u == CollectedUnits(move, a, reported)
             g == Paid(move.gas)
  <2> HIDE DEF h, u, g
  <2>1. [h EXCEPT !.after = a, !.reported = reported, !.got = u, !.gas = g] \in Moves
    BY <1>2, <1>3, <1>4 DEF Moves, h, u, g
  <2>2. [h EXCEPT !.after = a, !.reported = reported, !.got = u, !.gas = g].kind = "compound"
    BY <1>4 DEF Moves, h
  <2> QED
    BY <2>1, <2>2 DEF Collecting, h, u, g
<1>6. CASE Goes([Collecting(a, reported) EXCEPT !.pc = "swapping"])
  <2> DEFINE m == [Collecting(a, reported) EXCEPT !.pc = "swapping"]
  <2>1. m \in Moves /\ m.kind = "compound" /\ m.pc = "swapping"
    BY <1>5 DEF Moves, Step
  <2> HIDE DEF m
  <2> QED
    BY <1>6, <2>1, GoesType DEF m
<1>7. CASE /\ Ends(0, Carried(Collecting(a, reported).gas))
           /\ UNCHANGED <<chain, loose, purse, result, moves, events>>
  <2>1. Carried(Collecting(a, reported).gas) \in Nat
    BY <1>5, CarriedType DEF Moves
  <2> QED
    BY <1>7, <2>1, EndsType DEF Typed, TypeOK
<1> QED
  BY <1>2, <1>6, <1>7

\* Every other step that sends nothing.
LEMMA GoingSteps ==
    ASSUME Typed,
           \/ ReadLiquidity \/ ReadRemoved \/ ReadBalances \/ CheckTick
           \/ ReadMintBalances \/ ReadBeforeCollect \/ ResolveDepositAmounts
    PROVE  Typed'
<1>1. /\ move \in Moves /\ move.gas \in Gases /\ Carried(move.gas) \in Nat
      /\ Paid(move.gas) \in Gases /\ move.gas.paid \in Nat /\ MaxIterations \in Nat
  BY ConstantsAssumption, CarriedType DEF Typed, TypeOK, Moves, Gases
<1>2. Reading \subseteq Nat
  BY ReadingType DEF Typed
<1>3. ASSUME NEW b \in Reading PROVE
          /\ Having(move, b) \in Moves /\ Having(move, b).kind = move.kind
          /\ Having(move, b).own = move.own
  BY <1>1, HavingType DEF Having, Moves
<1>5. CASE ReadLiquidity
  <2>1. PICK b \in Reading :
            \/ Goes([Having(move, b) EXCEPT !.pc = "draining", !.before = b])
            \/ Goes([Having(move, b) EXCEPT !.pc = "drained", !.before = b])
            \/ Fails(0)
    BY <1>5 DEF ReadLiquidity
  <2>2. ASSUME NEW to \in {"draining", "drained"} PROVE
            /\ [Having(move, b) EXCEPT !.pc = to, !.before = b] \in Moves
            /\ [Having(move, b) EXCEPT !.pc = to, !.before = b].own = move.own
    <3> DEFINE h == Having(move, b)
    <3>1. h \in Moves /\ h.own = move.own
      BY <1>3
    <3> HIDE DEF h
    <3>2. b \in Nat /\ to \in Step
      BY <1>2 DEF Step
    <3> QED
      BY <3>1, <3>2 DEF Moves, h
  <2>3. move.kind = "rebalance" /\ move.own \in Nat
    BY <1>5 DEF ReadLiquidity, At, Rebalance, Typed, OwnIsNat
  <2> QED
    BY <2>1, <2>2, <2>3, GoesType, FailsType
<1>6. CASE ReadRemoved
  <2>1. PICK a \in Reading :
            \/ Goes([Having(move, a) EXCEPT !.pc = "drained", !.gas = Paid(move.gas)])
            \/ Fails(0)
    BY <1>6 DEF ReadRemoved
  <2>2. /\ [Having(move, a) EXCEPT !.pc = "drained", !.gas = Paid(move.gas)] \in Moves
        /\ [Having(move, a) EXCEPT !.pc = "drained", !.gas = Paid(move.gas)].own = move.own
    <3> DEFINE h == Having(move, a)
               g == Paid(move.gas)
    <3>1. h \in Moves /\ h.own = move.own /\ g \in Gases
      BY <1>1, <1>3
    <3> HIDE DEF h, g
    <3> QED
      BY <3>1 DEF Moves, h, g, Step
  <2>3. move.own \in Nat
    BY <1>6 DEF ReadRemoved, At, Rebalance, Typed, OwnIsNat
  <2> QED
    BY <2>1, <2>2, <2>3, GoesType, FailsType
<1>7. CASE ReadBalances
  <2>1. PICK a \in Reading : Goes([Having(move, a) EXCEPT !.pc = "swapping", !.after = a,
                                                           !.out = purse.out])
    BY <1>7 DEF ReadBalances
  <2>2. /\ [Having(move, a) EXCEPT !.pc = "swapping", !.after = a, !.out = purse.out] \in Moves
        /\ [Having(move, a) EXCEPT !.pc = "swapping", !.after = a, !.out = purse.out].own
               = move.own
    <3> DEFINE h == Having(move, a)
    <3>1. h \in Moves /\ h.own = move.own /\ a \in Nat
          /\ purse.out \in Nat \cup {Unknown}
      BY <1>2, <1>3, PurseFields DEF Typed, TypeOK
    <3> HIDE DEF h
    <3> QED
      BY <3>1 DEF Moves, h, Step
  <2>3. move.own \in Nat
    BY <1>7 DEF ReadBalances, At, Rebalance, Typed, OwnIsNat
  <2> QED
    BY <2>1, <2>2, <2>3, GoesType
<1>8. CASE CheckTick
  <2>1. CASE Goes([move EXCEPT !.pc = "correcting"])
    <3>1. [move EXCEPT !.pc = "correcting"] \in Moves
      BY <1>1 DEF Moves, Step
    <3> QED
      BY <1>1, <1>8, <2>1, <3>1, GoesType DEF CheckTick, At, Rebalance, Moves, Typed, OwnIsNat
  <2>2. CASE Ends(0, move.gas.paid) /\ UNCHANGED <<chain, loose, purse, result, moves, events>>
    BY <1>1, <2>2, EndsType DEF Typed, TypeOK
  <2> QED
    BY <1>8, <2>1, <2>2 DEF CheckTick
<1>10. CASE ReadMintBalances
  <2>1. PICK b \in Reading :
            Goes([move EXCEPT !.pc = "sending", !.gas = Paid(move.gas), !.round = 0, !.want = b])
    BY <1>10 DEF ReadMintBalances
  <2> DEFINE g == Paid(move.gas)
             m == [move EXCEPT !.pc = "sending", !.gas = g, !.round = 0, !.want = b]
  <2>2. g \in Gases /\ 0 \in 0 .. MaxIterations /\ b \in Nat
    BY <1>1, <1>2
  <2> HIDE DEF g
  <2>3. m \in Moves /\ m.own = move.own
    BY <1>1, <2>2 DEF Moves, Step
  <2>4. move.own \in Nat /\ Goes(m)
    BY <1>10, <2>1 DEF ReadMintBalances, At, Rebalance, Typed, OwnIsNat, g
  <2> HIDE DEF m
  <2> QED
    BY <2>3, <2>4, GoesType
<1>11. CASE ReadBeforeCollect
  <2>1. PICK b \in Reading : Goes([Having(move, b) EXCEPT !.pc = "draining", !.before = b])
    BY <1>11 DEF ReadBeforeCollect
  <2>2. /\ [Having(move, b) EXCEPT !.pc = "draining", !.before = b] \in Moves
        /\ [Having(move, b) EXCEPT !.pc = "draining", !.before = b].kind = move.kind
        /\ [Having(move, b) EXCEPT !.pc = "draining", !.before = b].pc = "draining"
    <3> DEFINE h == Having(move, b)
    <3>1. h \in Moves /\ h.kind = move.kind /\ b \in Nat
      BY <1>2, <1>3
    <3> HIDE DEF h
    <3> QED
      BY <3>1 DEF Moves, h, Step
  <2> QED
    BY <1>11, <2>1, <2>2, GoesType DEF ReadBeforeCollect, At, Compound
<1>12. CASE ResolveDepositAmounts
  <2>1. PICK b \in Nat :
            \/ Goes([Having(move, b) EXCEPT !.pc = "sending", !.want = b, !.after = b])
            \/ Goes([move EXCEPT !.pc = "sending", !.want = b])
    <3>1. move.got \in Nat
      BY <1>1 DEF Moves
    <3> QED
      BY <1>2, <1>12, <3>1 DEF ResolveDepositAmounts
  <2>2. Having(move, b) \in Moves /\ Having(move, b).kind = move.kind
    BY <1>1, HavingType DEF Having, Moves
  <2>3. /\ [Having(move, b) EXCEPT !.pc = "sending", !.want = b, !.after = b] \in Moves
        /\ [Having(move, b) EXCEPT !.pc = "sending", !.want = b, !.after = b].kind = move.kind
        /\ [Having(move, b) EXCEPT !.pc = "sending", !.want = b, !.after = b].pc = "sending"
    <3> DEFINE h == Having(move, b)
    <3>1. h \in Moves /\ h.kind = move.kind
      BY <2>2
    <3> HIDE DEF h
    <3> QED
      BY <3>1 DEF Moves, h, Step
  <2>4. /\ [move EXCEPT !.pc = "sending", !.want = b] \in Moves
        /\ [move EXCEPT !.pc = "sending", !.want = b].kind = move.kind
        /\ [move EXCEPT !.pc = "sending", !.want = b].pc = "sending"
    BY <1>1 DEF Moves, Step
  <2> QED
    BY <1>12, <2>1, <2>3, <2>4, GoesType DEF ResolveDepositAmounts, At, Compound
<1> QED
  BY <1>5, <1>6, <1>7, <1>8, <1>10, <1>11, <1>12

\* The compound whose deposit has taken x, what it takes of the waiting deposits, and
\* whether they can still be told from the other coins.
Deposit(x) == [move EXCEPT !.pc = "sent", !.put = x, !.gas.tx = 1]

Taken(x) ==
    CompoundTakes(purse.waiting, Rise(CompoundFeeUnits(Deposit(x)), x), Deposit(x).before)

StillTold(m) == Quiet(m) /\ (m.came => m.before > 0) /\ purse.out # Unknown

Deposits(x) ==
    /\ chain.wallet - x >= 0
    /\ chain' = [Holding(chain, chain.wallet - x) EXCEPT !.coins = @ + x, !.open = TRUE]
    /\ purse' = [waiting |-> purse.waiting - Taken(x),
                 out |-> IF StillTold(Deposit(x))
                         THEN Least(purse.out, Rise(purse.waiting - Taken(x), chain.wallet - x))
                         ELSE Unknown]
    /\ Confirms([Deposit(x) EXCEPT !.took = Taken(x)])

LEMMA DepositSteps == ASSUME AddLiquidity PROVE \E x \in 0 .. move.want : Deposits(x)
BY DEF AddLiquidity, Deposits, Deposit, Taken, StillTold

LEMMA DepositFields ==
    ASSUME TypeOK, NEW x \in Nat
    PROVE  LET d == Deposit(x) IN
           /\ d \in Moves /\ d.pc = "sent" /\ d.put = x
           /\ d.kind = move.kind /\ d.own = move.own /\ d.before = move.before
           /\ d.after = move.after /\ d.got = move.got /\ d.swap = move.swap
           /\ d.reported = move.reported /\ d.came = move.came /\ d.astray = move.astray
<1>1. move \in Moves /\ move.gas \in Gases
  BY DEF TypeOK, Moves
<1>2. [move.gas EXCEPT !.tx = 1] \in Gases
  BY <1>1 DEF Gases
<1> QED
  BY <1>1, <1>2 DEF Deposit, Moves, Step

LEMMA TakenType ==
    ASSUME TypeOK, NEW x \in Nat
    PROVE  Deposit(x) \in Moves /\ Taken(x) \in Nat /\ Taken(x) <= purse.waiting
<1>1. Deposit(x) \in Moves /\ purse.waiting \in Nat
  BY DepositFields, PurseFields DEF TypeOK
<1>2. CompoundFeeUnits(Deposit(x)) \in Nat /\ Deposit(x).before \in Nat
  BY <1>1, FeeUnitsType DEF Moves
<1>3. Rise(CompoundFeeUnits(Deposit(x)), x) \in Nat
  BY <1>2, RiseType
<1> QED
  BY <1>1, <1>2, <1>3, TakesType DEF Taken

\* The transactions that confirm.
LEMMA ConfirmingSteps ==
    ASSUME Typed, Approve \/ RemoveLiquidity \/ Mint \/ Collect \/ AddLiquidity
    PROVE  Typed'
<1>1. move \in Moves /\ move.gas \in Gases /\ chain \in Chains /\ purse \in Purses
  BY DEF Typed, TypeOK, Moves
<1>2. /\ chain.wallet \in Nat /\ chain.coins \in Nat /\ chain.fees \in Nat
      /\ move.want \in Nat /\ move.own \in Int
  BY <1>1 DEF Chains, Moves
<1>3. [move.gas EXCEPT !.tx = 1] \in Gases
  BY <1>1 DEF Gases
<1>4. CASE Approve
  <2>1. move.gas.approvals + 1 \in 0 .. 2 /\ UNCHANGED <<chain, purse>>
    BY <1>1, <1>4 DEF Approve, Gases
  <2>2. [move.gas EXCEPT !.approvals = @ + 1] \in Gases
    BY <1>1, <2>1 DEF Gases
  <2>3. /\ [move EXCEPT !.gas.approvals = @ + 1] \in Moves
        /\ [move EXCEPT !.gas.approvals = @ + 1].kind = move.kind
        /\ [move EXCEPT !.gas.approvals = @ + 1].pc = "sending"
        /\ [move EXCEPT !.gas.approvals = @ + 1].own = move.own
    BY <1>1, <1>4, <2>2 DEF Moves, Approve, At
  <2> QED
    BY <1>1, <1>4, <2>1, <2>3, ConfirmsType DEF Approve, Typed, OwnIsNat
<1>5. CASE RemoveLiquidity
  <2> DEFINE out == chain.coins + chain.fees
             m == [move EXCEPT !.pc = "took", !.own = out, !.gas.tx = 1]
  <2>1. out \in Nat /\ chain.wallet + out \in Nat
    BY <1>2
  <2>2. chain' = [Holding(chain, chain.wallet + out) EXCEPT !.coins = 0, !.fees = 0, !.open = FALSE]
        /\ Confirms(m) /\ purse' = Drained(out)
    BY <1>5 DEF RemoveLiquidity
  <2> HIDE DEF out
  <2>3. m \in Moves /\ m.own \in Nat
    <3>1. out \in Int
      BY <2>1
    <3>2. m = [move EXCEPT !.pc = "took", !.own = out, !.gas = [move.gas EXCEPT !.tx = 1]]
      OBVIOUS
    <3>3. m \in Moves
      BY <1>1, <1>3, <3>1, <3>2 DEF Moves, Step
    <3>4. m.own = out
      BY <1>1, <3>2 DEF Moves
    <3> QED
      BY <2>1, <3>3, <3>4
  <2>4. chain' \in Chains /\ purse' \in Purses
    BY <1>1, <2>1, <2>2, DrainedPurse DEF Holding, Chains, Typed
  <2> HIDE DEF m
  <2> QED
    BY <2>2, <2>3, <2>4, ConfirmsType
<1>6. CASE Mint
  <2>1. PICK x \in 0 .. move.want :
          /\ x <= chain.wallet
          /\ chain' = Holding(chain, chain.wallet - x)
          /\ purse' = NewPurse
          /\ Confirms([move EXCEPT !.pc = "sent", !.put = x, !.took = purse.waiting,
                                   !.gas.tx = 1])
    BY <1>6 DEF Mint
  <2>2. chain' \in Chains /\ purse' \in Purses
    BY <1>1, <1>2, <2>1, HoldingType DEF NewPurse, Purses
  <2>3. x \in Nat /\ move.own \in Nat
    <3>1. x \in Nat
      BY <1>2
    <3>2. move.kind = "rebalance"
      BY <1>6 DEF Mint, At, Rebalance
    <3> QED
      BY <3>1, <3>2 DEF Typed, OwnIsNat
  <2> DEFINE t == purse.waiting
             m == [move EXCEPT !.pc = "sent", !.put = x, !.took = t, !.gas.tx = 1]
  <2>4. t \in Nat
    BY <1>1, PurseFields
  <2> HIDE DEF t
  <2>5. m \in Moves /\ m.own = move.own
    BY <1>1, <1>3, <2>3, <2>4 DEF Moves, Step
  <2>6. Confirms(m)
    BY <2>1 DEF t
  <2> HIDE DEF m
  <2> QED
    BY <2>2, <2>3, <2>5, <2>6, ConfirmsType
<1>7. CASE Collect
  <2> DEFINE m == [move EXCEPT !.pc = "took", !.own = chain.fees, !.gas.tx = 1]
  <2>1. chain.wallet + chain.fees \in Nat
    BY <1>2
  <2>2. chain' = [Holding(chain, chain.wallet + chain.fees) EXCEPT !.fees = 0] /\ Confirms(m)
        /\ purse' = purse
    BY <1>7 DEF Collect
  <2>3. m \in Moves /\ m.own \in Nat
    <3>1. chain.fees \in Int
      BY <1>2
    <3>2. m = [move EXCEPT !.pc = "took", !.own = chain.fees,
                           !.gas = [move.gas EXCEPT !.tx = 1]]
      OBVIOUS
    <3>3. m \in Moves
      BY <1>1, <1>3, <3>1, <3>2 DEF Moves, Step
    <3>4. m.own = chain.fees
      BY <1>1, <3>2 DEF Moves
    <3> QED
      BY <1>2, <3>3, <3>4
  <2>4. chain' \in Chains
    BY <1>1, <2>1, <2>2 DEF Holding, Chains
  <2> HIDE DEF m
  <2> QED
    BY <1>1, <2>2, <2>3, <2>4, ConfirmsType
<1>8. CASE AddLiquidity
  <2>1. PICK x \in 0 .. move.want : Deposits(x)
    BY <1>8, DepositSteps
  <2>2. x \in Nat /\ move.kind = "compound"
    <3>1. x \in Nat
      BY <1>2
    <3> QED
      BY <1>8, <3>1 DEF AddLiquidity, At, Compound
  <2>3. Deposit(x) \in Moves /\ Taken(x) \in Nat /\ Taken(x) <= purse.waiting
    BY <2>2, TakenType DEF Typed, TypeOK
  <2>4. chain' \in Chains
    <3>1. chain.wallet - x \in Nat /\ chain.coins + x \in Nat
      BY <1>2, <2>1, <2>2 DEF Deposits
    <3> QED
      BY <1>1, <2>1, <3>1 DEF Deposits, Holding, Chains
  <2>5. purse' \in Purses
    <3> DEFINE o == IF StillTold(Deposit(x))
                    THEN Least(purse.out, Rise(purse.waiting - Taken(x), chain.wallet - x))
                    ELSE Unknown
    <3>1. purse.waiting \in Nat /\ purse.out \in Nat \cup {Unknown}
          /\ purse.waiting - Taken(x) \in Nat /\ chain.wallet - x \in Nat
      BY <1>1, <1>2, <2>1, <2>2, <2>3, PurseFields DEF Deposits
    <3>2. o \in Nat \cup {Unknown}
      <4> DEFINE h == Rise(purse.waiting - Taken(x), chain.wallet - x)
      <4>1. h \in Nat
        <5> DEFINE a == purse.waiting - Taken(x)
                   b == chain.wallet - x
        <5>1. a \in Int /\ b \in Int
          BY <3>1
        <5> HIDE DEF a, b
        <5>2. Rise(a, b) \in Nat
          BY <5>1, RiseType
        <5> QED
          BY <5>2 DEF a, b
      <4> HIDE DEF h
      <4>2. purse.out # Unknown => Least(purse.out, h) \in Nat
        BY <3>1, <4>1, LeastType
      <4>3. StillTold(Deposit(x)) => purse.out # Unknown
        BY DEF StillTold
      <4> QED
        BY <4>2, <4>3 DEF h
    <3>3. purse' = [waiting |-> purse.waiting - Taken(x), out |-> o]
      BY <2>1 DEF Deposits
    <3> HIDE DEF o
    <3> QED
      BY <3>1, <3>2, <3>3, PurseMade
  <2> DEFINE d == Deposit(x)
             q == Taken(x)
             m == [d EXCEPT !.took = q]
  <2>6. d.kind = "compound" /\ d.pc = "sent" /\ Confirms(m)
    BY <1>1, <2>1, <2>2 DEF Deposit, Moves, Deposits
  <2> HIDE DEF d, q
  <2>7. m \in Moves /\ m.kind = "compound" /\ m.pc = "sent"
    BY <2>3, <2>6 DEF Moves, d, q
  <2> HIDE DEF m
  <2> QED
    BY <2>4, <2>5, <2>6, <2>7, ConfirmsType
<1> QED
  BY <1>4, <1>5, <1>6, <1>7, <1>8

\* The records, the failures and what happens around a move.
LEMMA OtherSteps ==
    ASSUME Typed,
           \/ \E kind \in Either : Start(kind)
           \/ ReadFails \/ SendFails \/ SwapFails
           \/ RebalanceBooked \/ MintUnread \/ CompoundBooked
           \/ Cut \/ LooseMines \/ OwnerDeposits \/ OwnerWithdraws \/ EarnsFees
    PROVE  Typed'
<1>1. /\ move \in Moves /\ chain \in Chains /\ result \in Results /\ Carried(move.gas) \in Nat
      /\ MaxMoves \in Nat /\ MaxEvents \in Nat /\ SwapGas \in Nat /\ purse \in Purses
      /\ chain.wallet \in Nat /\ chain.coins \in Nat /\ chain.fees \in Nat
  BY ConstantsAssumption, CarriedType DEF Typed, TypeOK, Moves, Chains
<1>2. ASSUME NEW kind \in Either, Start(kind) PROVE Typed'
  <2>1. [Idle EXCEPT !.kind = kind, !.pc = "started"] \in Moves
    BY IdleType DEF Moves, Step
  <2>2. [Idle EXCEPT !.kind = kind, !.pc = "started"].own = 0
    BY DEF Idle
  <2>3. moves' \in 0 .. MaxMoves
    <3>1. moves \in 0 .. MaxMoves /\ moves < MaxMoves /\ moves' = moves + 1
      BY <1>2 DEF Start, Typed, TypeOK
    <3> QED
      BY <1>1, <3>1
  <2>4. NoResult \in Results
    BY DEF NoResult, Results
  <2> QED
    <3>1. /\ move' = [Idle EXCEPT !.kind = kind, !.pc = "started"]
          /\ result' = NoResult /\ UNCHANGED <<chain, loose, unbooked, purse, events>>
      BY <1>2 DEF Start
    <3>2. OwnIsNat'
      BY <2>2, <3>1 DEF OwnIsNat
    <3> QED
      BY <2>1, <2>3, <2>4, <3>1, <3>2 DEF Typed, TypeOK
<1>3. CASE ReadFails
  BY <1>3, FailsType DEF ReadFails
<1>4. CASE SendFails
  <2>1. CASE Fails(1)
    BY <2>1, FailsType
  <2>2. CASE /\ loose' \in {"none", "drain", "collect", "mint", "deposit"}
             /\ Ends(0, Carried(move.gas))
             /\ UNCHANGED <<chain, purse, result, moves, events>>
    BY <1>1, <2>2, EndsType DEF Typed, TypeOK
  <2> QED
    BY <1>4, <2>1, <2>2 DEF SendFails
<1>5. CASE SwapFails
  <2>1. PICK mined \in 1 .. SwapGas : Fails(mined)
    BY <1>5 DEF SwapFails
  <2>2. mined \in Nat
    BY <1>1
  <2> QED
    BY <2>1, <2>2, FailsType
<1>6. CASE RebalanceBooked
  <2>1. chain' \in Chains
    <3>1. chain' = [chain EXCEPT !.coins = move.put, !.open = TRUE] /\ move.put \in Nat
      BY <1>1, <1>6 DEF RebalanceBooked, Moves
    <3> QED
      BY <1>1, <3>1 DEF Chains
  <2>2. result' \in Results
    <3> DEFINE f == BeforeRebalance(move)
               o == IF move.came THEN Unknown ELSE move.out
               t == move.after - move.took
    <3>1. f \in Nat /\ move.own \in Nat /\ (~move.astray) \in BOOLEAN
      BY <1>1, <1>6, FigureType DEF RebalanceBooked, At, Rebalance, Typed, OwnIsNat
    <3>2. o \in Nat \cup {Unknown} /\ t \in Int
      BY <1>1 DEF Moves
    <3>3. result' = [result EXCEPT !.figure = f, !.drained = move.own, !.out = o, !.rest = t,
                                   !.still = ~move.astray]
      BY <1>6 DEF RebalanceBooked
    <3> HIDE DEF f, o, t
    <3> QED
      BY <1>1, <3>1, <3>2, <3>3 DEF Results
  <2>3. Ends(0, Carried(move.gas)) /\ UNCHANGED <<loose, purse, moves, events>>
    BY <1>6 DEF RebalanceBooked
  <2> QED
    BY <1>1, <2>1, <2>2, <2>3, EndsType DEF Typed, TypeOK
<1>14. Unrecorded => purse' \in Purses
  <2> DEFINE p == [purse EXCEPT !.waiting = @ + move.took]
  <2>1. p \in Purses
    <3>1. move.took \in Nat
      BY <1>1 DEF Moves
    <3> QED
      BY <1>1, <3>1 DEF Purses
  <2> HIDE DEF p
  <2> QED
    BY <1>1, <2>1, ToldPurse DEF Unrecorded, p
<1>15. CASE MintUnread
  BY <1>1, <1>14, <1>15, EndsType DEF MintUnread, Typed, TypeOK
<1>7. CASE CompoundBooked
  <2> DEFINE known == Known(move)
             quiet == Quiet(move)
             f == CompoundFeeUnits(move)
  <2>1. f \in Nat /\ move.own \in Int /\ move.put \in Nat
    BY <1>1, FeeUnitsType DEF Moves
  <2>2. known \in BOOLEAN /\ quiet \in BOOLEAN
    BY <1>1 DEF Moves, Sales, Known, Quiet
  <2>3. /\ Ends(0, Carried(move.gas)) /\ UNCHANGED <<chain, loose, purse, moves, events>>
        /\ result' = [result EXCEPT !.fees = f, !.own = move.own, !.put = move.put,
                                    !.known = known, !.quiet = quiet]
    BY <1>7 DEF CompoundBooked
  <2> HIDE DEF f, known, quiet
  <2>4. result' \in Results
    BY <1>1, <2>1, <2>2, <2>3 DEF Results
  <2>5. unbooked' \in Int /\ move' \in Moves /\ OwnIsNat'
    BY <1>1, <2>3, EndsType
  <2> QED
    BY <2>3, <2>4, <2>5 DEF Typed, TypeOK
<1>8. CASE Cut
  BY <1>8, <1>14, IdleType DEF Cut, Idle, Typed, TypeOK, OwnIsNat
<1>9. ASSUME NEW m \in {Left(move), Came(move), move}, move' = m
      PROVE  move' \in Moves /\ OwnIsNat'
  <2>1. m \in Moves
    BY <1>1, <1>9, LeftCameType
  <2>2. m.kind = move.kind /\ m.pc = move.pc /\ m.own = move.own
    BY <1>1 DEF Left, Came, Moves
  <2> QED
    BY <1>9, <2>1, <2>2 DEF Typed, OwnIsNat
<1>10. CASE LooseMines
  <2>1. move' \in {Left(move), Came(move), move}
    BY <1>10 DEF LooseMines
  <2>2. chain' \in Chains
    <3>1. CASE chain' = chain
      BY <1>1, <3>1
    <3>2. CASE chain' = [Holding(chain, chain.wallet + chain.coins + chain.fees)
                         EXCEPT !.coins = 0, !.fees = 0, !.open = FALSE]
      <4>1. chain.wallet + chain.coins + chain.fees \in Nat
        BY <1>1
      <4> QED
        BY <1>1, <3>2, <4>1 DEF Holding, Chains
    <3>3. CASE chain' = [Holding(chain, chain.wallet + chain.fees) EXCEPT !.fees = 0]
      <4>1. chain.wallet + chain.fees \in Nat
        BY <1>1
      <4> QED
        BY <1>1, <3>3, <4>1 DEF Holding, Chains
    <3>4. ASSUME NEW x \in 1 .. chain.wallet,
                 chain' = [Holding(chain, chain.wallet - x)
                        EXCEPT !.coins = IF loose = "deposit" THEN @ + x ELSE @,
                               !.open = @ \/ loose = "deposit"]
          PROVE  chain' \in Chains
      <4> DEFINE c == IF loose = "deposit" THEN chain.coins + x ELSE chain.coins
                 o == chain.open \/ loose = "deposit"
      <4>1. chain.wallet - x \in Nat /\ c \in Nat /\ o \in BOOLEAN
        BY <1>1
      <4>2. chain' = [Holding(chain, chain.wallet - x) EXCEPT !.coins = c, !.open = o]
        BY <1>1, <3>4 DEF Holding, Chains
      <4> HIDE DEF c, o
      <4> QED
        BY <1>1, <4>1, <4>2 DEF Holding, Chains
    <3> QED
      BY <1>10, <3>1, <3>2, <3>3, <3>4 DEF LooseMines
  <2>3. purse' \in Purses
    <3>1. CASE purse' = purse
      BY <1>1, <3>1
    <3>2. CASE purse' = Drained(chain.coins + chain.fees)
      BY <1>1, <3>2, DrainedPurse DEF Typed
    <3>3. ASSUME NEW x \in 1 .. chain.wallet, NEW w \in 0 .. purse.waiting,
                 purse' = Told([purse EXCEPT !.waiting = w], chain.wallet - x)
          PROVE  purse' \in Purses
      <4>1. w \in Nat /\ chain.wallet - x \in Nat
        BY <1>1, PurseFields
      <4>2. [purse EXCEPT !.waiting = w] \in Purses
        BY <1>1, <4>1 DEF Purses
      <4> QED
        BY <3>3, <4>1, <4>2, ToldPurse
    <3> QED
      BY <1>10, <3>1, <3>2, <3>3 DEF LooseMines
  <2> QED
    BY <1>9, <1>10, <2>1, <2>2, <2>3 DEF LooseMines, Typed, TypeOK
<1>11. CASE OwnerDeposits
  <2>1. chain' \in Chains /\ events' \in 0 .. MaxEvents
    <3>1. chain.wallet + 1 \in Nat
      BY <1>1
    <3>2. chain' \in Chains
      BY <1>1, <1>11, <3>1, HoldingType DEF OwnerDeposits
    <3>3. events \in 0 .. MaxEvents /\ events < MaxEvents /\ events' = events + 1
      BY <1>11 DEF OwnerDeposits, Typed, TypeOK
    <3> QED
      BY <1>1, <3>2, <3>3
  <2>2. purse' \in Purses
    BY <1>1, <1>11 DEF OwnerDeposits, Purses
  <2> QED
    BY <1>9, <1>11, <2>1, <2>2 DEF OwnerDeposits, Typed, TypeOK
<1>12. CASE OwnerWithdraws
  <2>1. chain' \in Chains /\ events' \in 0 .. MaxEvents
    BY <1>1, <1>12, HoldingType DEF OwnerWithdraws, Typed, TypeOK
  <2>2. purse' \in Purses
    <3>1. chain.wallet - 1 \in Nat /\ purse' = Told(purse, chain.wallet - 1)
      BY <1>1, <1>12 DEF OwnerWithdraws
    <3> QED
      BY <1>1, <3>1, ToldPurse
  <2> QED
    BY <1>9, <1>12, <2>1, <2>2 DEF OwnerWithdraws, Typed, TypeOK
<1>13. CASE EarnsFees
  <2>1. chain.fees + 1 \in Nat /\ events' \in 0 .. MaxEvents
    BY <1>1, <1>13 DEF EarnsFees, Typed, TypeOK
  <2>2. chain' \in Chains
    BY <1>1, <1>13, <2>1 DEF EarnsFees, Chains
  <2> QED
    BY <1>13, <2>1, <2>2 DEF EarnsFees, Typed, TypeOK, OwnIsNat
<1> QED
  BY <1>2, <1>3, <1>4, <1>5, <1>6, <1>7, <1>8, <1>10, <1>11, <1>12, <1>13, <1>15

LEMMA TypeNext == Typed /\ [Next]_vars => Typed'
<1> SUFFICES ASSUME Typed, [Next]_vars PROVE Typed'
  OBVIOUS
<1>1. CASE UNCHANGED vars
  BY <1>1 DEF vars, Typed, TypeOK, OwnIsNat
<1>2. CASE Next
  BY <1>2, SwapTypes, CorrectiveSwapType, ReadCollectedType, GoingSteps, ConfirmingSteps,
     OtherSteps, Zenon DEF Next
<1> QED
  BY <1>1, <1>2

\* Every reachable state has its type, whatever the bounds.
THEOREM TypeCorrect == Spec => []TypeOK
<1>1. Typed => TypeOK
  BY DEF Typed
<1> QED
  BY <1>1, TypeInit, TypeNext, PTL DEF Spec

-----------------------------------------------------------------------------
(* The gas.                                                                  *)

\* A step whose transaction has just confirmed carries its gas apart; the rounds and the
\* approvals carry theirs at the steps that have had any.
GasByStep(m) ==
    /\ m.gas.tx = IF m.pc \in {"took", "sent"} THEN 1 ELSE 0
    /\ m.pc \in {"started", "draining", "took", "drained", "swapping", "swapped"} =>
          m.gas.rounds = 0 /\ m.gas.approvals = 0

\* What the records lack is what the move under way carries.
GasInv == unbooked = Carried(move.gas) /\ GasByStep(move)

LEMMA IdleGas == Carried(Idle.gas) = 0 /\ GasByStep(Idle)
BY DEF Carried, Idle, NoGas, GasByStep

LEMMA EndsGas ==
    ASSUME Typed, GasInv, NEW mined \in Nat, Ends(mined, mined + Carried(move.gas))
    PROVE  GasInv'
<1>1. Carried(move.gas) \in Nat /\ unbooked \in Int
  BY CarriedType DEF Typed, TypeOK, Moves
<1>2. unbooked' = 0 /\ move' = Idle
  BY <1>1 DEF Ends, GasInv
<1> QED
  BY <1>2, IdleGas DEF GasInv

LEMMA EndsGasZero ==
    ASSUME Typed, GasInv, Ends(0, Carried(move.gas)) PROVE GasInv'
<1>1. Carried(move.gas) \in Nat
  BY CarriedType DEF Typed, TypeOK, Moves
<1> QED
  BY <1>1, EndsGas

\* A move that only reads carries what it carried.
LEMMA SameGas ==
    ASSUME Typed, GasInv, NEW m, Carried(m.gas) = Carried(move.gas), GasByStep(m),
           move' = m, unbooked' = unbooked
    PROVE  GasInv'
BY DEF GasInv

LEMMA HavingGas ==
    ASSUME Typed, NEW b PROVE
        /\ Having(move, b).gas = move.gas /\ Left(move).gas = move.gas
        /\ Came(move).gas = move.gas /\ Having(move, b).pc = move.pc
        /\ Left(move).pc = move.pc /\ Came(move).pc = move.pc
BY DEF Having, Left, Came, Typed, TypeOK, Moves

LEMMA PaidGas ==
    ASSUME NEW g \in Gases
    PROVE  /\ Carried(Paid(g)) = Carried(g) /\ Paid(g).tx = 0
           /\ Paid(g).rounds = 0 /\ Paid(g).approvals = 0
BY DEF Carried, Paid, NoGas, Gases

LEMMA GasGoing ==
    ASSUME Typed, GasInv,
           \/ ReadLiquidity \/ ReadRemoved \/ ReadBalances \/ CheckTick
           \/ ReadMintBalances \/ ReadBeforeCollect \/ ResolveDepositAmounts
    PROVE  GasInv'
<1>1. move \in Moves /\ move.gas \in Gases
  BY DEF Typed, TypeOK, Moves
<1>3. CASE ReadLiquidity
  <2>1. PICK b \in Reading :
            \/ Goes([Having(move, b) EXCEPT !.pc = "draining", !.before = b])
            \/ Goes([Having(move, b) EXCEPT !.pc = "drained", !.before = b])
            \/ Fails(0)
    BY <1>3 DEF ReadLiquidity
  <2>2. ASSUME NEW to \in {"draining", "drained"},
               Goes([Having(move, b) EXCEPT !.pc = to, !.before = b])
        PROVE  GasInv'
    <3> DEFINE h == Having(move, b)
               m == [h EXCEPT !.pc = to, !.before = b]
    <3>1. h.gas = move.gas /\ h \in Moves
      BY <1>1, HavingGas, HavingType
    <3>2. move' = m /\ unbooked' = unbooked
      BY <2>2 DEF Goes
    <3> HIDE DEF h
    <3>3. m.gas = move.gas /\ m.pc = to /\ move.pc = "started"
      BY <1>3, <3>1 DEF Moves, ReadLiquidity, At
    <3> HIDE DEF m
    <3> QED
      BY <3>2, <3>3, SameGas DEF GasInv, GasByStep
  <2>3. CASE Fails(0)
    BY <2>3, EndsGas DEF Fails
  <2> QED
    BY <2>1, <2>2, <2>3
<1>4. CASE ReadRemoved
  <2>1. PICK a \in Reading :
            \/ Goes([Having(move, a) EXCEPT !.pc = "drained", !.gas = Paid(move.gas)])
            \/ Fails(0)
    BY <1>4 DEF ReadRemoved
  <2>2. CASE Goes([Having(move, a) EXCEPT !.pc = "drained", !.gas = Paid(move.gas)])
    <3> DEFINE h == Having(move, a)
               m == [h EXCEPT !.pc = "drained", !.gas = Paid(move.gas)]
    <3>1. h \in Moves
      BY <1>1, HavingType
    <3>2. move' = m /\ unbooked' = unbooked
      BY <2>2 DEF Goes
    <3> HIDE DEF h
    <3>3. m.gas = Paid(move.gas) /\ m.pc = "drained"
      BY <3>1 DEF Moves
    <3> HIDE DEF m
    <3> QED
      BY <1>1, <3>2, <3>3, SameGas, PaidGas DEF GasInv, GasByStep
  <2>3. CASE Fails(0)
    BY <2>3, EndsGas DEF Fails
  <2> QED
    BY <2>1, <2>2, <2>3
<1>5. CASE ReadBalances
  <2>1. PICK a \in Reading : Goes([Having(move, a) EXCEPT !.pc = "swapping", !.after = a,
                                                           !.out = purse.out])
    BY <1>5 DEF ReadBalances
  <2> DEFINE h == Having(move, a)
             m == [h EXCEPT !.pc = "swapping", !.after = a, !.out = purse.out]
  <2>2. h.gas = move.gas /\ h \in Moves
    BY <1>1, HavingGas, HavingType
  <2>3. move' = m /\ unbooked' = unbooked
    BY <2>1 DEF Goes
  <2> HIDE DEF h
  <2>4. m.gas = move.gas /\ m.pc = "swapping" /\ move.pc = "drained"
    BY <1>5, <2>2 DEF Moves, ReadBalances, At
  <2> HIDE DEF m
  <2> QED
    BY <2>3, <2>4, SameGas DEF GasInv, GasByStep
<1>6. CASE CheckTick
  <2>1. move.pc = "swapped" /\ move.gas.tx = 0 /\ move.gas.rounds = 0 /\ move.gas.approvals = 0
    BY <1>6 DEF CheckTick, At, GasInv, GasByStep
  <2>2. CASE Goes([move EXCEPT !.pc = "correcting"])
    <3> DEFINE m == [move EXCEPT !.pc = "correcting"]
    <3>1. m.gas = move.gas /\ m.pc = "correcting"
      BY <1>1 DEF Moves
    <3>2. move' = m /\ unbooked' = unbooked
      BY <2>2 DEF Goes
    <3> HIDE DEF m
    <3> QED
      BY <2>1, <3>1, <3>2, SameGas DEF GasInv, GasByStep
  <2>3. CASE Ends(0, move.gas.paid)
    <3>1. Carried(move.gas) = move.gas.paid
      BY <1>1, <2>1 DEF Carried, Gases
    <3> QED
      BY <2>3, <3>1, EndsGasZero
  <2> QED
    BY <1>6, <2>2, <2>3 DEF CheckTick
<1>8. CASE ReadMintBalances
  <2>1. PICK b \in Reading :
            Goes([move EXCEPT !.pc = "sending", !.gas = Paid(move.gas), !.round = 0, !.want = b])
    BY <1>8 DEF ReadMintBalances
  <2> DEFINE m == [move EXCEPT !.pc = "sending", !.gas = Paid(move.gas), !.round = 0,
                               !.want = b]
  <2>2. m.gas = Paid(move.gas) /\ m.pc = "sending"
    BY <1>1 DEF Moves
  <2>3. move' = m /\ unbooked' = unbooked
    BY <2>1 DEF Goes
  <2> HIDE DEF m
  <2> QED
    BY <1>1, <2>2, <2>3, SameGas, PaidGas DEF GasInv, GasByStep
<1>9. CASE ReadBeforeCollect
  <2>1. PICK b \in Reading : Goes([Having(move, b) EXCEPT !.pc = "draining", !.before = b])
    BY <1>9 DEF ReadBeforeCollect
  <2> DEFINE h == Having(move, b)
             m == [h EXCEPT !.pc = "draining", !.before = b]
  <2>2. h.gas = move.gas /\ h \in Moves
    BY <1>1, HavingGas, HavingType
  <2>3. move' = m /\ unbooked' = unbooked
    BY <2>1 DEF Goes
  <2> HIDE DEF h
  <2>4. m.gas = move.gas /\ m.pc = "draining" /\ move.pc = "started"
    BY <1>9, <2>2 DEF Moves, ReadBeforeCollect, At
  <2> HIDE DEF m
  <2> QED
    BY <2>3, <2>4, SameGas DEF GasInv, GasByStep
<1>10. CASE ResolveDepositAmounts
  <2>1. PICK b :
            \/ Goes([Having(move, b) EXCEPT !.pc = "sending", !.want = b, !.after = b])
            \/ Goes([move EXCEPT !.pc = "sending", !.want = b])
    BY <1>10 DEF ResolveDepositAmounts
  <2> DEFINE h == Having(move, b)
  <2>2. h.gas = move.gas /\ h \in Moves
    BY <1>1, HavingGas, HavingType
  <2> HIDE DEF h
  <2>3. PICK m \in {[h EXCEPT !.pc = "sending", !.want = b, !.after = b],
                    [move EXCEPT !.pc = "sending", !.want = b]} :
            move' = m /\ unbooked' = unbooked
    BY <2>1 DEF Goes, h
  <2>4. m.gas = move.gas /\ m.pc = "sending" /\ move.pc = "swapped"
    BY <1>1, <1>10, <2>2 DEF Moves, ResolveDepositAmounts, At
  <2> QED
    BY <2>3, <2>4, SameGas DEF GasInv, GasByStep
<1> QED
  BY <1>3, <1>4, <1>5, <1>6, <1>8, <1>9, <1>10

\* A transaction adds its own unit.
LEMMA GasConfirms ==
    ASSUME Typed, GasInv, NEW m, Confirms(m), Carried(m.gas) = Carried(move.gas) + 1,
           GasByStep(m)
    PROVE  GasInv'
BY DEF GasInv, Confirms

\* The mint and the deposit leave the move alike.
LEMMA SentSteps ==
    ASSUME Mint \/ AddLiquidity
    PROVE  \E x, t : Confirms([move EXCEPT !.pc = "sent", !.put = x, !.took = t, !.gas.tx = 1])
<1>1. CASE Mint
  BY <1>1 DEF Mint
<1>2. CASE AddLiquidity
  <2>1. PICK x \in 0 .. move.want : Deposits(x)
    BY <1>2, DepositSteps
  <2> DEFINE q == Taken(x)
  <2>2. Confirms([[move EXCEPT !.pc = "sent", !.put = x, !.gas.tx = 1] EXCEPT !.took = q])
    BY <2>1 DEF Deposits, Deposit
  <2> HIDE DEF q
  <2>3. [[move EXCEPT !.pc = "sent", !.put = x, !.gas.tx = 1] EXCEPT !.took = q]
            = [move EXCEPT !.pc = "sent", !.put = x, !.took = q, !.gas.tx = 1]
    OBVIOUS
  <2> QED
    BY <2>2, <2>3
<1> QED
  BY <1>1, <1>2

LEMMA GasConfirming ==
    ASSUME Typed, GasInv, Approve \/ RemoveLiquidity \/ Mint \/ Collect \/ AddLiquidity
    PROVE  GasInv'
<1>1. /\ move \in Moves /\ move.gas \in Gases
      /\ move.gas.paid \in Nat /\ move.gas.rounds \in Nat /\ move.gas.approvals \in Nat
  BY DEF Typed, TypeOK, Moves, Gases
<1>2. CASE Approve
  <2> DEFINE m == [move EXCEPT !.gas.approvals = @ + 1]
  <2>1. /\ Confirms(m) /\ m.pc = "sending" /\ move.pc = "sending"
        /\ m.gas = [move.gas EXCEPT !.approvals = @ + 1]
    BY <1>1, <1>2 DEF Approve, At, Moves
  <2>2. move.gas.tx = 0
    BY <2>1 DEF GasInv, GasByStep
  <2>3. /\ m.gas.tx = 0 /\ m.gas.paid = move.gas.paid /\ m.gas.rounds = move.gas.rounds
        /\ m.gas.approvals = move.gas.approvals + 1
    BY <1>1, <2>1, <2>2 DEF Gases
  <2>4. Carried(m.gas) = Carried(move.gas) + 1
    BY <1>1, <2>2, <2>3 DEF Carried
  <2> HIDE DEF m
  <2>5. GasByStep(m)
    BY <2>1, <2>3 DEF GasByStep
  <2> QED
    BY <2>1, <2>4, <2>5, GasConfirms
<1>3. ASSUME NEW m, Confirms(m), m.gas = [move.gas EXCEPT !.tx = 1],
             \/ m.pc = "took" /\ move.pc = "draining"
             \/ m.pc = "sent" /\ move.pc = "sending"
      PROVE  GasInv'
  <2>1. move.gas.tx = 0
    BY <1>3 DEF GasInv, GasByStep
  <2>2. /\ m.gas.tx = 1 /\ m.gas.paid = move.gas.paid /\ m.gas.rounds = move.gas.rounds
        /\ m.gas.approvals = move.gas.approvals
    BY <1>1, <1>3 DEF Gases
  <2>3. Carried(m.gas) = Carried(move.gas) + 1
    BY <1>1, <2>1, <2>2 DEF Carried
  <2>4. GasByStep(m)
    BY <1>3, <2>2 DEF GasInv, GasByStep
  <2> QED
    BY <1>3, <2>3, <2>4, GasConfirms
<1>4. CASE RemoveLiquidity
  <2> DEFINE out == chain.coins + chain.fees
             m == [move EXCEPT !.pc = "took", !.own = out, !.gas.tx = 1]
  <2>1. Confirms(m) /\ move.pc = "draining"
    BY <1>4 DEF RemoveLiquidity, At
  <2> HIDE DEF out
  <2>2. m.gas = [move.gas EXCEPT !.tx = 1] /\ m.pc = "took"
    BY <1>1 DEF Moves
  <2> HIDE DEF m
  <2> QED
    BY <1>3, <2>1, <2>2
<1>5. CASE Mint \/ AddLiquidity
  <2>1. PICK x, t : Confirms([move EXCEPT !.pc = "sent", !.put = x, !.took = t, !.gas.tx = 1])
    BY <1>5, SentSteps
  <2> DEFINE m == [move EXCEPT !.pc = "sent", !.put = x, !.took = t, !.gas.tx = 1]
  <2>2. m.gas = [move.gas EXCEPT !.tx = 1] /\ m.pc = "sent" /\ move.pc = "sending"
    BY <1>1, <1>5 DEF Moves, Mint, AddLiquidity, At
  <2> HIDE DEF m
  <2> QED
    BY <1>3, <2>1, <2>2 DEF m
<1>6. CASE Collect
  <2> DEFINE m == [move EXCEPT !.pc = "took", !.own = chain.fees, !.gas.tx = 1]
  <2>1. Confirms(m) /\ move.pc = "draining"
    BY <1>6 DEF Collect, At
  <2>2. m.gas = [move.gas EXCEPT !.tx = 1] /\ m.pc = "took"
    BY <1>1 DEF Moves
  <2> HIDE DEF m
  <2> QED
    BY <1>3, <2>1, <2>2
<1> QED
  BY <1>2, <1>4, <1>5, <1>6

LEMMA GasSwapping ==
    ASSUME Typed, GasInv, Swap \/ CorrectiveSwap PROVE GasInv'
<1>1. /\ move \in Moves /\ move.gas \in Gases /\ SwapGas \in Nat
      /\ move.gas.paid \in Nat /\ move.gas.rounds \in Nat /\ move.gas.approvals \in Nat
  BY ConstantsAssumption DEF Typed, TypeOK, Moves, Gases
<1>2. CASE Swap
  <2>1. PICK s \in Swaps(SwapsFrom(move)), mined \in 0 .. SwapGas :
          /\ unbooked' = unbooked + mined
          /\ move' = IF move.kind = "rebalance"
                     THEN [move EXCEPT !.pc = "swapped", !.gas.paid = @ + mined]
                     ELSE [move EXCEPT !.pc = "swapped", !.gas.paid = @ + mined,
                             !.swap = s, !.own = @ - s.sold + s.bought]
    BY <1>2 DEF Swap
  <2>2. /\ move'.gas = [move.gas EXCEPT !.paid = @ + mined] /\ move'.pc = "swapped"
        /\ move.pc = "swapping"
    BY <1>1, <1>2, <2>1 DEF Moves, Swap, At
  <2>3. /\ move'.gas.paid = move.gas.paid + mined /\ move'.gas.rounds = move.gas.rounds
        /\ move'.gas.approvals = move.gas.approvals /\ move'.gas.tx = move.gas.tx
    BY <1>1, <2>2 DEF Gases
  <2>4. move.gas.tx = 0 /\ move.gas.rounds = 0 /\ move.gas.approvals = 0
    BY <2>2 DEF GasInv, GasByStep
  <2>5. unbooked' = Carried(move'.gas)
    BY <1>1, <2>1, <2>3, <2>4 DEF GasInv, Carried
  <2> QED
    BY <2>2, <2>3, <2>4, <2>5 DEF GasInv, GasByStep
<1>3. CASE CorrectiveSwap
  <2>1. PICK mined \in 0 .. SwapGas :
          /\ unbooked' = unbooked + mined
          /\ move' = [move EXCEPT !.round = @ + 1, !.gas.rounds = @ + mined]
    BY <1>3 DEF CorrectiveSwap
  <2>2. /\ move'.gas = [move.gas EXCEPT !.rounds = @ + mined] /\ move'.pc = "correcting"
        /\ move.pc = "correcting"
    BY <1>1, <1>3, <2>1 DEF Moves, CorrectiveSwap, At
  <2>3. /\ move'.gas.paid = move.gas.paid /\ move'.gas.rounds = move.gas.rounds + mined
        /\ move'.gas.approvals = move.gas.approvals /\ move'.gas.tx = move.gas.tx
    BY <1>1, <2>2 DEF Gases
  <2>4. move.gas.tx = 0
    BY <2>2 DEF GasInv, GasByStep
  <2>5. unbooked' = Carried(move'.gas)
    BY <1>1, <2>1, <2>3, <2>4 DEF GasInv, Carried
  <2> QED
    BY <2>2, <2>3, <2>4, <2>5 DEF GasInv, GasByStep
<1> QED
  BY <1>2, <1>3

LEMMA GasOther ==
    ASSUME Typed, GasInv,
           \/ ReadCollected \/ \E kind \in Either : Start(kind)
           \/ ReadFails \/ SendFails \/ SwapFails
           \/ RebalanceBooked \/ MintUnread \/ CompoundBooked
           \/ Cut \/ LooseMines \/ OwnerDeposits \/ OwnerWithdraws \/ EarnsFees
    PROVE  GasInv'
<1>1. move \in Moves /\ move.gas \in Gases /\ SwapGas \in Nat
  BY ConstantsAssumption DEF Typed, TypeOK, Moves
<1>2. CASE ReadCollected
  <2>1. PICK a \in Reading, reported \in BOOLEAN :
               \/ Goes([Collecting(a, reported) EXCEPT !.pc = "swapping"])
               \/ Ends(0, Carried(Collecting(a, reported).gas))
    BY <1>2, ReadCollectedSteps
  <2> DEFINE h == Having(move, a)
             u == CollectedUnits(move, a, reported)
             c == [h EXCEPT !.after = a, !.reported = reported, !.got = u,
                            !.gas = Paid(move.gas)]
  <2>2. h \in Moves /\ c = Collecting(a, reported)
    BY <1>1, HavingType DEF Collecting
  <2> HIDE DEF h, u
  <2>3. /\ c.gas = Paid(move.gas)
        /\ [c EXCEPT !.pc = "swapping"].gas = Paid(move.gas)
        /\ [c EXCEPT !.pc = "swapping"].pc = "swapping"
    BY <2>2 DEF Moves
  <2> HIDE DEF c
  <2>4. CASE Goes([Collecting(a, reported) EXCEPT !.pc = "swapping"])
    <3> DEFINE m == [c EXCEPT !.pc = "swapping"]
    <3>1. move' = m /\ unbooked' = unbooked
      BY <2>2, <2>4 DEF Goes
    <3>2. m.gas = Paid(move.gas) /\ m.pc = "swapping"
      BY <2>3
    <3> HIDE DEF m
    <3> QED
      BY <1>1, <3>1, <3>2, PaidGas, SameGas DEF GasByStep
  <2>5. CASE Ends(0, Carried(Collecting(a, reported).gas))
    BY <1>1, <2>2, <2>3, <2>5, PaidGas, EndsGasZero
  <2> QED
    BY <2>1, <2>4, <2>5
<1>3. ASSUME NEW kind \in Either, Start(kind) PROVE GasInv'
  <2>1. move' = [Idle EXCEPT !.kind = kind, !.pc = "started"] /\ unbooked' = unbooked
        /\ move = Idle
    BY <1>3 DEF Start
  <2>2. move'.gas = Idle.gas /\ move'.pc = "started"
    BY <2>1 DEF Idle
  <2>3. Idle.gas = NoGas
    BY DEF Idle
  <2> QED
    BY <2>1, <2>2, <2>3 DEF GasInv, GasByStep, NoGas
<1>4. CASE ReadFails
  BY <1>4, EndsGas DEF ReadFails, Fails
<1>5. CASE SendFails
  <2>1. CASE Fails(1)
    BY <2>1, EndsGas DEF Fails
  <2>2. CASE Ends(0, Carried(move.gas))
    BY <2>2, EndsGasZero
  <2> QED
    BY <1>5, <2>1, <2>2 DEF SendFails
<1>6. CASE SwapFails
  <2>1. PICK mined \in 1 .. SwapGas : Fails(mined)
    BY <1>6 DEF SwapFails
  <2>2. mined \in Nat
    BY <1>1
  <2> QED
    BY <2>1, <2>2, EndsGas DEF Fails
<1>7. CASE RebalanceBooked \/ MintUnread \/ CompoundBooked
  BY <1>7, EndsGasZero DEF RebalanceBooked, MintUnread, CompoundBooked
<1>8. CASE Cut
  BY <1>8, IdleGas DEF Cut, GasInv
<1>9. CASE LooseMines \/ OwnerDeposits \/ OwnerWithdraws \/ EarnsFees
  <2>1. move' \in {Left(move), Came(move), move} /\ unbooked' = unbooked
    BY <1>9 DEF LooseMines, OwnerDeposits, OwnerWithdraws, EarnsFees
  <2>2. move'.gas = move.gas /\ move'.pc = move.pc
    BY <2>1, HavingGas
  <2> QED
    BY <2>1, <2>2 DEF GasInv, GasByStep
<1> QED
  BY <1>2, <1>3, <1>4, <1>5, <1>6, <1>7, <1>8, <1>9

LEMMA GasNext == Typed /\ GasInv /\ [Next]_vars => GasInv'
<1> SUFFICES ASSUME Typed, GasInv, [Next]_vars PROVE GasInv'
  OBVIOUS
<1>1. CASE UNCHANGED vars
  BY <1>1 DEF vars, GasInv, GasByStep
<1>2. CASE Next
  BY <1>2, GasGoing, GasConfirming, GasSwapping, GasOther, Zenon DEF Next
<1> QED
  BY <1>1, <1>2

\* The records hold the gas of every transaction a move mined, once, at whatever step it
\* ends: for any number of corrective rounds and any number of transactions in each swap.
THEOREM GasBookedCorrect == Spec => []GasBooked
<1>1. Init => GasInv
  BY IdleGas DEF Init, GasInv
<1>2. GasInv => GasBooked
  BY IdleGas DEF GasInv, GasBooked
<1> QED
  BY <1>1, <1>2, TypeInit, TypeNext, GasNext, PTL DEF Spec

-----------------------------------------------------------------------------
(* The coins.                                                                *)

NotSwapped == {"started", "draining", "took", "swapping"}
Collected  == {"swapping", "swapped", "sending", "sent"}
Put        == {"sending", "sent"}
Unmixed    == {"swapping", "swapped", "correcting", "sending", "sent"}

\* a is b, or more when coins came in between a compound's readings.
AtLeast(m, a, b) == a >= b /\ (~m.came => a = b)

\* The fee coins as the compound's own transactions moved them, as far as they are read.
FeeCoins(m) == m.got - m.swap.sold + m.swap.bought

\* Of a compound: the fee coins read are no more than those it has when its receipts
\* could be read.
CappedCoins(m) ==
    /\ m.pc \in NotSwapped => m.swap.sold = 0 /\ m.swap.bought = 0 /\ ~m.swap.ran
    /\ m.pc \in Collected =>
        /\ m.swap.sold <= m.got
        /\ ~m.swap.ran => m.swap.sold = 0 /\ m.swap.bought = 0
        /\ m.reported => FeeCoins(m) <= m.own

\* Of a compound whose readings were not behind and while which no coins left a wallet of
\* w: what the wallet rose by is what it has, unless coins came in.
RisenCoins(m, w) ==
    /\ m.pc = "draining" => AtLeast(m, w, m.before)
    /\ m.pc \in {"took", "swapping", "swapped"} => AtLeast(m, w, m.before + m.own)
    /\ m.pc \in Put \/ (m.pc \in {"swapping", "swapped"} /\ ~m.swap.ran) =>
          AtLeast(m, m.after, m.before + m.own)
    /\ m.pc \in Collected /\ (m.came => m.reported) => FeeCoins(m) = m.own

\* Of a rebalance with such readings: the wallet holds what it took out on top of what it
\* held.
DrainedCoins(m, w) ==
    /\ m.pc = "draining" => w >= m.before
    /\ m.pc \in {"took", "drained"} => w >= m.before + m.own
    /\ m.pc \in Unmixed => m.after >= m.before + m.own

Accounts(m, w) ==
    /\ m.kind = "compound" => CappedCoins(m)
    /\ m.kind = "compound" /\ ~m.astray => RisenCoins(m, w)
    /\ m.kind = "rebalance" /\ m.pc = "started" => m.own = 0
    /\ m.kind = "rebalance" /\ ~m.astray => DrainedCoins(m, w)

\* What the rebalance itself drained is in its figure.
DrainedKept == result.still => result.figure >= result.drained

Reported == FeesNeverOver /\ FeesExact /\ DrainedKept

CoinInv == Accounts(move, chain.wallet) /\ Reported

LEMMA IdleAccounts == ASSUME NEW w PROVE Accounts(Idle, w)
BY DEF Accounts, Idle

LEMMA MoveFields ==
    ASSUME NEW m \in Moves
    PROVE  /\ m.before \in Nat /\ m.after \in Nat /\ m.got \in Nat /\ m.put \in Nat
           /\ m.own \in Int /\ m.astray \in BOOLEAN /\ m.came \in BOOLEAN
           /\ m.reported \in BOOLEAN /\ m.swap.ran \in BOOLEAN /\ m.swap.known \in BOOLEAN
           /\ m.swap.sold \in Nat /\ m.swap.bought \in {0, 1} /\ m.pc \in Step
BY DEF Moves, Sales

LEMMA HavingFields ==
    ASSUME NEW m \in Moves, NEW b
    PROVE  /\ Having(m, b) = [m EXCEPT !.astray = @ \/ b # chain.wallet]
           /\ Having(m, b) \in Moves
BY HavingType DEF Having

\* Coins that leave are remembered; coins that come in only add.
LEMMA LeftAccounts ==
    ASSUME NEW m \in Moves, NEW w \in Nat, NEW x \in Nat, Accounts(m, w)
    PROVE  Accounts(Left(m), x)
<1> DEFINE n == Left(m)
<1>1. /\ n.kind = m.kind /\ n.pc = m.pc /\ n.own = m.own /\ n.before = m.before
      /\ n.after = m.after /\ n.got = m.got /\ n.swap = m.swap /\ n.reported = m.reported
      /\ n.came = m.came /\ n.astray = (m.astray \/ Between(m))
  BY DEF Left, Moves
<1> HIDE DEF n
<1> QED
  BY <1>1, MoveFields
     DEF Accounts, CappedCoins, RisenCoins, DrainedCoins, AtLeast, FeeCoins, Between,
         NotSwapped, Collected, Put, Unmixed, n

LEMMA CameAccounts ==
    ASSUME NEW m \in Moves, NEW w \in Nat, NEW x \in Nat, w <= x, Accounts(m, w)
    PROVE  Accounts(Came(m), x)
<1> DEFINE n == Came(m)
<1>1. /\ n.kind = m.kind /\ n.pc = m.pc /\ n.own = m.own /\ n.before = m.before
      /\ n.after = m.after /\ n.got = m.got /\ n.swap = m.swap /\ n.reported = m.reported
      /\ n.astray = m.astray /\ n.came = (m.came \/ Between(m) \/ BeforeMint(m))
  BY DEF Came, Moves
<1> HIDE DEF n
<1>2. m.kind = "compound" => CappedCoins(n)
  BY <1>1 DEF Accounts, CappedCoins, FeeCoins
<1>3. m.kind = "compound" /\ ~m.astray => RisenCoins(n, x)
  <2> SUFFICES ASSUME m.kind = "compound", ~m.astray PROVE RisenCoins(n, x)
    OBVIOUS
  <2>1. RisenCoins(m, w)
    BY DEF Accounts
  <2>2. /\ m.before \in Nat /\ m.own \in Int /\ m.before + m.own \in Int /\ m.after \in Nat
        /\ m.came \in BOOLEAN
    BY MoveFields
  <2>3. n.pc \in {"draining", "took", "swapping", "swapped"} => n.came
    BY <1>1 DEF Between
  <2>4. ~n.came => ~m.came
    BY <1>1, <2>2
  <2>5. n.pc = "draining" => AtLeast(n, x, n.before)
    BY <1>1, <2>1, <2>2, <2>3 DEF RisenCoins, AtLeast
  <2>6. n.pc \in {"took", "swapping", "swapped"} => AtLeast(n, x, n.before + n.own)
    BY <1>1, <2>1, <2>2, <2>3 DEF RisenCoins, AtLeast
  <2>7. n.pc \in Put \/ (n.pc \in {"swapping", "swapped"} /\ ~n.swap.ran) =>
            AtLeast(n, n.after, n.before + n.own)
    BY <1>1, <2>1, <2>2, <2>4 DEF RisenCoins, AtLeast
  <2>8. n.pc \in Collected /\ (n.came => n.reported) => FeeCoins(n) = n.own
    BY <1>1, <2>1, <2>4 DEF RisenCoins, FeeCoins
  <2> QED
    BY <2>5, <2>6, <2>7, <2>8 DEF RisenCoins
<1>4. m.kind = "rebalance" /\ ~m.astray => DrainedCoins(n, x)
  BY <1>1, MoveFields DEF Accounts, DrainedCoins
<1> QED
  BY <1>1, <1>2, <1>3, <1>4 DEF Accounts, n

-----------------------------------------------------------------------------
(* The steps that report.                                                    *)

LEMMA StartCoins ==
    ASSUME Typed, CoinInv, NEW kind \in Either, Start(kind) PROVE CoinInv'
<1>1. /\ move' = [Idle EXCEPT !.kind = kind, !.pc = "started"]
      /\ result' = NoResult /\ chain' = chain
  BY DEF Start
<1>2. /\ move'.pc = "started" /\ move'.own = 0 /\ move'.swap = NoSwap
  BY <1>1 DEF Idle
<1>3. Accounts(move', chain'.wallet)
  BY <1>2 DEF Accounts, CappedCoins, RisenCoins, DrainedCoins, NoSwap, NotSwapped,
              Collected, Put, Unmixed
<1>4. Reported'
  BY <1>1 DEF Reported, FeesNeverOver, FeesExact, DrainedKept, NoResult
<1> QED
  BY <1>3, <1>4 DEF CoinInv

LEMMA RebalanceBookedCoins ==
    ASSUME Typed, CoinInv, RebalanceBooked PROVE CoinInv'
<1>1. move \in Moves /\ result \in Results
  BY DEF Typed, TypeOK
<1> DEFINE f == BeforeRebalance(move)
           o == IF move.came THEN Unknown ELSE move.out
           t == move.after - move.took
<1>2. /\ result' = [result EXCEPT !.figure = f, !.drained = move.own, !.out = o, !.rest = t,
                                  !.still = ~move.astray]
      /\ move' = Idle
  BY DEF RebalanceBooked, Ends
<1>3. ~move.astray => f >= move.own
  <2>1. ~move.astray => move.after >= move.before + move.own
    BY DEF CoinInv, Accounts, DrainedCoins, RebalanceBooked, At, Rebalance, Unmixed
  <2>2. /\ move.own \in Nat /\ move.after \in Nat /\ move.before \in Nat
        /\ move.took \in Nat
    <3>1. move.kind = "rebalance"
      BY DEF RebalanceBooked, At, Rebalance
    <3> QED
      BY <1>1, <3>1, MoveFields DEF Typed, OwnIsNat, Moves
  <2> QED
    BY <2>1, <2>2 DEF BeforeRebalance, Rise, Least
<1> HIDE DEF f, o, t
<1>4. /\ result'.figure = f /\ result'.drained = move.own /\ result'.still = ~move.astray
      /\ result'.fees = result.fees /\ result'.own = result.own /\ result'.put = result.put
      /\ result'.known = result.known /\ result'.quiet = result.quiet
  BY <1>1, <1>2 DEF Results
<1>5. Reported'
  BY <1>3, <1>4 DEF CoinInv, Reported, FeesNeverOver, FeesExact, DrainedKept
<1> QED
  BY <1>2, <1>5, IdleAccounts DEF CoinInv

\* The count of a compound's fees.
LEMMA FeeCountRight ==
    ASSUME NEW m \in Moves, NEW w \in Nat, m.kind = "compound", m.pc = "sent",
           Accounts(m, w),
           NEW known, known = (m.reported /\ (m.swap.ran => m.swap.known))
    PROVE  /\ known => CompoundFeeUnits(m) <= m.own /\ CompoundFeeUnits(m) <= m.put
           /\ ~m.astray /\ (m.came => known) =>
                 CompoundFeeUnits(m) = IF m.own < m.put THEN m.own ELSE m.put
<1> DEFINE took == Rise(m.after - m.put, m.before)
           out  == IF took >= m.put THEN 0 ELSE m.put - took
           cap  == FeeCoinsAfterSwap(m)
<1>1. /\ m.swap.sold <= m.got /\ (~m.swap.ran => m.swap.sold = 0 /\ m.swap.bought = 0)
      /\ m.reported => FeeCoins(m) <= m.own
      /\ ~m.astray => AtLeast(m, m.after, m.before + m.own)
      /\ ~m.astray /\ (m.came => m.reported) => FeeCoins(m) = m.own
  BY DEF Accounts, CappedCoins, RisenCoins, Collected, Put
<1>2. /\ m.before \in Nat /\ m.after \in Nat /\ m.got \in Nat /\ m.put \in Nat
      /\ m.own \in Int /\ m.swap.sold \in Nat /\ m.swap.bought \in {0, 1}
      /\ m.came \in BOOLEAN /\ m.reported \in BOOLEAN /\ m.astray \in BOOLEAN
      /\ m.swap.ran \in BOOLEAN /\ m.swap.known \in BOOLEAN
  BY MoveFields
<1>3. took \in Nat /\ (m.after - m.put >= m.before => took = 0)
      /\ (m.after - m.put < m.before => took = m.before - (m.after - m.put))
  BY <1>2 DEF Rise
<1>4. FeeCoins(m) \in Nat
  BY <1>1, <1>2 DEF FeeCoins
<1>5. cap = FeeCoins(m) \/ (cap = Unknown /\ m.swap.ran /\ ~m.swap.known)
  BY <1>1, <1>2 DEF FeeCoinsAfterSwap, FeeCoins, Rise
<1>6. CompoundFeeUnits(m) = IF cap # Unknown /\ out > cap THEN cap ELSE out
  BY DEF CompoundFeeUnits
<1> HIDE DEF took, cap
<1>7. out \in Nat /\ out <= m.put
  BY <1>2, <1>3
<1>8. ASSUME known PROVE CompoundFeeUnits(m) <= m.own /\ CompoundFeeUnits(m) <= m.put
  <2>1. cap = FeeCoins(m) /\ FeeCoins(m) <= m.own /\ cap # Unknown
    BY <1>1, <1>2, <1>4, <1>5, <1>8 DEF Unknown
  <2> HIDE DEF out
  <2> QED
    BY <1>2, <1>4, <1>6, <1>7, <2>1
<1>9. ASSUME ~m.astray, m.came => known
      PROVE  CompoundFeeUnits(m) = IF m.own < m.put THEN m.own ELSE m.put
  <2>1. FeeCoins(m) = m.own /\ AtLeast(m, m.after, m.before + m.own)
    BY <1>1, <1>2, <1>9
  <2>2. m.own \in Nat /\ m.after >= m.before + m.own /\ (~m.came => m.after = m.before + m.own)
    BY <1>4, <2>1 DEF AtLeast
  <2>3. CASE m.came
    <3>1. cap = m.own /\ cap # Unknown
      BY <1>2, <1>4, <1>5, <1>9, <2>1, <2>3 DEF Unknown
    <3>2. m.put <= m.own => out = m.put
      BY <1>2, <1>3, <2>2
    <3>3. m.put > m.own => out >= m.own
      BY <1>2, <1>3, <2>2
    <3> HIDE DEF out
    <3> QED
      BY <1>2, <1>6, <1>7, <2>2, <3>1, <3>2, <3>3
  <2>4. CASE ~m.came
    <3>1. out = IF m.own < m.put THEN m.own ELSE m.put
      BY <1>2, <1>3, <2>2, <2>4
    <3>2. cap = Unknown \/ cap = m.own
      BY <1>5, <2>1
    <3> HIDE DEF out
    <3> QED
      BY <1>2, <1>6, <2>2, <3>1, <3>2
  <2> QED
    BY <2>3, <2>4
<1> QED
  BY <1>8, <1>9

LEMMA CompoundBookedCoins ==
    ASSUME Typed, CoinInv, CompoundBooked PROVE CoinInv'
<1>1. /\ move \in Moves /\ result \in Results /\ chain.wallet \in Nat
      /\ move.kind = "compound" /\ move.pc = "sent"
  BY DEF Typed, TypeOK, Chains, CompoundBooked, At, Compound
<1> DEFINE known == Known(move)
           quiet == Quiet(move)
           f == CompoundFeeUnits(move)
<1>2. /\ result' = [result EXCEPT !.fees = f, !.own = move.own, !.put = move.put,
                                  !.known = known, !.quiet = quiet]
      /\ move' = Idle
  BY DEF CompoundBooked, Ends
<1>3. /\ known => f <= move.own /\ f <= move.put
      /\ quiet => f = IF move.own < move.put THEN move.own ELSE move.put
  BY <1>1, FeeCountRight DEF CoinInv, Known, Quiet
<1> HIDE DEF f, known, quiet
<1>4. /\ result'.fees = f /\ result'.own = move.own /\ result'.put = move.put
      /\ result'.known = known /\ result'.quiet = quiet
      /\ result'.figure = result.figure /\ result'.drained = result.drained
      /\ result'.still = result.still
  BY <1>1, <1>2 DEF Results
<1>5. Reported'
  BY <1>3, <1>4 DEF CoinInv, Reported, FeesNeverOver, FeesExact, DrainedKept
<1> QED
  BY <1>2, <1>5, IdleAccounts DEF CoinInv

-----------------------------------------------------------------------------
(* The steps between.                                                        *)

\* A step that reports nothing.
LEMMA StepCoins ==
    ASSUME CoinInv, NEW m, NEW w, move' = m, chain'.wallet = w, Accounts(m, w),
           result' = result
    PROVE  CoinInv'
BY DEF CoinInv, Reported, FeesNeverOver, FeesExact, DrainedKept

LEMMA EndCoins ==
    ASSUME CoinInv, move' = Idle, result' = result PROVE CoinInv'
BY IdleAccounts, StepCoins

\* What Accounts tells apart.
Alike(n, m) ==
    /\ n.kind = m.kind /\ n.own = m.own /\ n.before = m.before
    /\ n.after = m.after /\ n.got = m.got /\ n.swap = m.swap /\ n.reported = m.reported
    /\ n.came = m.came /\ n.astray = m.astray

\* A reading that was not behind is the wallet's.
LEMMA ReadAlike ==
    ASSUME NEW m \in Moves, NEW b
    PROVE  LET n == Having(m, b) IN
           /\ n.kind = m.kind /\ n.pc = m.pc /\ n.own = m.own /\ n.before = m.before
           /\ n.after = m.after /\ n.got = m.got /\ n.swap = m.swap
           /\ n.reported = m.reported /\ n.came = m.came /\ n \in Moves
           /\ ~n.astray => ~m.astray /\ b = chain.wallet
BY HavingFields DEF Moves

LEMMA SendingCoins ==
    ASSUME Typed, CoinInv, Approve \/ Mint \/ AddLiquidity PROVE CoinInv'
<1>1. move \in Moves /\ result' = result
  BY DEF Typed, TypeOK, Approve, Mint, AddLiquidity, Confirms
<1>2. Alike(move', move) /\ move'.pc \in Put /\ move.pc \in Put
  <2>1. move.pc \in Put
    BY DEF Put, Approve, Mint, AddLiquidity, At
  <2>2. CASE Approve
    <3>1. PICK g : move' = [move EXCEPT !.gas.approvals = g]
      BY <2>2 DEF Approve, Confirms
    <3> QED
      BY <1>1, <2>1, <3>1 DEF Alike, Moves
  <2>3. CASE Mint \/ AddLiquidity
    <3>1. PICK x, t : move' = [move EXCEPT !.pc = "sent", !.put = x, !.took = t, !.gas.tx = 1]
      BY <2>3, SentSteps DEF Confirms
    <3> QED
      BY <1>1, <2>1, <3>1 DEF Alike, Moves, Put
  <2> QED
    BY <2>2, <2>3
<1>3. Accounts(move', chain'.wallet)
  BY <1>2 DEF CoinInv, Accounts, CappedCoins, RisenCoins, DrainedCoins, Alike, AtLeast,
              FeeCoins, NotSwapped, Collected, Put, Unmixed
<1> QED
  BY <1>1, <1>3, StepCoins

\* The steps of a rebalance before its swap.
LEMMA DrainingCoins ==
    ASSUME Typed, CoinInv, ReadLiquidity \/ RemoveLiquidity \/ ReadRemoved \/ ReadBalances
    PROVE  CoinInv'
<1>1. /\ move \in Moves /\ chain \in Chains /\ result' = result /\ move.kind = "rebalance"
      /\ chain.wallet \in Nat /\ chain.coins \in Nat /\ chain.fees \in Nat
      /\ move.before \in Nat /\ move.own \in Nat
  <2>1. move \in Moves /\ chain \in Chains /\ move.kind = "rebalance"
    BY DEF Typed, TypeOK, ReadLiquidity, RemoveLiquidity, ReadRemoved, ReadBalances, At,
           Rebalance
  <2>2. result' = result
    BY DEF ReadLiquidity, RemoveLiquidity, ReadRemoved, ReadBalances, Goes, Confirms, Fails
  <2> QED
    BY <2>1, <2>2 DEF Typed, OwnIsNat, Chains, Moves
<1>2. CASE move' = Idle
  BY <1>1, <1>2, EndCoins
<1>3. CASE ReadLiquidity
  <2>1. PICK b \in Reading :
            \/ Goes([Having(move, b) EXCEPT !.pc = "draining", !.before = b])
            \/ ~chain.open /\ Goes([Having(move, b) EXCEPT !.pc = "drained", !.before = b])
            \/ Fails(0)
    BY <1>3 DEF ReadLiquidity
  <2>2. ASSUME NEW to \in {"draining", "drained"},
               Goes([Having(move, b) EXCEPT !.pc = to, !.before = b])
        PROVE  CoinInv'
    <3> DEFINE h == Having(move, b)
               m == [h EXCEPT !.pc = to, !.before = b]
    <3>1. h \in Moves /\ h.own = move.own /\ h.kind = "rebalance"
          /\ (~h.astray => b = chain.wallet)
      BY <1>1, ReadAlike
    <3>2. move' = m /\ chain' = chain
      BY <2>2 DEF Goes
    <3> HIDE DEF h
    <3>3. /\ m.kind = "rebalance" /\ m.own = move.own /\ m.pc = to /\ m.before = b
          /\ m.astray = h.astray
      BY <3>1 DEF Moves
    <3>4. move.own = 0
      BY <1>1, <1>3 DEF CoinInv, Accounts, ReadLiquidity, At
    <3> HIDE DEF m
    <3>5. Accounts(m, chain.wallet)
      BY <1>1, <3>1, <3>3, <3>4 DEF Accounts, DrainedCoins, Unmixed
    <3> QED
      BY <1>1, <3>2, <3>5, StepCoins
  <2> QED
    BY <1>2, <2>1, <2>2 DEF Fails, Ends
<1>4. CASE RemoveLiquidity
  <2> DEFINE out == chain.coins + chain.fees
             m == [move EXCEPT !.pc = "took", !.own = out, !.gas.tx = 1]
             c == Holding(chain, chain.wallet + out)
  <2>1. out \in Nat /\ move' = m
        /\ chain' = [c EXCEPT !.coins = 0, !.fees = 0, !.open = FALSE]
    BY <1>1, <1>4 DEF RemoveLiquidity, Confirms
  <2>2. chain'.wallet = chain.wallet + out
    BY <1>1, <2>1 DEF Holding, Chains
  <2> HIDE DEF out
  <2>3. /\ m.kind = "rebalance" /\ m.own = out /\ m.pc = "took" /\ m.before = move.before
        /\ m.astray = move.astray
    BY <1>1 DEF Moves
  <2> HIDE DEF m
  <2>4. ~move.astray => chain.wallet >= move.before
    BY <1>1, <1>4 DEF CoinInv, Accounts, DrainedCoins, RemoveLiquidity, At
  <2>5. Accounts(m, chain.wallet + out)
    BY <1>1, <2>1, <2>3, <2>4 DEF Accounts, DrainedCoins, Unmixed
  <2> QED
    BY <1>1, <2>1, <2>2, <2>5, StepCoins
<1>5. CASE ReadRemoved
  <2>1. PICK a \in Reading :
            \/ Goes([Having(move, a) EXCEPT !.pc = "drained", !.gas = Paid(move.gas)])
            \/ Fails(0)
    BY <1>5 DEF ReadRemoved
  <2>2. CASE Goes([Having(move, a) EXCEPT !.pc = "drained", !.gas = Paid(move.gas)])
    <3> DEFINE h == Having(move, a)
               m == [h EXCEPT !.pc = "drained", !.gas = Paid(move.gas)]
    <3>1. h \in Moves /\ h.own = move.own /\ h.kind = "rebalance" /\ h.before = move.before
          /\ (~h.astray => ~move.astray)
      BY <1>1, ReadAlike
    <3>2. move' = m /\ chain' = chain
      BY <2>2 DEF Goes
    <3> HIDE DEF h
    <3>3. /\ m.kind = "rebalance" /\ m.own = move.own /\ m.pc = "drained"
          /\ m.before = move.before /\ m.astray = h.astray
      BY <3>1 DEF Moves
    <3> HIDE DEF m
    <3>4. ~move.astray => chain.wallet >= move.before + move.own
      BY <1>1, <1>5 DEF CoinInv, Accounts, DrainedCoins, ReadRemoved, At
    <3>5. Accounts(m, chain.wallet)
      BY <3>1, <3>3, <3>4 DEF Accounts, DrainedCoins, Unmixed
    <3> QED
      BY <1>1, <3>2, <3>5, StepCoins
  <2> QED
    BY <1>2, <2>1, <2>2 DEF Fails, Ends
<1>6. CASE ReadBalances
  <2>1. PICK a \in Reading : Goes([Having(move, a) EXCEPT !.pc = "swapping", !.after = a,
                                                           !.out = purse.out])
    BY <1>6 DEF ReadBalances
  <2> DEFINE h == Having(move, a)
             m == [h EXCEPT !.pc = "swapping", !.after = a, !.out = purse.out]
  <2>2. h \in Moves /\ h.own = move.own /\ h.kind = "rebalance" /\ h.before = move.before
        /\ (~h.astray => ~move.astray /\ a = chain.wallet)
    BY <1>1, ReadAlike
  <2>3. move' = m /\ chain' = chain
    BY <2>1 DEF Goes
  <2> HIDE DEF h
  <2>4. /\ m.kind = "rebalance" /\ m.own = move.own /\ m.pc = "swapping"
        /\ m.before = move.before /\ m.astray = h.astray /\ m.after = a
    BY <2>2 DEF Moves
  <2> HIDE DEF m
  <2>5. ~move.astray => chain.wallet >= move.before + move.own
    BY <1>1, <1>6 DEF CoinInv, Accounts, DrainedCoins, ReadBalances, At
  <2>6. Accounts(m, chain.wallet)
    BY <2>2, <2>4, <2>5 DEF Accounts, DrainedCoins, Unmixed
  <2> QED
    BY <1>1, <2>3, <2>6, StepCoins
<1> QED
  BY <1>3, <1>4, <1>5, <1>6

\* The steps of a rebalance after it: its figures are read.
LEMMA MixingCoins ==
    ASSUME Typed, CoinInv,
           \/ CheckTick \/ CorrectiveSwap \/ ReadMintBalances
           \/ Swap /\ move.kind = "rebalance"
    PROVE  CoinInv'
<1>1. move \in Moves /\ result' = result /\ move.kind = "rebalance" /\ move.pc \in Unmixed
  <2>1. move.kind = "rebalance" /\ move.pc \in Unmixed
    BY DEF CheckTick, CorrectiveSwap, ReadMintBalances, Swap, At, Rebalance,
           Unmixed
  <2>2. result' = result
    BY DEF CheckTick, CorrectiveSwap, ReadMintBalances, Swap, Goes
  <2> QED
    BY <2>1, <2>2 DEF Typed, TypeOK
<1>2. move' = Idle \/ (Alike(move', move) /\ move'.pc \in Unmixed)
  <2>1. CASE CheckTick
    BY <1>1, <2>1 DEF CheckTick, Goes, Ends, Alike, Moves, Unmixed
  <2>2. CASE CorrectiveSwap
    <3>1. PICK mined \in 0 .. SwapGas :
              move' = [move EXCEPT !.round = @ + 1, !.gas.rounds = @ + mined]
      BY <2>2 DEF CorrectiveSwap
    <3> QED
      BY <1>1, <3>1 DEF Alike, Moves
  <2>4. CASE ReadMintBalances
    <3>1. PICK b \in Reading :
              move' = [move EXCEPT !.pc = "sending", !.gas = Paid(move.gas), !.round = 0,
                                   !.want = b]
      BY <2>4 DEF ReadMintBalances, Goes
    <3> QED
      BY <1>1, <3>1 DEF Alike, Moves, Unmixed
  <2>5. CASE Swap
    <3>1. PICK mined \in 0 .. SwapGas :
              move' = [move EXCEPT !.pc = "swapped", !.gas.paid = @ + mined]
      BY <1>1, <2>5 DEF Swap
    <3> QED
      BY <1>1, <3>1 DEF Alike, Moves, Unmixed
  <2> QED
    BY <2>1, <2>2, <2>4, <2>5
<1>3. CASE Alike(move', move) /\ move'.pc \in Unmixed
  <2>1. Accounts(move', chain'.wallet)
    BY <1>1, <1>3 DEF CoinInv, Accounts, DrainedCoins, Alike, Unmixed
  <2> QED
    BY <1>1, <2>1, StepCoins
<1> QED
  BY <1>1, <1>2, <1>3, EndCoins

\* The steps of a compound before its deposit.
LEMMA CollectingCoins ==
    ASSUME Typed, CoinInv,
           \/ ReadBeforeCollect \/ Collect \/ ReadCollected \/ ResolveDepositAmounts
           \/ Swap /\ move.kind # "rebalance"
    PROVE  CoinInv'
<1>1. /\ move \in Moves /\ chain \in Chains /\ move.kind = "compound"
      /\ chain.wallet \in Nat /\ chain.fees \in Nat
  <2>1. move.kind = "compound"
    BY DEF ReadBeforeCollect, Collect, ReadCollected, ResolveDepositAmounts, Swap, At,
           Compound, Either
  <2> QED
    BY <2>1 DEF Typed, TypeOK, Chains
<1>2. result' = result
  BY DEF ReadBeforeCollect, Collect, ReadCollected, ResolveDepositAmounts, Swap, Goes,
         Confirms
<1>3. /\ CappedCoins(move) /\ (~move.astray => RisenCoins(move, chain.wallet))
  BY <1>1 DEF CoinInv, Accounts
<1>4. /\ move.before \in Nat /\ move.after \in Nat /\ move.got \in Nat /\ move.own \in Int
      /\ move.came \in BOOLEAN /\ move.reported \in BOOLEAN /\ move.astray \in BOOLEAN
      /\ move.swap.ran \in BOOLEAN /\ move.swap.sold \in Nat /\ move.swap.bought \in {0, 1}
  BY <1>1, MoveFields
<1>5. ASSUME NEW m, NEW w, move' = m, chain'.wallet = w, m.kind = "compound",
             CappedCoins(m), ~m.astray => RisenCoins(m, w)
      PROVE  CoinInv'
  <2>1. Accounts(m, w)
    BY <1>5 DEF Accounts
  <2> QED
    BY <1>2, <1>5, <2>1, StepCoins
<1>6. CASE ReadBeforeCollect
  <2>1. PICK b \in Reading : Goes([Having(move, b) EXCEPT !.pc = "draining", !.before = b])
    BY <1>6 DEF ReadBeforeCollect
  <2> DEFINE h == Having(move, b)
             m == [h EXCEPT !.pc = "draining", !.before = b]
  <2>2. /\ h \in Moves /\ h.kind = "compound" /\ h.swap = move.swap
        /\ (~h.astray => b = chain.wallet)
    BY <1>1, ReadAlike
  <2>3. move' = m /\ chain' = chain
    BY <2>1 DEF Goes
  <2> HIDE DEF h
  <2>4. /\ m.kind = "compound" /\ m.pc = "draining" /\ m.before = b /\ m.swap = move.swap
        /\ m.astray = h.astray
    BY <2>2 DEF Moves
  <2>5. move.pc = "started"
    BY <1>6 DEF ReadBeforeCollect, At
  <2> HIDE DEF m
  <2>6. CappedCoins(m)
    BY <1>3, <2>4, <2>5 DEF CappedCoins, NotSwapped, Collected
  <2>7. ~m.astray => RisenCoins(m, chain.wallet)
    BY <1>1, <2>2, <2>4 DEF RisenCoins, AtLeast, Collected, Put
  <2> QED
    BY <1>5, <2>3, <2>4, <2>6, <2>7
<1>7. CASE Collect
  <2> DEFINE m == [move EXCEPT !.pc = "took", !.own = chain.fees, !.gas.tx = 1]
             w == chain.wallet + chain.fees
  <2>1. move' = m /\ chain' = [Holding(chain, w) EXCEPT !.fees = 0] /\ move.pc = "draining"
    BY <1>7 DEF Collect, Confirms, At
  <2>2. chain'.wallet = w
    BY <1>1, <2>1 DEF Holding, Chains
  <2>3. /\ m.kind = "compound" /\ m.pc = "took" /\ m.own = chain.fees
        /\ m.before = move.before /\ m.swap = move.swap /\ m.astray = move.astray
        /\ m.came = move.came
    BY <1>1 DEF Moves
  <2> HIDE DEF m
  <2>4. CappedCoins(m)
    BY <1>3, <2>1, <2>3 DEF CappedCoins, NotSwapped, Collected
  <2>5. ~m.astray => RisenCoins(m, w)
    <3>1. ~move.astray => AtLeast(move, chain.wallet, move.before)
      BY <1>3, <2>1 DEF RisenCoins
    <3>2. ~m.astray => AtLeast(m, w, m.before + m.own)
      BY <1>1, <1>4, <2>3, <3>1 DEF AtLeast
    <3> QED
      BY <2>3, <3>2 DEF RisenCoins, Collected, Put
  <2> QED
    BY <1>5, <2>1, <2>2, <2>3, <2>4, <2>5
<1>8. CASE ReadCollected
  <2>1. PICK a \in Reading, reported \in BOOLEAN :
               \/ Goes([Collecting(a, reported) EXCEPT !.pc = "swapping"])
               \/ move' = Idle
    BY <1>8, ReadCollectedSteps DEF Ends
  <2> DEFINE h == Having(move, a)
             u == CollectedUnits(move, a, reported)
             m == [[h EXCEPT !.after = a, !.reported = reported, !.got = u,
                             !.gas = Paid(move.gas)] EXCEPT !.pc = "swapping"]
  <2>2. CASE move' = Idle
    BY <1>2, <2>2, EndCoins
  <2>3. CASE Goes([Collecting(a, reported) EXCEPT !.pc = "swapping"])
    <3>1. /\ h \in Moves /\ h.kind = "compound" /\ h.own = move.own /\ h.swap = move.swap
          /\ h.before = move.before /\ h.came = move.came
          /\ (~h.astray => ~move.astray /\ a = chain.wallet)
      BY <1>1, ReadAlike
    <3>2. move' = m /\ chain' = chain
      BY <2>3 DEF Goes, Collecting
    <3> HIDE DEF h, u
    <3>3. /\ m.kind = "compound" /\ m.pc = "swapping" /\ m.own = move.own
          /\ m.before = move.before /\ m.swap = move.swap /\ m.astray = h.astray
          /\ m.came = move.came /\ m.after = a /\ m.reported = reported /\ m.got = u
      BY <3>1 DEF Moves
    <3> HIDE DEF m
    <3>4. move.pc = "took"
      BY <1>8 DEF ReadCollected, At
    <3>5. a \in Nat
      BY ReadingType DEF Typed
    <3>6. move.swap.sold = 0 /\ move.swap.bought = 0 /\ ~move.swap.ran
      BY <1>3, <3>4 DEF CappedCoins, NotSwapped
    <3>7. u \in Nat /\ (reported => u <= move.own)
      <4>1. Rise(move.before, a) \in Nat
        BY <1>4, <3>5 DEF Rise
      <4>2. move.own \in Nat
        BY <3>4 DEF Typed, OwnIsNat
      <4> QED
        BY <4>1, <4>2 DEF u, CollectedUnits
    <3>8. CappedCoins(m)
      BY <1>4, <3>3, <3>6, <3>7 DEF CappedCoins, NotSwapped, Collected, FeeCoins
    <3>9. ASSUME ~m.astray PROVE RisenCoins(m, chain.wallet)
      <4>1. AtLeast(move, chain.wallet, move.before + move.own) /\ a = chain.wallet
        BY <1>3, <3>1, <3>3, <3>4, <3>9 DEF RisenCoins
      <4>2. AtLeast(m, chain.wallet, m.before + m.own) /\ AtLeast(m, m.after, m.before + m.own)
        BY <3>3, <4>1 DEF AtLeast
      <4>3. (m.came => m.reported) => u = move.own
        <5>1. move.own \in Nat
          BY <3>4 DEF Typed, OwnIsNat
        <5>2. Rise(move.before, a) >= move.own /\ (~move.came => Rise(move.before, a) = move.own)
              /\ Rise(move.before, a) \in Nat
          BY <1>1, <1>4, <4>1, <5>1 DEF AtLeast, Rise
        <5> QED
          BY <1>4, <3>3, <5>1, <5>2 DEF u, CollectedUnits
      <4>4. (m.came => m.reported) => FeeCoins(m) = m.own
        BY <1>4, <3>3, <3>6, <3>7, <4>3 DEF FeeCoins
      <4> QED
        BY <3>3, <4>2, <4>4 DEF RisenCoins, Collected, Put
    <3> QED
      BY <1>5, <3>2, <3>3, <3>8, <3>9
  <2> QED
    BY <2>1, <2>2, <2>3
<1>9. CASE Swap
  <2>1. PICK s \in Swaps(SwapsFrom(move)), mined \in 0 .. SwapGas :
          /\ chain' = IF s = NoSwap THEN chain ELSE Swapped(s)
          /\ move' = [move EXCEPT !.pc = "swapped", !.gas.paid = @ + mined,
                             !.swap = s, !.own = @ - s.sold + s.bought]
    BY <1>1, <1>9 DEF Swap
  <2> DEFINE own == move.own - s.sold + s.bought
             w == chain.wallet - s.sold + s.bought
             m == [move EXCEPT !.pc = "swapped", !.gas.paid = @ + mined,
                             !.swap = s, !.own = own]
  <2>2. move' = m /\ move.pc = "swapping"
    BY <1>9, <2>1 DEF Swap, At
  <2>3. /\ s.sold \in Nat /\ s.bought \in {0, 1} /\ s.sold <= move.got
        /\ s.ran \in BOOLEAN
    BY <1>1, <1>4, SwapsType DEF SwapsFrom, Typed, Sales
  <2>4. ~s.ran => s = NoSwap
    BY Zenon DEF Swaps
  <2>5. s = NoSwap => s.sold = 0 /\ s.bought = 0
    BY DEF NoSwap
  <2>6. chain'.wallet = w
    <3>1. CASE s = NoSwap
      BY <1>1, <2>1, <2>5, <3>1
    <3>2. CASE s # NoSwap
      BY <1>1, <2>1, <3>2 DEF Swapped, Holding, Chains
    <3> QED
      BY <3>1, <3>2
  <2> HIDE DEF own
  <2>7. /\ m.kind = "compound" /\ m.pc = "swapped" /\ m.own = own
        /\ m.before = move.before /\ m.swap = s /\ m.astray = move.astray
        /\ m.came = move.came /\ m.after = move.after /\ m.reported = move.reported
        /\ m.got = move.got
    BY <1>1 DEF Moves
  <2> HIDE DEF m
  <2>8. move.swap.sold = 0 /\ move.swap.bought = 0 /\ ~move.swap.ran
    BY <1>3, <2>2 DEF CappedCoins, NotSwapped
  <2>9. CappedCoins(m)
    <3>1. move.reported => FeeCoins(move) <= move.own
      BY <1>3, <2>2 DEF CappedCoins, Collected
    <3>2. m.reported => FeeCoins(m) <= m.own
      BY <1>4, <2>3, <2>7, <2>8, <3>1 DEF FeeCoins, own
    <3> QED
      BY <2>3, <2>4, <2>5, <2>7, <3>2 DEF CappedCoins, NotSwapped, Collected
  <2>10. ASSUME ~m.astray PROVE RisenCoins(m, w)
    <3>1. /\ AtLeast(move, chain.wallet, move.before + move.own)
          /\ AtLeast(move, move.after, move.before + move.own)
          /\ (move.came => move.reported) => FeeCoins(move) = move.own
      BY <1>3, <2>2, <2>7, <2>8, <2>10 DEF RisenCoins, Collected
    <3>2. AtLeast(m, w, m.before + m.own)
      BY <1>1, <1>4, <2>3, <2>7, <3>1 DEF AtLeast, own
    <3>3. ~m.swap.ran => AtLeast(m, m.after, m.before + m.own)
      BY <1>4, <2>4, <2>5, <2>7, <3>1 DEF AtLeast, own
    <3>4. (m.came => m.reported) => FeeCoins(m) = m.own
      BY <1>4, <2>3, <2>7, <2>8, <3>1 DEF FeeCoins, own
    <3> QED
      BY <2>7, <3>2, <3>3, <3>4 DEF RisenCoins, Put
  <2> QED
    BY <1>5, <2>2, <2>6, <2>7, <2>9, <2>10
<1>10. CASE ResolveDepositAmounts
  <2>1. move.pc = "swapped"
    BY <1>10 DEF ResolveDepositAmounts, At
  <2>2. CASE move.swap.ran
    <3>1. PICK b \in Reading :
              Goes([Having(move, b) EXCEPT !.pc = "sending", !.want = b, !.after = b])
      BY <1>10, <2>2 DEF ResolveDepositAmounts
    <3> DEFINE h == Having(move, b)
               m == [h EXCEPT !.pc = "sending", !.want = b, !.after = b]
    <3>2. /\ h \in Moves /\ h.kind = "compound" /\ h.own = move.own /\ h.swap = move.swap
          /\ h.before = move.before /\ h.came = move.came /\ h.got = move.got
          /\ h.reported = move.reported
          /\ (~h.astray => ~move.astray /\ b = chain.wallet)
      BY <1>1, ReadAlike
    <3>3. move' = m /\ chain' = chain
      BY <3>1 DEF Goes
    <3> HIDE DEF h
    <3>4. /\ m.kind = "compound" /\ m.pc = "sending" /\ m.own = move.own
          /\ m.before = move.before /\ m.swap = move.swap /\ m.astray = h.astray
          /\ m.came = move.came /\ m.after = b /\ m.reported = move.reported
          /\ m.got = move.got
      BY <3>2 DEF Moves
    <3> HIDE DEF m
    <3>5. CappedCoins(m)
      BY <1>3, <2>1, <3>4 DEF CappedCoins, NotSwapped, Collected, FeeCoins
    <3>6. ~m.astray => RisenCoins(m, chain.wallet)
      BY <1>3, <2>1, <3>2, <3>4 DEF RisenCoins, Collected, Put, AtLeast, FeeCoins
    <3> QED
      BY <1>5, <3>3, <3>4, <3>5, <3>6
  <2>3. CASE ~move.swap.ran
    <3> DEFINE m == [move EXCEPT !.pc = "sending", !.want = move.got]
    <3>1. move' = m /\ chain' = chain
      BY <1>10, <2>3 DEF ResolveDepositAmounts, Goes
    <3>2. m.pc = "sending" /\ Alike(m, move)
      BY <1>1 DEF Alike, Moves
    <3> HIDE DEF m
    <3>3. CappedCoins(m)
      BY <1>3, <2>1, <3>2 DEF CappedCoins, NotSwapped, Collected, FeeCoins, Alike
    <3>4. ~m.astray => RisenCoins(m, chain.wallet)
      BY <1>3, <2>1, <2>3, <3>2 DEF RisenCoins, Collected, Put, AtLeast, FeeCoins, Alike
    <3> QED
      BY <1>1, <1>5, <3>1, <3>2, <3>3, <3>4 DEF Alike
  <2> QED
    BY <2>2, <2>3
<1> QED
  BY <1>6, <1>7, <1>8, <1>9, <1>10

\* What ends a move unreported, and what happens around it.
LEMMA OutsideCoins ==
    ASSUME Typed, CoinInv,
           \/ ReadFails \/ SendFails \/ SwapFails \/ MintUnread \/ Cut
           \/ LooseMines \/ OwnerDeposits \/ OwnerWithdraws \/ EarnsFees
    PROVE  CoinInv'
<1>1. /\ move \in Moves /\ chain \in Chains /\ Accounts(move, chain.wallet)
      /\ chain.wallet \in Nat /\ chain.coins \in Nat /\ chain.fees \in Nat
  BY DEF Typed, TypeOK, Chains, CoinInv
<1>2. CASE ReadFails \/ SendFails \/ SwapFails \/ MintUnread \/ Cut
  BY <1>2, EndCoins DEF ReadFails, SendFails, SwapFails, MintUnread, Cut, Fails, Ends
<1>3. CASE LooseMines \/ OwnerDeposits \/ OwnerWithdraws \/ EarnsFees
  <2>1. result' = result
    BY <1>3 DEF LooseMines, OwnerDeposits, OwnerWithdraws, EarnsFees
  <2>2. /\ chain'.wallet \in Nat
        /\ \/ move' = move /\ chain'.wallet = chain.wallet
           \/ move' = Came(move) /\ chain.wallet <= chain'.wallet
           \/ move' = Left(move)
    <3>1. CASE EarnsFees
      BY <1>1, <3>1 DEF EarnsFees, Chains
    <3>2. CASE OwnerDeposits
      BY <1>1, <3>2 DEF OwnerDeposits, Holding, Chains
    <3>3. CASE OwnerWithdraws
      BY <1>1, <3>3 DEF OwnerWithdraws, Holding, Chains
    <3>4. CASE LooseMines
      <4>1. CASE UNCHANGED <<chain, move>>
        BY <1>1, <4>1
      <4>2. CASE /\ chain' = [Holding(chain, chain.wallet + chain.coins + chain.fees)
                               EXCEPT !.coins = 0, !.fees = 0, !.open = FALSE]
                 /\ move' = Came(move)
        BY <1>1, <4>2 DEF Holding, Chains
      <4>3. CASE /\ chain' = [Holding(chain, chain.wallet + chain.fees) EXCEPT !.fees = 0]
                 /\ move' = Came(move)
        BY <1>1, <4>3 DEF Holding, Chains
      <4>4. ASSUME NEW x \in 1 .. chain.wallet, move' = Left(move),
                   chain' = [Holding(chain, chain.wallet - x)
                        EXCEPT !.coins = IF loose = "deposit" THEN @ + x ELSE @,
                               !.open = @ \/ loose = "deposit"]
            PROVE  chain'.wallet \in Nat
        <5>1. chain'.wallet = chain.wallet - x
          BY <1>1, <4>4 DEF Holding, Chains
        <5> QED
          BY <1>1, <5>1
      <4> QED
        BY <3>4, <4>1, <4>2, <4>3, <4>4 DEF LooseMines
    <3> QED
      BY <1>3, <3>1, <3>2, <3>3, <3>4
  <2>3. Accounts(move', chain'.wallet)
    BY <1>1, <2>2, LeftAccounts, CameAccounts
  <2> QED
    BY <2>1, <2>3, StepCoins
<1> QED
  BY <1>2, <1>3

LEMMA CoinNext == Typed /\ CoinInv /\ [Next]_vars => CoinInv'
<1> SUFFICES ASSUME Typed, CoinInv, [Next]_vars PROVE CoinInv'
  OBVIOUS
<1>1. CASE UNCHANGED vars
  BY <1>1, StepCoins DEF vars, CoinInv
<1>2. CASE Next
  <2>1. Swap => \/ Swap /\ move.kind = "rebalance"
                \/ Swap /\ move.kind # "rebalance"
    OBVIOUS
  <2> QED
    BY <1>2, <2>1, StartCoins, RebalanceBookedCoins, CompoundBookedCoins, SendingCoins,
       DrainingCoins, MixingCoins, CollectingCoins, OutsideCoins, Zenon DEF Next
<1> QED
  BY <1>1, <1>2

LEMMA CoinInit == Init => CoinInv
BY IdleAccounts
   DEF Init, CoinInv, Reported, FeesNeverOver, FeesExact, DrainedKept, NoResult

\* A compound's record never counts more than it has as fees put back, whatever the owner
\* and the endpoints do, for any amounts and any number of events.
THEOREM FeesNeverOverCorrect == Spec => []FeesNeverOver
<1>1. CoinInv => FeesNeverOver
  BY DEF CoinInv, Reported
<1> QED
  BY <1>1, TypeInit, TypeNext, CoinInit, CoinNext, PTL DEF Spec

\* With readings of the wallet as it stood and no coins taken out of it, the count is exact.
THEOREM FeesExactCorrect == Spec => []FeesExact
<1>1. CoinInv => FeesExact
  BY DEF CoinInv, Reported
<1> QED
  BY <1>1, TypeInit, TypeNext, CoinInit, CoinNext, PTL DEF Spec

-----------------------------------------------------------------------------
(* The deposits.                                                             *)

\* A quotient is no less than what its divisor goes into.
LEMMA DivAtLeast ==
    ASSUME NEW a \in Nat, NEW b \in Nat, NEW n \in Int, b # 0, b * n <= a
    PROVE  n <= a \div b
<1> DEFINE q == a \div b
<1>1. q \in Nat /\ a < b * q + b
  BY DivType
<1> HIDE DEF q
<1>2. b * (n - q - 1) < 0
  BY <1>1
<1>3. n - q - 1 < 0
  BY <1>1, <1>2
<1> QED
  BY <1>1, <1>3 DEF q

\* A compound takes the deposits' share of the coins it takes: if neither what waits nor what
\* it takes nor what the wallet held before is more than there is, what then waits is no more
\* than is left.
LEMMA TakesShare ==
    ASSUME NEW w \in Nat, NEW t \in Nat, NEW b \in Nat, NEW v \in Nat,
           b # 0, w <= v, t <= v, b <= v
    PROVE  w - CompoundTakes(w, t, b) <= v - t
<1> DEFINE a == w * t
           q == a \div b
<1>1. a \in Nat
  OBVIOUS
<1>2. q \in Nat
  BY <1>1, DivType
<1>3. CompoundTakes(w, t, b) = Least(Least(w, t), q)
  BY DEF CompoundTakes
<1>4. w >= b => q >= t
  <2>1. w >= b => b * t <= a
    OBVIOUS
  <2> HIDE DEF a
  <2> QED
    BY <1>1, <2>1, DivAtLeast
<1>5. t >= b => q >= w
  <2>1. t >= b => b * w <= a
    OBVIOUS
  <2> HIDE DEF a
  <2> QED
    BY <1>1, <2>1, DivAtLeast
<1>6. w <= b /\ t <= b => q >= w + t - b
  <2>1. w <= b /\ t <= b => b * (w + t - b) <= a
    <3>1. w <= b /\ t <= b => (b - w) * (b - t) >= 0
      OBVIOUS
    <3>2. (b - w) * (b - t) = a - b * (w + t - b)
      OBVIOUS
    <3> QED
      BY <1>1, <3>1, <3>2
  <2> HIDE DEF a
  <2> QED
    BY <1>1, <2>1, DivAtLeast
<1> HIDE DEF a, q
<1> QED
  BY <1>2, <1>3, <1>4, <1>5, <1>6 DEF Least

\* What a compound has collected and not yet put back.
KeptBy(m) ==
    IF m.kind = "compound" /\ m.pc \in {"took", "swapping", "swapped", "sending"}
    THEN m.own ELSE 0

\* As long as the coins can be told apart, the waiting deposits, what came out of the
\* position and what a compound has collected are in the wallet side by side.
PurseFits(m, p, w) ==
    p.out # Unknown => KeptBy(m) >= 0 /\ p.waiting + p.out + KeptBy(m) <= w

\* A compound about to send its deposit still has what it collected on top of what the wallet
\* held; nothing having come in, it sends no more.
DepositFits(m, p, w) ==
    m.kind = "compound" /\ m.pc = "sending" /\ ~m.astray =>
        /\ p.out # Unknown => w >= m.before + m.own
        /\ ~m.came => m.want <= m.before + m.own

\* The deposits a rebalance takes were in the wallet when it was read before the drain, and
\* beside what had come out of the position when it was read after.
FigureFits(m, p) ==
    m.kind = "rebalance" /\ ~m.astray /\ ~m.came =>
        /\ m.pc \in {"draining", "took", "drained"} /\ p.out # Unknown => p.waiting <= m.before
        /\ m.pc \in {"swapping", "swapped", "correcting", "sending"} /\ m.out # Unknown =>
              p.waiting <= m.before /\ p.waiting + m.out <= m.after
        /\ m.pc = "sent" /\ m.out # Unknown =>
              m.took <= m.before /\ m.took + m.out <= m.after

Fits(m, p, w) == PurseFits(m, p, w) /\ DepositFits(m, p, w) /\ FigureFits(m, p)

FigureTold ==
    result.still /\ result.out # Unknown => result.figure \in result.out .. result.rest

PurseInv == Fits(move, purse, chain.wallet) /\ FigureTold

LEMMA PurseTypes ==
    ASSUME Typed
    PROVE  /\ move \in Moves /\ chain \in Chains /\ purse \in Purses /\ chain.wallet \in Nat
           /\ chain.coins \in Nat /\ chain.fees \in Nat
           /\ purse.waiting \in Nat /\ purse.out \in Int
           /\ (purse.out # Unknown => purse.out \in Nat)
           /\ move.before \in Nat /\ move.after \in Nat /\ move.want \in Nat
           /\ move.own \in Int /\ move.took \in Nat
           /\ (move.out # Unknown => move.out \in Nat)
<1>1. move \in Moves /\ chain \in Chains /\ purse \in Purses
  BY DEF Typed, TypeOK
<1>2. purse.waiting \in Nat /\ purse.out \in Nat \cup {Unknown} /\ purse.out \in Int
  BY <1>1, PurseFields
<1> QED
  BY <1>1, <1>2 DEF Chains, Moves

\* Between two moves only the purse itself counts.
LEMMA IdleFits ==
    ASSUME NEW p, NEW w, p.out # Unknown => p.waiting + p.out + 0 <= w
    PROVE  Fits(Idle, p, w)
BY DEF Fits, PurseFits, DepositFits, FigureFits, KeptBy, Idle

LEMMA PurseAlone ==
    ASSUME Typed, PurseInv, purse.out # Unknown
    PROVE  purse.waiting + purse.out + 0 <= chain.wallet
<1>1. KeptBy(move) \in Int
  BY PurseTypes DEF KeptBy
<1> QED
  BY <1>1, PurseTypes DEF PurseInv, Fits, PurseFits

\* A step that reports nothing new of a rebalance.
LEMMA StepPurse ==
    ASSUME PurseInv, NEW m, NEW p, NEW w, move' = m, purse' = p, chain'.wallet = w,
           Fits(m, p, w), result' = result
    PROVE  PurseInv'
<1>1. Fits(move', purse', chain'.wallet)
  OBVIOUS
<1>2. FigureTold'
  BY DEF PurseInv, FigureTold
<1> QED
  BY <1>1, <1>2 DEF PurseInv

\* A move that ends, its records written or not.
LEMMA EndPurse ==
    ASSUME Typed, PurseInv, move' = Idle, UNCHANGED <<chain, purse, result>> PROVE PurseInv'
<1>1. Fits(Idle, purse, chain.wallet)
  BY PurseAlone, IdleFits
<1> QED
  BY <1>1, StepPurse

LEMMA UnrecordedPurse ==
    ASSUME Typed, PurseInv, MintUnread \/ Cut PROVE PurseInv'
<1>1. /\ move' = Idle /\ UNCHANGED <<chain, result>>
      /\ \/ UNCHANGED purse
         \/ purse' = Told([purse EXCEPT !.waiting = @ + move.took], chain.wallet)
  BY DEF MintUnread, Cut, Ends, Unrecorded
<1>2. CASE UNCHANGED purse
  BY <1>1, <1>2, EndPurse
<1>3. CASE purse' = Told([purse EXCEPT !.waiting = @ + move.took], chain.wallet)
  <2> DEFINE p == [purse EXCEPT !.waiting = @ + move.took]
  <2>1. p \in Purses
    BY PurseTypes DEF Purses
  <2> HIDE DEF p
  <2>2. /\ purse'.waiting = p.waiting
        /\ purse'.out # Unknown => p.waiting + purse'.out <= chain.wallet
        /\ purse' \in Purses
    BY <1>3, <2>1, PurseTypes, ToldPurse DEF p
  <2>3. purse'.out # Unknown => purse'.waiting + purse'.out + 0 <= chain.wallet
    BY <2>2, PurseFields
  <2>4. Fits(Idle, purse', chain.wallet)
    BY <2>3, IdleFits
  <2> QED
    BY <1>1, <2>4, StepPurse
<1> QED
  BY <1>1, <1>2, <1>3

\* A step of a rebalance, and of a compound: what each has to show.
LEMMA RebalancePurse ==
    ASSUME PurseInv, NEW m, NEW p, NEW w, move' = m, purse' = p, chain'.wallet = w,
           result' = result, m.kind = "rebalance", FigureFits(m, p),
           p.out # Unknown => p.waiting + p.out + 0 <= w
    PROVE  PurseInv'
<1>1. Fits(m, p, w)
  BY DEF Fits, PurseFits, DepositFits, KeptBy
<1> QED
  BY <1>1, StepPurse

LEMMA CompoundPurse ==
    ASSUME PurseInv, NEW m, NEW p, NEW w, move' = m, purse' = p, chain'.wallet = w,
           result' = result, m.kind = "compound", PurseFits(m, p, w), DepositFits(m, p, w)
    PROVE  PurseInv'
<1>1. Fits(m, p, w)
  BY DEF Fits, FigureFits
<1> QED
  BY <1>1, StepPurse

LEMMA StartPurse ==
    ASSUME Typed, PurseInv, NEW kind \in Either, Start(kind) PROVE PurseInv'
<1>1. /\ move' = [Idle EXCEPT !.kind = kind, !.pc = "started"]
      /\ result' = NoResult /\ UNCHANGED <<chain, purse>>
  BY DEF Start
<1>2. move'.pc = "started"
  BY <1>1 DEF Idle
<1>3. Fits(move', purse', chain'.wallet)
  BY <1>1, <1>2, PurseAlone DEF Fits, PurseFits, DepositFits, FigureFits, KeptBy
<1>4. FigureTold'
  BY <1>1 DEF FigureTold, NoResult
<1> QED
  BY <1>3, <1>4 DEF PurseInv

-----------------------------------------------------------------------------
(* The figure.                                                               *)

LEMMA RebalanceBookedPurse ==
    ASSUME Typed, PurseInv, RebalanceBooked PROVE PurseInv'
<1>1. /\ move \in Moves /\ result \in Results /\ chain \in Chains
      /\ move.kind = "rebalance" /\ move.pc = "sent"
  BY DEF Typed, TypeOK, RebalanceBooked, At, Rebalance
<1> DEFINE f == BeforeRebalance(move)
           o == IF move.came THEN Unknown ELSE move.out
           t == move.after - move.took
<1>2. /\ result' = [result EXCEPT !.figure = f, !.drained = move.own, !.out = o, !.rest = t,
                                  !.still = ~move.astray]
      /\ move' = Idle /\ purse' = purse
      /\ chain' = [chain EXCEPT !.coins = move.put, !.open = TRUE]
  BY DEF RebalanceBooked, Ends
<1>3. ASSUME ~move.astray, o # Unknown PROVE f \in o .. t
  <2>1. o = move.out /\ move.took <= move.before /\ move.took + move.out <= move.after
    BY <1>1, <1>3 DEF PurseInv, Fits, FigureFits
  <2>2. f \in Nat
    BY <1>1, FigureType
  <2>3. Least(move.took, move.before) = move.took
    BY <2>1, PurseTypes DEF Least
  <2>4. CASE move.took < move.after
    <3>1. f = t
      BY <2>3, <2>4 DEF BeforeRebalance, Rise
    <3>2. o \in Nat /\ t \in Int /\ o <= t
      BY <1>3, <2>1, PurseTypes
    <3> QED
      BY <3>1, <3>2
  <2>5. CASE ~(move.took < move.after)
    <3>1. f = 0
      BY <2>3, <2>5 DEF BeforeRebalance, Rise
    <3>2. o = 0 /\ t = 0
      BY <1>3, <2>1, <2>5, PurseTypes
    <3> QED
      BY <3>1, <3>2
  <2> QED
    BY <2>4, <2>5
<1> HIDE DEF f, o, t
<1>4. result'.figure = f /\ result'.out = o /\ result'.rest = t /\ result'.still = ~move.astray
  BY <1>1, <1>2 DEF Results
<1>5. FigureTold'
  BY <1>3, <1>4 DEF FigureTold
<1>6. chain'.wallet = chain.wallet
  BY <1>1, <1>2 DEF Chains
<1>7. Fits(Idle, purse, chain.wallet)
  BY PurseAlone, IdleFits
<1> QED
  BY <1>2, <1>5, <1>6, <1>7 DEF PurseInv

LEMMA CompoundBookedPurse ==
    ASSUME Typed, PurseInv, CompoundBooked PROVE PurseInv'
<1>1. /\ result' = [result EXCEPT
           !.fees = CompoundFeeUnits(move), !.own = move.own, !.put = move.put,
           !.known = Known(move), !.quiet = Quiet(move)]
      /\ move' = Idle /\ UNCHANGED <<chain, purse>> /\ result \in Results
  BY DEF CompoundBooked, Ends, Typed, TypeOK
<1>2. /\ result'.figure = result.figure /\ result'.out = result.out
      /\ result'.rest = result.rest /\ result'.still = result.still
  BY <1>1 DEF Results
<1>3. Fits(Idle, purse, chain.wallet)
  BY PurseAlone, IdleFits
<1>4. FigureTold'
  BY <1>2 DEF PurseInv, FigureTold
<1> QED
  BY <1>1, <1>3, <1>4 DEF PurseInv

-----------------------------------------------------------------------------
(* The deposits over a rebalance's steps.                                    *)

\* What FigureFits tells apart, beside the step.
AlikeFigure(n, m) ==
    /\ n.kind = m.kind /\ n.before = m.before /\ n.after = m.after /\ n.took = m.took
    /\ n.out = m.out /\ n.came = m.came /\ n.astray = m.astray

LEMMA DrainingPurse ==
    ASSUME Typed, PurseInv, ReadLiquidity \/ RemoveLiquidity \/ ReadRemoved \/ ReadBalances
    PROVE  PurseInv'
<1>1. move \in Moves /\ move.kind = "rebalance" /\ FigureFits(move, purse)
  BY PurseTypes DEF ReadLiquidity, RemoveLiquidity, ReadRemoved, ReadBalances, At, Rebalance,
                    PurseInv, Fits
<1>2. purse.out # Unknown => purse.waiting + purse.out + 0 <= chain.wallet
  BY PurseAlone
<1>3. CASE Fails(0)
  BY <1>3, EndPurse DEF Fails, Ends
<1>4. CASE ReadLiquidity
  <2>1. PICK b \in Reading :
            \/ Goes([Having(move, b) EXCEPT !.pc = "draining", !.before = b])
            \/ Goes([Having(move, b) EXCEPT !.pc = "drained", !.before = b])
            \/ Fails(0)
    BY <1>4 DEF ReadLiquidity
  <2>2. ASSUME NEW to \in {"draining", "drained"},
               Goes([Having(move, b) EXCEPT !.pc = to, !.before = b])
        PROVE  PurseInv'
    <3> DEFINE h == Having(move, b)
               m == [h EXCEPT !.pc = to, !.before = b]
    <3>1. h \in Moves /\ h.kind = "rebalance" /\ (~h.astray => b = chain.wallet)
      BY <1>1, ReadAlike
    <3>2. move' = m /\ UNCHANGED <<chain, purse, result>>
      BY <2>2 DEF Goes
    <3> HIDE DEF h
    <3>3. m.kind = "rebalance" /\ m.pc = to /\ m.before = b /\ m.astray = h.astray
      BY <3>1 DEF Moves
    <3> HIDE DEF m
    <3>4. FigureFits(m, purse)
      BY <1>2, <3>1, <3>3, PurseTypes DEF FigureFits
    <3> QED
      BY <1>2, <3>2, <3>3, <3>4, RebalancePurse
  <2> QED
    BY <1>3, <2>1, <2>2
<1>5. CASE RemoveLiquidity
  <2> DEFINE out == chain.coins + chain.fees
             m == [move EXCEPT !.pc = "took", !.own = out, !.gas.tx = 1]
             c == Holding(chain, chain.wallet + out)
  <2>1. out \in Nat /\ move' = m /\ purse' = Drained(out) /\ result' = result
        /\ chain' = [c EXCEPT !.coins = 0, !.fees = 0, !.open = FALSE]
    BY <1>5, PurseTypes DEF RemoveLiquidity, Confirms
  <2>2. chain'.wallet = chain.wallet + out
    BY <2>1, PurseTypes DEF Holding, Chains
  <2> HIDE DEF out
  <2>3. AlikeFigure(m, move) /\ m.pc = "took"
    BY <1>1 DEF AlikeFigure, Moves
  <2>4. move.pc = "draining"
    BY <1>5 DEF RemoveLiquidity, At
  <2>5. /\ purse'.waiting = purse.waiting
        /\ purse'.out # Unknown => purse.out # Unknown /\ purse'.out = purse.out + out
    BY <2>1, DrainedPurse DEF Typed
  <2> HIDE DEF m, c
  <2>6. FigureFits(m, purse')
    BY <1>1, <2>3, <2>4, <2>5 DEF FigureFits, AlikeFigure
  <2>7. purse'.out # Unknown => purse'.waiting + purse'.out + 0 <= chain'.wallet
    BY <1>2, <2>1, <2>2, <2>5, PurseTypes
  <2> QED
    BY <1>1, <2>1, <2>3, <2>6, <2>7, RebalancePurse DEF AlikeFigure
<1>6. CASE ReadRemoved
  <2>1. PICK a \in Reading :
            \/ Goes([Having(move, a) EXCEPT !.pc = "drained", !.gas = Paid(move.gas)])
            \/ Fails(0)
    BY <1>6 DEF ReadRemoved
  <2>2. CASE Goes([Having(move, a) EXCEPT !.pc = "drained", !.gas = Paid(move.gas)])
    <3> DEFINE h == Having(move, a)
               m == [h EXCEPT !.pc = "drained", !.gas = Paid(move.gas)]
    <3>1. h \in Moves /\ h.kind = "rebalance" /\ h.before = move.before /\ h.came = move.came
          /\ (~h.astray => ~move.astray)
      BY <1>1, ReadAlike
    <3>2. move' = m /\ UNCHANGED <<chain, purse, result>> /\ move.pc = "took"
      BY <1>6, <2>2 DEF Goes, ReadRemoved, At
    <3> HIDE DEF h
    <3>3. /\ m.kind = "rebalance" /\ m.pc = "drained" /\ m.before = move.before
          /\ m.astray = h.astray /\ m.came = move.came
      BY <3>1 DEF Moves
    <3> HIDE DEF m
    <3>4. FigureFits(m, purse)
      BY <1>1, <3>1, <3>2, <3>3 DEF FigureFits
    <3> QED
      BY <1>2, <3>2, <3>3, <3>4, RebalancePurse
  <2> QED
    BY <1>3, <2>1, <2>2
<1>7. CASE ReadBalances
  <2>1. PICK a \in Reading : Goes([Having(move, a) EXCEPT !.pc = "swapping", !.after = a,
                                                           !.out = purse.out])
    BY <1>7 DEF ReadBalances
  <2> DEFINE h == Having(move, a)
             m == [h EXCEPT !.pc = "swapping", !.after = a, !.out = purse.out]
  <2>2. h \in Moves /\ h.kind = "rebalance" /\ h.before = move.before /\ h.came = move.came
        /\ (~h.astray => ~move.astray /\ a = chain.wallet)
    BY <1>1, ReadAlike
  <2>3. move' = m /\ UNCHANGED <<chain, purse, result>> /\ move.pc = "drained"
    BY <1>7, <2>1 DEF Goes, ReadBalances, At
  <2> HIDE DEF h
  <2>4. /\ m.kind = "rebalance" /\ m.pc = "swapping" /\ m.before = move.before
        /\ m.astray = h.astray /\ m.came = move.came /\ m.after = a /\ m.out = purse.out
    BY <2>2 DEF Moves
  <2> HIDE DEF m
  <2>5. FigureFits(m, purse)
    BY <1>1, <1>2, <2>2, <2>3, <2>4, PurseTypes DEF FigureFits
  <2> QED
    BY <1>2, <2>3, <2>4, <2>5, RebalancePurse
<1> QED
  BY <1>4, <1>5, <1>6, <1>7

\* A rebalance's swaps take other coins first, then the position's.
LEMMA SwappedPurse ==
    ASSUME Typed, PurseInv, NEW most \in Nat, NEW s \in Swaps(most), move.kind = "rebalance"
    PROVE  /\ AfterSwap(s).waiting = purse.waiting /\ AfterSwap(s) \in Purses
           /\ AfterSwap(s).out # Unknown =>
                 AfterSwap(s).waiting + AfterSwap(s).out + 0 <= Swapped(s).wallet
<1>1. Swapped(s).wallet \in Nat
  BY SwapsType DEF Typed, Chains
<1>2. AfterSwap(s) = Told(purse, Swapped(s).wallet)
  BY DEF AfterSwap
<1> DEFINE p == AfterSwap(s)
<1>3. /\ p \in Purses /\ p.waiting = purse.waiting
      /\ p.out # Unknown => purse.waiting + p.out <= Swapped(s).wallet
  BY <1>1, <1>2, PurseTypes, ToldPurse
<1> HIDE DEF p
<1>4. p.waiting \in Nat /\ p.out \in Int
  BY <1>3, PurseFields
<1>5. p.out # Unknown => p.waiting + p.out + 0 <= Swapped(s).wallet
  BY <1>3, <1>4
<1> QED
  BY <1>3, <1>5 DEF p

LEMMA MixingPurse ==
    ASSUME Typed, PurseInv,
           \/ CheckTick \/ CorrectiveSwap \/ ReadMintBalances
           \/ Swap /\ move.kind = "rebalance"
    PROVE  PurseInv'
<1> DEFINE Mixing == {"swapping", "swapped", "correcting", "sending"}
<1>1. /\ move \in Moves /\ move.kind = "rebalance" /\ FigureFits(move, purse)
      /\ move.pc \in Mixing
  BY PurseTypes DEF CheckTick, CorrectiveSwap, ReadMintBalances, Swap, At, Rebalance, PurseInv,
                    Fits
<1>2. purse.out # Unknown => purse.waiting + purse.out + 0 <= chain.wallet
  BY PurseAlone
<1>3. ASSUME AlikeFigure(move', move), move'.pc \in Mixing, result' = result,
             purse'.waiting = purse.waiting,
             purse'.out # Unknown => purse'.waiting + purse'.out + 0 <= chain'.wallet
      PROVE  PurseInv'
  <2>1. FigureFits(move', purse') /\ move'.kind = "rebalance"
    BY <1>1, <1>3 DEF FigureFits, AlikeFigure
  <2> QED
    BY <1>3, <2>1, RebalancePurse
<1>4. CASE CheckTick
  <2>1. CASE Goes([move EXCEPT !.pc = "correcting"])
    <3>1. AlikeFigure(move', move) /\ move'.pc \in Mixing /\ UNCHANGED <<chain, purse, result>>
      BY <1>1, <2>1 DEF Goes, AlikeFigure, Moves
    <3> QED
      BY <1>2, <1>3, <3>1
  <2>2. CASE Ends(0, move.gas.paid) /\ UNCHANGED <<chain, loose, purse, result, moves, events>>
    BY <2>2, EndPurse DEF Ends
  <2> QED
    BY <1>4, <2>1, <2>2 DEF CheckTick
<1>5. CASE CorrectiveSwap
  <2>1. PICK b \in Reading, mined \in 0 .. SwapGas : \E s \in Swaps(b) \ {NoSwap} :
          /\ chain' = Swapped(s) /\ purse' = AfterSwap(s)
          /\ move' = [move EXCEPT !.round = @ + 1, !.gas.rounds = @ + mined]
    BY <1>5 DEF CorrectiveSwap
  <2>2. PICK s \in Swaps(b) \ {NoSwap} :
          /\ chain' = Swapped(s) /\ purse' = AfterSwap(s)
          /\ move' = [move EXCEPT !.round = @ + 1, !.gas.rounds = @ + mined]
    BY <2>1
  <2>3. b \in Nat
    BY ReadingType DEF Typed
  <2>4. /\ purse'.waiting = purse.waiting
        /\ purse'.out # Unknown => purse'.waiting + purse'.out + 0 <= chain'.wallet
    BY <1>1, <2>2, <2>3, SwappedPurse
  <2>5. AlikeFigure(move', move) /\ move'.pc \in Mixing /\ result' = result
    BY <1>1, <1>5, <2>2 DEF AlikeFigure, Moves, CorrectiveSwap
  <2> QED
    BY <1>3, <2>4, <2>5
<1>6. CASE ReadMintBalances
  <2>1. PICK b \in Reading :
            Goes([move EXCEPT !.pc = "sending", !.gas = Paid(move.gas), !.round = 0, !.want = b])
    BY <1>6 DEF ReadMintBalances
  <2>2. AlikeFigure(move', move) /\ move'.pc \in Mixing /\ UNCHANGED <<chain, purse, result>>
    BY <1>1, <2>1 DEF Goes, AlikeFigure, Moves
  <2> QED
    BY <1>2, <1>3, <2>2
<1>7. CASE Swap
  <2>1. PICK s \in Swaps(SwapsFrom(move)), mined \in 0 .. SwapGas :
          /\ chain' = IF s = NoSwap THEN chain ELSE Swapped(s)
          /\ purse' = IF s = NoSwap THEN purse ELSE AfterSwap(s)
          /\ move' = [move EXCEPT !.pc = "swapped", !.gas.paid = @ + mined]
    BY <1>1, <1>7 DEF Swap
  <2>2. SwapsFrom(move) \in Nat
    BY <1>1, PurseTypes DEF SwapsFrom
  <2>3. /\ purse'.waiting = purse.waiting
        /\ purse'.out # Unknown => purse'.waiting + purse'.out + 0 <= chain'.wallet
    <3>1. CASE s = NoSwap
      BY <1>2, <2>1, <3>1
    <3>2. CASE s # NoSwap
      BY <1>1, <2>1, <2>2, <3>2, SwappedPurse
    <3> QED
      BY <3>1, <3>2
  <2>4. AlikeFigure(move', move) /\ move'.pc \in Mixing /\ result' = result
    BY <1>1, <1>7, <2>1 DEF AlikeFigure, Moves, Swap
  <2> QED
    BY <1>3, <2>3, <2>4
<1> QED
  BY <1>4, <1>5, <1>6, <1>7

LEMMA MintPurse ==
    ASSUME Typed, PurseInv, Mint PROVE PurseInv'
<1>1. PICK x \in 0 .. move.want :
          /\ x <= chain.wallet
          /\ chain' = Holding(chain, chain.wallet - x)
          /\ purse' = NewPurse
          /\ Confirms([move EXCEPT !.pc = "sent", !.put = x, !.took = purse.waiting,
                                   !.gas.tx = 1])
  BY DEF Mint
<1>2. /\ move \in Moves /\ move.kind = "rebalance" /\ move.pc = "sending"
      /\ FigureFits(move, purse)
  BY PurseTypes DEF Mint, At, Rebalance, PurseInv, Fits
<1> DEFINE m == [move EXCEPT !.pc = "sent", !.put = x, !.took = purse.waiting, !.gas.tx = 1]
<1>3. move' = m /\ result' = result
  BY <1>1 DEF Confirms
<1>4. /\ m.kind = "rebalance" /\ m.pc = "sent" /\ m.took = purse.waiting
      /\ m.before = move.before /\ m.after = move.after /\ m.out = move.out
      /\ m.came = move.came /\ m.astray = move.astray
  BY <1>2 DEF Moves
<1> HIDE DEF m
<1>5. FigureFits(m, purse')
  BY <1>2, <1>4 DEF FigureFits
<1>6. chain'.wallet = chain.wallet - x /\ chain.wallet - x >= 0
  <2>1. x \in Int /\ x <= chain.wallet
    BY <1>1, PurseTypes
  <2> QED
    BY <1>1, <2>1, PurseTypes DEF Holding, Chains
<1>7. purse'.out # Unknown => purse'.waiting + purse'.out + 0 <= chain'.wallet
  BY <1>1, <1>6 DEF NewPurse
<1> QED
  BY <1>3, <1>4, <1>5, <1>7, RebalancePurse

-----------------------------------------------------------------------------
(* The deposits over a compound's steps.                                     *)

LEMMA CollectingPurse ==
    ASSUME Typed, CoinInv, PurseInv,
           \/ ReadBeforeCollect \/ Collect \/ ReadCollected
           \/ Swap /\ move.kind # "rebalance"
    PROVE  PurseInv'
<1>1. /\ move \in Moves /\ chain \in Chains /\ move.kind = "compound"
      /\ PurseFits(move, purse, chain.wallet)
  <2>1. move.kind = "compound"
    BY DEF ReadBeforeCollect, Collect, ReadCollected, Swap, At, Compound, Either
  <2> QED
    BY <2>1, PurseTypes DEF PurseInv, Fits
<1>2. result' = result
  BY DEF ReadBeforeCollect, Collect, ReadCollected, Swap, Goes, Confirms, Ends
<1>3. ASSUME NEW m, NEW p, NEW w, move' = m, purse' = p, chain'.wallet = w,
             m.kind = "compound", m.pc # "sending", PurseFits(m, p, w)
      PROVE  PurseInv'
  <2>1. DepositFits(m, p, w)
    BY <1>3 DEF DepositFits
  <2> QED
    BY <1>2, <1>3, <2>1, CompoundPurse
<1>4. CASE ReadBeforeCollect
  <2>1. PICK b \in Reading : Goes([Having(move, b) EXCEPT !.pc = "draining", !.before = b])
    BY <1>4 DEF ReadBeforeCollect
  <2> DEFINE h == Having(move, b)
             m == [h EXCEPT !.pc = "draining", !.before = b]
  <2>2. h \in Moves /\ h.kind = "compound"
    BY <1>1, ReadAlike
  <2>3. move' = m /\ UNCHANGED <<chain, purse>> /\ move.pc = "started"
    BY <1>4, <2>1 DEF Goes, ReadBeforeCollect, At
  <2> HIDE DEF h
  <2>4. m.kind = "compound" /\ m.pc = "draining"
    BY <2>2 DEF Moves
  <2> HIDE DEF m
  <2>5. PurseFits(m, purse, chain.wallet)
    BY <1>1, <2>3, <2>4 DEF PurseFits, KeptBy
  <2> QED
    BY <1>3, <2>3, <2>4, <2>5
<1>5. CASE Collect
  <2> DEFINE m == [move EXCEPT !.pc = "took", !.own = chain.fees, !.gas.tx = 1]
             w == chain.wallet + chain.fees
  <2>1. /\ move' = m /\ chain' = [Holding(chain, w) EXCEPT !.fees = 0] /\ purse' = purse
        /\ move.pc = "draining"
    BY <1>5 DEF Collect, Confirms, At
  <2>2. chain'.wallet = w
    BY <1>1, <2>1 DEF Holding, Chains
  <2>3. m.kind = "compound" /\ m.pc = "took" /\ m.own = chain.fees
    BY <1>1 DEF Moves
  <2> HIDE DEF m
  <2>4. PurseFits(m, purse, w)
    BY <1>1, <2>1, <2>3, PurseTypes DEF PurseFits, KeptBy
  <2> QED
    BY <1>3, <2>1, <2>2, <2>3, <2>4
<1>6. CASE ReadCollected
  <2>1. PICK a \in Reading, reported \in BOOLEAN :
               \/ Goes([Collecting(a, reported) EXCEPT !.pc = "swapping"])
               \/ move' = Idle /\ UNCHANGED <<chain, purse>>
    BY <1>6, ReadCollectedSteps DEF Ends
  <2> DEFINE h == Having(move, a)
             u == CollectedUnits(move, a, reported)
             m == [[h EXCEPT !.after = a, !.reported = reported, !.got = u,
                             !.gas = Paid(move.gas)] EXCEPT !.pc = "swapping"]
  <2>2. CASE move' = Idle /\ UNCHANGED <<chain, purse>>
    BY <1>2, <2>2, EndPurse
  <2>3. CASE Goes([Collecting(a, reported) EXCEPT !.pc = "swapping"])
    <3>1. h \in Moves /\ h.kind = "compound" /\ h.own = move.own
      BY <1>1, ReadAlike
    <3>2. move' = m /\ UNCHANGED <<chain, purse>> /\ move.pc = "took"
      BY <1>6, <2>3 DEF Goes, Collecting, ReadCollected, At
    <3> HIDE DEF h, u
    <3>3. m.kind = "compound" /\ m.pc = "swapping" /\ m.own = move.own
      BY <3>1 DEF Moves
    <3> HIDE DEF m
    <3>4. PurseFits(m, purse, chain.wallet)
      BY <1>1, <3>2, <3>3 DEF PurseFits, KeptBy
    <3> QED
      BY <1>3, <3>2, <3>3, <3>4
  <2> QED
    BY <2>1, <2>2, <2>3
<1>7. CASE Swap
  <2>1. PICK s \in Swaps(SwapsFrom(move)), mined \in 0 .. SwapGas :
          /\ chain' = IF s = NoSwap THEN chain ELSE Swapped(s)
          /\ purse' = IF s = NoSwap THEN purse ELSE AfterSwap(s)
          /\ move' = [move EXCEPT !.pc = "swapped", !.gas.paid = @ + mined,
                             !.swap = s, !.own = @ - s.sold + s.bought]
    BY <1>1, <1>7 DEF Swap
  <2> DEFINE own == move.own - s.sold + s.bought
             w == chain.wallet - s.sold + s.bought
             m == [move EXCEPT !.pc = "swapped", !.gas.paid = @ + mined,
                             !.swap = s, !.own = own]
  <2>2. move' = m /\ move.pc = "swapping"
    BY <1>7, <2>1 DEF Swap, At
  <2>3. s.sold \in Nat /\ s.bought \in {0, 1} /\ (s = NoSwap => s.sold = 0 /\ s.bought = 0)
    <3>1. SwapsFrom(move) \in Nat
      BY <1>1, PurseTypes DEF SwapsFrom, Moves
    <3> QED
      BY <3>1, SwapsType DEF Typed, Sales, NoSwap
  <2>4. chain'.wallet = w /\ (s # NoSwap => Swapped(s).wallet = w)
    <3>1. CASE s = NoSwap
      BY <1>1, <2>1, <2>3, <3>1, PurseTypes
    <3>2. CASE s # NoSwap
      BY <1>1, <2>1, <3>2 DEF Swapped, Holding, Chains
    <3> QED
      BY <3>1, <3>2
  <2>5. /\ purse' = purse /\ (s = NoSwap \/ s.sold <= move.own)
        \/ purse'.out = Unknown
    <3>1. CASE s = NoSwap
      BY <2>1, <3>1
    <3>2. CASE s # NoSwap /\ s.sold <= move.own
      BY <1>1, <2>1, <3>2 DEF AfterSwap
    <3>3. CASE s # NoSwap /\ ~(s.sold <= move.own)
      <4>1. purse' = Told(purse, Swapped(s).wallet) /\ Compounding
        BY <1>1, <2>1, <2>2, <3>3 DEF AfterSwap, Compounding
      <4>2. purse' = [purse EXCEPT !.out = Unknown]
        BY <4>1 DEF Told
      <4> QED
        BY <4>2, PurseTypes DEF Purses
    <3> QED
      BY <3>1, <3>2, <3>3
  <2> HIDE DEF own
  <2>6. m.kind = "compound" /\ m.pc = "swapped" /\ m.own = own
    BY <1>1 DEF Moves
  <2> HIDE DEF m
  <2>7. PurseFits(m, purse', w)
    <3>1. CASE purse'.out = Unknown
      BY <3>1 DEF PurseFits
    <3>2. CASE purse' = purse /\ (s = NoSwap \/ s.sold <= move.own)
      <4>1. KeptBy(move) = move.own /\ KeptBy(m) = own
        BY <1>1, <2>2, <2>6 DEF KeptBy
      <4>2. purse.out # Unknown => /\ move.own >= 0
                                   /\ purse.waiting + purse.out + move.own <= chain.wallet
        BY <1>1, <4>1 DEF PurseFits
      <4>3. purse.out # Unknown => own >= 0 /\ purse.waiting + purse.out + own <= w
        BY <2>3, <3>2, <4>2, PurseTypes DEF own
      <4> QED
        BY <3>2, <4>1, <4>3 DEF PurseFits
    <3> QED
      BY <2>5, <3>1, <3>2
  <2> QED
    BY <1>3, <2>2, <2>4, <2>6, <2>7
<1> QED
  BY <1>4, <1>5, <1>6, <1>7

LEMMA ResolvePurse ==
    ASSUME Typed, CoinInv, PurseInv, ResolveDepositAmounts PROVE PurseInv'
<1>1. /\ move \in Moves /\ move.kind = "compound" /\ move.pc = "swapped"
      /\ PurseFits(move, purse, chain.wallet) /\ chain.wallet \in Nat
  BY PurseTypes DEF ResolveDepositAmounts, At, Compound, PurseInv, Fits
<1>2. /\ move.before \in Nat /\ move.got \in Nat /\ move.own \in Int /\ move.came \in BOOLEAN
      /\ move.astray \in BOOLEAN
  BY <1>1, MoveFields
<1>3. ~move.astray => /\ AtLeast(move, chain.wallet, move.before + move.own)
                      /\ ~move.came => FeeCoins(move) = move.own
  BY <1>1, <1>2 DEF CoinInv, Accounts, RisenCoins, Collected
<1>4. ASSUME NEW m, move' = m, UNCHANGED <<chain, purse, result>>, m.kind = "compound",
             m.pc = "sending", m.own = move.own, m.before = move.before, m.came = move.came,
             ~m.astray => ~move.astray,
             ~m.astray /\ ~m.came => m.want <= m.before + m.own
      PROVE  PurseInv'
  <2>1. PurseFits(m, purse, chain.wallet)
    BY <1>1, <1>4 DEF PurseFits, KeptBy
  <2>2. ~m.astray => chain.wallet >= m.before + m.own
    BY <1>3, <1>4 DEF AtLeast
  <2>3. DepositFits(m, purse, chain.wallet)
    BY <1>4, <2>2 DEF DepositFits
  <2> QED
    BY <1>4, <2>1, <2>3, CompoundPurse
<1>5. CASE move.swap.ran
  <2>1. PICK b \in Reading :
            Goes([Having(move, b) EXCEPT !.pc = "sending", !.want = b, !.after = b])
    BY <1>5 DEF ResolveDepositAmounts
  <2> DEFINE h == Having(move, b)
             m == [h EXCEPT !.pc = "sending", !.want = b, !.after = b]
  <2>2. /\ h \in Moves /\ h.kind = "compound" /\ h.own = move.own /\ h.before = move.before
        /\ h.came = move.came /\ (~h.astray => ~move.astray /\ b = chain.wallet)
    BY <1>1, ReadAlike
  <2>3. move' = m /\ UNCHANGED <<chain, purse, result>>
    BY <2>1 DEF Goes
  <2> HIDE DEF h
  <2>4. /\ m.kind = "compound" /\ m.pc = "sending" /\ m.own = move.own /\ m.want = b
        /\ m.before = move.before /\ m.came = move.came /\ m.astray = h.astray
    BY <2>2 DEF Moves
  <2> HIDE DEF m
  <2>5. ~m.astray /\ ~m.came => m.want <= m.before + m.own
    BY <1>1, <1>2, <1>3, <2>2, <2>4 DEF AtLeast
  <2> QED
    BY <1>4, <2>2, <2>3, <2>4, <2>5
<1>6. CASE ~move.swap.ran
  <2> DEFINE m == [move EXCEPT !.pc = "sending", !.want = move.got]
  <2>1. move' = m /\ UNCHANGED <<chain, purse, result>>
    BY <1>6 DEF ResolveDepositAmounts, Goes
  <2>2. /\ m.kind = "compound" /\ m.pc = "sending" /\ m.own = move.own /\ m.want = move.got
        /\ m.before = move.before /\ m.came = move.came /\ m.astray = move.astray
    BY <1>1 DEF Moves
  <2> HIDE DEF m
  <2>3. move.swap.sold = 0 /\ move.swap.bought = 0
    BY <1>1, <1>6 DEF CoinInv, Accounts, CappedCoins, Collected
  <2>4. ~m.astray /\ ~m.came => m.want <= m.before + m.own
    BY <1>2, <1>3, <2>2, <2>3 DEF FeeCoins
  <2> QED
    BY <1>4, <2>1, <2>2, <2>4
<1> QED
  BY <1>5, <1>6

\* An approval changes no coin.
LEMMA ApprovePurse ==
    ASSUME Typed, PurseInv, Approve PROVE PurseInv'
<1>1. PICK g : move' = [move EXCEPT !.gas.approvals = g]
  BY DEF Approve, Confirms
<1>2. UNCHANGED <<chain, purse, result>> /\ move \in Moves
  BY PurseTypes DEF Approve, Confirms
<1> DEFINE m == [move EXCEPT !.gas.approvals = g]
<1>3. /\ m.kind = move.kind /\ m.pc = move.pc /\ m.own = move.own /\ m.want = move.want
      /\ AlikeFigure(m, move)
  BY <1>2 DEF AlikeFigure, Moves
<1> HIDE DEF m
<1>4. Fits(m, purse, chain.wallet)
  BY <1>3 DEF PurseInv, Fits, PurseFits, DepositFits, FigureFits, KeptBy, AlikeFigure
<1> QED
  BY <1>1, <1>2, <1>4, StepPurse DEF m

\* The deposit leaves the waiting deposits their room: it takes its fees, which were kept
\* apart, and of the rest the deposits' share.
LEMMA DepositPurse ==
    ASSUME Typed, CoinInv, PurseInv, AddLiquidity PROVE PurseInv'
<1>1. PICK x \in 0 .. move.want : Deposits(x)
  BY DepositSteps
<1>2. /\ move \in Moves /\ chain \in Chains /\ move.kind = "compound" /\ move.pc = "sending"
      /\ x \in Nat /\ x <= move.want /\ x <= chain.wallet /\ chain.wallet \in Nat
  <2>1. x \in Nat /\ x <= move.want
    BY <1>1, PurseTypes
  <2> QED
    BY <1>1, <2>1, PurseTypes DEF AddLiquidity, At, Compound, Deposits
<1> DEFINE d == Deposit(x)
           q == Taken(x)
           f == CompoundFeeUnits(d)
           t == Rise(f, x)
           left == chain.wallet - x
           m == [d EXCEPT !.took = q]
<1>3. /\ d \in Moves /\ d.pc = "sent" /\ d.put = x /\ d.kind = "compound"
      /\ d.own = move.own /\ d.before = move.before /\ d.came = move.came
      /\ d.astray = move.astray /\ Alike(d, move)
  BY <1>2, DepositFields DEF Alike, Typed
<1>4. /\ q \in Nat /\ q <= purse.waiting /\ f \in Nat /\ t \in Nat
      /\ q = CompoundTakes(purse.waiting, t, move.before)
  BY <1>2, <1>3, TakenType, FeeUnitsType, RiseType DEF Taken, Typed
<1>5. chain'.wallet = left /\ result' = result /\ move' = m
  BY <1>1, <1>2 DEF Deposits, Holding, Chains, Confirms
<1>6. purse' = [waiting |-> purse.waiting - q,
                out |-> IF StillTold(d) THEN Least(purse.out, Rise(purse.waiting - q, left))
                        ELSE Unknown]
  BY <1>1 DEF Deposits
<1> HIDE DEF d
<1>7. ASSUME StillTold(d) PROVE purse.waiting - q <= left
  <2>1. /\ ~move.astray /\ purse.out # Unknown /\ (move.came => move.before > 0)
        /\ (d.came => Known(d))
    BY <1>3, <1>7 DEF StillTold, Quiet
  <2>2. /\ move.before \in Nat /\ move.own \in Int /\ purse.waiting \in Nat /\ purse.out \in Nat
    BY <2>1, PurseTypes
  <2>3. move.own >= 0 /\ purse.waiting + purse.out + move.own <= chain.wallet
    BY <1>2, <2>1 DEF PurseInv, Fits, PurseFits, KeptBy
  <2>4. /\ chain.wallet >= move.before + move.own
        /\ ~move.came => move.want <= move.before + move.own
    BY <1>2, <2>1 DEF PurseInv, Fits, DepositFits
  <2>5. Accounts(d, chain.wallet)
    BY <1>2, <1>3 DEF CoinInv, Accounts, CappedCoins, RisenCoins, Alike, AtLeast, FeeCoins,
                      NotSwapped, Collected, Put
  <2>6. f = IF move.own < x THEN move.own ELSE x
    BY <1>2, <1>3, <2>1, <2>5, FeeCountRight DEF Known
  <2> HIDE DEF f, q
  <2>7. CASE x <= move.own
    <3>1. t = 0
      BY <1>2, <2>2, <2>6, <2>7 DEF Rise
    <3> QED
      BY <1>2, <1>4, <2>2, <2>3, <2>7
  <2>8. CASE x > move.own
    <3> DEFINE v == chain.wallet - move.own
    <3>1. t = x - move.own
      BY <1>2, <2>2, <2>6, <2>8 DEF Rise
    <3>2. move.before # 0
      <4>1. CASE move.came
        BY <2>1, <2>2, <4>1
      <4>2. CASE ~move.came
        BY <1>2, <2>2, <2>4, <2>8, <4>2, PurseTypes
      <4> QED
        BY <4>1, <4>2
    <3>3. /\ v \in Nat /\ purse.waiting <= v /\ t <= v /\ move.before <= v
      BY <1>2, <2>2, <2>3, <2>4, <3>1
    <3> HIDE DEF v, t
    <3>4. purse.waiting - q <= v - t
      BY <1>4, <2>2, <3>2, <3>3, TakesShare
    <3>5. v - t = left
      BY <1>2, <2>2, <3>1 DEF v
    <3> QED
      BY <3>4, <3>5
  <2> QED
    BY <1>2, <2>2, <2>7, <2>8
<1>8. m.kind = "compound" /\ m.pc = "sent"
  BY <1>3 DEF Moves
<1> HIDE DEF m, q, left
<1>9. purse'.out # Unknown => purse'.waiting + purse'.out + 0 <= left
  <2>1. ASSUME purse'.out # Unknown PROVE purse'.waiting + purse'.out + 0 <= left
    <3> DEFINE o == Least(purse.out, Rise(purse.waiting - q, left))
    <3>1. StillTold(d) /\ purse'.out = o /\ purse'.waiting = purse.waiting - q
      BY <1>6, <2>1
    <3>2. purse.out \in Nat /\ purse.waiting - q \in Nat /\ left \in Nat
      BY <1>2, <1>4, <3>1, PurseTypes DEF StillTold, left
    <3>3. o \in Nat /\ o <= left - (purse.waiting - q)
      <4>1. Rise(purse.waiting - q, left) = left - (purse.waiting - q)
        BY <1>7, <3>1, <3>2 DEF Rise
      <4>2. left - (purse.waiting - q) \in Nat
        BY <1>7, <3>1, <3>2
      <4> QED
        BY <3>2, <4>1, <4>2, LeastType
    <3> QED
      BY <3>1, <3>2, <3>3
  <2> QED
    BY <2>1
<1>10. PurseFits(m, purse', left) /\ DepositFits(m, purse', left)
  BY <1>8, <1>9 DEF PurseFits, DepositFits, KeptBy
<1> QED
  BY <1>5, <1>8, <1>10, CompoundPurse

-----------------------------------------------------------------------------
(* The deposits while others move coins.                                     *)

\* What PurseInv tells apart of a move, beside what came and what went astray.
SameMove(n, m) ==
    /\ n.kind = m.kind /\ n.pc = m.pc /\ n.own = m.own /\ n.want = m.want
    /\ n.before = m.before /\ n.after = m.after /\ n.took = m.took /\ n.out = m.out

LEMMA LeftPurse ==
    ASSUME Typed, PurseInv, NEW p, NEW w, move' = Left(move), purse' = p, chain'.wallet = w,
           result' = result, p.waiting \in Nat, p.out \in Int, p.waiting <= purse.waiting,
           p.out # Unknown => purse.out # Unknown /\ ~Compounding /\ p.waiting + p.out <= w
    PROVE  PurseInv'
<1> DEFINE n == Left(move)
<1>1. move \in Moves /\ purse.waiting \in Nat /\ move.before \in Nat /\ move.after \in Nat
      /\ (move.out # Unknown => move.out \in Nat)
  BY PurseTypes
<1>2. SameMove(n, move) /\ n.came = move.came /\ (~n.astray => ~move.astray)
  BY <1>1 DEF Left, Moves, SameMove
<1> HIDE DEF n
<1>3. PurseFits(n, p, w)
  <2>1. p.out # Unknown => KeptBy(n) = 0
    BY <1>2 DEF KeptBy, Compounding, SameMove
  <2> QED
    BY <2>1 DEF PurseFits
<1>4. DepositFits(n, p, w)
  BY <1>2 DEF PurseInv, Fits, DepositFits, Compounding, SameMove
<1>5. FigureFits(n, p)
  BY <1>1, <1>2 DEF PurseInv, Fits, FigureFits, SameMove
<1>6. Fits(n, p, w)
  BY <1>3, <1>4, <1>5 DEF Fits
<1> QED
  BY <1>6, StepPurse DEF n

LEMMA CamePurse ==
    ASSUME Typed, PurseInv, NEW p, NEW w \in Nat, move' = Came(move), purse' = p,
           chain'.wallet = w, result' = result, p.waiting \in Nat, p.out \in Int,
           chain.wallet <= w,
           p.out # Unknown => /\ purse.out # Unknown
                              /\ p.waiting + p.out + chain.wallet
                                     <= purse.waiting + purse.out + w
    PROVE  PurseInv'
<1> DEFINE n == Came(move)
<1>1. /\ move \in Moves /\ purse.waiting \in Nat /\ purse.out \in Int /\ chain.wallet \in Nat
      /\ move.own \in Int /\ move.before \in Nat
  BY PurseTypes
<1>2. /\ SameMove(n, move) /\ n.astray = move.astray
      /\ ~n.came => ~move.came /\ ~BeforeMint(move)
  BY <1>1 DEF Came, Moves, SameMove
<1> HIDE DEF n
<1>3. PurseFits(n, p, w)
  <2>1. KeptBy(n) = KeptBy(move) /\ KeptBy(move) \in Int
    BY <1>1, <1>2 DEF KeptBy, SameMove
  <2> QED
    BY <1>1, <2>1 DEF PurseInv, Fits, PurseFits
<1>4. DepositFits(n, p, w)
  BY <1>1, <1>2 DEF PurseInv, Fits, DepositFits, SameMove
<1>5. FigureFits(n, p)
  BY <1>2 DEF PurseInv, Fits, FigureFits, BeforeMint, SameMove
<1>6. Fits(n, p, w)
  BY <1>3, <1>4, <1>5 DEF Fits
<1> QED
  BY <1>6, StepPurse DEF n

LEMMA OwnerPurse ==
    ASSUME Typed, PurseInv, OwnerDeposits \/ OwnerWithdraws \/ EarnsFees PROVE PurseInv'
<1>1. purse \in Purses /\ chain \in Chains /\ chain.wallet \in Nat /\ purse.waiting \in Nat
  BY PurseTypes
<1>2. result' = result
  BY DEF OwnerDeposits, OwnerWithdraws, EarnsFees
<1>3. CASE OwnerDeposits
  <2>1. /\ chain'.wallet = chain.wallet + 1 /\ move' = Came(move)
        /\ purse' = [purse EXCEPT !.waiting = @ + 1]
    BY <1>1, <1>3 DEF OwnerDeposits, Holding, Chains
  <2>2. purse'.waiting = purse.waiting + 1 /\ purse'.out = purse.out /\ purse.out \in Int
    BY <1>1, <2>1, PurseTypes DEF Purses
  <2>3. purse'.waiting + purse'.out + chain.wallet <= purse.waiting + purse.out + chain'.wallet
    BY <1>1, <2>1, <2>2
  <2>4. chain'.wallet \in Nat /\ chain.wallet <= chain'.wallet /\ purse'.waiting \in Nat
    BY <1>1, <2>1, <2>2
  <2> QED
    BY <1>2, <2>1, <2>2, <2>3, <2>4, CamePurse
<1>4. CASE OwnerWithdraws
  <2> DEFINE w == chain.wallet - 1
  <2>1. /\ w \in Nat /\ chain'.wallet = w /\ move' = Left(move) /\ purse' = Told(purse, w)
    BY <1>1, <1>4 DEF OwnerWithdraws, Holding, Chains
  <2> HIDE DEF w
  <2>2. /\ purse' \in Purses /\ purse'.waiting = purse.waiting
        /\ purse'.out # Unknown => /\ purse.out # Unknown /\ ~Compounding
                                   /\ purse.waiting + purse'.out <= w
    BY <1>1, <2>1, ToldPurse
  <2>3. purse'.waiting \in Nat /\ purse'.out \in Int /\ purse'.waiting <= purse.waiting
    BY <1>1, <2>2, PurseFields
  <2> QED
    BY <1>2, <2>1, <2>2, <2>3, LeftPurse
<1>5. CASE EarnsFees
  <2>1. chain'.wallet = chain.wallet /\ UNCHANGED <<move, purse>>
    BY <1>1, <1>5 DEF EarnsFees, Chains
  <2> QED
    BY <1>2, <2>1, StepPurse DEF PurseInv
<1> QED
  BY <1>3, <1>4, <1>5

LEMMA LooseMinesPurse ==
    ASSUME Typed, PurseInv, LooseMines PROVE PurseInv'
<1>1. /\ purse \in Purses /\ chain \in Chains /\ chain.wallet \in Nat /\ purse.waiting \in Nat
      /\ chain.coins \in Nat /\ chain.fees \in Nat /\ purse.out \in Int
  BY PurseTypes
<1>2. result' = result
  BY DEF LooseMines
<1>3. CASE UNCHANGED <<chain, move, purse>>
  BY <1>2, <1>3, StepPurse DEF PurseInv
<1>4. CASE /\ chain' = [Holding(chain, chain.wallet + chain.coins + chain.fees)
                          EXCEPT !.coins = 0, !.fees = 0, !.open = FALSE]
           /\ purse' = Drained(chain.coins + chain.fees)
           /\ move' = Came(move)
  <2>1. chain'.wallet = chain.wallet + chain.coins + chain.fees
    BY <1>1, <1>4 DEF Holding, Chains
  <2>2. /\ purse' \in Purses /\ purse'.waiting = purse.waiting
        /\ purse'.out # Unknown =>
              purse.out # Unknown /\ purse'.out = purse.out + (chain.coins + chain.fees)
    BY <1>1, <1>4, DrainedPurse DEF Typed
  <2>3. purse'.waiting \in Nat /\ purse'.out \in Int
    BY <2>2, PurseFields
  <2> QED
    BY <1>1, <1>2, <1>4, <2>1, <2>2, <2>3, CamePurse
<1>5. CASE /\ chain' = [Holding(chain, chain.wallet + chain.fees) EXCEPT !.fees = 0]
           /\ move' = Came(move) /\ UNCHANGED purse
  <2>1. chain'.wallet = chain.wallet + chain.fees
    BY <1>1, <1>5 DEF Holding, Chains
  <2> QED
    BY <1>1, <1>2, <1>5, <2>1, CamePurse
<1>6. ASSUME NEW x \in 1 .. chain.wallet, NEW v \in 0 .. purse.waiting,
             chain' = [Holding(chain, chain.wallet - x)
                         EXCEPT !.coins = IF loose = "deposit" THEN @ + x ELSE @,
                                !.open = @ \/ loose = "deposit"],
             purse' = Told([purse EXCEPT !.waiting = v], chain.wallet - x),
             move' = Left(move)
      PROVE  PurseInv'
  <2> DEFINE w == chain.wallet - x
             p == [purse EXCEPT !.waiting = v]
  <2>1. w \in Nat /\ chain'.wallet = w /\ v \in Nat /\ v <= purse.waiting
    BY <1>1, <1>6 DEF Holding, Chains
  <2>2. p \in Purses /\ p.waiting = v /\ p.out = purse.out
    BY <1>1, <2>1 DEF Purses
  <2>3. purse' = Told(p, w)
    BY <1>6
  <2> HIDE DEF w, p
  <2>4. /\ purse' \in Purses /\ purse'.waiting = v
        /\ purse'.out # Unknown => /\ purse.out # Unknown /\ ~Compounding
                                   /\ v + purse'.out <= w
    BY <2>1, <2>2, <2>3, ToldPurse
  <2>5. purse'.waiting \in Nat /\ purse'.out \in Int /\ purse'.waiting <= purse.waiting
    BY <2>1, <2>4, PurseFields
  <2> QED
    BY <1>2, <1>6, <2>1, <2>4, <2>5, LeftPurse
<1> QED
  BY <1>3, <1>4, <1>5, <1>6 DEF LooseMines

LEMMA FailingPurse ==
    ASSUME Typed, PurseInv, ReadFails \/ SendFails \/ SwapFails PROVE PurseInv'
<1>1. move' = Idle /\ UNCHANGED <<chain, purse, result>>
  BY DEF ReadFails, SendFails, SwapFails, Fails, Ends
<1> QED
  BY <1>1, EndPurse

LEMMA PurseInit == Init => PurseInv
<1> SUFFICES ASSUME Init PROVE PurseInv
  OBVIOUS
<1>1. chain.wallet \in Nat
  BY TypeInit DEF Typed, TypeOK, Chains
<1>2. purse.out # Unknown => purse.waiting + purse.out + 0 <= chain.wallet
  BY <1>1 DEF Init, NewPurse
<1>3. Fits(move, purse, chain.wallet)
  BY <1>2, IdleFits DEF Init
<1> QED
  BY <1>3 DEF PurseInv, FigureTold, Init, NoResult

LEMMA PurseNext == Typed /\ CoinInv /\ PurseInv /\ [Next]_vars => PurseInv'
<1> SUFFICES ASSUME Typed, CoinInv, PurseInv, [Next]_vars PROVE PurseInv'
  OBVIOUS
<1>1. CASE UNCHANGED vars
  BY <1>1, StepPurse DEF vars, PurseInv
<1>2. CASE Next
  <2>1. Swap => \/ Swap /\ move.kind = "rebalance"
                \/ Swap /\ move.kind # "rebalance"
    OBVIOUS
  <2> QED
    BY <1>2, <2>1, StartPurse, FailingPurse, UnrecordedPurse, DrainingPurse, MixingPurse,
       MintPurse, RebalanceBookedPurse, CollectingPurse, ResolvePurse, ApprovePurse,
       DepositPurse, CompoundBookedPurse, LooseMinesPurse, OwnerPurse, Zenon DEF Next
<1> QED
  BY <1>1, <1>2

\* A rebalance's figure has what this attempt drained, and, where the coins can be told
\* apart, every coin that came out of the position in this attempt or an earlier one and none
\* of a deposit that still waited: for any amounts, any number of compounds, failed attempts
\* and crashes before it.
THEOREM CoinsToldApartCorrect == Spec => []CoinsToldApart
<1>1. CoinInv /\ PurseInv => CoinsToldApart
  BY DEF CoinInv, PurseInv, Reported, DrainedKept, FigureTold, CoinsToldApart
<1> QED
  BY <1>1, TypeInit, TypeNext, CoinInit, CoinNext, PurseInit, PurseNext, PTL DEF Spec
=============================================================================
