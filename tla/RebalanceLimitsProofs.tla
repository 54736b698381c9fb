------------------------- MODULE RebalanceLimitsProofs -------------------------
(*****************************************************************************)
(* Theorems about RebalanceLimits, for any finite set of positions, any cap, *)
(* day, windows and bounds.                                                  *)
(*****************************************************************************)
EXTENDS RebalanceLimits, FiniteSetTheorems, TLAPS

-----------------------------------------------------------------------------
(* The throttle's operators keep its type. *)

LEMMA AtMostType ==
    ASSUME NEW n \in Nat, NEW cap \in Nat
    PROVE  AtMost(n, cap) \in 0 .. cap /\ AtMost(n, cap) <= n
BY DEF AtMost

LEMMA FreshType ==
    ASSUME NEW i \in Intervals PROVE Fresh(i) \in Throttles
BY ConstantsAssumption DEF Fresh, Throttles

LEMMA ConfiguredType ==
    ASSUME NEW t \in Throttles, NEW i \in Intervals
    PROVE  Configured(t, i) \in Throttles
<1>1. i \in Nat
  BY ConstantsAssumption
<1> QED
  BY <1>1 DEF Configured, Throttles

LEMMA ExpiredType ==
    ASSUME NEW t \in Throttles PROVE Expired(t) \in Throttles
BY DEF Expired, Throttles

LEMMA ResetType ==
    ASSUME NEW t \in Throttles PROVE Reset(t) \in Throttles
BY ConstantsAssumption DEF Reset, Fresh, Throttles

LEMMA TickedType ==
    ASSUME NEW t \in Throttles PROVE Ticked(t) \in Throttles
<1>1. Reset(t) \in Throttles
  BY ResetType
<1> QED
  BY <1>1, ExpiredType DEF Ticked

LEMMA DoubledType ==
    ASSUME NEW t \in Throttles PROVE Doubled(t) \in Throttles
<1>1. 2 * t.wait \in Nat /\ 2 * t.minInterval \in Nat /\ MaxWait \in Nat
  BY ConstantsAssumption DEF Throttles
<1>2. AtMost(2 * t.wait, MaxWait) \in Nat /\ AtMost(2 * t.minInterval, MaxWait) \in Nat
  BY <1>1 DEF AtMost
<1>3. [t EXCEPT !.doublings = @ + 1, !.wait = AtMost(2 * @, MaxWait)] \in Throttles
  <2>1. t.doublings + 1 \in Nat
    BY DEF Throttles
  <2> QED
    BY <1>2, <2>1 DEF Throttles
<1>4. [t EXCEPT !.doublings = 1, !.wait = AtMost(2 * t.minInterval, MaxWait)]
          \in Throttles
  BY <1>2 DEF Throttles
<1> QED
  BY <1>3, <1>4, Zenon DEF Doubled

LEMMA RecordedType ==
    ASSUME NEW t \in Throttles PROVE Recorded(t) \in Throttles
<1> DEFINE m == t.dailyCount + 1
           b == [t.stamps EXCEPT ![0] = @ + 1]
           u == [t EXCEPT !.age = 0, !.dailyCount = m, !.stamps = b]
<1>0. 0 \in 0 .. MaxAge
  BY ConstantsAssumption
<1>1. m \in Nat /\ b \in [0 .. MaxAge -> Nat]
  <2>1. m \in Nat /\ t.stamps \in [0 .. MaxAge -> Nat]
    BY DEF Throttles
  <2>2. t.stamps[0] \in Nat
    BY <1>0, <2>1, Zenon
  <2> QED
    BY <1>0, <2>1, <2>2
<1>2. Recorded(t) = Doubled(u)
  BY DEF Recorded
<1>3. u \in Throttles
  <2> HIDE DEF m, b
  <2> QED
    BY <1>0, <1>1 DEF Throttles
<1> QED
  BY <1>2, <1>3, DoubledType

LEMMA RehydratedType ==
    ASSUME NEW t \in Throttles, NEW n \in Nat
    PROVE  Rehydrated(t, n) \in Throttles
BY DEF Rehydrated, Throttles

LEMMA AgedType ==
    ASSUME NEW t \in Throttles, NEW midnight \in BOOLEAN
    PROVE  Aged(t, midnight) \in Throttles
<1>1. AtMost(t.age + 1, MaxAge) \in 0 .. MaxAge
  BY ConstantsAssumption DEF AtMost, Throttles
<1>2. [a \in 0 .. MaxAge |->
          IF a > 0 /\ InSomeWindow(a) THEN t.stamps[a - 1] ELSE 0]
              \in [0 .. MaxAge -> Nat]
  <2>1. t.stamps \in [0 .. MaxAge -> Nat]
    BY DEF Throttles
  <2>2. \A a \in 0 .. MaxAge : a > 0 => a - 1 \in 0 .. MaxAge
    BY ConstantsAssumption
  <2>3. \A a \in 0 .. MaxAge : a > 0 => t.stamps[a - 1] \in Nat
    BY <2>1, <2>2
  <2>4. 0 \in Nat
    OBVIOUS
  <2> QED
    BY <2>3, <2>4
<1>3. (t.due \/ midnight) \in BOOLEAN
  OBVIOUS
<1> QED
  BY <1>1, <1>2, <1>3 DEF Aged, Throttles

-----------------------------------------------------------------------------
(* Types. *)

LEMMA TypeInit == Init => TypeOK
<1> SUFFICES ASSUME Init PROVE TypeOK
  OBVIOUS
<1>1. thr \in [Tracked -> Throttles]
  BY FreshType DEF Init
<1>2. At({"moving", "minted", "counted"}) = {}
  BY DEF Init, At
<1> QED
  BY <1>1, <1>2, ConstantsAssumption DEF Init, TypeOK, PC, NothingToday

\* A throttle that becomes a throttle.
LEMMA ThrottledType ==
    ASSUME TypeOK, NEW p, NEW t, p \in Tracked => t \in Throttles, Throttled(p, t)
    PROVE  thr' \in [Tracked -> Throttles]
BY DEF TypeOK, Throttled

\* A poll's or a move's step from one place to another.
LEMMA GoesType ==
    ASSUME TypeOK, NEW p \in Positions, NEW from, NEW to \in PC, Goes(p, from, to),
           to \in {"moving", "minted", "counted"} =>
               \/ from \in {"moving", "minted", "counted"}
               \/ At({"moving", "minted", "counted"}) = {}
    PROVE  /\ pc' \in [Positions -> PC]
           /\ \A x, y \in At({"moving", "minted", "counted"})' : x = y
<1>1. pc' \in [Positions -> PC]
  BY DEF Goes, TypeOK
<1>2. ASSUME NEW x \in At({"moving", "minted", "counted"})' PROVE
          x = p \/ x \in At({"moving", "minted", "counted"})
  BY DEF At, Goes, TypeOK
<1>3. to \notin {"moving", "minted", "counted"} =>
          p \notin At({"moving", "minted", "counted"})'
  BY DEF At, Goes, TypeOK
<1>4. from \in {"moving", "minted", "counted"} =>
          p \in At({"moving", "minted", "counted"})
  BY DEF At, Goes
<1> QED
  BY <1>1, <1>2, <1>3, <1>4 DEF TypeOK

LEMMA EndsType ==
    ASSUME TypeOK, NEW p \in Positions, NEW from, Ends(p, from)
    PROVE  /\ pc' \in [Positions -> PC] /\ forced' \in [Positions -> BOOLEAN]
           /\ \A x, y \in At({"moving", "minted", "counted"})' : x = y
<1>1. Goes(p, from, "idle") /\ "idle" \in PC
  BY DEF Ends, PC
<1>2. forced' \in [Positions -> BOOLEAN]
  BY DEF Ends, TypeOK
<1> QED
  BY <1>1, <1>2, GoesType

LEMMA TypeStep == TypeOK /\ [Next]_vars => TypeOK'
<1> SUFFICES ASSUME TypeOK, [Next]_vars PROVE TypeOK'
  OBVIOUS
<1> USE DEF PC
<1>1. ASSUME NEW p \in Positions, PollBegins(p) PROVE TypeOK'
  <2>1. pc' \in [Positions -> PC]
        /\ \A x, y \in At({"moving", "minted", "counted"})' : x = y
    BY <1>1, GoesType DEF PollBegins
  <2>2. thr' \in [Tracked -> Throttles]
    <3>1. PICK i \in Intervals : Throttled(p, Ticked(Configured(thr[p], i)))
      BY <1>1 DEF PollBegins
    <3>2. p \in Tracked => Ticked(Configured(thr[p], i)) \in Throttles
      BY ConfiguredType, TickedType DEF TypeOK
    <3> QED
      BY <3>1, <3>2, ThrottledType
  <2>3. forced' \in [Positions -> BOOLEAN] /\ events' \in 0 .. MaxEvents
    BY <1>1, ConstantsAssumption DEF PollBegins, TypeOK
  <2> QED
    BY <1>1, <2>1, <2>2, <2>3 DEF PollBegins, TypeOK
<1>2. ASSUME NEW p \in Positions, GatePasses(p) PROVE TypeOK'
  <2>1. pc' \in [Positions -> PC]
        /\ \A x, y \in At({"moving", "minted", "counted"})' : x = y
    BY <1>2, GoesType DEF GatePasses
  <2> QED
    BY <1>2, <2>1 DEF GatePasses, TypeOK
<1>3. ASSUME NEW p \in Positions, PollEnds(p) PROVE TypeOK'
  <2>1. /\ pc' \in [Positions -> PC] /\ forced' \in [Positions -> BOOLEAN]
        /\ \A x, y \in At({"moving", "minted", "counted"})' : x = y
    BY <1>3, EndsType DEF PollEnds
  <2> QED
    BY <1>3, <2>1 DEF PollEnds, TypeOK
<1>4. ASSUME NEW p \in Positions, Starts(p) PROVE TypeOK'
  <2>1. pc' \in [Positions -> PC]
        /\ \A x, y \in At({"moving", "minted", "counted"})' : x = y
    BY <1>4, GoesType DEF Starts
  <2> QED
    BY <1>4, <2>1 DEF Starts, TypeOK
<1>5. ASSUME NEW p \in Positions, Fails(p) PROVE TypeOK'
  <2>1. /\ pc' \in [Positions -> PC] /\ forced' \in [Positions -> BOOLEAN]
        /\ \A x, y \in At({"moving", "minted", "counted"})' : x = y
    BY <1>5, EndsType DEF Fails
  <2> QED
    BY <1>5, <2>1 DEF Fails, TypeOK
<1>6. ASSUME NEW p \in Positions, Mints(p) PROVE TypeOK'
  <2>1. pc' \in [Positions -> PC]
        /\ \A x, y \in At({"moving", "minted", "counted"})' : x = y
    BY <1>6, GoesType DEF Mints
  <2>2. since' \in [Tracked -> 0 .. MaxAge]
    BY <1>6, ConstantsAssumption DEF Mints, TypeOK
  <2>3. today' \in [all : Nat, auto : Nat, cut : Nat]
    <3> DEFINE n == IF forced[p] THEN 0 ELSE 1
    <3>1. today.all + 1 \in Nat /\ today.auto + n \in Nat
      BY DEF TypeOK
    <3>2. today' = [today EXCEPT !.all = today.all + 1, !.auto = today.auto + n]
      BY <1>6 DEF Mints
    <3> HIDE DEF n
    <3> QED
      BY <3>1, <3>2 DEF TypeOK
  <2> QED
    BY <1>6, <2>1, <2>2, <2>3 DEF Mints, TypeOK
<1>7. ASSUME NEW p \in Positions, Counts(p) PROVE TypeOK'
  <2>1. pc' \in [Positions -> PC]
        /\ \A x, y \in At({"moving", "minted", "counted"})' : x = y
    BY <1>7, GoesType DEF Counts
  <2>2. p \in Tracked => Recorded(thr[p]) \in Throttles
    BY RecordedType DEF TypeOK
  <2>3. thr' \in [Tracked -> Throttles]
    BY <1>7, <2>2, ThrottledType DEF Counts
  <2> QED
    BY <1>7, <2>1, <2>3 DEF Counts, CountsPool, TypeOK
<1>8. ASSUME NEW p \in Positions, Logs(p) PROVE TypeOK'
  <2>1. /\ pc' \in [Positions -> PC] /\ forced' \in [Positions -> BOOLEAN]
        /\ \A x, y \in At({"moving", "minted", "counted"})' : x = y
    BY <1>8, EndsType DEF Logs
  <2> QED
    BY <1>8, <2>1 DEF Logs, TypeOK
<1>9. ASSUME NEW p \in Positions, ScanEnds(p) PROVE TypeOK'
  <2>1. PICK n \in 1 .. today.all : Throttled(p, Rehydrated(thr[p], n))
    BY <1>9 DEF ScanEnds
  <2>2. n \in Nat
    BY <2>1 DEF TypeOK
  <2>3. thr' \in [Tracked -> Throttles]
    BY <2>1, <2>2, RehydratedType, ThrottledType DEF TypeOK
  <2> QED
    BY <1>9, <2>3 DEF ScanEnds, TypeOK, At
<1>10. CASE Crash
  <2>1. thr' \in [Tracked -> Throttles]
    BY <1>10, FreshType DEF Crash
  <2>2. At({"moving", "minted", "counted"})' = {}
    BY <1>10 DEF Crash, At
  <2>3. Cardinality(At({"minted", "counted"})) \in Nat
    <3>1. At({"minted", "counted"}) \in SUBSET Positions
      BY DEF At
    <3> QED
      BY <3>1, ConstantsAssumption, FS_Subset, FS_CardinalityType
  <2>4. today' \in [all : Nat, auto : Nat, cut : Nat]
    BY <1>10, <2>3 DEF Crash, TypeOK
  <2> QED
    BY <1>10, <2>1, <2>2, <2>4, ConstantsAssumption DEF Crash, TypeOK
<1>11. CASE TimePasses
  <2>1. thr' \in [Tracked -> Throttles]
    <3>1. \A p \in Tracked : thr'[p] = Aged(thr[p], left = 1)
      BY <1>11 DEF TimePasses
    <3>2. \A p \in Tracked : Aged(thr[p], left = 1) \in Throttles
      BY AgedType DEF TypeOK
    <3> QED
      BY <1>11, <3>1, <3>2 DEF TimePasses
  <2>2. since' \in [Tracked -> 0 .. MaxAge]
    BY <1>11, AtMostType, ConstantsAssumption DEF TimePasses, TypeOK
  <2>3. left' \in 1 .. Day
    BY <1>11, ConstantsAssumption DEF TimePasses, TypeOK
  <2>4. poolCount' \in Nat /\ logged' \in Nat
        /\ today' \in [all : Nat, auto : Nat, cut : Nat]
    BY <1>11 DEF TimePasses, TypeOK, NothingToday
  <2> QED
    BY <1>11, <2>1, <2>2, <2>3, <2>4 DEF TimePasses, TypeOK, At
<1>12. CASE UNCHANGED vars
  BY <1>12 DEF vars, TypeOK, At
<1> QED
  BY <1>1, <1>2, <1>3, <1>4, <1>5, <1>6, <1>7, <1>8, <1>9, <1>10, <1>11, <1>12
  DEF Next, Move

\* The limits' type invariant, for any constants; in particular one position
\* at a time holds the rebalance lock.
THEOREM TypeCorrect == Spec => []TypeOK
<1> QED
  BY TypeInit, TypeStep, PTL DEF Spec

-----------------------------------------------------------------------------
(* The pool's cap. *)

\* Automatic rebalances that have passed the gates; of those on the chain,
\* the ones the pool's count has still to count, and the log to log.
Admitted  == {p \in At({"gated", "moving"}) : ~forced[p]}
Uncounted == {p \in At({"minted"}) : ~forced[p]}
Unlogged  == {p \in At({"minted", "counted"}) : ~forced[p]}

CapInv ==
    /\ today.auto + Cardinality(Admitted)
           <= DailyMax - 1 + Cardinality(Positions) + today.cut
    /\ today.auto <= poolCount + Cardinality(Uncounted) + today.cut
    /\ today.auto <= logged + Cardinality(Unlogged) + today.cut

\* A set of positions has a number of them.
LEMMA CountType ==
    ASSUME NEW S \in SUBSET Positions
    PROVE  /\ IsFiniteSet(S) /\ Cardinality(S) \in Nat
           /\ Cardinality(Positions) \in Nat
           /\ Cardinality(S) <= Cardinality(Positions)
BY ConstantsAssumption, FS_Subset, FS_CardinalityType

LEMMA CountSubset ==
    ASSUME NEW S \in SUBSET Positions, NEW T \in SUBSET S
    PROVE  Cardinality(T) <= Cardinality(S)
BY CountType, FS_Subset

\* One position makes a difference of at most one.
LEMMA CountOneMore ==
    ASSUME NEW S \in SUBSET Positions, NEW T \in SUBSET Positions,
           NEW p \in Positions, S \subseteq T \cup {p}
    PROVE  Cardinality(S) <= Cardinality(T) + 1
<1>1. T \cup {p} \in SUBSET Positions
  OBVIOUS
<1>2. Cardinality(S) <= Cardinality(T \cup {p})
  BY <1>1, CountSubset
<1>3. Cardinality(T \cup {p}) <= Cardinality(T) + 1
  BY CountType, FS_AddElement
<1>4. Cardinality(S) \in Nat /\ Cardinality(T) \in Nat /\ Cardinality(T \cup {p}) \in Nat
  BY <1>1, CountType
<1> QED
  BY <1>2, <1>3, <1>4

LEMMA CountAdded ==
    ASSUME NEW S \in SUBSET Positions, NEW p \in Positions \ S
    PROVE  Cardinality(S \cup {p}) = Cardinality(S) + 1
BY CountType, FS_AddElement

LEMMA CountDisjoint ==
    ASSUME NEW S \in SUBSET Positions, NEW T \in SUBSET Positions, S \cap T = {}
    PROVE  Cardinality(S) + Cardinality(T) <= Cardinality(Positions)
<1>1. IsFiniteSet(S) /\ IsFiniteSet(T) /\ S \cup T \in SUBSET Positions
  BY CountType
<1>2. Cardinality(S \cup T) = Cardinality(S) + Cardinality(T) - 0
  BY <1>1, FS_Union, FS_EmptySet
<1>3. Cardinality(S) \in Nat /\ Cardinality(T) \in Nat
  BY CountType
<1> QED
  BY <1>1, <1>2, <1>3, CountType

LEMMA CapSets ==
    /\ Admitted \in SUBSET Positions /\ Uncounted \in SUBSET Positions
    /\ Unlogged \in SUBSET Positions
    /\ Cardinality(Admitted) \in Nat /\ Cardinality(Uncounted) \in Nat
    /\ Cardinality(Unlogged) \in Nat /\ Cardinality(Positions) \in Nat
    /\ Cardinality(Admitted) <= Cardinality(Positions)
<1>1. /\ Admitted \in SUBSET Positions /\ Uncounted \in SUBSET Positions
      /\ Unlogged \in SUBSET Positions
  BY DEF Admitted, Uncounted, Unlogged, At
<1> QED
  BY <1>1, CountType

LEMMA CapSetsNext ==
    /\ Admitted' \in SUBSET Positions /\ Uncounted' \in SUBSET Positions
    /\ Unlogged' \in SUBSET Positions
    /\ Cardinality(Admitted') \in Nat /\ Cardinality(Uncounted') \in Nat
    /\ Cardinality(Unlogged') \in Nat
    /\ Cardinality(Admitted') <= Cardinality(Positions)
<1>1. /\ Admitted' \in SUBSET Positions /\ Uncounted' \in SUBSET Positions
      /\ Unlogged' \in SUBSET Positions
  BY DEF Admitted, Uncounted, Unlogged, At
<1> QED
  BY <1>1, CountType

\* What a step leaves of the cap's account if it admits none, counts none and
\* logs none.
LEMMA CapKept ==
    ASSUME TypeOK, CapInv, Admitted' \subseteq Admitted, Uncounted' = Uncounted,
           Unlogged' = Unlogged, UNCHANGED <<poolCount, logged, today>>
    PROVE  CapInv'
<1>1. Cardinality(Admitted') <= Cardinality(Admitted)
  BY CapSets, CountSubset
<1>2. /\ today' = today /\ poolCount' = poolCount /\ logged' = logged
      /\ today.auto \in Nat /\ today.cut \in Nat /\ DailyMax \in Nat
  BY ConstantsAssumption DEF TypeOK
<1>3. /\ Cardinality(Uncounted') = Cardinality(Uncounted)
      /\ Cardinality(Unlogged') = Cardinality(Unlogged)
  OBVIOUS
<1> QED
  BY <1>1, <1>2, <1>3, CapSets, CapSetsNext DEF CapInv

LEMMA CapInit == Init => CapInv
<1> SUFFICES ASSUME Init PROVE CapInv
  OBVIOUS
<1>1. today.auto = 0 /\ today.cut = 0 /\ poolCount = 0 /\ logged = 0
  BY DEF Init, NothingToday
<1>2. DailyMax \in Nat \ {0}
  BY ConstantsAssumption
<1> QED
  BY <1>1, <1>2, CapSets DEF CapInv

LEMMA CapStep == TypeOK /\ CapInv /\ [Next]_vars => CapInv'
<1> SUFFICES ASSUME TypeOK, CapInv, [Next]_vars PROVE CapInv'
  OBVIOUS
<1> USE DEF Admitted, Uncounted, Unlogged, At, Goes
<1>0. /\ today.auto \in Nat /\ today.cut \in Nat /\ poolCount \in Nat
      /\ logged \in Nat /\ DailyMax \in Nat \ {0}
      /\ pc \in [Positions -> PC] /\ forced \in [Positions -> BOOLEAN]
  BY ConstantsAssumption DEF TypeOK
<1>1. ASSUME NEW p \in Positions, PollBegins(p) PROVE CapInv'
  <2>1. /\ Admitted' = Admitted /\ Uncounted' = Uncounted
        /\ Unlogged' = Unlogged
    BY <1>0, <1>1 DEF PollBegins
  <2> QED
    BY <1>1, <2>1, CapKept DEF PollBegins
<1>2. ASSUME NEW p \in Positions, GatePasses(p) PROVE CapInv'
  <2>1. Uncounted' = Uncounted /\ Unlogged' = Unlogged
    BY <1>0, <1>2 DEF GatePasses
  <2>2. CASE forced[p]
    <3>1. Admitted' = Admitted
      BY <1>0, <1>2, <2>2 DEF GatePasses
    <3> QED
      BY <1>2, <2>1, <3>1, CapKept DEF GatePasses
  <2>3. CASE ~forced[p]
    <3>1. poolCount < DailyMax
      BY <1>2, <2>3 DEF GatePasses, PassesLimits
    <3>2. Admitted' \cap Uncounted = {}
      BY <1>0, <1>2 DEF GatePasses
    <3>3. Cardinality(Admitted') + Cardinality(Uncounted) <= Cardinality(Positions)
      BY <3>2, CapSets, CapSetsNext, CountDisjoint
    <3>4. today' = today /\ poolCount' = poolCount /\ logged' = logged
      BY <1>2 DEF GatePasses
    <3>5. /\ Cardinality(Uncounted') = Cardinality(Uncounted)
          /\ Cardinality(Unlogged') = Cardinality(Unlogged)
      BY <2>1
    <3> HIDE DEF Admitted, Uncounted, Unlogged
    <3> QED
      BY <1>0, <3>1, <3>3, <3>4, <3>5, CapSets, CapSetsNext DEF CapInv
  <2> QED
    BY <2>2, <2>3
<1>3. ASSUME NEW p \in Positions, PollEnds(p) PROVE CapInv'
  <2>1. /\ Admitted' \subseteq Admitted /\ Uncounted' = Uncounted
        /\ Unlogged' = Unlogged
    BY <1>0, <1>3 DEF PollEnds, Ends
  <2> QED
    BY <1>3, <2>1, CapKept DEF PollEnds
<1>4. ASSUME NEW p \in Positions, Starts(p) PROVE CapInv'
  <2>1. /\ Admitted' = Admitted /\ Uncounted' = Uncounted
        /\ Unlogged' = Unlogged
    BY <1>0, <1>4 DEF Starts
  <2> QED
    BY <1>4, <2>1, CapKept DEF Starts
<1>5. ASSUME NEW p \in Positions, Fails(p) PROVE CapInv'
  <2>1. /\ Admitted' \subseteq Admitted /\ Uncounted' = Uncounted
        /\ Unlogged' = Unlogged
    BY <1>0, <1>5 DEF Fails, Ends
  <2> QED
    BY <1>5, <2>1, CapKept DEF Fails
<1>6. ASSUME NEW p \in Positions, Mints(p) PROVE CapInv'
  <2>1. /\ today'.cut = today.cut /\ poolCount' = poolCount /\ logged' = logged
    BY <1>6 DEF Mints, TypeOK
  <2>2. CASE forced[p]
    <3>1. /\ Admitted' = Admitted /\ Uncounted' = Uncounted
          /\ Unlogged' = Unlogged
      BY <1>0, <1>6, <2>2 DEF Mints
    <3>2. today'.auto = today.auto
      BY <1>0, <1>6, <2>2 DEF Mints, TypeOK
    <3>3. /\ Cardinality(Admitted') = Cardinality(Admitted)
          /\ Cardinality(Uncounted') = Cardinality(Uncounted)
          /\ Cardinality(Unlogged') = Cardinality(Unlogged)
      BY <3>1
    <3> QED
      BY <1>0, <2>1, <3>2, <3>3, CapSets DEF CapInv
  <2>3. CASE ~forced[p]
    <3>1. today'.auto = today.auto + 1
      BY <1>0, <1>6, <2>3 DEF Mints, TypeOK
    <3>2. /\ Uncounted' = Uncounted \cup {p} /\ p \notin Uncounted
          /\ Unlogged' = Unlogged \cup {p} /\ p \notin Unlogged
          /\ Admitted = Admitted' \cup {p} /\ p \notin Admitted'
      BY <1>0, <1>6, <2>3 DEF Mints
    <3>3. /\ Cardinality(Uncounted') = Cardinality(Uncounted) + 1
          /\ Cardinality(Unlogged') = Cardinality(Unlogged) + 1
          /\ Cardinality(Admitted) = Cardinality(Admitted') + 1
      <4> HIDE DEF Admitted, Uncounted, Unlogged
      <4> QED
        BY <3>2, CapSets, CapSetsNext, CountAdded
    <3> QED
      BY <1>0, <2>1, <3>1, <3>3, CapSets, CapSetsNext DEF CapInv
  <2> QED
    BY <2>2, <2>3
<1>7. ASSUME NEW p \in Positions, Counts(p) PROVE CapInv'
  <2>1. /\ today' = today /\ poolCount' = poolCount + 1 /\ logged' = logged
    BY <1>7 DEF Counts, CountsPool
  <2>2. /\ Admitted' = Admitted /\ Unlogged' = Unlogged
        /\ Uncounted \subseteq Uncounted' \cup {p}
    BY <1>0, <1>7 DEF Counts
  <2>3. /\ Cardinality(Uncounted) <= Cardinality(Uncounted') + 1
        /\ Cardinality(Admitted') = Cardinality(Admitted)
        /\ Cardinality(Unlogged') = Cardinality(Unlogged)
    <3> HIDE DEF Admitted, Uncounted, Unlogged
    <3> QED
      BY <2>2, CapSets, CapSetsNext, CountOneMore
  <2> QED
    BY <1>0, <2>1, <2>3, CapSets, CapSetsNext DEF CapInv
<1>8. ASSUME NEW p \in Positions, Logs(p) PROVE CapInv'
  <2>1. /\ today' = today /\ poolCount' = poolCount /\ logged' = logged + 1
    BY <1>8 DEF Logs
  <2>2. /\ Admitted' = Admitted /\ Uncounted' = Uncounted
        /\ Unlogged \subseteq Unlogged' \cup {p}
    BY <1>0, <1>8 DEF Logs, Ends
  <2>3. /\ Cardinality(Unlogged) <= Cardinality(Unlogged') + 1
        /\ Cardinality(Admitted') = Cardinality(Admitted)
        /\ Cardinality(Uncounted') = Cardinality(Uncounted)
    <3> HIDE DEF Admitted, Uncounted, Unlogged
    <3> QED
      BY <2>2, CapSets, CapSetsNext, CountOneMore
  <2> QED
    BY <1>0, <2>1, <2>3, CapSets, CapSetsNext DEF CapInv
<1>9. ASSUME NEW p \in Positions, ScanEnds(p) PROVE CapInv'
  <2>1. /\ Admitted' = Admitted /\ Uncounted' = Uncounted
        /\ Unlogged' = Unlogged
    BY <1>9 DEF ScanEnds
  <2> QED
    BY <1>9, <2>1, CapKept DEF ScanEnds
<1>10. CASE Crash
  <2> DEFINE lost == Cardinality(At({"minted", "counted"}))
  <2>1. At({"minted", "counted"}) \in SUBSET Positions
        /\ Unlogged \in SUBSET At({"minted", "counted"})
    OBVIOUS
  <2>2. Cardinality(Unlogged) <= lost /\ lost \in Nat
    BY <2>1, CountSubset, CountType
  <2>3. /\ today'.auto = today.auto /\ today'.cut = today.cut + lost
        /\ poolCount' = logged /\ logged' = logged
    BY <1>10 DEF Crash, TypeOK
  <2>4. Admitted' = {}
    BY <1>10 DEF Crash
  <2>5. Cardinality(Admitted') = 0
    BY <2>4, FS_EmptySet
  <2> HIDE DEF lost, Admitted, Uncounted, Unlogged
  <2> QED
    BY <1>0, <2>2, <2>3, <2>5, CapSets, CapSetsNext DEF CapInv
<1>11. CASE TimePasses
  <2>1. /\ Admitted' = Admitted /\ Uncounted' = Uncounted
        /\ Unlogged' = Unlogged
    BY <1>11 DEF TimePasses
  <2>2. CASE left = 1
    <3>1. today'.auto = 0 /\ today'.cut = 0 /\ poolCount' = 0 /\ logged' = 0
      BY <1>11, <2>2 DEF TimePasses, NothingToday
    <3> HIDE DEF Admitted, Uncounted, Unlogged
    <3> QED
      BY <1>0, <3>1, CapSets, CapSetsNext DEF CapInv
  <2>3. CASE left # 1
    <3>1. UNCHANGED <<poolCount, logged, today>>
      BY <1>11, <2>3 DEF TimePasses
    <3> QED
      BY <2>1, <3>1, CapKept
  <2> QED
    BY <2>2, <2>3
<1>12. CASE UNCHANGED vars
  <2>1. /\ Admitted' = Admitted /\ Uncounted' = Uncounted
        /\ Unlogged' = Unlogged /\ UNCHANGED <<poolCount, logged, today>>
    BY <1>12 DEF vars
  <2> QED
    BY <2>1, CapKept
<1> QED
  BY <1>1, <1>2, <1>3, <1>4, <1>5, <1>6, <1>7, <1>8, <1>9, <1>10, <1>11, <1>12
  DEF Next, Move

\* Positions of one pool together pass its daily cap by no more than one each,
\* and one for each rebalance a crash kept from the log: for any set of
\* positions, any cap, and crashes and midnights at any step.
THEOREM PoolCapCorrect == Spec => []PoolCapHolds
<1>1. TypeOK /\ CapInv => PoolCapHolds
  <2> SUFFICES ASSUME TypeOK, CapInv PROVE PoolCapHolds
    OBVIOUS
  <2>1. today.auto \in Nat /\ today.cut \in Nat /\ DailyMax \in Nat
    BY ConstantsAssumption DEF TypeOK
  <2> QED
    BY <2>1, CapSets DEF CapInv, PoolCapHolds
<1> QED
  BY <1>1, TypeInit, TypeStep, CapInit, CapStep, PTL DEF Spec

-----------------------------------------------------------------------------
(* The minimum interval. *)

\* The doubled wait outlasts every interval the owner may configure.
WaitInv(t) == t.doublings > 0 => \A i \in Intervals : t.wait >= i

\* A throttle is no further from its position's last rebalance than the
\* chain, but while one is mined and not yet recorded; and what passed the
\* gates unforced has waited long enough.
SpaceInv == \A p \in Tracked :
    /\ WaitInv(thr[p]) /\ thr[p].minInterval \in Intervals
    /\ pc[p] # "minted" => thr[p].age <= since[p]
    /\ pc[p] = "gated" /\ ~forced[p] =>
          thr[p].age >= AtMost(thr[p].minInterval, MaxAge)

LEMMA SpaceFresh ==
    ASSUME NEW i \in Intervals
    PROVE  /\ WaitInv(Fresh(i)) /\ Fresh(i).minInterval = i
           /\ Fresh(i).age = MaxAge
BY DEF WaitInv, Fresh

LEMMA SpaceConfigured ==
    ASSUME NEW t \in Throttles, WaitInv(t), NEW i \in Intervals
    PROVE  /\ WaitInv(Configured(t, i)) /\ Configured(t, i).minInterval = i
           /\ Configured(t, i).age = t.age
BY DEF WaitInv, Configured, Throttles

LEMMA SpaceTicked ==
    ASSUME NEW t \in Throttles, WaitInv(t)
    PROVE  /\ WaitInv(Ticked(t)) /\ Ticked(t).minInterval = t.minInterval
           /\ Ticked(t).age = t.age
<1>1. ASSUME NEW u \in Throttles, WaitInv(u)
      PROVE  /\ WaitInv(Expired(u)) /\ Expired(u).minInterval = u.minInterval
             /\ Expired(u).age = u.age
  BY <1>1 DEF WaitInv, Expired, Throttles
<1>2. /\ Reset(t) \in Throttles /\ WaitInv(Reset(t))
      /\ Reset(t).minInterval = t.minInterval /\ Reset(t).age = t.age
  BY ResetType DEF WaitInv, Reset, Fresh, Throttles
<1> QED
  BY <1>1, <1>2 DEF Ticked

LEMMA SpaceDoubled ==
    ASSUME \A i, j \in Intervals : i <= 2 * j,
           NEW t \in Throttles, WaitInv(t), t.minInterval \in Intervals
    PROVE  /\ WaitInv(Doubled(t)) /\ Doubled(t).minInterval = t.minInterval
           /\ Doubled(t).age = t.age
<1>1. /\ MaxWait \in Nat /\ \A i \in Intervals : i \in Nat /\ i <= MaxWait
      /\ t.wait \in Nat /\ t.minInterval \in Nat /\ t.doublings \in Nat
  BY ConstantsAssumption DEF Throttles
<1>2. \A i \in Intervals : AtMost(2 * t.minInterval, MaxWait) >= i
  BY <1>1 DEF AtMost
<1>3. t.doublings > 0 => \A i \in Intervals : AtMost(2 * t.wait, MaxWait) >= i
  BY <1>1 DEF AtMost, WaitInv
<1> DEFINE u == [t EXCEPT !.doublings = @ + 1, !.wait = AtMost(2 * @, MaxWait)]
           v == [t EXCEPT !.doublings = 1, !.wait = AtMost(2 * t.minInterval, MaxWait)]
<1>4. t.doublings > 0 =>
          WaitInv(u) /\ u.minInterval = t.minInterval /\ u.age = t.age
  BY <1>3 DEF WaitInv, Throttles
<1>5. WaitInv(v) /\ v.minInterval = t.minInterval /\ v.age = t.age
  BY <1>2 DEF WaitInv, Throttles
<1>6. Doubled(t) = IF t.doublings > 0 THEN u
                   ELSE IF Recent(t) >= TriggerCount THEN v ELSE t
  BY DEF Doubled
<1> HIDE DEF u, v
<1> QED
  BY <1>4, <1>5, <1>6

LEMMA SpaceRecorded ==
    ASSUME \A i, j \in Intervals : i <= 2 * j,
           NEW t \in Throttles, WaitInv(t), t.minInterval \in Intervals
    PROVE  /\ WaitInv(Recorded(t)) /\ Recorded(t).minInterval = t.minInterval
           /\ Recorded(t).age = 0
<1> DEFINE m == t.dailyCount + 1
           b == [t.stamps EXCEPT ![0] = @ + 1]
           u == [t EXCEPT !.age = 0, !.dailyCount = m, !.stamps = b]
<1>1. Recorded(t) = Doubled(u)
  BY DEF Recorded
<1>2. 0 \in 0 .. MaxAge
  BY ConstantsAssumption
<1>3. m \in Nat /\ b \in [0 .. MaxAge -> Nat]
  <2>1. m \in Nat /\ t.stamps \in [0 .. MaxAge -> Nat]
    BY DEF Throttles
  <2>2. t.stamps[0] \in Nat
    BY <1>2, <2>1, Zenon
  <2> QED
    BY <1>2, <2>1, <2>2
<1>4. u \in Throttles
  <2> HIDE DEF m, b
  <2> QED
    BY <1>2, <1>3 DEF Throttles
<1>5. WaitInv(u) /\ u.minInterval = t.minInterval /\ u.age = 0
  <2> HIDE DEF m, b
  <2> QED
    BY DEF WaitInv, Throttles
<1> HIDE DEF u
<1> QED
  BY <1>1, <1>4, <1>5, SpaceDoubled

LEMMA SpaceAged ==
    ASSUME NEW t \in Throttles, WaitInv(t), NEW midnight \in BOOLEAN
    PROVE  /\ WaitInv(Aged(t, midnight))
           /\ Aged(t, midnight).minInterval = t.minInterval
           /\ Aged(t, midnight).age = AtMost(t.age + 1, MaxAge)
BY DEF WaitInv, Aged, Throttles

LEMMA SpaceInit == Init => SpaceInv
<1> SUFFICES ASSUME Init PROVE SpaceInv
  OBVIOUS
<1>1. ASSUME NEW p \in Tracked PROVE
          /\ WaitInv(thr[p]) /\ thr[p].minInterval \in Intervals
          /\ thr[p].age = MaxAge
  <2>1. PICK i \in Intervals : thr[p] = Fresh(i)
    BY <1>1 DEF Init
  <2> QED
    BY <2>1, SpaceFresh
<1>2. \A p \in Tracked : pc[p] = "idle" /\ since[p] = MaxAge
  BY ConstantsAssumption DEF Init
<1>3. MaxAge <= MaxAge
  BY ConstantsAssumption
<1> QED
  BY <1>1, <1>2, <1>3 DEF SpaceInv

\* A step that leaves the throttles and the times alone, starts no "minted"
\* and lets nothing unforced past the gates.
LEMMA SpaceKept ==
    ASSUME SpaceInv, UNCHANGED <<thr, since>>,
           \A p \in Tracked : pc[p] = "minted" => pc'[p] = "minted",
           \A p \in Tracked : pc'[p] = "gated" /\ ~forced'[p] =>
                                 pc[p] = "gated" /\ ~forced[p]
    PROVE  SpaceInv'
BY DEF SpaceInv, WaitInv

LEMMA SpaceStep ==
    ASSUME \A i, j \in Intervals : i <= 2 * j
    PROVE  TypeOK /\ SpaceInv /\ [Next]_vars => SpaceInv'
<1> SUFFICES ASSUME TypeOK, SpaceInv, [Next]_vars PROVE SpaceInv'
  OBVIOUS
<1>0. /\ pc \in [Positions -> PC] /\ forced \in [Positions -> BOOLEAN]
      /\ thr \in [Tracked -> Throttles] /\ since \in [Tracked -> 0 .. MaxAge]
      /\ Tracked \subseteq Positions /\ MaxAge \in Nat \ {0}
      /\ \A i \in Intervals : i \in Nat
      /\ \A p \in Tracked : thr[p].age \in 0 .. MaxAge
  BY ConstantsAssumption DEF TypeOK, Throttles
<1>1. ASSUME NEW p \in Positions, PollBegins(p) PROVE SpaceInv'
  <2>1. PICK i \in Intervals : Throttled(p, Ticked(Configured(thr[p], i)))
    BY <1>1 DEF PollBegins
  <2>2. ASSUME p \in Tracked PROVE
            /\ WaitInv(thr'[p]) /\ thr'[p].minInterval \in Intervals
            /\ thr'[p].age = thr[p].age
    <3>1. /\ Configured(thr[p], i) \in Throttles /\ WaitInv(Configured(thr[p], i))
          /\ Configured(thr[p], i).minInterval = i
          /\ Configured(thr[p], i).age = thr[p].age
      BY <1>0, <2>2, ConfiguredType, SpaceConfigured DEF SpaceInv
    <3>2. thr'[p] = Ticked(Configured(thr[p], i))
      BY <2>1, <2>2 DEF Throttled
    <3> QED
      BY <3>1, <3>2, SpaceTicked
  <2>3. \A q \in Tracked : q # p => thr'[q] = thr[q]
    BY <2>1 DEF Throttled
  <2>4. /\ since' = since /\ pc[p] = "idle" /\ pc'[p] = "polling"
        /\ \A q \in Positions : q # p => pc'[q] = pc[q] /\ forced'[q] = forced[q]
    BY <1>0, <1>1 DEF PollBegins, Goes
  <2> QED
    BY <1>0, <2>2, <2>3, <2>4 DEF SpaceInv
<1>2. ASSUME NEW p \in Positions, GatePasses(p) PROVE SpaceInv'
  <2>1. /\ thr' = thr /\ since' = since /\ forced' = forced
        /\ pc[p] = "polling" /\ pc'[p] = "gated"
        /\ \A q \in Positions : q # p => pc'[q] = pc[q]
    BY <1>0, <1>2 DEF GatePasses, Goes
  <2>2. ASSUME p \in Tracked, ~forced[p]
        PROVE  thr[p].age >= AtMost(thr[p].minInterval, MaxAge)
    <3>1. CanRebalance(thr[p], DailyMax)
      BY <1>2, <2>2 DEF GatePasses, PassesLimits
    <3>2. /\ thr[p].minInterval \in Nat /\ thr[p].wait \in Nat
          /\ thr[p].doublings > 0 => thr[p].wait >= thr[p].minInterval
      BY <1>0, <2>2 DEF SpaceInv, WaitInv, Throttles
    <3> QED
      BY <1>0, <2>2, <3>1, <3>2 DEF CanRebalance, EffectiveWait, AtMost
  <2> QED
    BY <1>0, <2>1, <2>2 DEF SpaceInv
<1>3. ASSUME NEW p \in Positions, PollEnds(p) PROVE SpaceInv'
  BY <1>0, <1>3, SpaceKept DEF PollEnds, Ends, Goes
<1>4. ASSUME NEW p \in Positions, Starts(p) PROVE SpaceInv'
  BY <1>0, <1>4, SpaceKept DEF Starts, Goes
<1>5. ASSUME NEW p \in Positions, Fails(p) PROVE SpaceInv'
  BY <1>0, <1>5, SpaceKept DEF Fails, Ends, Goes
<1>6. ASSUME NEW p \in Positions, Mints(p) PROVE SpaceInv'
  <2>1. /\ thr' = thr /\ forced' = forced /\ pc'[p] = "minted"
        /\ \A q \in Positions : q # p => pc'[q] = pc[q]
        /\ \A q \in Tracked : q # p => since'[q] = since[q]
    BY <1>0, <1>6 DEF Mints, Goes
  <2> QED
    BY <1>0, <2>1 DEF SpaceInv
<1>7. ASSUME NEW p \in Positions, Counts(p) PROVE SpaceInv'
  <2>1. /\ since' = since /\ forced' = forced /\ pc'[p] = "counted"
        /\ \A q \in Positions : q # p => pc'[q] = pc[q]
        /\ \A q \in Tracked : q # p => thr'[q] = thr[q]
    BY <1>0, <1>7 DEF Counts, Throttled, Goes
  <2>2. ASSUME p \in Tracked PROVE
            /\ WaitInv(thr'[p]) /\ thr'[p].minInterval \in Intervals
            /\ thr'[p].age = 0
    <3>1. thr'[p] = Recorded(thr[p])
      BY <1>7, <2>2 DEF Counts, Throttled
    <3> QED
      BY <1>0, <2>2, <3>1, SpaceRecorded DEF SpaceInv
  <2>3. \A q \in Tracked : 0 <= since[q]
    BY <1>0
  <2> QED
    BY <1>0, <2>1, <2>2, <2>3 DEF SpaceInv
<1>8. ASSUME NEW p \in Positions, Logs(p) PROVE SpaceInv'
  BY <1>0, <1>8, SpaceKept DEF Logs, Ends, Goes
<1>9. ASSUME NEW p \in Positions, ScanEnds(p) PROVE SpaceInv'
  <2>1. PICK n \in 1 .. today.all : Throttled(p, Rehydrated(thr[p], n))
    BY <1>9 DEF ScanEnds
  <2>2. p \in Tracked
    BY <1>9 DEF ScanEnds
  <2>3. /\ thr'[p].age = thr[p].age /\ thr'[p].minInterval = thr[p].minInterval
        /\ thr'[p].doublings = thr[p].doublings /\ thr'[p].wait = thr[p].wait
    BY <1>0, <2>1, <2>2 DEF Throttled, Rehydrated, Throttles
  <2>4. \A q \in Tracked : q # p => thr'[q] = thr[q]
    BY <2>1 DEF Throttled
  <2>5. pc' = pc /\ forced' = forced /\ since' = since
    BY <1>9 DEF ScanEnds
  <2> QED
    BY <2>2, <2>3, <2>4, <2>5 DEF SpaceInv, WaitInv
<1>10. CASE Crash
  <2>1. ASSUME NEW p \in Tracked PROVE
            /\ WaitInv(thr'[p]) /\ thr'[p].minInterval \in Intervals
            /\ thr'[p].age = MaxAge
    <3>1. PICK i \in Intervals : thr'[p] = Fresh(i)
      BY <1>10 DEF Crash
    <3> QED
      BY <3>1, SpaceFresh
  <2>2. \A p \in Tracked : pc'[p] = "idle" /\ since'[p] = MaxAge
    BY <1>0, <1>10 DEF Crash
  <2>3. MaxAge <= MaxAge
    BY <1>0
  <2> QED
    BY <2>1, <2>2, <2>3 DEF SpaceInv
<1>11. CASE TimePasses
  <2>1. pc' = pc /\ forced' = forced
    BY <1>11 DEF TimePasses
  <2>2. ASSUME NEW p \in Tracked PROVE
            /\ WaitInv(thr'[p]) /\ thr'[p].minInterval = thr[p].minInterval
            /\ thr'[p].age = AtMost(thr[p].age + 1, MaxAge)
            /\ since'[p] = AtMost(since[p] + 1, MaxAge)
    <3>1. thr'[p] = Aged(thr[p], left = 1) /\ since'[p] = AtMost(since[p] + 1, MaxAge)
      BY <1>11 DEF TimePasses
    <3>2. thr[p] \in Throttles /\ WaitInv(thr[p]) /\ (left = 1) \in BOOLEAN
      BY <1>0 DEF SpaceInv
    <3>3. /\ WaitInv(Aged(thr[p], left = 1))
          /\ Aged(thr[p], left = 1).minInterval = thr[p].minInterval
          /\ Aged(thr[p], left = 1).age = AtMost(thr[p].age + 1, MaxAge)
      BY <3>2, SpaceAged, Zenon
    <3> QED
      BY <3>1, <3>3, Zenon
  <2>3. ASSUME NEW p \in Tracked PROVE
            /\ thr'[p].minInterval \in Intervals
            /\ pc[p] # "minted" => thr'[p].age <= since'[p]
            /\ pc[p] = "gated" /\ ~forced[p] =>
                  thr'[p].age >= AtMost(thr[p].minInterval, MaxAge)
    <3>1. /\ thr[p].age \in 0 .. MaxAge /\ since[p] \in 0 .. MaxAge
          /\ thr[p].minInterval \in Nat /\ thr[p].minInterval \in Intervals
      BY <1>0 DEF SpaceInv
    <3>2. /\ pc[p] # "minted" => thr[p].age <= since[p]
          /\ pc[p] = "gated" /\ ~forced[p] =>
                thr[p].age >= AtMost(thr[p].minInterval, MaxAge)
      BY DEF SpaceInv
    <3>3. ASSUME NEW x \in 0 .. MaxAge, NEW y \in 0 .. MaxAge
          PROVE  /\ x <= y => AtMost(x + 1, MaxAge) <= AtMost(y + 1, MaxAge)
                 /\ AtMost(x + 1, MaxAge) >= x
      BY <1>0 DEF AtMost
    <3>4. /\ thr'[p].age = AtMost(thr[p].age + 1, MaxAge)
          /\ since'[p] = AtMost(since[p] + 1, MaxAge)
          /\ thr'[p].minInterval = thr[p].minInterval
      BY <2>2
    <3>5. pc[p] # "minted" => thr'[p].age <= since'[p]
      BY <3>1, <3>2, <3>3, <3>4
    <3>6. thr'[p].age >= thr[p].age /\ thr'[p].age \in Nat
      BY <1>0, <3>1, <3>3, <3>4 DEF AtMost
    <3>7. AtMost(thr[p].minInterval, MaxAge) \in Nat /\ thr[p].age \in Nat
      BY <1>0, <3>1 DEF AtMost
    <3> QED
      BY <3>1, <3>2, <3>4, <3>5, <3>6, <3>7
  <2> QED
    BY <2>1, <2>2, <2>3 DEF SpaceInv
<1>12. CASE UNCHANGED vars
  BY <1>12, SpaceKept DEF vars
<1> QED
  BY <1>1, <1>2, <1>3, <1>4, <1>5, <1>6, <1>7, <1>8, <1>9, <1>10, <1>11, <1>12
  DEF Next, Move

\* If the owner never raises the interval beyond twice the least, an automatic
\* rebalance starts no sooner after the position's last than the interval in
\* force: for any intervals, windows and multiples, whatever the poll waits
\* for.
THEOREM SpacedCorrect ==
    ASSUME \A i, j \in Intervals : i <= 2 * j
    PROVE  Spec => SpacedApart
<1>1. TypeOK /\ SpaceInv /\ [Next]_vars =>
          [\A p \in Tracked : Starts(p) /\ ~forced[p] =>
               since[p] >= AtMost(thr[p].minInterval, MaxAge)]_vars
  <2> SUFFICES ASSUME TypeOK, SpaceInv, NEW p \in Tracked, Starts(p), ~forced[p]
               PROVE  since[p] >= AtMost(thr[p].minInterval, MaxAge)
    OBVIOUS
  <2>1. pc[p] = "gated"
    BY DEF Starts, Goes
  <2>2. thr[p].age >= AtMost(thr[p].minInterval, MaxAge) /\ thr[p].age <= since[p]
    BY <2>1 DEF SpaceInv
  <2>3. thr[p] \in Throttles /\ since[p] \in Nat
    BY DEF TypeOK
  <2>4. thr[p].age \in Nat /\ thr[p].minInterval \in Nat /\ MaxAge \in Nat
    BY ConstantsAssumption, <2>3 DEF Throttles
  <2> QED
    BY <2>2, <2>3, <2>4 DEF AtMost
<1>2. Init => SpaceInv
  BY SpaceInit
<1>3. TypeOK /\ SpaceInv /\ [Next]_vars => SpaceInv'
  BY SpaceStep
<1> QED
  BY <1>1, <1>2, <1>3, TypeInit, TypeStep, PTL DEF Spec, SpacedApart
=============================================================================
