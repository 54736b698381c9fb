-------------------------- MODULE DepositCountProofs --------------------------
(*****************************************************************************)
(* Theorems about DepositCount, for any number of blocks, moves, reloads,    *)
(* crashes, withdrawals and failed reads.                                    *)
(*****************************************************************************)
EXTENDS DepositCount, TLAPS

-----------------------------------------------------------------------------
(* The inductive invariant. *)

\* The mints have a newest, and each block up to it a first mint at or after it.
HasNewest(S) == \E m \in S : \A k \in S : k <= m

HasFirsts(S) ==
    \A b \in Nat : (\E k \in S : b <= k) =>
        \E m \in S : b <= m /\ \A k \in S : k < m => k < b

LastMint == Newest(chain.mints)

Once(list)    == \A b \in Blocks : list[b] <= 1
UpTo(list, n) == \A b \in Blocks : list[b] > 0 => b <= n
OnChain(list) == \A b \in Blocks : list[b] > 0 => b \in chain.deposits
Within(l, k)  == \A b \in Blocks : l[b] > 0 => k[b] > 0

\* What polls found that the results do not cover is not in the results.
Apart(o) == \A b \in Blocks : o.list[b] > 0 /\ b > mem.last => mem.list[b] = 0

Covers(r) ==
    \A b \in chain.deposits :
        b <= r.last \/ (LastMint < b /\ b <= r.through) => r.list[b] > 0

\* Results list each deposit once, none after what they cover and all that they cover.
ResultsOK(r) ==
    /\ Once(r.list) /\ UpTo(r.list, Larger(r.last, r.through))
    /\ Covers(r)
    /\ r.last <= mem.last /\ r.through <= chain.head

ChainOK ==
    /\ chain.mints \subseteq 0 .. chain.head
    /\ HasNewest(chain.mints) /\ HasFirsts(chain.mints)
    /\ chain.deposits \subseteq 1 .. chain.head

\* Memory and both records of the cache list the same deposits.
RecordsOK ==
    /\ life = mem /\ Within(mem.list, fresh.list) /\ Within(fresh.list, mem.list)
    /\ mem.last <= LastMint
    /\ ResultsOK(mem) /\ ResultsOK(fresh)

OverlayOK(o) ==
    /\ Once(o.list) /\ UpTo(o.list, o.through) /\ OnChain(o.list) /\ Apart(o)

\* A poll's count reads past everything the results list, and keeps what polls found.
PollOK ==
    loop.pc \in {"counting", "pricing"} =>
        /\ OverlayOK(loop.plan.overlay)
        /\ UpTo(loop.plan.overlay.list, loop.plan.from)
        /\ UpTo(mem.list, loop.plan.from)
        /\ Within(overlay.list, loop.plan.overlay.list)
        /\ LastMint <= loop.plan.from
        /\ \A b \in loop.plan.found :
               loop.plan.from < b /\ b <= loop.plan.head /\ b \in chain.deposits

\* A move's count leaves out only deposits the results list.
MoveOK ==
    loop.pc = "moveCounting" =>
        /\ loop.plan.from <= chain.head
        /\ \A b \in chain.deposits : LastMint < b /\ b <= loop.plan.from => mem.list[b] > 0

\* A scan has read every mint the results cover, and starts from deposits they list.
ScanOK ==
    /\ scan.pc \in {"read", "tally"} =>
          /\ HasNewest(scan.known) /\ HasFirsts(scan.known)
          /\ scan.known \subseteq chain.mints
          /\ mem.last <= Newest(scan.known)
    /\ scan.pc = "tally" => ResultsOK(scan.base) /\ Within(scan.base.list, fresh.list)

IInv ==
    /\ TypeOK
    /\ ChainOK /\ RecordsOK /\ OverlayOK(overlay) /\ PollOK /\ MoveOK /\ ScanOK

-----------------------------------------------------------------------------
(* The operators. *)

LEMMA NewestIs ==
    ASSUME NEW S, HasNewest(S)
    PROVE  Newest(S) \in S /\ \A k \in S : k <= Newest(S)
BY Zenon DEF HasNewest, Newest

LEMMA BlocksAreNat == Blocks \subseteq Nat /\ MaxBlock \in Nat
BY ConstantsAssumption DEF Blocks

LEMMA NothingType ==
    /\ Nothing \in Lists /\ NoResults \in Results /\ NoOverlay \in Overlays
    /\ \A b \in Blocks : Nothing[b] = 0
BY DEF Nothing, NoResults, NoOverlay, Lists, Results, Overlays

LEMMA PlusFacts ==
    ASSUME NEW list \in Lists, NEW found
    PROVE  /\ Plus(list, found) \in Lists
           /\ \A b \in Blocks : Plus(list, found)[b] = list[b] + IF b \in found THEN 1 ELSE 0
           /\ \A b \in Blocks : Plus(list, found)[b] > 0 <=> list[b] > 0 \/ b \in found
           /\ (Once(list) /\ \A b \in Blocks : b \in found => list[b] = 0)
                  => Once(Plus(list, found))
<1>1. \A b \in Blocks : list[b] \in Nat
  BY DEF Lists
<1> QED
  BY <1>1 DEF Plus, Lists, Once

LEMMA AddedFacts ==
    ASSUME NEW r \in Results, NEW found
    PROVE  LET a == Added(r, found) IN
           /\ a \in Results /\ a.there = r.there /\ a.last = r.last /\ a.through = r.through
           /\ \A b \in Blocks : a.list[b] > 0 <=> r.list[b] > 0 \/ b \in found
           /\ Once(r.list) => Once(a.list)
<1> DEFINE new == found \ Listed(r)
           l   == Plus(r.list, new)
<1>1. r.list \in Lists
  BY DEF Results
<1>2. /\ l \in Lists /\ \A b \in Blocks : l[b] > 0 <=> r.list[b] > 0 \/ b \in new
      /\ (Once(r.list) /\ \A b \in Blocks : b \in new => r.list[b] = 0) => Once(l)
  BY <1>1, PlusFacts
<1>3. \A b \in Blocks : r.list[b] \in Nat
  BY <1>1 DEF Lists
<1>4. \A b \in Blocks : b \in new <=> b \in found /\ ~(r.list[b] > 0)
  BY DEF Listed
<1>5. Added(r, found) = [r EXCEPT !.list = l]
  BY DEF Added
<1> HIDE DEF l
<1>6. /\ Added(r, found) \in Results /\ Added(r, found).list = l
      /\ Added(r, found).there = r.there /\ Added(r, found).last = r.last
      /\ Added(r, found).through = r.through
  BY <1>2, <1>5 DEF Results
<1>7. Once(r.list) => Once(l)
  BY <1>2, <1>3, <1>4
<1> QED
  BY <1>2, <1>4, <1>6, <1>7

LEMMA LargerIs ==
    ASSUME NEW a \in Nat, NEW b \in Nat
    PROVE  Larger(a, b) \in Nat /\ a <= Larger(a, b) /\ b <= Larger(a, b)
           /\ Larger(a, b) \in {a, b}
BY DEF Larger

\* What the invariant says of types.
LEMMA Typing ==
    ASSUME IInv
    PROVE  /\ chain.head \in Nat /\ chain.mints \subseteq Nat /\ chain.deposits \subseteq Blocks
           /\ mem \in Results /\ life \in Results /\ fresh \in Results
           /\ mem.last \in Nat /\ mem.through \in Nat /\ fresh.last \in Nat
           /\ fresh.through \in Nat /\ overlay.through \in Nat
           /\ mem.list \in Lists /\ fresh.list \in Lists /\ overlay.list \in Lists
           /\ overlay \in Overlays /\ LastMint \in Nat /\ LastMint \in chain.mints
           /\ LastMint <= chain.head
           /\ \A m \in chain.mints : m <= LastMint
           /\ wallet \in Nat
           /\ loop.plan.overlay \in Overlays /\ loop.plan.overlay.list \in Lists
           /\ loop.plan.overlay.through \in Nat /\ loop.plan.from \in Nat
           /\ loop.plan.head \in Nat /\ loop.plan.found \subseteq Blocks
           /\ loop.plan.reading \in Nat
<1>1. /\ chain.head \in 0 .. MaxBlock /\ chain.mints \subseteq 0 .. MaxBlock
      /\ chain.deposits \subseteq Blocks /\ mem \in Results /\ life \in Results
      /\ fresh \in Results /\ overlay \in Overlays /\ wallet \in Nat
  BY DEF IInv, TypeOK
<1>2. LastMint \in chain.mints /\ \A m \in chain.mints : m <= LastMint
  BY NewestIs DEF IInv, ChainOK, LastMint
<1>3. LastMint \in Nat /\ chain.mints \subseteq Nat /\ chain.head \in Nat
  BY <1>1, <1>2, BlocksAreNat
<1>4. LastMint <= chain.head
  BY <1>2, <1>3 DEF IInv, ChainOK
<1>5. loop.plan \in [from : Nat, overlay : Overlays, reading : Nat, found : SUBSET Blocks,
                     head : Nat]
  BY DEF IInv, TypeOK
<1>6. /\ loop.plan.overlay \in Overlays /\ loop.plan.from \in Nat /\ loop.plan.head \in Nat
      /\ loop.plan.found \subseteq Blocks /\ loop.plan.reading \in Nat
  BY <1>5
<1> QED
  BY <1>1, <1>2, <1>3, <1>4, <1>6 DEF Results, Overlays

LEMMA ListsAreNat ==
    ASSUME NEW l \in Lists PROVE \A b \in Blocks : l[b] \in Nat
BY DEF Lists
-----------------------------------------------------------------------------
(* The parts of the invariant a step leaves alone. *)

LEMMA SameChain ==
    ASSUME ChainOK, UNCHANGED chain PROVE ChainOK'
BY DEF ChainOK, HasNewest, HasFirsts

LEMMA SameRecords ==
    ASSUME RecordsOK, UNCHANGED <<chain, results>> PROVE RecordsOK'
BY DEF RecordsOK, ResultsOK, Covers, Once, UpTo, Within, LastMint, results

LEMMA SameOverlay ==
    ASSUME OverlayOK(overlay), UNCHANGED <<chain, mem, overlay>> PROVE OverlayOK(overlay)'
BY DEF OverlayOK, Once, UpTo, OnChain, Apart

LEMMA SamePoll ==
    ASSUME PollOK, UNCHANGED <<chain, mem, overlay, loop>> PROVE PollOK'
BY DEF PollOK, OverlayOK, Once, UpTo, OnChain, Within, Apart, LastMint

LEMMA SameMove ==
    ASSUME MoveOK, UNCHANGED <<chain, mem, loop>> PROVE MoveOK'
BY DEF MoveOK, LastMint

LEMMA SameScan ==
    ASSUME ScanOK, UNCHANGED <<chain, results, scan>> PROVE ScanOK'
BY DEF ScanOK, ResultsOK, Covers, Once, UpTo, Within, LastMint, HasNewest, HasFirsts, results

LEMMA NoPollNow ==
    ASSUME loop'.pc \notin {"counting", "pricing"} PROVE PollOK'
BY DEF PollOK

LEMMA NoMoveCountNow ==
    ASSUME loop'.pc # "moveCounting" PROVE MoveOK'
BY DEF MoveOK

LEMMA NoScanNow ==
    ASSUME scan'.pc \notin {"read", "tally"} PROVE ScanOK'
BY DEF ScanOK

LEMMA RestTypes ==
    /\ NoPlan \in [from : Nat, overlay : Overlays, reading : Nat, found : SUBSET Blocks,
                   head : Nat]
    /\ AtRest.pc = "idle" /\ AtRest.plan = NoPlan
    /\ NoScan.pc = "none" /\ NoScan.known = {} /\ NoScan.base = NoResults
    /\ NoScan.all = FALSE
<1>1. NoOverlay \in Overlays
  BY NothingType
<1> QED
  BY <1>1 DEF NoPlan, AtRest, NoScan

-----------------------------------------------------------------------------
(* Each step keeps the invariant: the loop. *)

Plans == [from : Nat, overlay : Overlays, reading : Nat, found : SUBSET Blocks, head : Nat]

LEMMA PlanType ==
    ASSUME IInv, NEW kind
    PROVE  /\ Plan(kind) \in Plans /\ Plan(kind).from = CountFrom(kind)
           /\ Plan(kind).overlay = overlay /\ Plan(kind).found = {} /\ Plan(kind).head = 0
           /\ mem.through <= CountFrom(kind) /\ mem.last <= CountFrom(kind)
           /\ LastMint <= CountFrom(kind)
           /\ kind = "poll" => overlay.through <= CountFrom(kind)
           /\ kind # "poll" => CountFrom(kind) \in {mem.through, mem.last, LastMint}
<1>1. /\ mem.through \in Nat /\ mem.last \in Nat /\ LastMint \in Nat /\ overlay.through \in Nat
      /\ overlay \in Overlays /\ wallet \in Nat
  BY Typing
<1> DEFINE a == Larger(mem.through, mem.last)
           base == Larger(a, LastMint)
           all == Larger(base, overlay.through)
<1>2. a \in Nat /\ mem.through <= a /\ mem.last <= a /\ a \in {mem.through, mem.last}
  BY <1>1, LargerIs
<1>3. base \in Nat /\ a <= base /\ LastMint <= base /\ base \in {a, LastMint}
  BY <1>1, <1>2, LargerIs
<1>4. all \in Nat /\ base <= all /\ overlay.through <= all
  BY <1>1, <1>3, LargerIs
<1>5. CountFrom(kind) = IF kind = "poll" THEN all ELSE base
  BY DEF CountFrom, LastMint
<1> HIDE DEF a, base, all
<1>6. CountFrom(kind) \in Nat
  BY <1>3, <1>4, <1>5
<1>7. NoPlan \in Plans /\ NoPlan.found = {} /\ NoPlan.head = 0
  BY RestTypes DEF Plans, NoPlan
<1>8. Plan(kind) \in Plans /\ Plan(kind).from = CountFrom(kind)
      /\ Plan(kind).overlay = overlay /\ Plan(kind).found = {} /\ Plan(kind).head = 0
  BY <1>1, <1>6, <1>7 DEF Plan, Plans
<1> QED
  BY <1>1, <1>2, <1>3, <1>4, <1>5, <1>8

LEMMA PollReadsKeeps == ASSUME IInv, PollReads PROVE IInv'
<1> USE DEF PollReads
<1>1. UNCHANGED <<chain, results, overlay, scan>>
  OBVIOUS
<1>2. ChainOK' /\ RecordsOK' /\ OverlayOK(overlay)' /\ ScanOK'
  BY <1>1, SameChain, SameRecords, SameOverlay, SameScan DEF IInv, results
<1>3. loop.pc = "idle"
  BY RestTypes
<1>4. CASE UNCHANGED loop
  <2>1. TypeOK'
    BY <1>1, <1>4, PlanType, Typing DEF IInv, TypeOK, results, Plans
  <2>2. PollOK' /\ MoveOK'
    BY <1>3, <1>4, NoPollNow, NoMoveCountNow
  <2> QED
    BY <1>2, <2>1, <2>2 DEF IInv
<1>5. CASE loop' = [pc |-> "counting", plan |-> Plan("poll")] /\ UNCHANGED seen
  <2>1. /\ Plan("poll") \in Plans /\ Plan("poll").from = CountFrom("poll")
        /\ Plan("poll").overlay = overlay /\ Plan("poll").found = {}
        /\ mem.through <= CountFrom("poll") /\ mem.last <= CountFrom("poll")
        /\ LastMint <= CountFrom("poll") /\ overlay.through <= CountFrom("poll")
        /\ CountFrom("poll") \in Nat
    BY PlanType, Zenon DEF Plans
  <2>2. TypeOK'
    BY <1>1, <1>5, <2>1 DEF IInv, TypeOK, results, Plans
  <2>3. /\ mem.through \in Nat /\ mem.last \in Nat /\ overlay.through \in Nat
        /\ Blocks \subseteq Nat
    BY Typing, BlocksAreNat
  <2>4. UpTo(mem.list, Larger(mem.last, mem.through)) /\ UpTo(overlay.list, overlay.through)
    BY DEF IInv, RecordsOK, ResultsOK, OverlayOK
  <2>5. UpTo(mem.list, CountFrom("poll")) /\ UpTo(overlay.list, CountFrom("poll"))
    BY <2>1, <2>3, <2>4 DEF UpTo, Larger
  <2>6. OverlayOK(overlay) /\ Within(overlay.list, overlay.list)
    BY DEF IInv, Within
  <2>7. loop'.plan = Plan("poll") /\ mem' = mem /\ overlay' = overlay /\ chain' = chain
    BY <1>1, <1>5 DEF results
  <2>8. PollOK'
    BY <2>1, <2>5, <2>6, <2>7
       DEF PollOK, OverlayOK, Once, UpTo, OnChain, Within, Apart, LastMint
  <2>9. MoveOK'
    BY <1>5, NoMoveCountNow
  <2> QED
    BY <1>2, <2>2, <2>8, <2>9 DEF IInv
<1> QED
  BY <1>4, <1>5

LEMMA MoveBeginsKeeps == ASSUME IInv, MoveBegins PROVE IInv'
<1> USE DEF MoveBegins
<1>1. UNCHANGED <<chain, results, overlay, scan>>
  OBVIOUS
<1>2. ChainOK' /\ RecordsOK' /\ OverlayOK(overlay)' /\ ScanOK'
  BY <1>1, SameChain, SameRecords, SameOverlay, SameScan DEF IInv, results
<1>3. /\ Plan("move") \in Plans /\ Plan("move").from = CountFrom("move")
      /\ CountFrom("move") \in {mem.through, mem.last, LastMint}
  BY PlanType, Zenon
<1>4. NoPlan \in Plans
  BY RestTypes DEF Plans
<1>5. moves' \in 0 .. MaxMoves
  BY ConstantsAssumption DEF IInv, TypeOK
<1>6. loop' \in {[pc |-> "moveCounting", plan |-> Plan("move")], [pc |-> "moving", plan |-> NoPlan]}
  OBVIOUS
<1>7. TypeOK'
  BY <1>1, <1>3, <1>4, <1>5, <1>6 DEF IInv, TypeOK, results, Plans
<1>8. PollOK'
  BY <1>6, NoPollNow
<1>9. MoveOK'
  <2>1. CASE loop' = [pc |-> "moveCounting", plan |-> Plan("move")]
    <3>0. CountFrom("move") <= chain.head
      BY <1>3, Typing DEF IInv, RecordsOK, ResultsOK
    <3> SUFFICES ASSUME NEW b \in chain.deposits, LastMint < b, b <= CountFrom("move")
                 PROVE  mem.list[b] > 0
      BY <1>1, <1>3, <2>1, <3>0 DEF MoveOK, LastMint, results
    <3>1. b \in Nat /\ LastMint \in Nat /\ mem.last \in Nat /\ mem.through \in Nat
      BY Typing, BlocksAreNat
    <3>2. mem.last <= LastMint
      BY DEF IInv, RecordsOK
    <3>3. b <= mem.through
      BY <1>3, <3>1, <3>2
    <3> QED
      BY <3>3 DEF IInv, RecordsOK, ResultsOK, Covers
  <2>2. CASE loop' = [pc |-> "moving", plan |-> NoPlan]
    BY <2>2, NoMoveCountNow
  <2> QED
    BY <1>6, <2>1, <2>2
<1> QED
  BY <1>2, <1>7, <1>8, <1>9 DEF IInv

\* What a poll's count holds in the end keeps the invariant of the overlay.
LEMMA HeldKeeps ==
    ASSUME IInv, NEW p \in Plans,
           OverlayOK(p.overlay), UpTo(p.overlay.list, p.from), UpTo(mem.list, p.from),
           \A b \in p.found : p.from < b /\ b <= p.head /\ b \in chain.deposits
    PROVE  Held(p) \in Overlays /\ OverlayOK(Held(p)) /\ Within(p.overlay.list, Held(p).list)
<1> DEFINE l == Plus(p.overlay.list, p.found)
           t == Larger(p.head, p.overlay.through)
<1>1. /\ p.overlay.list \in Lists /\ p.overlay.through \in Nat /\ p.head \in Nat
      /\ p.from \in Nat /\ p.found \subseteq Blocks
  BY DEF Plans, Overlays
<1>2. /\ Blocks \subseteq Nat /\ \A b \in Blocks : p.overlay.list[b] \in Nat
      /\ \A b \in Blocks : mem.list[b] \in Nat
  BY <1>1, BlocksAreNat, ListsAreNat, Typing
<1>3. /\ l \in Lists
      /\ \A b \in Blocks : l[b] > 0 <=> p.overlay.list[b] > 0 \/ b \in p.found
      /\ (Once(p.overlay.list) /\ \A b \in Blocks : b \in p.found => p.overlay.list[b] = 0)
             => Once(l)
  BY <1>1, PlusFacts
<1>4. t \in Nat /\ p.head <= t /\ p.overlay.through <= t
  BY <1>1, LargerIs
<1>5. Held(p) = [there |-> TRUE, list |-> l, through |-> t]
  BY DEF Held
<1> HIDE DEF l, t
<1>6. Held(p) \in Overlays /\ Held(p).list = l /\ Held(p).through = t
  BY <1>3, <1>4, <1>5 DEF Overlays
<1>7. \A b \in Blocks : b \in p.found => p.overlay.list[b] = 0 /\ mem.list[b] = 0
  BY <1>1, <1>2 DEF UpTo
<1>8. Once(l)
  BY <1>3, <1>7 DEF OverlayOK
<1>9. UpTo(l, t)
  BY <1>1, <1>2, <1>3, <1>4 DEF UpTo, OverlayOK
<1>10. OnChain(l)
  BY <1>3 DEF OnChain, OverlayOK
<1>11. \A b \in Blocks : l[b] > 0 /\ b > mem.last => mem.list[b] = 0
  BY <1>3, <1>7 DEF OverlayOK, Apart
<1>12. Within(p.overlay.list, l)
  BY <1>3 DEF Within
<1> QED
  BY <1>6, <1>8, <1>9, <1>10, <1>11, <1>12 DEF OverlayOK, Apart

\* A poll's count ends, and the loop is at rest.
LEMMA HoldsKeeps ==
    ASSUME IInv, NEW p \in Plans,
           OverlayOK(p.overlay), UpTo(p.overlay.list, p.from), UpTo(mem.list, p.from),
           \A b \in p.found : p.from < b /\ b <= p.head /\ b \in chain.deposits,
           overlay' = Held(p), seen' = p.reading, loop' = AtRest,
           UNCHANGED <<chain, wallet, results, scan, moves, events>>
    PROVE  IInv'
<1>1. Held(p) \in Overlays /\ OverlayOK(Held(p))
  BY HeldKeeps
<1>2. ChainOK' /\ RecordsOK' /\ ScanOK'
  BY SameChain, SameRecords, SameScan DEF IInv, results
<1>3. mem' = mem /\ chain' = chain
  BY DEF results
<1>4. OverlayOK(overlay)'
  BY <1>1, <1>3 DEF OverlayOK, Once, UpTo, OnChain, Apart
<1>5. loop'.pc = "idle"
  BY RestTypes
<1>6. PollOK' /\ MoveOK'
  BY <1>5, NoPollNow, NoMoveCountNow
<1>7. p.reading \in Nat
  BY DEF Plans
<1>8. AtRest \in [pc : {"idle", "counting", "pricing", "moveCounting", "movePricing", "moving"},
                  plan : Plans]
  BY RestTypes DEF Plans, AtRest
<1>9. TypeOK'
  BY <1>1, <1>7, <1>8 DEF IInv, TypeOK, results, Plans
<1> QED
  BY <1>2, <1>4, <1>6, <1>9 DEF IInv

\* The loop comes to rest or goes on to move, and nothing else changes but the wallet and
\* the events.
LEMMA LoopGoesOn ==
    ASSUME IInv, loop' \in {AtRest, [pc |-> "moving", plan |-> NoPlan]},
           wallet' \in Nat, events' \in 0 .. MaxEvents,
           UNCHANGED <<chain, results, overlay, seen, scan, moves>>
    PROVE  IInv'
<1>1. ChainOK' /\ RecordsOK' /\ OverlayOK(overlay)' /\ ScanOK'
  BY SameChain, SameRecords, SameOverlay, SameScan DEF IInv, results
<1>2. loop'.pc \in {"idle", "moving"} /\ loop'.plan = NoPlan
  BY RestTypes
<1>3. PollOK' /\ MoveOK'
  BY <1>2, NoPollNow, NoMoveCountNow
<1>4. loop' \in [pc : {"idle", "counting", "pricing", "moveCounting", "movePricing", "moving"},
                 plan : Plans]
  BY RestTypes DEF Plans, AtRest
<1>5. TypeOK'
  BY <1>4 DEF IInv, TypeOK, results, Plans
<1> QED
  BY <1>1, <1>3, <1>5 DEF IInv

LEMMA LoopPlanType == ASSUME IInv PROVE loop.plan \in Plans
BY DEF IInv, TypeOK, Plans

LEMMA PollCountedKeeps == ASSUME IInv, PollCounted PROVE IInv'
<1> DEFINE p == [loop.plan EXCEPT !.head = chain.head,
                                  !.found = DepositsIn(loop.plan.from, chain.head)]
<1>1. loop.pc = "counting" /\ UNCHANGED <<chain, wallet, results, scan, moves, events>>
  BY DEF PollCounted
<1>2. loop.plan \in Plans /\ chain.head \in Nat
  BY LoopPlanType, Typing
<1>3. DepositsIn(loop.plan.from, chain.head) \subseteq chain.deposits
      /\ \A b \in DepositsIn(loop.plan.from, chain.head) :
             loop.plan.from < b /\ b <= chain.head
  BY DEF DepositsIn
<1>4. /\ p \in Plans /\ p.head = chain.head /\ p.found = DepositsIn(loop.plan.from, chain.head)
      /\ p.overlay = loop.plan.overlay /\ p.from = loop.plan.from
      /\ p.reading = loop.plan.reading
  BY <1>2, <1>3, Typing DEF Plans
<1>5. /\ OverlayOK(loop.plan.overlay)
      /\ UpTo(loop.plan.overlay.list, loop.plan.from) /\ UpTo(mem.list, loop.plan.from)
      /\ Within(overlay.list, loop.plan.overlay.list) /\ LastMint <= loop.plan.from
  BY <1>1 DEF IInv, PollOK
<1>6. \/ loop' = AtRest /\ UNCHANGED <<overlay, seen>>
      \/ loop' = [pc |-> "pricing", plan |-> p] /\ UNCHANGED <<overlay, seen>>
      \/ overlay' = Held(p) /\ seen' = p.reading /\ loop' = AtRest
  BY DEF PollCounted
<1> HIDE DEF p
<1>7. \A b \in p.found : p.from < b /\ b <= p.head /\ b \in chain.deposits
  BY <1>3, <1>4
<1>8. CASE loop' = AtRest /\ UNCHANGED <<overlay, seen>>
  <2>1. wallet' \in Nat /\ events' \in 0 .. MaxEvents
    BY <1>1 DEF IInv, TypeOK
  <2> QED
    BY <1>1, <1>8, <2>1, LoopGoesOn DEF results
<1>9. CASE loop' = [pc |-> "pricing", plan |-> p] /\ UNCHANGED <<overlay, seen>>
  <2>1. ChainOK' /\ RecordsOK' /\ OverlayOK(overlay)' /\ ScanOK'
    BY <1>1, <1>9, SameChain, SameRecords, SameOverlay, SameScan DEF IInv, results
  <2>2. MoveOK'
    BY <1>9, NoMoveCountNow
  <2>3. TypeOK'
    BY <1>1, <1>4, <1>9 DEF IInv, TypeOK, results, Plans
  <2>4. loop'.plan = p /\ mem' = mem /\ chain' = chain /\ overlay' = overlay
    BY <1>1, <1>9 DEF results
  <2>5. PollOK'
    BY <1>4, <1>5, <1>7, <2>4
       DEF PollOK, OverlayOK, Once, UpTo, OnChain, Within, Apart, LastMint
  <2> QED
    BY <2>1, <2>2, <2>3, <2>5 DEF IInv
<1>10. CASE overlay' = Held(p) /\ seen' = p.reading /\ loop' = AtRest
  BY <1>1, <1>4, <1>5, <1>7, <1>10, HoldsKeeps
<1> QED
  BY <1>6, <1>8, <1>9, <1>10

LEMMA PollPricedKeeps == ASSUME IInv, PollPriced PROVE IInv'
<1>1. loop.plan \in Plans
  BY LoopPlanType
<1>2. /\ OverlayOK(loop.plan.overlay)
      /\ UpTo(loop.plan.overlay.list, loop.plan.from) /\ UpTo(mem.list, loop.plan.from)
      /\ \A b \in loop.plan.found :
             loop.plan.from < b /\ b <= loop.plan.head /\ b \in chain.deposits
  BY DEF IInv, PollOK, PollPriced
<1> QED
  BY <1>1, <1>2, HoldsKeeps DEF PollPriced

LEMMA MoveEndsKeeps == ASSUME IInv, MoveEnds PROVE IInv'
<1>1. wallet' \in Nat /\ events' \in 0 .. MaxEvents
  BY DEF MoveEnds, IInv, TypeOK
<1> QED
  BY <1>1, LoopGoesOn DEF MoveEnds

LEMMA CountFailsKeeps == ASSUME IInv, CountFails PROVE IInv'
<1>1. wallet' \in Nat /\ events' \in 0 .. MaxEvents
  BY ConstantsAssumption DEF CountFails, IInv, TypeOK
<1> QED
  BY <1>1, LoopGoesOn DEF CountFails

LEMMA OwnerWithdrawsKeeps == ASSUME IInv, OwnerWithdraws PROVE IInv'
<1>1. wallet' \in Nat /\ events' \in 0 .. MaxEvents
  BY ConstantsAssumption DEF OwnerWithdraws, IInv, TypeOK
<1>2. UNCHANGED <<chain, results, overlay, seen, loop, scan, moves>>
  BY DEF OwnerWithdraws
<1>3. ChainOK' /\ RecordsOK' /\ OverlayOK(overlay)' /\ ScanOK' /\ PollOK' /\ MoveOK'
  BY <1>2, SameChain, SameRecords, SameOverlay, SameScan, SamePoll, SameMove DEF IInv, results
<1>4. TypeOK'
  BY <1>1, <1>2 DEF IInv, TypeOK, results
<1> QED
  BY <1>3, <1>4 DEF IInv

LEMMA MoveCountedKeeps == ASSUME IInv, MoveCounted PROVE IInv'
<1> DEFINE found == DepositsIn(loop.plan.from, chain.head)
           a == Added(mem, found)
           t == Larger(a.through, chain.head)
<1>1. /\ loop.pc = "moveCounting" /\ UNCHANGED <<chain, wallet, seen, scan, moves, events>>
      /\ mem' = [a EXCEPT !.through = t] /\ life' = mem' /\ fresh' = mem'
      /\ overlay' = NoOverlay /\ loop' = [pc |-> "movePricing", plan |-> NoPlan]
  BY DEF MoveCounted
<1>2. /\ mem \in Results /\ mem.last \in Nat /\ mem.through \in Nat /\ chain.head \in Nat
      /\ chain.deposits \subseteq Blocks /\ Blocks \subseteq Nat
      /\ LastMint \in Nat
  BY Typing, BlocksAreNat
<1>3. /\ a \in Results /\ a.there = mem.there /\ a.last = mem.last /\ a.through = mem.through
      /\ \A b \in Blocks : a.list[b] > 0 <=> mem.list[b] > 0 \/ b \in found
      /\ Once(mem.list) => Once(a.list)
  BY <1>2, AddedFacts, Zenon
<1>4. \A b : b \in found <=> b \in chain.deposits /\ loop.plan.from < b /\ b <= chain.head
  BY DEF DepositsIn
<1> HIDE DEF found, a
<1>5. t \in Nat /\ mem.through <= t /\ chain.head <= t /\ t \in {mem.through, chain.head}
  BY <1>2, <1>3, LargerIs
<1> HIDE DEF t
<1>6. /\ mem' \in Results /\ mem'.list = a.list /\ mem'.last = mem.last /\ mem'.through = t
      /\ life' = mem' /\ fresh' = mem'
  BY <1>1, <1>3, <1>5 DEF Results
<1>7. Once(mem'.list)
  BY <1>3, <1>6 DEF IInv, RecordsOK, ResultsOK
<1>8. mem.last \in Nat /\ \A b \in Blocks : a.list[b] > 0 => b <= Larger(mem.last, t)
  <2> SUFFICES ASSUME NEW b \in Blocks, a.list[b] > 0 PROVE b <= Larger(mem.last, t)
    BY <1>2
  <2>1. b \in Nat
    BY <1>2
  <2>2. CASE mem.list[b] > 0
    <3>1. b <= Larger(mem.last, mem.through)
      BY <2>2 DEF IInv, RecordsOK, ResultsOK, UpTo
    <3> QED
      BY <1>2, <1>5, <2>1, <3>1 DEF Larger
  <2>3. CASE b \in found
    BY <1>2, <1>4, <1>5, <2>1, <2>3 DEF Larger
  <2> QED
    BY <1>3, <2>2, <2>3
<1>9. \A b \in chain.deposits :
          b <= mem.last \/ (LastMint < b /\ b <= t) => a.list[b] > 0
  <2> SUFFICES ASSUME NEW b \in chain.deposits, b <= mem.last \/ (LastMint < b /\ b <= t)
               PROVE  a.list[b] > 0
    OBVIOUS
  <2>1. b \in Blocks /\ b \in Nat /\ b <= chain.head
    BY <1>2 DEF IInv, ChainOK
  <2>2. CASE b <= mem.last
    BY <1>3, <2>1, <2>2 DEF IInv, RecordsOK, ResultsOK, Covers
  <2>3. CASE LastMint < b /\ b <= loop.plan.from
    BY <1>1, <1>3, <2>1, <2>3 DEF IInv, MoveOK
  <2>4. CASE LastMint < b /\ ~(b <= loop.plan.from)
    <3>1. loop.plan.from \in Nat
      BY Typing
    <3> QED
      BY <1>3, <1>4, <2>1, <2>4, <3>1
  <2> QED
    BY <2>2, <2>3, <2>4
<1>10. ResultsOK(mem)' /\ ResultsOK(fresh)'
  <2>1. UpTo(mem'.list, Larger(mem'.last, mem'.through))
    BY <1>6, <1>8 DEF UpTo
  <2>2. t <= chain.head
    BY <1>2, <1>5 DEF IInv, RecordsOK, ResultsOK
  <2>3. chain' = chain
    BY <1>1
  <2> QED
    BY <1>2, <1>6, <1>7, <1>9, <2>1, <2>2, <2>3 DEF ResultsOK, Covers, Once, UpTo, LastMint
<1>11. RecordsOK'
  <2>1. (mem.last <= LastMint)'
    BY <1>1, <1>6 DEF IInv, RecordsOK, LastMint
  <2> QED
    BY <1>6, <1>10, <2>1 DEF RecordsOK, Within
<1>12. ChainOK'
  BY <1>1, SameChain DEF IInv
<1>13. \A b \in Blocks : ~(overlay'.list[b] > 0)
  BY <1>1, NothingType DEF NoOverlay
<1>14. OverlayOK(overlay)'
  <2>1. \A b \in Blocks : overlay'.list[b] = 0
    BY <1>1, NothingType DEF NoOverlay
  <2> QED
    BY <1>13, <2>1 DEF OverlayOK, Once, UpTo, OnChain, Apart
<1>15. PollOK' /\ MoveOK'
  BY <1>1, NoPollNow, NoMoveCountNow
<1>16. ScanOK'
  <2>1. \A b \in Blocks : fresh.list[b] > 0 => fresh'.list[b] > 0
    BY <1>3, <1>6 DEF IInv, RecordsOK, Within
  <2> QED
    BY <1>1, <1>6, <2>1
       DEF IInv, ScanOK, ResultsOK, Covers, Once, UpTo, Within, LastMint, HasNewest, HasFirsts
<1>17. TypeOK'
  <2>1. NoPlan \in Plans /\ NoOverlay \in Overlays
    BY RestTypes, NothingType DEF Plans
  <2>2. loop' \in [pc : {"idle", "counting", "pricing", "moveCounting", "movePricing", "moving"},
                   plan : Plans]
    BY <1>1, <2>1
  <2> QED
    BY <1>1, <1>6, <2>1, <2>2 DEF IInv, TypeOK, Plans
<1> QED
  BY <1>11, <1>12, <1>14, <1>15, <1>16, <1>17 DEF IInv

LEMMA MovePricedKeeps == ASSUME IInv, MovePriced PROVE IInv'
<1>1. /\ UNCHANGED <<chain, wallet, mem, overlay, seen, scan, moves, events>>
      /\ life' = mem /\ fresh' = mem /\ loop' = [pc |-> "moving", plan |-> NoPlan]
  BY DEF MovePriced
<1>2. ChainOK' /\ OverlayOK(overlay)' /\ PollOK' /\ MoveOK'
  BY <1>1, SameChain, SameOverlay, NoPollNow, NoMoveCountNow DEF IInv
<1>3. RecordsOK'
  BY <1>1 DEF IInv, RecordsOK, ResultsOK, Covers, Once, UpTo, Within, LastMint
<1>4. ScanOK'
  BY <1>1 DEF IInv, RecordsOK, ScanOK, ResultsOK, Covers, Once, UpTo, Within, LastMint,
              HasNewest, HasFirsts
<1>5. TypeOK'
  <2>1. loop' \in [pc : {"idle", "counting", "pricing", "moveCounting", "movePricing", "moving"},
                   plan : Plans]
    BY <1>1, RestTypes DEF Plans
  <2> QED
    BY <1>1, <2>1 DEF IInv, TypeOK, Plans
<1> QED
  BY <1>2, <1>3, <1>4, <1>5 DEF IInv

-----------------------------------------------------------------------------
(* Each step keeps the invariant: the chain. *)

\* A block, with or without a deposit and a mint of ours.
LEMMA ChainGrows ==
    ASSUME IInv, chain.head < MaxBlock,
           chain' \in [head : {chain.head + 1},
                       deposits : {chain.deposits, chain.deposits \cup {chain.head + 1}},
                       mints : {chain.mints, chain.mints \cup {chain.head + 1}}],
           UNCHANGED <<results, overlay, scan>>
    PROVE  /\ ChainOK' /\ RecordsOK' /\ OverlayOK(overlay)' /\ ScanOK'
           /\ chain' \in [head : 0 .. MaxBlock, deposits : SUBSET Blocks,
                          mints : SUBSET (0 .. MaxBlock)]
<1> DEFINE h == chain.head + 1
<1>1. /\ chain.head \in Nat /\ chain.mints \subseteq Nat /\ chain.deposits \subseteq Blocks
      /\ Blocks \subseteq Nat /\ LastMint \in Nat /\ LastMint <= chain.head
      /\ mem.last \in Nat /\ MaxBlock \in Nat
      /\ chain.mints \subseteq 0 .. chain.head /\ chain.deposits \subseteq 1 .. chain.head
  BY Typing, BlocksAreNat DEF IInv, ChainOK
<1>2. h \in Blocks /\ h \in Nat
  BY <1>1 DEF Blocks
<1>3. /\ chain'.head = h
      /\ chain'.deposits \in {chain.deposits, chain.deposits \cup {h}}
      /\ chain'.mints \in {chain.mints, chain.mints \cup {h}}
  OBVIOUS
<1>4. chain'.mints \subseteq 0 .. h /\ chain'.deposits \subseteq 1 .. h
  BY <1>1, <1>3
<1>5. HasNewest(chain'.mints)
  <2>1. CASE chain'.mints = chain.mints
    BY <2>1 DEF IInv, ChainOK
  <2>2. CASE chain'.mints = chain.mints \cup {h}
    BY <1>1, <1>2, <2>2 DEF HasNewest
  <2> QED
    BY <1>3, <2>1, <2>2
<1>6. HasFirsts(chain'.mints)
  <2>1. CASE chain'.mints = chain.mints
    BY <2>1 DEF IInv, ChainOK
  <2>2. CASE chain'.mints = chain.mints \cup {h}
    <3> SUFFICES ASSUME NEW b \in Nat, \E k \in chain'.mints : b <= k
                 PROVE  \E m \in chain'.mints : b <= m /\ \A k \in chain'.mints : k < m => k < b
      BY DEF HasFirsts
    <3>1. CASE \E k \in chain.mints : b <= k
      <4>1. PICK m \in chain.mints : b <= m /\ \A k \in chain.mints : k < m => k < b
        BY <3>1 DEF IInv, ChainOK, HasFirsts
      <4> QED
        BY <1>1, <1>2, <2>2, <4>1
    <3>2. CASE \A k \in chain.mints : ~(b <= k)
      <4>1. b <= h /\ \A k \in chain.mints : k < b
        BY <1>1, <2>2, <3>2
      <4> QED
        BY <1>1, <1>2, <2>2, <4>1
    <3> QED
      BY <3>1, <3>2
  <2> QED
    BY <1>3, <2>1, <2>2
<1>7. ChainOK'
  BY <1>3, <1>4, <1>5, <1>6 DEF ChainOK
<1>8. LastMint' \in chain'.mints /\ \A k \in chain'.mints : k <= LastMint'
  BY <1>5, NewestIs DEF LastMint
<1>9. LastMint \in chain.mints
  BY Typing
<1>10. LastMint' \in Nat /\ LastMint <= LastMint' /\ LastMint' \in {LastMint, h}
  BY <1>1, <1>2, <1>3, <1>8, <1>9, Typing
<1>11. mem' = mem /\ life' = life /\ fresh' = fresh /\ overlay' = overlay /\ scan' = scan
  BY DEF results
<1>12. ASSUME NEW r \in Results, ResultsOK(r)
       PROVE  /\ r.through <= chain'.head
              /\ \A b \in chain'.deposits :
                     b <= r.last \/ (LastMint' < b /\ b <= r.through) => r.list[b] > 0
  <2>1. r.last \in Nat /\ r.through \in Nat /\ r.last <= mem.last /\ r.through <= chain.head
    BY <1>12 DEF Results, ResultsOK
  <2>2. mem.last <= chain.head
    BY <1>1 DEF IInv, RecordsOK
  <2> SUFFICES ASSUME NEW b \in chain'.deposits,
                      b <= r.last \/ (LastMint' < b /\ b <= r.through)
               PROVE  r.list[b] > 0
    BY <1>1, <1>3, <2>1
  <2>3. b \in Nat /\ b # h
    BY <1>1, <1>2, <1>3, <2>1, <2>2
  <2>4. b \in chain.deposits
    BY <1>3, <2>3
  <2>5. LastMint' < b => LastMint < b
    BY <1>1, <1>10, <2>3
  <2> QED
    BY <1>12, <2>4, <2>5 DEF ResultsOK, Covers
<1>13. ResultsOK(mem)' /\ ResultsOK(fresh)'
  <2>1. mem \in Results /\ fresh \in Results /\ ResultsOK(mem) /\ ResultsOK(fresh)
    BY Typing DEF IInv, RecordsOK
  <2> QED
    BY <1>11, <1>12, <2>1 DEF ResultsOK, Covers, Once, UpTo
<1>14. RecordsOK'
  <2>1. mem.last <= LastMint'
    BY <1>1, <1>10 DEF IInv, RecordsOK
  <2> QED
    BY <1>11, <1>13, <2>1 DEF IInv, RecordsOK, Within
<1>15. OverlayOK(overlay)'
  <2>1. chain.deposits \subseteq chain'.deposits
    BY <1>3
  <2> QED
    BY <1>11, <2>1 DEF IInv, OverlayOK, Once, UpTo, OnChain, Apart
<1>16. ScanOK'
  <2>1. scan.base \in Results
    BY DEF IInv, TypeOK
  <2>2. scan.pc = "tally" => ResultsOK(scan.base)'
    BY <1>11, <1>12, <2>1 DEF IInv, ScanOK, ResultsOK, Covers, Once, UpTo
  <2>3. chain.mints \subseteq chain'.mints
    BY <1>3
  <2> QED
    BY <1>11, <2>2, <2>3 DEF IInv, ScanOK, Within, HasNewest, HasFirsts
<1>17. chain' \in [head : 0 .. MaxBlock, deposits : SUBSET Blocks, mints : SUBSET (0 .. MaxBlock)]
  <2>1. h \in 0 .. MaxBlock
    BY <1>1
  <2>2. chain.deposits \in SUBSET Blocks /\ chain.mints \in SUBSET (0 .. MaxBlock)
    BY DEF IInv, TypeOK
  <2> QED
    BY <1>2, <2>1, <2>2
<1> QED
  BY <1>7, <1>14, <1>15, <1>16, <1>17

LEMMA BlockKeeps == ASSUME IInv, Block PROVE IInv'
<1>1. chain.head < MaxBlock /\ UNCHANGED <<results, overlay, seen, loop, scan, moves, events>>
  BY DEF Block
<1>2. PICK d \in {0, 1} :
        /\ chain' = [chain EXCEPT !.head = chain.head + 1,
              !.deposits = IF d = 1 THEN chain.deposits \cup {chain.head + 1} ELSE chain.deposits]
        /\ wallet' = wallet + d
  BY DEF Block
<1>3. chain \in [head : 0 .. MaxBlock, deposits : SUBSET Blocks, mints : SUBSET (0 .. MaxBlock)]
  BY DEF IInv, TypeOK
<1>4. /\ chain'.mints = chain.mints /\ chain'.head = chain.head + 1
      /\ chain'.deposits \in {chain.deposits, chain.deposits \cup {chain.head + 1}}
      /\ chain' \in [head : {chain.head + 1},
                     deposits : {chain.deposits, chain.deposits \cup {chain.head + 1}},
                     mints : {chain.mints, chain.mints \cup {chain.head + 1}}]
  BY <1>2, <1>3
<1>5. /\ ChainOK' /\ RecordsOK' /\ OverlayOK(overlay)' /\ ScanOK'
      /\ chain' \in [head : 0 .. MaxBlock, deposits : SUBSET Blocks,
                     mints : SUBSET (0 .. MaxBlock)]
  BY <1>1, <1>4, ChainGrows
<1>6. wallet' \in Nat
  BY <1>2, Typing
<1>7. TypeOK'
  BY <1>1, <1>5, <1>6 DEF IInv, TypeOK, results
<1>8. loop' = loop /\ mem' = mem /\ overlay' = overlay
  BY <1>1 DEF results
<1>9. LastMint' = LastMint
  BY <1>4 DEF LastMint
<1>10. PollOK'
  <2>1. chain.deposits \subseteq chain'.deposits
    BY <1>4
  <2> QED
    BY <1>8, <1>9, <2>1 DEF IInv, PollOK, OverlayOK, Once, UpTo, OnChain, Within, Apart
<1>11. MoveOK'
  <2>1. chain.head \in Nat /\ loop.plan.from \in Nat
    BY Typing
  <2> QED
    BY <1>4, <1>8, <1>9, <2>1 DEF IInv, MoveOK
<1> QED
  BY <1>5, <1>7, <1>10, <1>11 DEF IInv

LEMMA MintKeeps == ASSUME IInv, Mint PROVE IInv'
<1>1. /\ chain.head < MaxBlock /\ UNCHANGED <<results, overlay, seen, scan, moves, events>>
      /\ wallet' = 0 /\ loop' = AtRest
  BY DEF Mint
<1>2. chain' \in [head : {chain.head + 1},
                  deposits : {chain.deposits, chain.deposits \cup {chain.head + 1}},
                  mints : {chain.mints, chain.mints \cup {chain.head + 1}}]
  BY DEF Mint
<1>3. /\ ChainOK' /\ RecordsOK' /\ OverlayOK(overlay)' /\ ScanOK'
      /\ chain' \in [head : 0 .. MaxBlock, deposits : SUBSET Blocks,
                     mints : SUBSET (0 .. MaxBlock)]
  BY <1>1, <1>2, ChainGrows
<1>4. loop'.pc = "idle"
  BY <1>1, RestTypes
<1>5. PollOK' /\ MoveOK'
  BY <1>4, NoPollNow, NoMoveCountNow
<1>6. TypeOK'
  <2>1. loop' \in [pc : {"idle", "counting", "pricing", "moveCounting", "movePricing", "moving"},
                   plan : Plans]
    BY <1>1, RestTypes DEF Plans, AtRest
  <2> QED
    BY <1>1, <1>3, <2>1 DEF IInv, TypeOK, results, Plans
<1> QED
  BY <1>3, <1>5, <1>6 DEF IInv

-----------------------------------------------------------------------------
(* Each step keeps the invariant: the scan. *)

Scans == [pc : {"none", "reading", "read", "tally"}, all : BOOLEAN,
          known : SUBSET (0 .. MaxBlock), base : Results]

\* A step of the scan that saves nothing.
LEMMA ScanGoesOn ==
    ASSUME IInv, scan' \in Scans, ScanOK', events' \in 0 .. MaxEvents,
           UNCHANGED <<chain, wallet, results, overlay, seen, loop, moves>>
    PROVE  IInv'
<1>1. ChainOK' /\ RecordsOK' /\ OverlayOK(overlay)' /\ PollOK' /\ MoveOK'
  BY SameChain, SameRecords, SameOverlay, SamePoll, SameMove DEF IInv, results
<1>2. TypeOK'
  BY DEF IInv, TypeOK, results, Scans
<1> QED
  BY <1>1, <1>2 DEF IInv

LEMMA NoScanType == NoScan \in Scans
<1>1. NoResults \in Results
  BY NothingType
<1> QED
  BY <1>1 DEF NoScan, Scans

LEMMA ScanStartsKeeps == ASSUME IInv, ScanStarts PROVE IInv'
<1>1. UNCHANGED <<chain, wallet, results, overlay, seen, loop, moves, events>>
  BY DEF ScanStarts
<1>2. PICK full \in BOOLEAN : scan' = [NoScan EXCEPT !.pc = "reading", !.all = full \/ RecountDue]
  BY DEF ScanStarts
<1>3. RecountDue \in BOOLEAN
  BY DEF RecountDue
<1>4. (full \/ RecountDue) \in BOOLEAN
  BY <1>3
<1>5. scan' \in Scans /\ scan'.pc = "reading"
  BY <1>2, <1>4, NoScanType DEF Scans
<1>6. ScanOK'
  BY <1>5, NoScanNow
<1>7. events' \in 0 .. MaxEvents
  BY <1>1 DEF IInv, TypeOK
<1> QED
  BY <1>1, <1>5, <1>6, <1>7, ScanGoesOn

LEMMA ScanFailsKeeps == ASSUME IInv, ScanFails PROVE IInv'
<1>1. UNCHANGED <<chain, wallet, results, overlay, seen, loop, moves>> /\ scan' = NoScan
  BY DEF ScanFails
<1>2. scan' \in Scans /\ ScanOK'
  BY <1>1, NoScanType, RestTypes, NoScanNow
<1>3. events' \in 0 .. MaxEvents
  BY ConstantsAssumption DEF ScanFails, IInv, TypeOK
<1> QED
  BY <1>1, <1>2, <1>3, ScanGoesOn

LEMMA ScanReadsKeeps == ASSUME IInv, ScanReads PROVE IInv'
<1>1. UNCHANGED <<chain, wallet, results, overlay, seen, loop, moves, events>>
  BY DEF ScanReads
<1>2. events' \in 0 .. MaxEvents
  BY <1>1 DEF IInv, TypeOK
<1>3. CASE scan' = NoScan
  <2>1. scan' \in Scans /\ ScanOK'
    BY <1>3, NoScanType, RestTypes, NoScanNow
  <2> QED
    BY <1>1, <1>2, <2>1, ScanGoesOn
<1>4. CASE scan' = [scan EXCEPT !.pc = "read", !.known = chain.mints]
  <2>1. scan \in Scans /\ chain.mints \in SUBSET (0 .. MaxBlock)
    BY DEF IInv, TypeOK, Scans
  <2>2. scan' \in Scans /\ scan'.pc = "read" /\ scan'.known = chain.mints
    BY <1>4, <2>1 DEF Scans
  <2>3. mem' = mem /\ chain' = chain
    BY <1>1 DEF results
  <2>4. mem.last <= Newest(chain.mints)
    BY DEF IInv, RecordsOK, LastMint
  <2>5. HasNewest(chain.mints) /\ HasFirsts(chain.mints)
    BY DEF IInv, ChainOK
  <2>6. ScanOK'
    BY <2>2, <2>3, <2>4, <2>5 DEF ScanOK, HasNewest, HasFirsts
  <2> QED
    BY <1>1, <1>2, <2>2, <2>6, ScanGoesOn
<1> QED
  BY <1>3, <1>4 DEF ScanReads

LEMMA ScanTalliesKeeps == ASSUME IInv, ScanTallies PROVE IInv'
<1>1. /\ UNCHANGED <<chain, wallet, results, overlay, seen, loop, moves, events>>
      /\ scan.pc = "read" /\ scan' = [scan EXCEPT !.pc = "tally", !.base = fresh]
  BY DEF ScanTallies
<1>2. events' \in 0 .. MaxEvents
  BY <1>1 DEF IInv, TypeOK
<1>3. scan \in Scans /\ fresh \in Results
  BY Typing DEF IInv, TypeOK, Scans
<1>4. scan' \in Scans /\ scan'.pc = "tally" /\ scan'.known = scan.known /\ scan'.base = fresh
  BY <1>1, <1>3 DEF Scans
<1>5. mem' = mem /\ fresh' = fresh /\ chain' = chain
  BY <1>1 DEF results
<1>6. ResultsOK(fresh)
  BY DEF IInv, RecordsOK
<1>7. ScanOK'
  BY <1>1, <1>4, <1>5, <1>6
     DEF IInv, ScanOK, ResultsOK, Covers, Once, UpTo, Within, LastMint, HasNewest, HasFirsts
<1> QED
  BY <1>1, <1>2, <1>4, <1>7, ScanGoesOn

\* What a scan makes of the results.
LEMMA ScanEndFacts ==
    ASSUME IInv, scan.pc = "tally"
    PROVE  LET computed == Tallied(scan.known, scan.base)
               hodl == WithLaterCounts(computed, fresh)
           IN  /\ hodl \in Results
               /\ mem.last <= hodl.last /\ hodl.last <= LastMint /\ hodl.through <= chain.head
               /\ scan.base.last <= hodl.last
               /\ Once(hodl.list) /\ UpTo(hodl.list, Larger(hodl.last, hodl.through))
               /\ Within(mem.list, hodl.list)
               /\ \A b \in Blocks : hodl.list[b] > 0 => mem.list[b] > 0 \/ b <= Newest(scan.known)
               /\ \A b \in Blocks : hodl.list[b] > 0 /\ b > hodl.last => mem.list[b] > 0
               /\ Covers(hodl)
               /\ (hodl = computed /\ ~(hodl.last > scan.base.last))
                      => Within(hodl.list, fresh.list)
<1> DEFINE base == scan.base
           w == Windows(scan.known, base.last)
           new == Newest(scan.known)
           a == Added(base, w)
           computed == Tallied(scan.known, base)
           later == Listed(fresh) \ Listed(computed)
           hodl == WithLaterCounts(computed, fresh)
<1>1. /\ base \in Results /\ fresh \in Results /\ mem \in Results
      /\ mem.last \in Nat /\ mem.through \in Nat /\ fresh.last \in Nat /\ fresh.through \in Nat
      /\ chain.head \in Nat /\ LastMint \in Nat /\ Blocks \subseteq Nat
      /\ chain.deposits \subseteq Blocks /\ chain.mints \subseteq Nat
      /\ \A m \in chain.mints : m <= LastMint
  BY Typing, BlocksAreNat DEF IInv, TypeOK
<1>2. /\ HasNewest(scan.known) /\ HasFirsts(scan.known) /\ scan.known \subseteq chain.mints
      /\ mem.last <= new /\ ResultsOK(base) /\ Within(base.list, fresh.list)
  BY DEF IInv, ScanOK
<1>3. /\ RecordsOK /\ ResultsOK(fresh) /\ ResultsOK(mem)
      /\ Within(mem.list, fresh.list) /\ Within(fresh.list, mem.list)
  BY DEF IInv, RecordsOK
<1>4. base.last \in Nat /\ base.through \in Nat /\ base.list \in Lists
  BY <1>1 DEF Results
<1>5. new \in scan.known /\ new \in Nat /\ new <= LastMint /\ \A k \in scan.known : k <= new
  BY <1>1, <1>2, NewestIs
<1>6. /\ a \in Results /\ a.there = base.there /\ a.last = base.last /\ a.through = base.through
      /\ \A b \in Blocks : a.list[b] > 0 <=> base.list[b] > 0 \/ b \in w
      /\ Once(base.list) => Once(a.list)
  BY <1>1, AddedFacts, Zenon
<1>7. \A b : b \in w <=>
          /\ b \in chain.deposits
          /\ \E m \in scan.known : m > base.last /\ b <= m /\ \A k \in scan.known : k < m => k < b
  BY DEF Windows
<1>8. \A b \in w : b \in Blocks /\ b <= new /\ new > base.last
  <2> SUFFICES ASSUME NEW b \in w PROVE b \in Blocks /\ b <= new /\ new > base.last
    OBVIOUS
  <2>1. PICK m \in scan.known : m > base.last /\ b <= m
    BY <1>7
  <2>2. b \in Blocks /\ b \in Nat /\ m \in Nat /\ m <= new
    BY <1>1, <1>2, <1>5, <1>7
  <2> QED
    BY <1>4, <1>5, <2>1, <2>2
<1>9. \A b \in chain.deposits : base.last < b /\ b <= new => b \in w
  <2> SUFFICES ASSUME NEW b \in chain.deposits, base.last < b, b <= new PROVE b \in w
    OBVIOUS
  <2>1. b \in Nat
    BY <1>1
  <2>2. PICK m \in scan.known : b <= m /\ \A k \in scan.known : k < m => k < b
    BY <1>2, <1>5, <2>1 DEF HasFirsts
  <2>3. m \in Nat
    BY <1>1, <1>2
  <2>4. m > base.last
    BY <1>4, <2>1, <2>2, <2>3
  <2> QED
    BY <1>7, <2>2, <2>4
<1>10. computed = [a EXCEPT !.there = TRUE, !.last = Larger(base.last, new)]
  BY DEF Tallied
<1>11. hodl = IF later = {} THEN computed
              ELSE [Added(computed, later) EXCEPT
                       !.through = Larger(Added(computed, later).through, fresh.through)]
  BY DEF WithLaterCounts
<1> HIDE DEF new, w, a
<1>12. /\ Larger(base.last, new) \in Nat /\ base.last <= Larger(base.last, new)
       /\ new <= Larger(base.last, new) /\ Larger(base.last, new) \in {base.last, new}
  BY <1>4, <1>5, LargerIs
<1>13. /\ computed \in Results /\ computed.last = Larger(base.last, new)
       /\ computed.through = base.through /\ computed.list = a.list
  BY <1>6, <1>10, <1>12 DEF Results
<1> HIDE DEF computed
<1> DEFINE c == Added(computed, later)
           t == Larger(c.through, fresh.through)
<1>14. /\ c \in Results /\ c.last = computed.last /\ c.through = computed.through
       /\ \A b \in Blocks : c.list[b] > 0 <=> computed.list[b] > 0 \/ b \in later
       /\ Once(computed.list) => Once(c.list)
  BY <1>13, AddedFacts, Zenon
<1>15. \A b : b \in later <=> b \in Blocks /\ fresh.list[b] > 0 /\ ~(computed.list[b] > 0)
  BY DEF Listed
<1> HIDE DEF c, later
<1>16. t \in Nat /\ base.through <= t /\ fresh.through <= t /\ t \in {base.through, fresh.through}
  BY <1>1, <1>4, <1>13, <1>14, LargerIs
<1> HIDE DEF t
<1>17. hodl = IF later = {} THEN computed ELSE [c EXCEPT !.through = t]
  BY <1>11 DEF c, t
<1> HIDE DEF hodl
<1>18. /\ hodl \in Results /\ hodl.last = Larger(base.last, new)
       /\ \A b \in Blocks : hodl.list[b] > 0 <=> base.list[b] > 0 \/ b \in w \/ b \in later
       /\ Once(hodl.list)
       /\ base.through <= hodl.through /\ hodl.through \in {base.through, fresh.through}
       /\ later # {} => fresh.through <= hodl.through
  <2>1. Once(a.list)
    BY <1>2, <1>6 DEF ResultsOK
  <2>2. CASE later = {}
    BY <1>4, <1>6, <1>13, <1>17, <2>1, <2>2
  <2>3. CASE later # {}
    <3>1. hodl = [c EXCEPT !.through = t]
      BY <1>17, <2>3
    <3>2. hodl \in Results /\ hodl.last = c.last /\ hodl.list = c.list /\ hodl.through = t
      BY <1>14, <1>16, <3>1 DEF Results
    <3> QED
      BY <1>6, <1>13, <1>14, <1>16, <2>1, <3>2
  <2> QED
    BY <2>2, <2>3
<1>19. base.last <= mem.last /\ fresh.last <= mem.last /\ base.through <= chain.head
       /\ fresh.through <= chain.head /\ mem.last <= LastMint
  BY <1>2, <1>3 DEF ResultsOK, RecordsOK
<1>20. hodl.last = new
  BY <1>1, <1>2, <1>4, <1>5, <1>12, <1>18, <1>19
<1>21. \A b \in Blocks : b \in later \/ base.list[b] > 0 => mem.list[b] > 0
  BY <1>2, <1>3, <1>15 DEF Within
<1>22. Within(mem.list, hodl.list)
  BY <1>3, <1>6, <1>13, <1>15, <1>18 DEF Within
<1>23. \A b \in Blocks : hodl.list[b] > 0 => mem.list[b] > 0 \/ b <= new
  BY <1>8, <1>18, <1>21
<1>24. UpTo(hodl.list, Larger(hodl.last, hodl.through))
  <2> SUFFICES ASSUME NEW b \in Blocks, hodl.list[b] > 0
               PROVE  b <= Larger(hodl.last, hodl.through)
    BY DEF UpTo
  <2>0. b \in Nat /\ hodl.last \in Nat /\ hodl.through \in Nat
    BY <1>1, <1>18 DEF Results
  <2>1. CASE base.list[b] > 0
    <3>1. b <= Larger(base.last, base.through)
      BY <1>2, <2>1 DEF ResultsOK, UpTo
    <3> QED
      BY <1>4, <1>5, <1>12, <1>18, <2>0, <3>1 DEF Larger
  <2>2. CASE b \in w
    BY <1>5, <1>8, <1>20, <2>0, <2>2 DEF Larger
  <2>3. CASE b \in later
    <3>1. b <= Larger(fresh.last, fresh.through) /\ fresh.through <= hodl.through
      BY <1>3, <1>15, <1>18, <2>3 DEF ResultsOK, UpTo
    <3> QED
      BY <1>1, <1>2, <1>5, <1>19, <1>20, <2>0, <3>1 DEF Larger
  <2> QED
    BY <1>18, <2>1, <2>2, <2>3
<1>25. Covers(hodl)
  <2> SUFFICES ASSUME NEW b \in chain.deposits,
                      b <= hodl.last \/ (LastMint < b /\ b <= hodl.through)
               PROVE  hodl.list[b] > 0
    BY DEF Covers
  <2>0. b \in Blocks /\ b \in Nat
    BY <1>1
  <2>1. CASE b <= base.last
    BY <1>2, <1>18, <2>0, <2>1 DEF ResultsOK, Covers
  <2>2. CASE ~(b <= base.last) /\ b <= hodl.last
    BY <1>4, <1>9, <1>18, <1>20, <2>0, <2>2
  <2>3. CASE LastMint < b /\ b <= base.through
    BY <1>2, <1>18, <2>0, <2>3 DEF ResultsOK, Covers
  <2>4. CASE LastMint < b /\ b <= fresh.through
    <3>1. fresh.list[b] > 0
      BY <1>3, <2>4 DEF ResultsOK, Covers
    <3> QED
      BY <1>6, <1>13, <1>15, <1>18, <2>0, <3>1
  <2> QED
    BY <1>18, <2>1, <2>2, <2>3, <2>4
<1>26. \A b \in Blocks : hodl.list[b] > 0 /\ b > hodl.last => mem.list[b] > 0
  <2> SUFFICES ASSUME NEW b \in Blocks, hodl.list[b] > 0, b > hodl.last PROVE mem.list[b] > 0
    OBVIOUS
  <2>1. b \in Nat /\ ~(b <= new)
    BY <1>1, <1>5, <1>20
  <2> QED
    BY <1>23, <2>1
<1>27. (hodl = computed /\ ~(hodl.last > base.last)) => Within(hodl.list, fresh.list)
  <2> SUFFICES ASSUME hodl = computed, ~(hodl.last > base.last), NEW b \in Blocks,
                      hodl.list[b] > 0
               PROVE  fresh.list[b] > 0
    BY DEF Within
  <2>1. b \notin w
    BY <1>4, <1>5, <1>8, <1>20
  <2>2. base.list[b] > 0
    BY <1>6, <1>13, <2>1
  <2> QED
    BY <1>2, <2>2 DEF Within
<1>28. mem.last <= hodl.last /\ hodl.last <= LastMint /\ hodl.through <= chain.head
       /\ base.last <= hodl.last
  BY <1>2, <1>5, <1>12, <1>18, <1>19, <1>20
<1> QED
  BY <1>18, <1>22, <1>23, <1>24, <1>25, <1>26, <1>27, <1>28, Zenon DEF hodl, computed, new

LEMMA ScanEndsKeeps == ASSUME IInv, ScanEnds PROVE IInv'
<1> DEFINE computed == Tallied(scan.known, scan.base)
           hodl == WithLaterCounts(computed, fresh)
<1>1. /\ scan.pc = "tally" /\ scan' = NoScan /\ mem' = hodl /\ life' = hodl
      /\ fresh' \in {hodl, fresh}
      /\ fresh' # hodl => hodl = computed /\ ~(hodl.last > scan.base.last)
      /\ UNCHANGED <<chain, wallet, overlay, seen, loop, moves, events>>
  BY DEF ScanEnds
<1>2. /\ hodl \in Results
      /\ mem.last <= hodl.last /\ hodl.last <= LastMint /\ hodl.through <= chain.head
      /\ Once(hodl.list) /\ UpTo(hodl.list, Larger(hodl.last, hodl.through))
      /\ Within(mem.list, hodl.list)
      /\ \A b \in Blocks : hodl.list[b] > 0 => mem.list[b] > 0 \/ b <= Newest(scan.known)
      /\ \A b \in Blocks : hodl.list[b] > 0 /\ b > hodl.last => mem.list[b] > 0
      /\ Covers(hodl)
      /\ (hodl = computed /\ ~(hodl.last > scan.base.last)) => Within(hodl.list, fresh.list)
  BY <1>1, ScanEndFacts, Zenon
<1> HIDE DEF hodl, computed
<1>3. /\ mem.last \in Nat /\ LastMint \in Nat /\ Blocks \subseteq Nat
      /\ hodl.last \in Nat /\ hodl.through \in Nat /\ hodl.list \in Lists
      /\ \A b \in Blocks : hodl.list[b] \in Nat
      /\ fresh.last \in Nat /\ fresh \in Results
  BY <1>2, Typing, BlocksAreNat, ListsAreNat DEF Results
<1>4. Within(hodl.list, fresh'.list) /\ Within(fresh'.list, hodl.list)
  <2>1. CASE fresh' = hodl
    BY <2>1 DEF Within
  <2>2. CASE fresh' # hodl
    <3>1. fresh' = fresh /\ Within(hodl.list, fresh.list)
      BY <1>1, <1>2, <2>2
    <3>2. Within(fresh.list, mem.list)
      BY DEF IInv, RecordsOK
    <3> QED
      BY <1>2, <3>1, <3>2 DEF Within
  <2> QED
    BY <2>1, <2>2
<1>5. ChainOK'
  BY <1>1, SameChain DEF IInv
<1>6. LastMint' = LastMint
  BY <1>1 DEF LastMint
<1>7. ResultsOK(mem)'
  BY <1>1, <1>2, <1>3, <1>6 DEF ResultsOK, Covers, Once, UpTo
<1>8. ResultsOK(fresh)'
  <2>1. CASE fresh' = hodl
    BY <1>1, <1>7, <2>1 DEF ResultsOK, Covers, Once, UpTo
  <2>2. CASE fresh' = fresh
    <3>1. ResultsOK(fresh)
      BY DEF IInv, RecordsOK
    <3>2. fresh.last <= hodl.last
      BY <1>2, <1>3, <3>1 DEF ResultsOK
    <3> QED
      BY <1>1, <1>6, <2>2, <3>1, <3>2 DEF ResultsOK, Covers, Once, UpTo
  <2> QED
    BY <1>1, <2>1, <2>2
<1>9. RecordsOK'
  BY <1>1, <1>2, <1>4, <1>6, <1>7, <1>8 DEF RecordsOK, Within
<1>10. ASSUME NEW o \in Overlays, OverlayOK(o)
       PROVE  \A b \in Blocks : o.list[b] > 0 /\ b > hodl.last => hodl.list[b] = 0
  <2> SUFFICES ASSUME NEW b \in Blocks, o.list[b] > 0, b > hodl.last, hodl.list[b] > 0
               PROVE  FALSE
    BY <1>3
  <2>1. mem.list[b] > 0 /\ b > mem.last
    BY <1>2, <1>3
  <2>2. mem.list[b] = 0
    BY <1>10, <2>1 DEF OverlayOK, Apart
  <2> QED
    BY <2>1, <2>2
<1>11. OverlayOK(overlay)'
  <2>1. overlay \in Overlays /\ OverlayOK(overlay)
    BY Typing DEF IInv
  <2> QED
    BY <1>1, <1>10, <2>1 DEF OverlayOK, Once, UpTo, OnChain, Apart
<1>12. PollOK'
  <2> SUFFICES ASSUME loop.pc \in {"counting", "pricing"} PROVE PollOK'
    BY <1>1 DEF PollOK
  <2>1. /\ OverlayOK(loop.plan.overlay) /\ UpTo(loop.plan.overlay.list, loop.plan.from)
        /\ UpTo(mem.list, loop.plan.from) /\ Within(overlay.list, loop.plan.overlay.list)
        /\ LastMint <= loop.plan.from
        /\ \A b \in loop.plan.found :
               loop.plan.from < b /\ b <= loop.plan.head /\ b \in chain.deposits
    BY DEF IInv, PollOK
  <2>2. loop.plan.overlay \in Overlays /\ loop.plan.from \in Nat
    BY Typing
  <2>3. OverlayOK(loop.plan.overlay)'
    BY <1>1, <1>10, <2>1, <2>2 DEF OverlayOK, Once, UpTo, OnChain, Apart
  <2>4. Newest(scan.known) \in Nat /\ Newest(scan.known) <= LastMint
    <3>1. HasNewest(scan.known) /\ scan.known \subseteq chain.mints
      BY <1>1 DEF IInv, ScanOK
    <3>2. Newest(scan.known) \in scan.known
      BY <3>1, NewestIs
    <3> QED
      BY <3>1, <3>2, Typing
  <2>5. UpTo(hodl.list, loop.plan.from)
    <3> SUFFICES ASSUME NEW b \in Blocks, hodl.list[b] > 0 PROVE b <= loop.plan.from
      BY DEF UpTo
    <3>1. CASE mem.list[b] > 0
      BY <2>1, <3>1 DEF UpTo
    <3>2. CASE b <= Newest(scan.known)
      BY <1>3, <2>1, <2>2, <2>4, <3>2
    <3> QED
      BY <1>2, <3>1, <3>2
  <2> QED
    BY <1>1, <1>6, <2>1, <2>3, <2>5 DEF PollOK, UpTo, Within
<1>13. MoveOK'
  <2>1. \A b \in chain.deposits : mem.list[b] > 0 => hodl.list[b] > 0
    BY <1>2, Typing DEF Within
  <2> QED
    BY <1>1, <1>6, <2>1 DEF IInv, MoveOK
<1>14. scan' \in Scans /\ ScanOK'
  BY <1>1, NoScanType, RestTypes, NoScanNow
<1>15. TypeOK'
  BY <1>1, <1>2, <1>3, <1>14 DEF IInv, TypeOK, Scans
<1> QED
  BY <1>5, <1>9, <1>11, <1>12, <1>13, <1>14, <1>15 DEF IInv

-----------------------------------------------------------------------------
(* Each step keeps the invariant: Reload and a crash. *)

LEMMA NoOverlayIsOK ==
    ASSUME overlay' = NoOverlay PROVE OverlayOK(overlay)'
<1>1. \A b \in Blocks : overlay'.list[b] = 0
  BY NothingType DEF NoOverlay
<1> QED
  BY <1>1 DEF OverlayOK, Once, UpTo, OnChain, Apart

LEMMA ReloadKeeps == ASSUME IInv, Reload PROVE IInv'
<1>1. /\ mem' = NoResults /\ life' = NoResults /\ fresh' = NoResults
      /\ overlay' = NoOverlay /\ seen' = -1 /\ ~MoveUnderWay
      /\ scan' = [NoScan EXCEPT !.pc = "reading", !.all = TRUE]
      /\ UNCHANGED <<chain, wallet, loop, moves>>
  BY DEF Reload
<1>2. /\ NoResults \in Results /\ NoResults.last = 0 /\ NoResults.through = 0
      /\ \A b \in Blocks : NoResults.list[b] = 0
      /\ NoOverlay \in Overlays /\ \A b \in Blocks : NoOverlay.list[b] = 0
  BY NothingType DEF NoResults, NoOverlay
<1>3. /\ LastMint \in Nat /\ LastMint' = LastMint /\ chain.deposits \subseteq Blocks
      /\ chain.head \in Nat
  BY <1>1, Typing DEF LastMint
<1>4. \A b \in Blocks : b \in Nat /\ b > 0
  BY DEF Blocks
<1>5. ChainOK' /\ OverlayOK(overlay)'
  BY <1>1, SameChain, NoOverlayIsOK DEF IInv
<1>6. \A b \in chain.deposits :
          ~(b <= NoResults.last \/ (LastMint < b /\ b <= NoResults.through))
  BY <1>2, <1>3, <1>4
<1>7. ResultsOK(mem)' /\ ResultsOK(fresh)'
  BY <1>1, <1>2, <1>3, <1>6 DEF ResultsOK, Covers, Once, UpTo
<1>8. RecordsOK'
  BY <1>1, <1>2, <1>3, <1>7 DEF RecordsOK, Within
<1>9. PollOK'
  <2> SUFFICES ASSUME loop.pc \in {"counting", "pricing"} PROVE PollOK'
    BY <1>1 DEF PollOK
  <2>1. /\ OverlayOK(loop.plan.overlay) /\ UpTo(loop.plan.overlay.list, loop.plan.from)
        /\ LastMint <= loop.plan.from
        /\ \A b \in loop.plan.found :
               loop.plan.from < b /\ b <= loop.plan.head /\ b \in chain.deposits
    BY DEF IInv, PollOK
  <2>2. OverlayOK(loop.plan.overlay)'
    BY <1>1, <1>2, <2>1 DEF OverlayOK, Once, UpTo, OnChain, Apart
  <2>3. UpTo(mem'.list, loop.plan.from) /\ Within(overlay'.list, loop.plan.overlay.list)
    BY <1>1, <1>2 DEF UpTo, Within
  <2> QED
    BY <1>1, <1>3, <2>1, <2>2, <2>3 DEF PollOK, UpTo, Within
<1>10. MoveOK'
  BY <1>1, NoMoveCountNow DEF MoveUnderWay
<1>11. scan' \in Scans /\ scan'.pc = "reading"
  BY <1>1, NoScanType DEF Scans
<1>12. ScanOK'
  BY <1>11, NoScanNow
<1>13. events' \in 0 .. MaxEvents
  BY ConstantsAssumption DEF Reload, IInv, TypeOK
<1>14. TypeOK'
  BY <1>1, <1>2, <1>11, <1>13 DEF IInv, TypeOK, Scans
<1> QED
  BY <1>5, <1>8, <1>9, <1>10, <1>12, <1>14 DEF IInv

LEMMA RestartKeeps == ASSUME IInv, Restart PROVE IInv'
<1>1. /\ mem' = life /\ overlay' = NoOverlay /\ seen' = -1 /\ loop' = AtRest
      /\ scan' = NoScan /\ UNCHANGED <<chain, wallet, life, fresh, moves>>
  BY DEF Restart
<1>2. mem' = mem
  BY <1>1 DEF IInv, RecordsOK
<1>3. ChainOK' /\ RecordsOK' /\ OverlayOK(overlay)'
  BY <1>1, <1>2, SameChain, SameRecords, NoOverlayIsOK DEF IInv, results
<1>4. PollOK' /\ MoveOK' /\ ScanOK' /\ scan' \in Scans
  BY <1>1, RestTypes, NoPollNow, NoMoveCountNow, NoScanNow, NoScanType
<1>5. events' \in 0 .. MaxEvents
  BY ConstantsAssumption DEF Restart, IInv, TypeOK
<1>6. NoOverlay \in Overlays
  BY NothingType
<1>7. loop' \in [pc : {"idle", "counting", "pricing", "moveCounting", "movePricing", "moving"},
                 plan : Plans]
  BY <1>1, RestTypes DEF Plans, AtRest
<1>8. TypeOK'
  BY <1>1, <1>2, <1>4, <1>5, <1>6, <1>7 DEF IInv, TypeOK, Scans, Plans
<1> QED
  BY <1>3, <1>4, <1>8 DEF IInv

-----------------------------------------------------------------------------
(* The theorems. *)

LEMMA InvInit == Init => IInv
<1> SUFFICES ASSUME Init PROVE IInv
  OBVIOUS
<1> DEFINE r == [NoResults EXCEPT !.there = TRUE]
<1>1. /\ chain = [head |-> 0, deposits |-> {}, mints |-> {0}] /\ wallet = 0
      /\ mem = r /\ life = mem /\ fresh = mem /\ overlay = NoOverlay /\ seen = -1
      /\ loop = AtRest /\ scan = NoScan /\ moves = 0 /\ events = 0
  BY DEF Init
<1>2. /\ NoResults \in Results /\ NoOverlay \in Overlays
      /\ \A b \in Blocks : Nothing[b] = 0
  BY NothingType
<1>3. r \in Results /\ r.list = Nothing /\ r.last = 0 /\ r.through = 0
  BY <1>2 DEF NoResults, Results
<1> HIDE DEF r
<1>4. HasNewest({0}) /\ HasFirsts({0})
  BY DEF HasNewest, HasFirsts
<1>5. ChainOK
  BY <1>1, <1>4 DEF ChainOK
<1>6. LastMint = 0
  BY <1>1, <1>4, NewestIs DEF LastMint
<1>7. ResultsOK(mem)
  BY <1>1, <1>2, <1>3, <1>6 DEF ResultsOK, Covers, Once, UpTo
<1>8. RecordsOK
  BY <1>1, <1>3, <1>6, <1>7 DEF RecordsOK, Within
<1>9. OverlayOK(overlay)
  BY <1>1, <1>2 DEF OverlayOK, Once, UpTo, OnChain, Apart, NoOverlay
<1>10. loop.pc = "idle" /\ scan.pc = "none" /\ scan \in Scans
  BY <1>1, RestTypes, NoScanType
<1>11. PollOK /\ MoveOK /\ ScanOK
  BY <1>10 DEF PollOK, MoveOK, ScanOK
<1>12. loop \in [pc : {"idle", "counting", "pricing", "moveCounting", "movePricing", "moving"},
                 plan : Plans]
  BY <1>1, RestTypes DEF Plans, AtRest
<1>13. TypeOK
  <2>1. chain \in [head : 0 .. MaxBlock, deposits : SUBSET Blocks, mints : SUBSET (0 .. MaxBlock)]
    BY <1>1, BlocksAreNat
  <2> QED
    BY <1>1, <1>2, <1>3, <1>10, <1>12, <2>1, ConstantsAssumption DEF TypeOK, Scans, Plans
<1> QED
  BY <1>5, <1>8, <1>9, <1>11, <1>13 DEF IInv

LEMMA StutterKeeps == ASSUME IInv, UNCHANGED vars PROVE IInv'
<1>1. /\ UNCHANGED <<chain, wallet, mem, life, fresh, overlay, seen, loop, scan, moves, events>>
      /\ UNCHANGED results
  BY DEF vars, results
<1>2. ChainOK' /\ RecordsOK' /\ OverlayOK(overlay)' /\ ScanOK' /\ PollOK' /\ MoveOK'
  BY <1>1, SameChain, SameRecords, SameOverlay, SameScan, SamePoll, SameMove DEF IInv
<1>3. TypeOK'
  BY <1>1 DEF IInv, TypeOK
<1> QED
  BY <1>2, <1>3 DEF IInv

LEMMA InvNext == IInv /\ [Next]_vars => IInv'
BY Zenon, PollReadsKeeps, PollCountedKeeps, PollPricedKeeps, MoveBeginsKeeps, MoveCountedKeeps,
   MovePricedKeeps, MoveEndsKeeps, CountFailsKeeps, BlockKeeps, MintKeeps, OwnerWithdrawsKeeps,
   ScanStartsKeeps, ScanReadsKeeps, ScanTalliesKeeps, ScanEndsKeeps, ScanFailsKeeps, ReloadKeeps,
   RestartKeeps, StutterKeeps
   DEF Next

LEMMA InvAlways == Spec => []IInv
BY InvInit, InvNext, PTL DEF Spec

\* The variables keep their types (deposit-count.js, lifetime-hodl.js).
THEOREM TypeCorrect == Spec => []TypeOK
<1>1. IInv => TypeOK
  BY DEF IInv
<1> QED
  BY <1>1, InvAlways, PTL

\* No deposit is counted twice, for any number of blocks, moves, reloads and crashes: in the
\* results because what is added leaves out what they list, in the figures because polls only
\* hold what the results do not list (countDepositsFrom, mergeDepositOverlay, mergeLaterCounts).
THEOREM CountedOnceCorrect == Spec => []CountedOnce
<1>1. IInv => CountedOnce
  <2> SUFFICES ASSUME IInv, NEW b \in Blocks
               PROVE  Counted(b) <= 1 /\ life.list[b] <= 1 /\ fresh.list[b] <= 1
    BY DEF CountedOnce
  <2>1. mem.list[b] \in Nat /\ overlay.list[b] \in Nat
    BY Typing, ListsAreNat
  <2>2. mem.list[b] <= 1 /\ fresh.list[b] <= 1 /\ overlay.list[b] <= 1 /\ life = mem
    BY DEF IInv, RecordsOK, ResultsOK, OverlayOK, Once
  <2>3. overlay.list[b] > 0 /\ b > mem.last => mem.list[b] = 0
    BY DEF IInv, OverlayOK, Apart
  <2>4. Counted(b) <= 1
    BY <2>1, <2>2, <2>3 DEF Counted
  <2> QED
    BY <2>2, <2>4
<1> QED
  BY <1>1, InvAlways, PTL

\* What the results say they cover, they hold (lastBlock and countedThrough).
THEOREM CoveredCorrect == Spec => []CoveredCounted
<1>1. IInv => CoveredCounted
  <2> SUFFICES ASSUME IInv PROVE CoveredCounted
    OBVIOUS
  <2>1. Covers(mem) /\ Covers(fresh) /\ life = mem
    BY DEF IInv, RecordsOK, ResultsOK
  <2> QED
    BY <2>1 DEF CoveredCounted, Covers, LastMint
<1> QED
  BY <1>1, InvAlways, PTL

\* What memory and the polls hold is held by the next state, or taken by Reload or a crash, or
\* waits for the scan of the mint that swept it.
LEMMA StepLosesNothing ==
    ASSUME IInv, [Next]_vars, NEW b \in Blocks, Counted(b) > 0, ~(Counted(b)' > 0)
    PROVE  events' # events \/ (b <= LastMint /\ mem.last < LastMint)
<1> USE DEF Counted
<1>1. /\ \A r \in {mem, overlay} : r.list[b] \in Nat
      /\ b \in Nat /\ mem.last \in Nat /\ LastMint \in Nat /\ chain.head \in Nat
  BY Typing, ListsAreNat, BlocksAreNat
<1>2. IInv'
  BY InvNext
<1>3. mem'.list[b] \in Nat /\ overlay'.list[b] \in Nat /\ mem'.last \in Nat
  <2>1. mem' \in Results /\ overlay' \in Overlays
    BY <1>2 DEF IInv, TypeOK
  <2>2. mem'.list \in Lists /\ overlay'.list \in Lists /\ mem'.last \in Nat
    BY <2>1 DEF Results, Overlays
  <2> QED
    BY <2>2, ListsAreNat
<1>4. mem.list[b] > 0 \/ (overlay.list[b] > 0 /\ b > mem.last)
  BY <1>1
<1>5. ~(mem'.list[b] > 0) /\ ~(overlay'.list[b] > 0 /\ b > mem'.last)
  BY <1>3
<1>6. overlay.list[b] > 0 => b \in chain.deposits
  BY DEF IInv, OverlayOK, OnChain
<1>7. CASE UNCHANGED <<mem, overlay>>
  BY <1>4, <1>5, <1>7
<1>8. CASE PollCounted \/ PollPriced
  <2>1. mem' = mem
    BY <1>8 DEF PollCounted, PollPriced, results
  <2>2. CASE overlay' = overlay
    BY <1>7, <2>1, <2>2
  <2>3. CASE overlay' # overlay
    <3>1. PICK p \in Plans :
            /\ overlay' = Held(p) /\ p.overlay = loop.plan.overlay
            /\ loop.pc \in {"counting", "pricing"}
      <4>1. CASE PollPriced
        BY <4>1, LoopPlanType DEF PollPriced
      <4>2. CASE PollCounted
        <5> DEFINE q == [loop.plan EXCEPT !.head = chain.head,
                                          !.found = DepositsIn(loop.plan.from, chain.head)]
        <5>1. overlay' = Held(q) /\ loop.pc = "counting"
          BY <2>3, <4>2 DEF PollCounted
        <5>2. loop.plan \in Plans /\ DepositsIn(loop.plan.from, chain.head) \subseteq Blocks
          BY LoopPlanType, Typing DEF DepositsIn
        <5>3. q \in Plans /\ q.overlay = loop.plan.overlay
          BY <1>1, <5>2 DEF Plans
        <5> QED
          BY <5>1, <5>3
      <4> QED
        BY <1>8, <4>1, <4>2
    <3>2. p.overlay.list \in Lists
      BY DEF Plans, Overlays
    <3>3. \A c \in Blocks : p.overlay.list[c] > 0 => Held(p).list[c] > 0
      <4>1. Held(p).list = Plus(p.overlay.list, p.found)
        BY DEF Held
      <4> QED
        BY <3>2, <4>1, PlusFacts
    <3>4. overlay.list[b] > 0 => overlay'.list[b] > 0
      BY <3>1, <3>3 DEF IInv, PollOK, Within
    <3> QED
      BY <1>4, <1>5, <2>1, <3>4
  <2> QED
    BY <2>2, <2>3
<1>9. CASE MoveCounted
  <2> DEFINE found == DepositsIn(loop.plan.from, chain.head)
             a == Added(mem, found)
  <2>1. loop.pc = "moveCounting" /\ mem' = [a EXCEPT !.through = Larger(a.through, chain.head)]
    BY <1>9 DEF MoveCounted
  <2>2. /\ a \in Results
        /\ \A c \in Blocks : a.list[c] > 0 <=> mem.list[c] > 0 \/ c \in found
    BY AddedFacts, Typing, Zenon
  <2>3. b \in found <=> b \in chain.deposits /\ loop.plan.from < b /\ b <= chain.head
    BY DEF DepositsIn
  <2> HIDE DEF a, found
  <2>4. mem'.list[b] > 0 <=> mem.list[b] > 0 \/ b \in found
    BY <2>1, <2>2 DEF Results
  <2>5. overlay.list[b] > 0 /\ b > mem.last /\ b \notin found /\ ~(mem.list[b] > 0)
    BY <1>4, <1>5, <2>4
  <2>6. b \in chain.deposits /\ b <= chain.head /\ loop.plan.from \in Nat
    BY <1>6, <2>5, Typing DEF IInv, ChainOK
  <2>7. b <= loop.plan.from
    BY <1>1, <2>3, <2>5, <2>6
  <2>8. ~(LastMint < b)
    BY <2>1, <2>5, <2>6, <2>7 DEF IInv, MoveOK
  <2> QED
    BY <1>1, <2>5, <2>8
<1>10. CASE ScanEnds
  <2> DEFINE computed == Tallied(scan.known, scan.base)
             hodl == WithLaterCounts(computed, fresh)
  <2>1. mem' = hodl /\ overlay' = overlay /\ scan.pc = "tally"
    BY <1>10 DEF ScanEnds
  <2>2. Within(mem.list, hodl.list) /\ Covers(hodl) /\ mem.last <= hodl.last
    BY <2>1, ScanEndFacts, Zenon
  <2> HIDE DEF hodl, computed
  <2>3. ~(mem.list[b] > 0) /\ overlay.list[b] > 0
    BY <1>4, <1>5, <2>1, <2>2 DEF Within
  <2>4. b <= hodl.last
    BY <1>1, <1>3, <1>5, <2>1, <2>3
  <2>5. hodl.list[b] > 0
    BY <1>6, <2>2, <2>3, <2>4 DEF Covers
  <2> QED
    BY <1>5, <2>1, <2>5
<1>11. CASE Reload \/ Restart
  <2>1. events' = events + 1 /\ events \in Nat
    BY <1>11 DEF Reload, Restart, IInv, TypeOK
  <2> QED
    BY <2>1
<1>12. \/ UNCHANGED <<mem, overlay>> \/ PollCounted \/ PollPriced \/ MoveCounted \/ ScanEnds
       \/ Reload \/ Restart
  BY DEF Next, vars, PollReads, MoveBegins, MovePriced, MoveEnds, CountFails, Block, Mint,
         OwnerWithdraws, ScanStarts, ScanReads, ScanTallies, ScanFails, results
<1> QED
  BY <1>7, <1>8, <1>9, <1>10, <1>11, <1>12

\* A deposit the figures count goes on counting, whatever step is taken.
THEOREM NeverLostCorrect == Spec => NeverLost
<1>1. IInv /\ [Next]_vars =>
        [\A b \in Blocks :
           (Counted(b) > 0 /\ Counted(b)' = 0)
              => \/ events' # events
                 \/ b <= Newest(chain.mints) /\ mem.last < Newest(chain.mints)]_vars
  BY StepLosesNothing DEF LastMint
<1> QED
  BY <1>1, InvAlways, PTL DEF Spec, NeverLost


=============================================================================
