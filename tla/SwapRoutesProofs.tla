--------------------------- MODULE SwapRoutesProofs ---------------------------
(*****************************************************************************)
(* Theorems about SwapRoutes, for any number of chunks and of attempts, and  *)
(* any number of sends that go out unnoticed.                                *)
(*                                                                           *)
(* A slot is Old when nothing the swap still waits on is behind it: its      *)
(* transaction is mined, or lost from sight, and if it swapped, it swapped a *)
(* chunk before the one under way.  Between attempts every slot is Old;      *)
(* while one is awaited all but the last are, and the last holds exactly the *)
(* coins of the attempt.  That a route is taken only where all slots are Old *)
(* is what keeps the coins from being swapped twice.                         *)
(*****************************************************************************)
EXTENDS SwapRoutes, SequenceTheorems, FiniteSetTheorems, TLAPS

Before == {"quote", "approve", "send", "requote", "router"}
During == {"wait", "cancel", "cancelWait", "settle", "routerWait", "landed"}

Done(s) == s.doubt # "lost" /\ s.fate = "swapped"

\* m, c, v: the mode, the chunk, and whether a chunk has moved.
Old(s, m, c, v) ==
    /\ s.doubt # "lost" => s.fate # "open"
    /\ Done(s) => \/ /\ m = "chunk" /\ s.parts \subseteq 1 .. c - 1
                     /\ s.doubt = "stale" \/ v
                  \/ m = "router" /\ s.doubt = "stale"

TakenBy(m, c) == IF m = "chunk" THEN {c} ELSE Parts

New(s, m, c) == s.doubt = "none" /\ s.parts = TakenBy(m, c)

AllOld(q, m, c, v) == \A i \in 1 .. Len(q) : Old(q[i], m, c, v)

LastNew(q, m, c, v) ==
    /\ Len(q) > 0 /\ New(q[Len(q)], m, c)
    /\ \A i \in 1 .. Len(q) - 1 : Old(q[i], m, c, v)

LastOpen(q, m, c, v) == AllOld(q, m, c, v) \/ LastNew(q, m, c, v)

\* NoDoubleSwap, of a sequence of slots.
Apart(q) == \A i, j \in 1 .. Len(q) :
    /\ i # j /\ q[i].doubt = "none" /\ q[j].doubt = "none"
    /\ q[i].fate = "swapped" /\ q[j].fate = "swapped"
    => q[i].parts \cap q[j].parts = {}

Covers(q, P) == \A x \in P : \E i \in 1 .. Len(q) : Done(q[i]) /\ x \in q[i].parts

Rested(q) == \A i \in 1 .. Len(q) : q[i].doubt # "lost" => q[i].fate # "open"

\* What the actions do to the slots.
Mined(q, n, f) == [q EXCEPT ![n] = [@ EXCEPT !.fate = f]]
Doubted(q, d) == [q EXCEPT ![Len(q)] = [@ EXCEPT !.doubt = d]]
Contested(q, l) == [q EXCEPT ![Len(q)] = [@ EXCEPT !.cancel = l]]

Types ==
    /\ mode \in {"full", "chunk", "router"} /\ chunk \in Parts
    /\ attempt \in 1 .. MaxAttempts
    /\ moved \in BOOLEAN /\ held \in BOOLEAN /\ hash \in BOOLEAN
    /\ gas \in Nat /\ lost \in 0 .. MaxLost

StepInv ==
    /\ pc \in Before \cup During \cup {"done"}
    /\ pc = "done" <=> outcome # "none"
    /\ pc \in Before => AllOld(slots, mode, chunk, moved)
    /\ pc \in During => LastNew(slots, mode, chunk, moved)
    /\ pc = "landed" => slots[Len(slots)].fate = "swapped"
    /\ pc \in {"router", "routerWait"} => mode = "router"
    /\ pc = "requote" => attempt < MaxAttempts

EndInv ==
    /\ outcome \in {"none", "swapped", "partial", "failed", "unsettled", "unread"}
    /\ outcome = "unsettled" => LastOpen(slots, mode, chunk, moved)
    /\ outcome = "unread" => /\ LastNew(slots, mode, chunk, moved)
                             /\ slots[Len(slots)].fate = "swapped"
    /\ outcome = "partial" => /\ AllOld(slots, mode, chunk, moved)
                              /\ mode = "chunk" /\ moved
    /\ outcome = "failed" => AllOld(slots, mode, chunk, moved) /\ mode = "router"
    /\ outcome = "swapped" => Rested(slots) /\ Covers(slots, Parts)

ChunkInv ==
    /\ moved /\ outcome # "swapped" => mode = "chunk" /\ chunk > 1
    /\ mode = "chunk" => Covers(slots, 1 .. chunk - 1)

Inv == /\ slots \in Seq(Slot) /\ Types /\ StepInv /\ EndInv /\ ChunkInv
       /\ Apart(slots)

-----------------------------------------------------------------------------
(* Slots. *)

\* Of a sequence of slots: its domain and its elements.
LEMMA SlotFacts ==
    ASSUME NEW q \in Seq(Slot)
    PROVE  /\ Len(q) \in Nat /\ DOMAIN q = 1 .. Len(q)
           /\ \A i \in 1 .. Len(q) : q[i] \in Slot
BY LenProperties, ElementOfSeq

\* What appending a slot leaves.
LEMMA AppendFacts ==
    ASSUME NEW q \in Seq(Slot), NEW s \in Slot
    PROVE  /\ Append(q, s) \in Seq(Slot) /\ Len(Append(q, s)) = Len(q) + 1
           /\ Append(q, s)[Len(q) + 1] = s
           /\ \A i \in 1 .. Len(q) : Append(q, s)[i] = q[i]
BY SlotFacts

\* A slot whose transaction is not mined yet changes nothing that is done.
LEMMA AppendOpen ==
    ASSUME NEW q \in Seq(Slot), NEW s \in Slot, s.fate = "open", NEW P
    PROVE  /\ Apart(q) => Apart(Append(q, s))
           /\ Covers(q, P) => Covers(Append(q, s), P)
<1> DEFINE r == Append(q, s)
<1>1. /\ Len(r) = Len(q) + 1 /\ r[Len(q) + 1] = s /\ Len(q) \in Nat
      /\ \A i \in 1 .. Len(q) : r[i] = q[i]
  BY AppendFacts, SlotFacts
<1> HIDE DEF r
<1>2. \A i \in 1 .. Len(r) : r[i].fate = "swapped" => i \in 1 .. Len(q)
  BY <1>1
<1>3. Apart(q) => Apart(r)
  BY <1>1, <1>2 DEF Apart
<1>4. Covers(q, P) => Covers(r, P)
  <2> SUFFICES ASSUME Covers(q, P), NEW x \in P
               PROVE  \E i \in 1 .. Len(r) : Done(r[i]) /\ x \in r[i].parts
    BY DEF Covers
  <2>1. PICK i \in 1 .. Len(q) : Done(q[i]) /\ x \in q[i].parts
    BY DEF Covers
  <2>2. i \in 1 .. Len(r) /\ r[i] = q[i]
    BY <1>1
  <2> QED
    BY <2>1, <2>2
<1> QED
  BY <1>3, <1>4 DEF r

\* A slot appended to old ones: the attempt to await, or one gone unnoticed.
LEMMA AppendNew ==
    ASSUME NEW q \in Seq(Slot), NEW s \in Slot, NEW m, NEW c, NEW v,
           AllOld(q, m, c, v)
    PROVE  /\ New(s, m, c) => LastNew(Append(q, s), m, c, v)
           /\ s.doubt = "lost" => AllOld(Append(q, s), m, c, v)
<1> DEFINE r == Append(q, s)
<1>1. /\ Len(r) = Len(q) + 1 /\ r[Len(q) + 1] = s /\ Len(q) \in Nat
      /\ \A i \in 1 .. Len(q) : r[i] = q[i]
  BY AppendFacts, SlotFacts
<1> HIDE DEF r
<1>2. \A i \in 1 .. Len(q) : Old(r[i], m, c, v)
  BY <1>1 DEF AllOld
<1>3. New(s, m, c) => LastNew(r, m, c, v)
  BY <1>1, <1>2 DEF LastNew
<1>4. s.doubt = "lost" => Old(s, m, c, v)
  BY DEF Old, Done
<1>5. s.doubt = "lost" => AllOld(r, m, c, v)
  BY <1>1, <1>2, <1>4 DEF AllOld
<1> QED
  BY <1>3, <1>5 DEF r

\* The last slot is changed.
LEMMA ExceptFacts ==
    ASSUME NEW q \in Seq(Slot), NEW n \in 1 .. Len(q), NEW s \in Slot
    PROVE  /\ [q EXCEPT ![n] = s] \in Seq(Slot)
           /\ Len([q EXCEPT ![n] = s]) = Len(q)
           /\ [q EXCEPT ![n] = s][n] = s
           /\ \A i \in 1 .. Len(q) : i # n => [q EXCEPT ![n] = s][i] = q[i]
BY ExceptSeq

\* The attempt awaited is over, and its slot joins the old ones.
LEMMA LastEnds ==
    ASSUME NEW q \in Seq(Slot), NEW m, NEW c, NEW v, LastNew(q, m, c, v),
           q[Len(q)].fate \in {"reverted", "cancelled"}
    PROVE  AllOld(q, m, c, v)
<1>1. Old(q[Len(q)], m, c, v)
  BY DEF Old, Done
<1>2. \A i \in 1 .. Len(q) : i \in 1 .. Len(q) - 1 \/ i = Len(q)
  BY SlotFacts
<1> QED
  BY <1>1, <1>2 DEF AllOld, LastNew

\* Of an attempt's coins, none has been swapped before.
LEMMA LastApart ==
    ASSUME NEW q \in Seq(Slot), NEW m, NEW c \in Nat, NEW v,
           LastNew(q, m, c, v), v => m = "chunk",
           NEW i \in 1 .. Len(q) - 1, q[i].doubt = "none", q[i].fate = "swapped"
    PROVE  q[i].parts \cap q[Len(q)].parts = {}
<1>1. Old(q[i], m, c, v) /\ Done(q[i]) /\ New(q[Len(q)], m, c)
  BY DEF LastNew, Done
<1>2. m = "chunk" /\ q[i].parts \subseteq 1 .. c - 1
  BY <1>1 DEF Old
<1>3. q[Len(q)].parts = {c}
  BY <1>1, <1>2 DEF New, TakenBy
<1> QED
  BY <1>2, <1>3

\* A transaction is mined.
LEMMA MinedFacts ==
    ASSUME NEW q \in Seq(Slot), NEW n \in 1 .. Len(q),
           NEW f \in {"swapped", "reverted", "cancelled"}
    PROVE  LET r == Mined(q, n, f) IN
           /\ r \in Seq(Slot) /\ Len(r) = Len(q)
           /\ r[n].fate = f /\ r[n].doubt = q[n].doubt /\ r[n].parts = q[n].parts
           /\ \A i \in 1 .. Len(q) : i # n => r[i] = q[i]
<1> DEFINE s == [q[n] EXCEPT !.fate = f]
<1>1. q[n] \in Slot
  BY SlotFacts
<1>2. s \in Slot /\ s.fate = f /\ s.doubt = q[n].doubt /\ s.parts = q[n].parts
  BY <1>1 DEF Slot
<1> HIDE DEF s
<1>3. LET r == [q EXCEPT ![n] = s] IN
      /\ r \in Seq(Slot) /\ Len(r) = Len(q) /\ r[n] = s
      /\ \A i \in 1 .. Len(q) : i # n => r[i] = q[i]
  BY <1>2, ExceptFacts
<1> QED
  BY <1>2, <1>3 DEF s, Mined

\* Mining leaves a sequence of slots of the same length.
LEMMA MinedType ==
    ASSUME NEW q \in Seq(Slot), NEW n \in 1 .. Len(q),
           NEW f \in {"swapped", "reverted", "cancelled"}
    PROVE  Mined(q, n, f) \in Seq(Slot) /\ Len(Mined(q, n, f)) = Len(q)
BY MinedFacts

\* The last slot's swap is lost from sight, or stale.
LEMMA MarkedFacts ==
    ASSUME NEW q \in Seq(Slot), Len(q) > 0, NEW d \in {"none", "lost", "stale"},
           NEW l \in BOOLEAN
    PROVE  LET r == Doubted(q, d)
               t == Contested(q, l)
               n == Len(q)
           IN  /\ r \in Seq(Slot) /\ Len(r) = n
               /\ r[n].fate = q[n].fate /\ r[n].doubt = d /\ r[n].parts = q[n].parts
               /\ \A i \in 1 .. n : i # n => r[i] = q[i]
               /\ t \in Seq(Slot) /\ Len(t) = n
               /\ t[n].fate = q[n].fate /\ t[n].doubt = q[n].doubt
               /\ t[n].parts = q[n].parts
               /\ \A i \in 1 .. n : i # n => t[i] = q[i]
<1> DEFINE n == Len(q)
           x == [q[n] EXCEPT !.doubt = d]
           y == [q[n] EXCEPT !.cancel = l]
<1>1. n \in 1 .. Len(q) /\ q[n] \in Slot
  BY SlotFacts
<1>2. x \in Slot /\ x.fate = q[n].fate /\ x.doubt = d /\ x.parts = q[n].parts
  BY <1>1 DEF Slot
<1>3. /\ y \in Slot /\ y.fate = q[n].fate /\ y.doubt = q[n].doubt
      /\ y.parts = q[n].parts
  BY <1>1 DEF Slot
<1> HIDE DEF x, y
<1>4. LET r == [q EXCEPT ![n] = x] IN
      /\ r \in Seq(Slot) /\ Len(r) = Len(q) /\ r[n] = x
      /\ \A i \in 1 .. Len(q) : i # n => r[i] = q[i]
  BY <1>1, <1>2, ExceptFacts
<1>5. LET t == [q EXCEPT ![n] = y] IN
      /\ t \in Seq(Slot) /\ Len(t) = Len(q) /\ t[n] = y
      /\ \A i \in 1 .. Len(q) : i # n => t[i] = q[i]
  BY <1>1, <1>3, ExceptFacts
<1> QED
  BY <1>2, <1>3, <1>4, <1>5 DEF x, y, Doubted, Contested

\* A slot that keeps its coins, and is done only if it was, keeps apart.
LEMMA ApartKept ==
    ASSUME NEW q \in Seq(Slot), NEW r \in Seq(Slot), Len(r) = Len(q), Apart(q),
           NEW n \in 1 .. Len(q), r[n].parts = q[n].parts,
           \A i \in 1 .. Len(q) : i # n => r[i] = q[i],
           r[n].doubt = "none" => q[n].doubt = "none" /\ r[n].fate = q[n].fate
    PROVE  Apart(r)
BY DEF Apart

\* What covers a set of coins keeps covering it while no slot it rests on is lost.
LEMMA CoversKept ==
    ASSUME NEW q \in Seq(Slot), NEW r \in Seq(Slot), Len(r) = Len(q), NEW P,
           Covers(q, P), NEW n \in 1 .. Len(q), r[n].parts = q[n].parts,
           \A i \in 1 .. Len(q) : i # n => r[i] = q[i],
           Done(q[n]) => Done(r[n]) \/ q[n].parts \cap P = {}
    PROVE  Covers(r, P)
<1> SUFFICES ASSUME NEW x \in P
             PROVE  \E i \in 1 .. Len(r) : Done(r[i]) /\ x \in r[i].parts
  BY DEF Covers
<1>1. PICK i \in 1 .. Len(q) : Done(q[i]) /\ x \in q[i].parts
  BY DEF Covers
<1>2. Done(r[i]) /\ x \in r[i].parts
  BY <1>1
<1> QED
  BY <1>2

\* The last attempt is lost from sight: what is left is old.
LEMMA LostFacts ==
    ASSUME NEW q \in Seq(Slot), NEW m, NEW c \in Nat, NEW v, LastNew(q, m, c, v)
    PROVE  LET r == Doubted(q, "lost") IN
           /\ r \in Seq(Slot) /\ AllOld(r, m, c, v)
           /\ Apart(q) => Apart(r)
           /\ m = "chunk" /\ Covers(q, 1 .. c - 1) => Covers(r, 1 .. c - 1)
<1> DEFINE r == Doubted(q, "lost")
           n == Len(q)
<1>1. /\ r \in Seq(Slot) /\ Len(r) = n
      /\ r[n].fate = q[n].fate /\ r[n].doubt = "lost" /\ r[n].parts = q[n].parts
      /\ \A i \in 1 .. n : i # n => r[i] = q[i]
  BY MarkedFacts DEF LastNew
<1>2. n \in 1 .. Len(q)
  BY SlotFacts DEF LastNew
<1> HIDE DEF r
<1>3. Old(r[n], m, c, v)
  BY <1>1 DEF Old, Done
<1>4. \A i \in 1 .. n - 1 : Old(r[i], m, c, v)
  BY <1>1, <1>2 DEF LastNew
<1>5. AllOld(r, m, c, v)
  BY <1>1, <1>2, <1>3, <1>4 DEF AllOld
<1>6. Apart(q) => Apart(r)
  BY <1>1, <1>2, ApartKept
<1>7. ASSUME m = "chunk", Covers(q, 1 .. c - 1)
      PROVE  Covers(r, 1 .. c - 1)
  <2>1. q[n].parts \cap 1 .. c - 1 = {}
    BY <1>7 DEF LastNew, New, TakenBy
  <2> QED
    BY <1>1, <1>2, <1>7, <2>1, CoversKept
<1> QED
  BY <1>1, <1>5, <1>6, <1>7 DEF r

\* Mining touches an open slot: one lost from sight, or the last.
LEMMA MinedKeeps ==
    ASSUME NEW q \in Seq(Slot), NEW n \in 1 .. Len(q), q[n].fate = "open",
           NEW f \in {"swapped", "reverted", "cancelled"},
           NEW m, NEW c \in Nat, NEW v, v => m = "chunk"
    PROVE  LET r == Mined(q, n, f) IN
           /\ r \in Seq(Slot) /\ Len(r) = Len(q)
           /\ AllOld(q, m, c, v) => AllOld(r, m, c, v)
           /\ LastNew(q, m, c, v) =>
                 /\ LastNew(r, m, c, v)
                 /\ q[Len(q)].fate = "swapped" => r[Len(q)].fate = "swapped"
           /\ Rested(q) => Rested(r)
           /\ \A P : Covers(q, P) => Covers(r, P)
           /\ Apart(q) /\ (LastOpen(q, m, c, v) \/ Rested(q)) => Apart(r)
<1> DEFINE r == Mined(q, n, f)
<1>0. /\ r \in Seq(Slot) /\ Len(r) = Len(q)
      /\ r[n].fate = f /\ r[n].doubt = q[n].doubt /\ r[n].parts = q[n].parts
      /\ \A i \in 1 .. Len(q) : i # n => r[i] = q[i]
  BY MinedFacts
<1> HIDE DEF r
<1>1. /\ r \in Seq(Slot) /\ Len(r) = Len(q) /\ Len(q) \in Nat
      /\ r[n].fate = f /\ r[n].doubt = q[n].doubt /\ r[n].parts = q[n].parts
      /\ \A i \in 1 .. Len(q) : i # n => r[i] = q[i]
  BY <1>0, SlotFacts
<1>2. Old(q[n], m, c, v) => q[n].doubt = "lost" /\ Old(r[n], m, c, v)
  BY <1>1 DEF Old, Done
<1>3. AllOld(q, m, c, v) => AllOld(r, m, c, v)
  BY <1>1, <1>2 DEF AllOld
<1>4. ASSUME LastNew(q, m, c, v)
      PROVE  LastNew(r, m, c, v)
  <2>1. \A i \in 1 .. Len(q) - 1 : Old(r[i], m, c, v)
    BY <1>1, <1>2, <1>4 DEF LastNew
  <2>2. New(r[Len(q)], m, c)
    BY <1>1, <1>4 DEF LastNew, New
  <2> QED
    BY <1>1, <1>4, <2>1, <2>2 DEF LastNew
<1>5. LastNew(q, m, c, v) =>
          (q[Len(q)].fate = "swapped" => r[Len(q)].fate = "swapped")
  BY <1>1 DEF LastNew
<1>6. Rested(q) => Rested(r)
  BY <1>1 DEF Rested
<1>7. ~ Done(q[n])
  BY DEF Done
<1>8. ASSUME NEW P, Covers(q, P)
      PROVE  Covers(r, P)
  BY <1>1, <1>7, <1>8, CoversKept
<1>9. ASSUME Apart(q), LastOpen(q, m, c, v) \/ Rested(q)
      PROVE  Apart(r)
  <2>1. CASE q[n].doubt # "none"
    BY <1>1, <1>9, <2>1, ApartKept
  <2>2. CASE q[n].doubt = "none"
    <3>1. LastNew(q, m, c, v) /\ n = Len(q)
      BY <1>2, <1>9, <2>2 DEF LastOpen, AllOld, LastNew, Rested
    <3>2. \A i \in 1 .. Len(r) - 1 : r[i].doubt = "none" /\ r[i].fate = "swapped"
              => r[i].parts \cap r[n].parts = {}
      <4> SUFFICES ASSUME NEW i \in 1 .. Len(q) - 1,
                          r[i].doubt = "none", r[i].fate = "swapped"
                   PROVE  r[i].parts \cap r[n].parts = {}
        BY <1>1
      <4>1. r[i] = q[i]
        BY <1>1, <3>1
      <4>2. q[i].parts \cap q[n].parts = {}
        BY <3>1, <4>1, LastApart
      <4> QED
        BY <1>1, <4>1, <4>2
    <3> QED
      BY <1>1, <1>9, <3>1, <3>2 DEF Apart
  <2> QED
    BY <2>1, <2>2
<1> QED
  BY <1>1, <1>3, <1>4, <1>5, <1>6, <1>8, <1>9 DEF r

-----------------------------------------------------------------------------
(* Steps. *)

\* What every step of the code leaves in order.
Sides == held' \in BOOLEAN /\ hash' \in BOOLEAN /\ gas' \in Nat /\ lost' \in 0 .. MaxLost

Fit(q) == q \in Seq(Slot) /\ Apart(q) /\ (mode = "chunk" => Covers(q, 1 .. chunk - 1))

\* The swap goes on, by the same route.
LEMMA GoesOn ==
    ASSUME Inv, outcome = "none", UNCHANGED <<mode, chunk, moved, outcome>>, Sides,
           attempt' \in 1 .. MaxAttempts, Fit(slots'),
           pc' \in Before \cup During,
           pc' \in Before => AllOld(slots', mode, chunk, moved),
           pc' \in During => LastNew(slots', mode, chunk, moved),
           pc' = "landed" => slots'[Len(slots')].fate = "swapped",
           pc' \in {"router", "routerWait"} => mode = "router",
           pc' = "requote" => attempt' < MaxAttempts
    PROVE  Inv'
<1>1. Types' /\ ChunkInv' /\ Apart(slots') /\ slots' \in Seq(Slot)
  BY DEF Inv, Types, ChunkInv, Sides, Fit
<1>2. StepInv'
  BY DEF StepInv, Before, During
<1>3. EndInv'
  BY DEF EndInv
<1> QED
  BY <1>1, <1>2, <1>3 DEF Inv

\* The swap stops, and what it answers fits its slots.
LEMMA Stops ==
    ASSUME Inv, outcome = "none", Sides, Fit(slots'),
           NEW how \in {"partial", "failed", "unsettled", "unread"}, Stop(how),
           how = "unsettled" => LastOpen(slots', mode, chunk, moved),
           how = "unread" => /\ LastNew(slots', mode, chunk, moved)
                             /\ slots'[Len(slots')].fate = "swapped",
           how = "partial" => /\ AllOld(slots', mode, chunk, moved)
                              /\ mode = "chunk" /\ moved,
           how = "failed" => AllOld(slots', mode, chunk, moved) /\ mode = "router"
    PROVE  Inv'
<1>1. Types' /\ ChunkInv' /\ Apart(slots') /\ slots' \in Seq(Slot)
  BY DEF Inv, Types, ChunkInv, Sides, Fit, Stop
<1>2. StepInv'
  BY DEF StepInv, Before, During, Stop
<1>3. EndInv'
  BY DEF EndInv, Stop
<1> QED
  BY <1>1, <1>2, <1>3 DEF Inv

\* Old slots stay old when the route changes.
LEMMA OldAcross ==
    ASSUME NEW q, NEW m \in {"full", "chunk", "router"}, NEW c \in Nat,
           NEW v \in BOOLEAN, AllOld(q, m, c, v)
    PROVE  /\ m = "full" => \A k \in {"full", "chunk", "router"}, d \in Nat :
                                AllOld(q, k, d, v)
           /\ m = "chunk" /\ ~v => AllOld(q, "router", 1, v)
BY DEF AllOld, Old

\* Another route is taken, from old slots only.
LEMMA RouteTaken ==
    ASSUME Inv, outcome = "none", Sides, Fit(slots'),
           AllOld(slots', mode, chunk, moved), NEW impact, NextRoute(impact)
    PROVE  Inv'
<1>1. ASSUME NEW m \in {"chunk", "router"}, Route(m, 1), ~moved,
             AllOld(slots', m, 1, moved)
      PROVE  Inv'
  <2>1. Types' /\ Apart(slots') /\ slots' \in Seq(Slot)
    BY <1>1, ConstantsAssumption DEF Inv, Types, Sides, Fit, Route, Parts
  <2>2. ChunkInv'
    BY <1>1 DEF ChunkInv, Covers, Route
  <2>3. StepInv'
    BY <1>1 DEF StepInv, Before, During, Route
  <2>4. EndInv'
    BY <1>1 DEF EndInv, Route
  <2> QED
    BY <2>1, <2>2, <2>3, <2>4 DEF Inv
<1>2. /\ mode \in {"full", "chunk", "router"} /\ chunk \in Nat /\ moved \in BOOLEAN
      /\ moved => mode = "chunk"
  BY ConstantsAssumption DEF Inv, Types, ChunkInv, Parts
<1>3. CASE mode = "full" /\ Route("chunk", 1)
  BY <1>1, <1>2, <1>3, OldAcross
<1>4. CASE mode = "full" /\ Route("router", 1)
  BY <1>1, <1>2, <1>4, OldAcross
<1>5. CASE mode = "chunk" /\ moved /\ Stop("partial")
  BY <1>5, Stops
<1>6. CASE mode = "chunk" /\ ~moved /\ Route("router", 1)
  BY <1>1, <1>2, <1>6, OldAcross
<1> QED
  BY <1>3, <1>4, <1>5, <1>6 DEF NextRoute

\* The attempt is spent.
LEMMA SpentKeeps ==
    ASSUME Inv, outcome = "none", Sides, Fit(slots'),
           AllOld(slots', mode, chunk, moved), Spent
    PROVE  Inv'
<1>1. CASE attempt < MaxAttempts
  <2>1. pc' = "requote" /\ UNCHANGED <<mode, chunk, attempt, moved, outcome>>
    BY <1>1 DEF Spent
  <2>2. attempt' \in 1 .. MaxAttempts
    BY <2>1 DEF Inv, Types
  <2> QED
    BY <1>1, <2>1, <2>2, GoesOn DEF Before, During
<1>2. CASE ~ attempt < MaxAttempts
  BY <1>2, RouteTaken DEF Spent
<1> QED
  BY <1>1, <1>2

\* What the invariant says between attempts, and within one.
LEMMA PlaceFacts ==
    ASSUME Inv
    PROVE  /\ Fit(slots) /\ Types /\ Len(slots) \in Nat /\ chunk \in Nat
           /\ pc \in Before => /\ AllOld(slots, mode, chunk, moved)
                               /\ outcome = "none"
           /\ pc \in During => /\ LastNew(slots, mode, chunk, moved)
                               /\ outcome = "none"
                               /\ Len(slots) > 0
<1>1. Fit(slots) /\ Types /\ Len(slots) \in Nat /\ chunk \in Nat
  BY SlotFacts, ConstantsAssumption DEF Inv, Fit, ChunkInv, Types, Parts
<1>2. pc \in Before \cup During => outcome = "none"
  BY DEF Inv, StepInv, Before, During
<1> QED
  BY <1>1, <1>2 DEF Inv, StepInv, LastNew

\* A swap has delivered: its chunk is done, or all of it is.
LEMMA DeliveredKeeps ==
    ASSUME Inv, pc = "landed", Delivered, Sides, slots' \in Seq(Slot),
           Len(slots') = Len(slots),
           slots'[Len(slots)].fate = slots[Len(slots)].fate,
           slots'[Len(slots)].parts = slots[Len(slots)].parts,
           \A i \in 1 .. Len(slots) : i # Len(slots) => slots'[i] = slots[i],
           \/ slots'[Len(slots)].doubt = "none" /\ moved' = (mode = "chunk")
           \/ slots'[Len(slots)].doubt = "stale" /\ moved' = moved
    PROVE  Inv'
<1> DEFINE n == Len(slots)
<1>1. /\ Fit(slots) /\ Types /\ n \in Nat /\ n > 0 /\ n \in 1 .. n
      /\ chunk \in 1 .. Chunks /\ Chunks \in Nat /\ outcome = "none"
      /\ LastNew(slots, mode, chunk, moved) /\ slots[n].fate = "swapped"
      /\ moved => mode = "chunk"
  <2>1. /\ Fit(slots) /\ Types /\ n \in Nat /\ n > 0 /\ outcome = "none"
        /\ LastNew(slots, mode, chunk, moved)
    BY PlaceFacts DEF During
  <2>2. slots[n].fate = "swapped" /\ (moved => mode = "chunk")
    BY <2>1 DEF Inv, StepInv, ChunkInv
  <2> QED
    BY <2>1, <2>2, ConstantsAssumption DEF Types, Parts
<1>2. /\ Done(slots'[n]) /\ Done(slots[n]) /\ moved' \in BOOLEAN
      /\ slots'[n].parts = TakenBy(mode, chunk)
      /\ moved => moved'
  BY <1>1 DEF LastNew, New, Done, Types
<1>3. Apart(slots')
  BY <1>1, ApartKept DEF Fit, LastNew, New
<1>4. \A P : Covers(slots, P) => Covers(slots', P)
  <2> SUFFICES ASSUME NEW P, Covers(slots, P)
               PROVE  Covers(slots', P)
    OBVIOUS
  <2> QED
    BY <1>1, <1>2, CoversKept DEF Fit
<1>5. ASSUME mode = "chunk"
      PROVE  Covers(slots', 1 .. chunk)
  <2>1. Covers(slots', 1 .. chunk - 1)
    BY <1>1, <1>4, <1>5 DEF Fit
  <2>2. chunk \in slots'[n].parts
    BY <1>2, <1>5 DEF TakenBy
  <2>3. \A x \in 1 .. chunk : x \in 1 .. chunk - 1 \/ x = chunk
    BY <1>1
  <2>4. n \in 1 .. Len(slots')
    BY <1>1
  <2> QED
    BY <1>2, <2>1, <2>2, <2>3, <2>4 DEF Covers
<1>6. CASE mode = "chunk" /\ chunk < Chunks
  <2>1. /\ pc' = "quote" /\ chunk' = chunk + 1 /\ attempt' = 1
        /\ UNCHANGED <<mode, outcome>>
    BY <1>6 DEF Delivered
  <2>2. \A i \in 1 .. n : Old(slots'[i], mode, chunk + 1, moved')
    <3>1. \A i \in 1 .. n - 1 : Old(slots'[i], mode, chunk + 1, moved')
      <4> SUFFICES ASSUME NEW i \in 1 .. n - 1
                   PROVE  Old(slots'[i], mode, chunk + 1, moved')
        OBVIOUS
      <4>1. slots'[i] = slots[i] /\ Old(slots[i], mode, chunk, moved)
        BY <1>1 DEF LastNew
      <4>2. 1 .. chunk - 1 \subseteq 1 .. (chunk + 1) - 1
        BY <1>1
      <4> QED
        BY <1>2, <1>6, <4>1, <4>2 DEF Old
    <3>2. {chunk} \subseteq 1 .. (chunk + 1) - 1
      BY <1>1
    <3>3. slots'[n].doubt = "stale" \/ moved'
      BY <1>6
    <3>4. Old(slots'[n], mode, chunk + 1, moved')
      BY <1>1, <1>2, <1>6, <3>2, <3>3 DEF Old, TakenBy
    <3> QED
      BY <1>1, <3>1, <3>4
  <2>3. AllOld(slots', mode', chunk', moved')
    BY <2>1, <2>2 DEF AllOld
  <2>4. Types'
    BY <1>1, <1>2, <1>6, <2>1, ConstantsAssumption DEF Types, Sides, Parts
  <2>5. ChunkInv'
    <3>1. (chunk + 1) - 1 = chunk
      BY <1>1
    <3>2. Covers(slots', 1 .. chunk' - 1)
      BY <1>5, <1>6, <2>1, <3>1
    <3> QED
      BY <1>1, <1>6, <2>1, <3>2 DEF ChunkInv
  <2>6. StepInv' /\ EndInv'
    BY <1>1, <2>1, <2>3 DEF StepInv, EndInv, Before, During
  <2> QED
    BY <1>3, <2>4, <2>5, <2>6 DEF Inv
<1>7. CASE ~ (mode = "chunk" /\ chunk < Chunks)
  <2>1. pc' = "done" /\ outcome' = "swapped" /\ UNCHANGED <<mode, chunk, attempt>>
    BY <1>7 DEF Delivered
  <2>2. Rested(slots')
    <3>1. \A i \in 1 .. n - 1 : slots[i].doubt # "lost" => slots[i].fate # "open"
      BY <1>1 DEF LastNew, Old
    <3> QED
      BY <1>1, <3>1 DEF Rested
  <2>3. Covers(slots', Parts)
    <3>1. CASE mode = "chunk"
      <4>1. Parts = 1 .. chunk
        BY <1>1, <1>7, <3>1 DEF Parts
      <4> QED
        BY <1>5, <3>1, <4>1
    <3>2. CASE mode # "chunk"
      <4>1. slots'[n].parts = Parts /\ n \in 1 .. Len(slots')
        BY <1>1, <1>2, <3>2 DEF TakenBy
      <4> QED
        BY <1>2, <4>1 DEF Covers
    <3> QED
      BY <3>1, <3>2
  <2>4. Types'
    BY <1>1, <1>2, <2>1 DEF Types, Sides
  <2>5. ChunkInv'
    BY <1>1, <1>4, <2>1 DEF ChunkInv, Fit
  <2>6. StepInv' /\ EndInv'
    BY <2>1, <2>2, <2>3 DEF StepInv, EndInv, Before, During
  <2> QED
    BY <1>3, <2>4, <2>5, <2>6 DEF Inv
<1> QED
  BY <1>6, <1>7

\* The chain mines a transaction.
LEMMA MineKeeps ==
    ASSUME Inv, NEW n \in DOMAIN slots, Mine(n)
    PROVE  Inv'
<1>1. PICK f \in {"swapped", "reverted", "cancelled"} : slots' = Mined(slots, n, f)
  BY DEF Mine, Mined
<1>2. /\ n \in 1 .. Len(slots) /\ slots[n].fate = "open" /\ slots \in Seq(Slot)
      /\ UNCHANGED <<pc, mode, chunk, attempt, moved, held, hash, gas, lost,
                     outcome>>
  BY SlotFacts DEF Mine, Inv
<1>3. Types /\ chunk \in Nat /\ Types'
  BY <1>2, ConstantsAssumption DEF Inv, Types, Parts
<1>4. slots' \in Seq(Slot) /\ Len(slots') = Len(slots)
  BY <1>1, <1>2, MinedType
<1>5. \A P : Covers(slots, P) => Covers(slots', P)
  <2>1. FALSE => mode = "chunk"
    OBVIOUS
  <2> QED
    BY <1>1, <1>2, <1>3, <2>1, MinedKeeps
<1>6. Rested(slots) => Rested(slots')
  <2>1. FALSE => mode = "chunk"
    OBVIOUS
  <2> QED
    BY <1>1, <1>2, <1>3, <2>1, MinedKeeps
<1>7. ASSUME outcome # "swapped"
      PROVE  /\ AllOld(slots, mode, chunk, moved) => AllOld(slots', mode, chunk, moved)
             /\ LastNew(slots, mode, chunk, moved) =>
                   /\ LastNew(slots', mode, chunk, moved)
                   /\ slots[Len(slots)].fate = "swapped" =>
                         slots'[Len(slots')].fate = "swapped"
             /\ LastOpen(slots, mode, chunk, moved) => Apart(slots')
  <2>1. (moved => mode = "chunk") /\ Apart(slots)
    BY <1>7 DEF Inv, ChunkInv
  <2>2. LET r == Mined(slots, n, f) IN
        /\ AllOld(slots, mode, chunk, moved) => AllOld(r, mode, chunk, moved)
        /\ LastNew(slots, mode, chunk, moved) =>
              /\ LastNew(r, mode, chunk, moved)
              /\ slots[Len(slots)].fate = "swapped" =>
                    r[Len(slots)].fate = "swapped"
        /\ Apart(slots) /\ (LastOpen(slots, mode, chunk, moved) \/ Rested(slots))
              => Apart(r)
    BY <1>2, <1>3, <2>1, MinedKeeps
  <2> QED
    BY <1>1, <1>4, <2>1, <2>2
<1>8. Apart(slots')
  <2>1. CASE outcome = "swapped"
    <3>1. Rested(slots) /\ Apart(slots) /\ (FALSE => mode = "chunk")
      BY <2>1 DEF Inv, EndInv
    <3> QED
      BY <1>1, <1>2, <1>3, <3>1, MinedKeeps
  <2>2. CASE outcome # "swapped"
    <3>1. LastOpen(slots, mode, chunk, moved)
      BY <2>2 DEF Inv, StepInv, EndInv, LastOpen
    <3> QED
      BY <1>7, <2>2, <3>1
  <2> QED
    BY <2>1, <2>2
<1>9. StepInv'
  BY <1>2, <1>7 DEF Inv, StepInv, Before, During
<1>10. EndInv'
  BY <1>2, <1>5, <1>6, <1>7 DEF Inv, EndInv, LastOpen
<1>11. ChunkInv'
  BY <1>2, <1>5 DEF Inv, ChunkInv
<1> QED
  BY <1>3, <1>4, <1>8, <1>9, <1>10, <1>11 DEF Inv

-----------------------------------------------------------------------------
(* The invariant. *)

\* What Forget leaves of the cancel.
LEMMA ForgetType == Forget => held' \in BOOLEAN /\ hash' \in BOOLEAN
BY Zenon DEF Forget

\* Nothing has been sent.
LEMMA InitInv == Init => Inv
<1> SUFFICES ASSUME Init PROVE Inv
  OBVIOUS
<1>1. slots = <<>> /\ slots \in Seq(Slot) /\ Len(slots) = 0
  BY EmptySeq DEF Init
<1>2. Types
  <2>1. moved \in BOOLEAN /\ held \in BOOLEAN /\ hash \in BOOLEAN
    BY Zenon DEF Init
  <2> QED
    BY <2>1, ConstantsAssumption DEF Init, Types, Parts
<1>3. AllOld(slots, mode, chunk, moved) /\ Apart(slots)
  BY <1>1 DEF AllOld, Apart
<1>4. StepInv /\ EndInv /\ ChunkInv
  <2>1. Covers(slots, 1 .. 0)
    BY DEF Covers
  <2> QED
    BY <1>3, <2>1 DEF Init, StepInv, EndInv, ChunkInv, Before, During
<1> QED
  BY <1>1, <1>2, <1>3, <1>4 DEF Inv

\* A transaction is sent, and awaited.
LEMMA SendKeeps ==
    ASSUME Inv, pc \in {"send", "router"}, NEW p \in During, pc' = p, p # "landed",
           p = "routerWait" => mode = "router",
           slots' = Append(slots, NewSlot("none")), Sides,
           UNCHANGED <<mode, chunk, attempt, moved, outcome>>
    PROVE  Inv'
<1>1. /\ Fit(slots) /\ Types /\ AllOld(slots, mode, chunk, moved)
      /\ outcome = "none"
  BY PlaceFacts DEF Before
<1>2. /\ NewSlot("none") \in Slot /\ NewSlot("none").fate = "open"
      /\ New(NewSlot("none"), mode, chunk)
  BY <1>1 DEF NewSlot, Slot, New, Taken, TakenBy, Types
<1>3. Fit(slots')
  BY <1>1, <1>2, AppendFacts, AppendOpen DEF Fit
<1>4. LastNew(slots', mode, chunk, moved)
  BY <1>1, <1>2, AppendNew DEF Fit
<1>5. attempt' \in 1 .. MaxAttempts
  BY <1>1 DEF Types
<1> QED
  BY <1>1, <1>3, <1>4, <1>5, GoesOn DEF Before, During

\* An attempt goes out unnoticed: its slot is old from the start.
LEMMA UnnoticedKeeps == Inv /\ SendGoesUnnoticed => Inv'
<1> SUFFICES ASSUME Inv, SendGoesUnnoticed PROVE Inv'
  OBVIOUS
<1>1. /\ Fit(slots) /\ Types /\ AllOld(slots, mode, chunk, moved)
      /\ outcome = "none"
  BY PlaceFacts DEF Before, SendGoesUnnoticed
<1>2. /\ NewSlot("lost") \in Slot /\ NewSlot("lost").fate = "open"
      /\ NewSlot("lost").doubt = "lost"
  BY <1>1 DEF NewSlot, Slot, Taken, Types
<1>3. Fit(slots')
  BY <1>1, <1>2, AppendFacts, AppendOpen DEF Fit, SendGoesUnnoticed
<1>4. AllOld(slots', mode, chunk, moved)
  BY <1>1, <1>2, AppendNew DEF Fit, SendGoesUnnoticed
<1>5. Sides
  BY <1>1, ConstantsAssumption DEF Sides, Types, SendGoesUnnoticed
<1>6. attempt' \in 1 .. MaxAttempts
  BY <1>1 DEF Types, SendGoesUnnoticed
<1> QED
  BY <1>1, <1>3, <1>4, <1>5, <1>6, GoesOn DEF Before, During, SendGoesUnnoticed

\* A send fails with a swap that may be behind it: the swap stops there.
LEMMA SendFailsKeeps == Inv /\ SendFails => Inv'
<1> SUFFICES ASSUME Inv, SendFails PROVE Inv'
  OBVIOUS
<1>1. /\ Fit(slots) /\ Types /\ AllOld(slots, mode, chunk, moved)
      /\ outcome = "none"
  BY PlaceFacts DEF Before, SendFails
<1>2. Sides
  BY <1>1 DEF Sides, Types, SendFails
<1>3. Stop("unsettled")
  BY DEF SendFails, NoFallback
<1>4. CASE slots' = slots
  <2>1. Fit(slots') /\ LastOpen(slots', mode, chunk, moved)
    BY <1>1, <1>4 DEF LastOpen
  <2> QED
    BY <1>1, <1>2, <1>3, <2>1, Stops
<1>5. CASE slots' = Append(slots, NewSlot("none"))
  <2>1. /\ NewSlot("none") \in Slot /\ NewSlot("none").fate = "open"
        /\ New(NewSlot("none"), mode, chunk)
    BY <1>1 DEF NewSlot, Slot, New, Taken, TakenBy, Types
  <2>2. Fit(slots')
    BY <1>1, <1>5, <2>1, AppendFacts, AppendOpen DEF Fit
  <2>3. LastOpen(slots', mode, chunk, moved)
    BY <1>1, <1>5, <2>1, AppendNew DEF Fit, LastOpen
  <2> QED
    BY <1>1, <1>2, <1>3, <2>2, <2>3, Stops
<1> QED
  BY <1>4, <1>5 DEF SendFails

\* The swap awaited is lost from sight, and another route taken or none.
LEMMA LostKeeps ==
    ASSUME Inv, pc \in During, slots' = Doubted(slots, "lost"), Sides,
           \/ NextRoute(FALSE)
           \/ mode = "router" /\ Stop("failed")
    PROVE  Inv'
<1>1. /\ Fit(slots) /\ LastNew(slots, mode, chunk, moved) /\ chunk \in Nat
      /\ outcome = "none"
  BY PlaceFacts
<1>2. Fit(slots') /\ AllOld(slots', mode, chunk, moved)
  BY <1>1, LostFacts DEF Fit
<1>3. CASE NextRoute(FALSE)
  BY <1>1, <1>2, <1>3, RouteTaken
<1>4. CASE mode = "router" /\ Stop("failed")
  BY <1>1, <1>2, <1>4, Stops
<1> QED
  BY <1>3, <1>4

\* A cancel changes nothing of the slot that the invariant speaks of.
LEMMA CancelKeeps ==
    ASSUME Inv, pc \in {"cancel", "routerWait"}, NEW p \in {"cancelWait", "settle", "routerWait"},
           pc' = p, p = "routerWait" => pc = "routerWait", NEW l \in BOOLEAN, slots' = Contested(slots, l), Sides,
           UNCHANGED <<mode, chunk, attempt, moved, outcome>>
    PROVE  Inv'
<1> DEFINE n == Len(slots)
<1>1. /\ Fit(slots) /\ Types /\ LastNew(slots, mode, chunk, moved)
      /\ outcome = "none" /\ n \in 1 .. n /\ slots \in Seq(Slot) /\ n > 0
  BY PlaceFacts DEF During, Fit
<1>2. /\ slots' \in Seq(Slot) /\ Len(slots') = n
      /\ slots'[n].fate = slots[n].fate /\ slots'[n].doubt = slots[n].doubt
      /\ slots'[n].parts = slots[n].parts
      /\ \A i \in 1 .. n : i # n => slots'[i] = slots[i]
  <2>1. LET t == Contested(slots, l) IN
        /\ t \in Seq(Slot) /\ Len(t) = n
        /\ t[n].fate = slots[n].fate /\ t[n].doubt = slots[n].doubt
        /\ t[n].parts = slots[n].parts
        /\ \A i \in 1 .. n : i # n => t[i] = slots[i]
    <3>1. "none" \in {"none", "lost", "stale"}
      OBVIOUS
    <3> QED
      BY <1>1, <3>1, MarkedFacts
  <2> QED
    BY <2>1
<1>3. Apart(slots')
  BY <1>1, <1>2, ApartKept DEF Fit
<1>4. mode = "chunk" => Covers(slots', 1 .. chunk - 1)
  BY <1>1, <1>2, CoversKept DEF Fit, Done
<1>5. LastNew(slots', mode, chunk, moved)
  BY <1>1, <1>2 DEF LastNew, New
<1>6. attempt' \in 1 .. MaxAttempts
  BY <1>1 DEF Types
<1>7. p = "routerWait" => mode = "router"
  BY DEF Inv, StepInv
<1> QED
  BY <1>1, <1>2, <1>3, <1>4, <1>5, <1>6, <1>7, GoesOn DEF Before, During, Fit

\* Every step of the code, one case an action.
LEMMA CodeKeeps ==
    ASSUME Inv, Next, ~ \E n \in DOMAIN slots : Mine(n)
    PROVE  Inv'
<1>0. /\ Fit(slots) /\ Types /\ Len(slots) \in Nat
      /\ pc \in Before => AllOld(slots, mode, chunk, moved) /\ outcome = "none"
      /\ pc \in During => /\ LastNew(slots, mode, chunk, moved)
                          /\ outcome = "none" /\ Len(slots) > 0
      /\ slots \in Seq(Slot)
      /\ pc \in {"router", "routerWait"} => mode = "router"
      /\ pc = "requote" => attempt < MaxAttempts
  BY PlaceFacts DEF Fit, Inv, StepInv
<1>1. CASE QuoteFails
  <2>1. Sides /\ slots' = slots
    BY <1>0, <1>1 DEF QuoteFails, Sides, Types
  <2> QED
    BY <1>0, <1>1, <2>1, RouteTaken DEF QuoteFails, Before
<1>2. CASE Quote
  <2>1. Sides /\ slots' = slots /\ attempt' \in 1 .. MaxAttempts
    BY <1>0, <1>2 DEF Quote, Sides, Types, aside
  <2> QED
    BY <1>0, <1>2, <2>1, GoesOn DEF Quote, Before, During, aside
<1>3. CASE Approve
  <2>1. Sides /\ slots' = slots
    BY <1>0, <1>3 DEF Approve, Sides, Types
  <2>2. CASE pc' = "send" /\ UNCHANGED <<mode, chunk, attempt, moved, outcome>>
    <3>1. attempt' \in 1 .. MaxAttempts
      BY <1>0, <2>2 DEF Types
    <3> QED
      BY <1>0, <1>3, <2>1, <2>2, <3>1, GoesOn DEF Approve, Before, During
  <2>3. CASE \E impact \in BOOLEAN : NextRoute(impact)
    BY <1>0, <1>3, <2>1, <2>3, RouteTaken DEF Approve, Before
  <2> QED
    BY <1>3, <2>2, <2>3 DEF Approve
<1>4. CASE Send
  <2>1. Sides
    BY <1>0, <1>4 DEF Send, Sides, Types, aside
  <2> QED
    BY <1>4, <2>1, SendKeeps DEF Send, During, aside
<1>5. CASE SendGoesUnnoticed
  BY <1>5, UnnoticedKeeps
<1>6. CASE SendRefused
  <2>1. Sides /\ slots' = slots
    BY <1>0, <1>6 DEF SendRefused, Sides, Types
  <2> QED
    BY <1>0, <1>6, <2>1, RouteTaken DEF SendRefused, Before
<1>7. CASE SendFails
  BY <1>7, SendFailsKeeps
<1>8. CASE WaitConfirms
  <2>1. Sides /\ slots' = slots /\ attempt' \in 1 .. MaxAttempts
    BY <1>0, <1>8 DEF WaitConfirms, Sides, Types, aside
  <2> QED
    BY <1>0, <1>8, <2>1, GoesOn DEF WaitConfirms, Before, During, aside, Current
<1>9. CASE WaitReverts
  <2>1. Sides /\ slots' = slots
    BY <1>0, <1>9 DEF WaitReverts, Sides, Types
  <2>2. AllOld(slots, mode, chunk, moved) /\ outcome = "none"
    BY <1>0, <1>9, LastEnds DEF WaitReverts, During, Current
  <2> QED
    BY <1>0, <1>9, <2>1, <2>2, SpentKeeps DEF WaitReverts
<1>10. CASE WaitTimesOut
  <2>1. Sides /\ slots' = slots /\ attempt' \in 1 .. MaxAttempts
    BY <1>0, <1>10 DEF WaitTimesOut, Sides, Types, aside
  <2> QED
    BY <1>0, <1>10, <2>1, GoesOn DEF WaitTimesOut, Before, During, aside
<1>11. CASE WaitFails
  <2>1. Sides
    BY <1>0, <1>11 DEF WaitFails, Sides, Types
  <2> QED
    BY <1>11, <2>1, LostKeeps DEF WaitFails, During, Doubtful, Doubted
<1>12. CASE Cancel
  <2>1. Sides
    BY <1>0, <1>12 DEF Cancel, Sides, Types, aside
  <2> QED
    BY <1>12, <2>1, CancelKeeps DEF Cancel, aside, Cancelling, Contested
<1>13. CASE CancelFails
  <2>1. Sides
    BY <1>0, <1>13 DEF CancelFails, Sides, Types, aside
  <2>2. PICK l \in BOOLEAN : slots' = Contested(slots, l)
    BY <1>13 DEF CancelFails, Cancelling, Contested
  <2> QED
    BY <1>13, <2>1, <2>2, CancelKeeps DEF CancelFails, aside
<1>14. CASE CancelWaited
  <2>1. Sides /\ slots' = slots /\ attempt' \in 1 .. MaxAttempts
    BY <1>0, <1>14 DEF CancelWaited, Sides, Types, aside
  <2> QED
    BY <1>0, <1>14, <2>1, GoesOn DEF CancelWaited, Before, During, aside
<1>15. CASE SettleLanded
  <2>1. Sides /\ slots' = slots /\ attempt' \in 1 .. MaxAttempts
    BY <1>0, <1>15, ForgetType DEF SettleLanded, Sides, Types, aside
  <2> QED
    BY <1>0, <1>15, <2>1, GoesOn DEF SettleLanded, Before, During, aside, Current
<1>16. CASE SettleSpent
  <2>1. Sides /\ slots' = slots
    BY <1>0, <1>16, ForgetType DEF SettleSpent, Sides, Types, ClosingGas
  <2>2. AllOld(slots, mode, chunk, moved) /\ outcome = "none"
    BY <1>0, <1>16, LastEnds DEF SettleSpent, During, Current, ClosedSeen
  <2> QED
    BY <1>0, <1>16, <2>1, <2>2, SpentKeeps DEF SettleSpent
<1>17. CASE SettleUnsettled
  <2>1. Sides /\ slots' = slots
    BY <1>0, <1>17, ForgetType DEF SettleUnsettled, Sides, Types
  <2>2. LastOpen(slots, mode, chunk, moved) /\ outcome = "none"
    BY <1>0, <1>17 DEF SettleUnsettled, During, LastOpen
  <2> QED
    BY <1>0, <1>17, <2>1, <2>2, Stops DEF SettleUnsettled, NoFallback
<1>18. CASE Requote
  <2>1. Sides /\ slots' = slots /\ attempt' \in 1 .. MaxAttempts
    BY <1>0, <1>18, ConstantsAssumption DEF Requote, Sides, Types, aside
  <2> QED
    BY <1>0, <1>18, <2>1, GoesOn DEF Requote, Before, During, aside
<1>19. CASE RouterFails
  <2>1. Sides /\ slots' = slots
    BY <1>0, <1>19 DEF RouterFails, Sides, Types
  <2> QED
    BY <1>0, <1>19, <2>1, Stops DEF RouterFails, Before
<1>20. CASE RouterSend
  <2>1. Sides
    BY <1>0, <1>20 DEF RouterSend, Sides, Types, aside
  <2> QED
    BY <1>0, <1>20, <2>1, SendKeeps DEF RouterSend, During, aside
<1>21. CASE RouterConfirms
  <2>1. Sides /\ slots' = slots /\ attempt' \in 1 .. MaxAttempts
    BY <1>0, <1>21 DEF RouterConfirms, Sides, Types, aside
  <2> QED
    BY <1>0, <1>21, <2>1, GoesOn DEF RouterConfirms, Before, During, aside, Current
<1>22. CASE RouterSpent
  <2>1. Sides /\ slots' = slots
    BY <1>0, <1>22 DEF RouterSpent, Sides, Types
  <2>2. AllOld(slots, mode, chunk, moved) /\ outcome = "none" /\ mode = "router"
    BY <1>0, <1>22, LastEnds DEF RouterSpent, During, Current
  <2> QED
    BY <1>0, <1>22, <2>1, <2>2, Stops DEF RouterSpent
<1>23. CASE RouterGivesUp
  <2>1. Sides
    BY <1>0, <1>23 DEF RouterGivesUp, Sides, Types
  <2> QED
    BY <1>0, <1>23, <2>1, LostKeeps DEF RouterGivesUp, During, Doubtful, Doubted
<1>24. CASE BalanceRises
  <2>1. Sides /\ slots' = slots
    BY <1>0, <1>24 DEF BalanceRises, Sides, Types
  <2>2. slots[Len(slots)].doubt = "none"
    BY <1>0, <1>24 DEF BalanceRises, During, LastNew, New
  <2> QED
    BY <1>0, <1>24, <2>1, <2>2, DeliveredKeeps DEF BalanceRises
<1>25. CASE BalanceStale
  <2>1. Sides /\ slots' = Doubted(slots, "stale") /\ moved' = moved
    BY <1>0, <1>25 DEF BalanceStale, Sides, Types, Doubtful, Doubted
  <2>2. Len(slots) > 0
    BY <1>0, <1>25 DEF BalanceStale, During
  <2>3. LET n == Len(slots) IN
        /\ slots' \in Seq(Slot) /\ Len(slots') = n
        /\ slots'[n].fate = slots[n].fate /\ slots'[n].doubt = "stale"
        /\ slots'[n].parts = slots[n].parts
        /\ \A i \in 1 .. n : i # n => slots'[i] = slots[i]
    BY <1>0, <2>1, <2>2, MarkedFacts
  <2> QED
    BY <1>0, <1>25, <2>1, <2>3, DeliveredKeeps DEF BalanceStale
<1>26. CASE BalanceUnread
  <2>1. Sides /\ slots' = slots
    BY <1>0, <1>26 DEF BalanceUnread, Sides, Types
  <2>2. /\ LastNew(slots, mode, chunk, moved) /\ outcome = "none"
        /\ slots[Len(slots)].fate = "swapped"
    BY <1>0, <1>26 DEF BalanceUnread, During, Inv, StepInv
  <2> QED
    BY <1>0, <1>26, <2>1, <2>2, Stops DEF BalanceUnread, NoFallback
<1>27. CASE RouterCancel
  <2>1. Sides
    BY <1>0, <1>27 DEF RouterCancel, Sides, Types, aside
  <2> QED
    BY <1>27, <2>1, CancelKeeps DEF RouterCancel, aside, Cancelling, Contested
<1> QED
  BY <1>1, <1>2, <1>3, <1>4, <1>5, <1>6, <1>7, <1>8, <1>9, <1>10, <1>11, <1>12,
     <1>13, <1>14, <1>15, <1>16, <1>17, <1>18, <1>19, <1>20, <1>21, <1>22, <1>23,
     <1>24, <1>25, <1>26, <1>27 DEF Next

\* The inductive invariant: another route is taken from old slots only.
THEOREM Invariance == Spec => []Inv
<1>1. Inv /\ [Next]_vars => Inv'
  <2> SUFFICES ASSUME Inv, [Next]_vars PROVE Inv'
    OBVIOUS
  <2>1. CASE UNCHANGED vars
    BY <2>1 DEF vars, Inv, Types, StepInv, EndInv, ChunkInv
  <2>2. CASE \E n \in DOMAIN slots : Mine(n)
    BY <2>2, MineKeeps
  <2>3. CASE Next /\ ~ \E n \in DOMAIN slots : Mine(n)
    BY <2>3, CodeKeeps
  <2> QED
    BY <2>1, <2>2, <2>3
<1> QED
  BY <1>1, InitInv, PTL DEF Spec

\* The swap's type invariant.
THEOREM TypeCorrect == Spec => []TypeOK
<1>1. Inv => TypeOK
  BY DEF Inv, Types, StepInv, EndInv, TypeOK, Before, During
<1> QED
  BY <1>1, Invariance, PTL

\* No coins are swapped twice by the transactions the code keeps sight of.
THEOREM NoDoubleSwapCorrect == Spec => []NoDoubleSwap
<1>1. Inv => NoDoubleSwap
  BY SlotFacts DEF Inv, Apart, NoDoubleSwap, Known
<1> QED
  BY <1>1, Invariance, PTL

\* What the swap answers is true of the chain, and stays true.
THEOREM AnswerCorrect == Spec => []AnswerIsTrue
<1>1. ASSUME Inv PROVE AnswerIsTrue
  <2> DEFINE moving == {i \in Known : slots[i].fate = "open"}
             done   == {i \in DOMAIN slots :
                           slots[i].fate = "swapped" /\ slots[i].doubt # "lost"}
             gone   == UNION {slots[i].parts : i \in done}
  <2>1. /\ DOMAIN slots = 1 .. Len(slots) /\ Len(slots) \in Nat
        /\ \A i \in DOMAIN slots : slots[i] \in Slot
        /\ \A i \in DOMAIN slots : slots[i].parts \subseteq Parts
    BY <1>1, SlotFacts DEF Inv, Slot
  <2>2. done = {i \in 1 .. Len(slots) : Done(slots[i])}
    BY <2>1 DEF Done
  <2>3. \A P : Covers(slots, P) => P \subseteq gone
    BY <2>2 DEF Covers
  <2>4. gone \subseteq Parts
    BY <2>1
  <2>5. AllOld(slots, mode, chunk, moved) \/ Rested(slots) => moving = {}
    BY <2>1 DEF AllOld, Rested, Old, Known
  <2>6. outcome \in {"swapped", "partial", "failed"} => moving = {}
    BY <1>1, <2>5 DEF Inv, EndInv
  <2>7. outcome = "swapped" => gone = Parts
    BY <1>1, <2>3, <2>4 DEF Inv, EndInv
  <2>8. ASSUME outcome = "partial" PROVE gone # {} /\ gone # Parts
    <3>1. /\ mode = "chunk" /\ chunk > 1 /\ chunk \in Parts /\ Chunks \in Nat
          /\ AllOld(slots, mode, chunk, moved) /\ Covers(slots, 1 .. chunk - 1)
      BY <1>1, <2>8, ConstantsAssumption DEF Inv, EndInv, ChunkInv, Types
    <3>2. 1 \in 1 .. chunk - 1 /\ chunk \notin 1 .. chunk - 1
      BY <3>1 DEF Parts
    <3>3. gone \subseteq 1 .. chunk - 1
      BY <2>2, <3>1 DEF AllOld, Old
    <3> QED
      BY <2>3, <3>1, <3>2, <3>3
  <2>9. outcome = "failed" => done \cap Known = {}
    <3> SUFFICES ASSUME outcome = "failed", NEW i \in done, i \in Known PROVE FALSE
      OBVIOUS
    <3>1. AllOld(slots, mode, chunk, moved) /\ mode = "router"
      BY <1>1 DEF Inv, EndInv
    <3>2. Old(slots[i], mode, chunk, moved) /\ Done(slots[i])
      BY <2>2, <3>1 DEF AllOld
    <3> QED
      BY <3>1, <3>2 DEF Old, Known
  <2>10. ASSUME outcome = "unread" PROVE gone # {}
    <3>1. /\ LastNew(slots, mode, chunk, moved)
          /\ slots[Len(slots)].fate = "swapped"
      BY <1>1, <2>10 DEF Inv, EndInv
    <3>2. Len(slots) \in done /\ slots[Len(slots)].parts # {}
      BY <1>1, <2>1, <3>1, ConstantsAssumption
      DEF LastNew, New, TakenBy, Parts
    <3> QED
      BY <3>2
  <2> QED
    BY <2>6, <2>7, <2>8, <2>9, <2>10 DEF AnswerIsTrue
<1> QED
  BY <1>1, Invariance, PTL

-----------------------------------------------------------------------------
(* Gas. *)

\* The transactions mined for the swap, but for those lost from sight.
Paid(q) == {i \in 1 .. Len(q) : q[i].fate # "open" /\ q[i].doubt # "lost"}

\* Where a transaction is awaited, whose gas is counted once it is known.
Awaiting == {"wait", "cancel", "cancelWait", "settle", "routerWait"}

Owed(q) == IF q[Len(q)].fate = "open" THEN 0 ELSE 1

\* All that is paid is counted, but for the transaction awaited and, once the
\* swap has ended unsettled, the one it ended on.
GasInv ==
    /\ pc \in Awaiting => Cardinality(Paid(slots)) = gas + Owed(slots)
    /\ pc \notin Awaiting =>
          \/ Cardinality(Paid(slots)) = gas
          \/ /\ outcome = "unsettled" /\ Rested(slots)
             /\ Cardinality(Paid(slots)) = gas + 1

\* What is paid is finite, and so has a size.
LEMMA PaidFinite ==
    ASSUME NEW q \in Seq(Slot)
    PROVE  IsFiniteSet(Paid(q)) /\ Cardinality(Paid(q)) \in Nat
<1>1. IsFiniteSet(1 .. Len(q))
  BY SlotFacts, FS_Interval
<1>2. Paid(q) \in SUBSET (1 .. Len(q))
  BY DEF Paid
<1> QED
  BY <1>1, <1>2, FS_Subset, FS_CardinalityType

\* A slot appended is not mined yet.
LEMMA PaidAppend ==
    ASSUME NEW q \in Seq(Slot), NEW s \in Slot, s.fate = "open"
    PROVE  Paid(Append(q, s)) = Paid(q) /\ Owed(Append(q, s)) = 0
<1> DEFINE r == Append(q, s)
<1>1. /\ Len(r) = Len(q) + 1 /\ r[Len(q) + 1] = s /\ Len(q) \in Nat
      /\ \A i \in 1 .. Len(q) : r[i] = q[i]
  BY AppendFacts, SlotFacts
<1> HIDE DEF r
<1>2. \A i \in 1 .. Len(r) : i \in 1 .. Len(q) \/ i = Len(q) + 1
  BY <1>1
<1>3. Paid(r) = Paid(q)
  BY <1>1, <1>2 DEF Paid
<1>4. Owed(r) = 0
  BY <1>1 DEF Owed
<1> QED
  BY <1>3, <1>4 DEF r

\* Slots that differ in nothing that is paid.
LEMMA PaidSame ==
    ASSUME NEW q, NEW r, Len(r) = Len(q),
           \A i \in 1 .. Len(q) :
               r[i].fate = q[i].fate /\ (r[i].doubt = "lost" <=> q[i].doubt = "lost")
    PROVE  Paid(r) = Paid(q)
BY DEF Paid

\* The transaction awaited is lost from sight, and with it what it is owed.
LEMMA PaidLost ==
    ASSUME NEW q \in Seq(Slot), Len(q) > 0, q[Len(q)].doubt # "lost"
    PROVE  Cardinality(Paid(Doubted(q, "lost"))) = Cardinality(Paid(q)) - Owed(q)
<1> DEFINE r == Doubted(q, "lost")
           n == Len(q)
<1>1. /\ Len(r) = n /\ r[n].fate = q[n].fate /\ r[n].doubt = "lost"
      /\ \A i \in 1 .. n : i # n => r[i] = q[i]
  BY MarkedFacts
<1>2. n \in 1 .. n
  BY SlotFacts
<1> HIDE DEF r
<1>3. Paid(r) = Paid(q) \ {n}
  BY <1>1, <1>2 DEF Paid
<1>4. n \in Paid(q) <=> q[n].fate # "open"
  BY <1>2 DEF Paid
<1>5. Cardinality(Paid(q) \ {n}) =
         IF n \in Paid(q) THEN Cardinality(Paid(q)) - 1 ELSE Cardinality(Paid(q))
  BY PaidFinite, FS_RemoveElement
<1>6. Cardinality(Paid(r)) = Cardinality(Paid(q)) - Owed(q)
  BY <1>3, <1>4, <1>5, PaidFinite DEF Owed
<1> QED
  BY <1>6 DEF r

\* A transaction is mined: it is paid, unless it is lost from sight.
LEMMA PaidMined ==
    ASSUME NEW q \in Seq(Slot), NEW n \in 1 .. Len(q), q[n].fate = "open",
           NEW f \in {"swapped", "reverted", "cancelled"}
    PROVE  Cardinality(Paid(Mined(q, n, f))) =
              Cardinality(Paid(q)) + (IF q[n].doubt = "lost" THEN 0 ELSE 1)
<1> DEFINE r == Mined(q, n, f)
<1>1. /\ Len(r) = Len(q) /\ r[n].fate = f /\ r[n].doubt = q[n].doubt
      /\ \A i \in 1 .. Len(q) : i # n => r[i] = q[i]
  BY MinedFacts
<1> HIDE DEF r
<1>2. n \notin Paid(q)
  BY DEF Paid
<1>3. Paid(r) = IF q[n].doubt = "lost" THEN Paid(q) ELSE Paid(q) \cup {n}
  BY <1>1 DEF Paid
<1>4. Cardinality(Paid(q) \cup {n}) = Cardinality(Paid(q)) + 1
  BY <1>2, PaidFinite, FS_AddElement
<1>5. Cardinality(Paid(r)) = Cardinality(Paid(q)) + (IF q[n].doubt = "lost" THEN 0 ELSE 1)
  BY <1>3, <1>4, PaidFinite
<1> QED
  BY <1>5 DEF r

\* Where every slot is old, or the last has swapped, nothing is left to mine.
LEMMA OldRested ==
    ASSUME NEW q \in Seq(Slot), NEW m, NEW c, NEW v
    PROVE  /\ AllOld(q, m, c, v) => Rested(q)
           /\ LastNew(q, m, c, v) /\ q[Len(q)].fate # "open" => Rested(q)
           /\ LastNew(q, m, c, v) => \A i \in 1 .. Len(q) :
                 q[i].fate = "open" /\ q[i].doubt # "lost" => i = Len(q)
<1>1. \A i \in 1 .. Len(q) : i \in 1 .. Len(q) - 1 \/ i = Len(q)
  BY SlotFacts
<1> QED
  BY <1>1 DEF AllOld, LastNew, Rested, Old

\* What is mined is paid, and what is awaited is owed once it is mined.
LEMMA GasMine ==
    ASSUME Inv, GasInv, NEW n \in DOMAIN slots, Mine(n) PROVE GasInv'
<1>1. PICK f \in {"swapped", "reverted", "cancelled"} : slots' = Mined(slots, n, f)
  BY DEF Mine, Mined
<1>2. /\ n \in 1 .. Len(slots) /\ slots[n].fate = "open" /\ slots \in Seq(Slot)
      /\ UNCHANGED <<pc, gas, outcome>>
  BY SlotFacts DEF Mine, Inv
<1>3. /\ Len(slots') = Len(slots) /\ slots'[n].fate = f /\ f # "open"
      /\ slots'[n].doubt = slots[n].doubt
      /\ \A i \in 1 .. Len(slots) : i # n => slots'[i] = slots[i]
  <2>1. LET r == Mined(slots, n, f) IN
        /\ Len(r) = Len(slots) /\ r[n].fate = f /\ r[n].doubt = slots[n].doubt
        /\ \A i \in 1 .. Len(slots) : i # n => r[i] = slots[i]
    BY <1>2, MinedFacts
  <2>2. f # "open"
    OBVIOUS
  <2> QED
    BY <1>1, <2>1, <2>2
<1>4. Cardinality(Paid(slots')) =
         Cardinality(Paid(slots)) + (IF slots[n].doubt = "lost" THEN 0 ELSE 1)
  BY <1>1, <1>2, PaidMined
<1>5. Cardinality(Paid(slots)) \in Nat /\ gas \in Nat /\ Len(slots) \in Nat
  BY <1>2, PaidFinite, SlotFacts DEF Inv, Types
<1>6. Rested(slots) => Rested(slots')
  BY <1>2, <1>3 DEF Rested
<1>7. CASE slots[n].doubt = "lost"
  <2>1. Cardinality(Paid(slots')) = Cardinality(Paid(slots))
    BY <1>4, <1>5, <1>7
  <2>2. pc \in Awaiting => Owed(slots') = Owed(slots)
    <3>1. pc \in Awaiting => n # Len(slots) /\ Len(slots) \in 1 .. Len(slots)
      BY <1>5, <1>7 DEF Awaiting, During, Inv, StepInv, LastNew, New
    <3> QED
      BY <1>3, <3>1 DEF Owed
  <2> QED
    BY <1>2, <1>6, <2>1, <2>2 DEF GasInv
<1>8. CASE slots[n].doubt # "lost"
  <2>1. Cardinality(Paid(slots')) = Cardinality(Paid(slots)) + 1 /\ ~Rested(slots)
    BY <1>2, <1>4, <1>5, <1>8 DEF Rested
  <2>2. CASE pc \in Awaiting
    <3>1. LastNew(slots, mode, chunk, moved)
      BY <2>2 DEF Awaiting, During, Inv, StepInv
    <3>2. n = Len(slots)
      BY <1>2, <1>8, <3>1, OldRested
    <3>3. Owed(slots) = 0 /\ Owed(slots') = 1
      BY <1>2, <1>3, <3>2 DEF Owed
    <3> QED
      BY <1>2, <1>5, <2>1, <2>2, <3>3 DEF GasInv
  <2>3. CASE pc \notin Awaiting
    <3>1. pc = "done"
      <4>1. pc \in Before => Rested(slots)
        BY <1>2, OldRested DEF Inv, StepInv
      <4>2. pc = "landed" => Rested(slots)
        BY <1>2, OldRested DEF Inv, StepInv, During
      <4> QED
        BY <2>1, <2>3, <4>1, <4>2 DEF Inv, StepInv, Awaiting, During
    <3>2. outcome = "unsettled" /\ LastNew(slots, mode, chunk, moved)
      BY <1>2, <2>1, <3>1, OldRested DEF Inv, StepInv, EndInv, LastOpen
    <3>3. Rested(slots')
      <4>1. n = Len(slots)
        BY <1>2, <1>8, <3>2, OldRested
      <4>2. \A i \in 1 .. Len(slots) : slots[i].doubt # "lost" /\ i # n =>
               slots[i].fate # "open"
        BY <1>2, <3>2, <4>1, OldRested
      <4> QED
        BY <1>3, <4>2 DEF Rested
    <3> QED
      BY <1>2, <2>1, <2>3, <3>2, <3>3 DEF GasInv
  <2> QED
    BY <2>2, <2>3
<1> QED
  BY <1>7, <1>8

\* Where the routes lead: no awaited transaction is left behind.
LEMMA RoutesOn ==
    /\ \A impact : NextRoute(impact) => pc' \notin Awaiting
    /\ Spent => pc' \notin Awaiting
    /\ Delivered => pc' \notin Awaiting
    /\ \A how : Stop(how) => pc' \notin Awaiting
<1>1. \A impact : NextRoute(impact) => pc' \notin Awaiting
  BY DEF NextRoute, Route, Stop, Awaiting
<1> QED
  BY <1>1 DEF Spent, Delivered, Stop, Awaiting

\* Each step of the code counts what it learns was mined, once.
LEMMA GasCode ==
    ASSUME Inv, GasInv, Next, ~ \E n \in DOMAIN slots : Mine(n) PROVE GasInv'
<1>1. /\ slots \in Seq(Slot) /\ gas \in Nat /\ Cardinality(Paid(slots)) \in Nat
      /\ pc \in Before \cup {"landed"} => Cardinality(Paid(slots)) = gas
      /\ pc \in Awaiting => /\ Cardinality(Paid(slots)) = gas + Owed(slots)
                            /\ LastNew(slots, mode, chunk, moved) /\ Len(slots) > 0
                            /\ slots[Len(slots)].doubt # "lost"
  BY PaidFinite DEF Inv, Types, StepInv, GasInv, Before, During, Awaiting, LastNew, New
<1>2. ASSUME slots' = slots, pc' \notin Awaiting,
             \/ pc \in Before \cup {"landed"} /\ gas' = gas
             \/ pc \in Awaiting /\ Current.fate # "open" /\ gas' = gas + 1
      PROVE  GasInv'
  BY <1>1, <1>2 DEF GasInv, Owed, Current
<1>3. CASE QuoteFails \/ Quote \/ Approve \/ SendRefused \/ Requote \/ RouterFails
           \/ BalanceRises \/ BalanceUnread
  <2>1. slots' = slots /\ gas' = gas /\ pc \in Before \cup {"landed"}
    BY <1>3 DEF QuoteFails, Quote, Approve, SendRefused, Requote, RouterFails,
       BalanceRises, BalanceUnread, Before
  <2>2. pc' \notin Awaiting
    BY <1>3, RoutesOn DEF QuoteFails, Quote, Approve, SendRefused, Requote, RouterFails,
       BalanceRises, BalanceUnread, NoFallback, Awaiting
  <2> QED
    BY <1>2, <2>1, <2>2
<1>4. CASE WaitConfirms \/ WaitReverts \/ SettleLanded \/ SettleSpent
           \/ RouterConfirms \/ RouterSpent
  <2>1. slots' = slots /\ gas' = gas + 1 /\ pc \in Awaiting /\ Current.fate # "open"
    BY <1>4 DEF WaitConfirms, WaitReverts, SettleLanded, SettleSpent, ClosingGas,
       ClosedSeen, RouterConfirms, RouterSpent, Awaiting
  <2>2. pc' \notin Awaiting
    BY <1>4, RoutesOn DEF WaitConfirms, WaitReverts, SettleLanded, SettleSpent,
       RouterConfirms, RouterSpent, Awaiting
  <2> QED
    BY <1>2, <2>1, <2>2
<1>5. CASE Send \/ RouterSend \/ SendGoesUnnoticed \/ SendFails
  <2>1. /\ gas' = gas /\ pc \in Before
        /\ pc' \in Awaiting => Send \/ RouterSend
    BY <1>5, RoutesOn DEF Send, RouterSend, SendGoesUnnoticed, SendFails, Before,
       NoFallback, Awaiting
  <2>2. PICK d \in {"none", "lost"} :
           \/ slots' = Append(slots, NewSlot(d))
           \/ slots' = slots /\ SendFails
    BY <1>5 DEF Send, RouterSend, SendGoesUnnoticed, SendFails
  <2>3. NewSlot(d) \in Slot /\ NewSlot(d).fate = "open"
    BY DEF NewSlot, Slot, Taken, Inv, Types
  <2>4. Paid(slots') = Paid(slots)
    BY <1>1, <2>2, <2>3, PaidAppend
  <2>5. pc' \in Awaiting => Owed(slots') = 0
    <3>1. pc' \in Awaiting => slots' = Append(slots, NewSlot("none"))
      BY <2>1 DEF Send, RouterSend
    <3>2. NewSlot("none") \in Slot /\ NewSlot("none").fate = "open"
      BY DEF NewSlot, Slot, Taken, Inv, Types
    <3> QED
      BY <1>1, <3>1, <3>2, PaidAppend
  <2> QED
    BY <1>1, <2>1, <2>4, <2>5 DEF GasInv
<1>6. CASE WaitTimesOut \/ CancelWaited
  <2>1. slots' = slots /\ gas' = gas /\ pc \in Awaiting /\ pc' \in Awaiting
    BY <1>6 DEF WaitTimesOut, CancelWaited, Awaiting
  <2> QED
    BY <1>1, <2>1 DEF GasInv
<1>7. CASE Cancel \/ CancelFails \/ RouterCancel
  <2>1. gas' = gas /\ pc \in Awaiting /\ pc' \in Awaiting
    BY <1>7 DEF Cancel, CancelFails, RouterCancel, Awaiting
  <2>2. PICK l \in BOOLEAN : slots' = Contested(slots, l)
    BY <1>7 DEF Cancel, CancelFails, RouterCancel, Cancelling, Contested
  <2>3. LET n == Len(slots) IN
        /\ Len(slots') = n /\ slots'[n].fate = slots[n].fate
        /\ slots'[n].doubt = slots[n].doubt
        /\ \A i \in 1 .. n : i # n => slots'[i] = slots[i]
    <3>1. LET t == Contested(slots, l)
              n == Len(slots)
          IN  /\ Len(t) = n /\ t[n].fate = slots[n].fate /\ t[n].doubt = slots[n].doubt
              /\ \A i \in 1 .. n : i # n => t[i] = slots[i]
      <4>1. "none" \in {"none", "lost", "stale"}
        OBVIOUS
      <4> QED
        BY <1>1, <2>1, <4>1, MarkedFacts
    <3> QED
      BY <2>2, <3>1
  <2>4. Paid(slots') = Paid(slots) /\ Owed(slots') = Owed(slots)
    BY <2>3 DEF Paid, Owed
  <2> QED
    BY <1>1, <2>1, <2>4 DEF GasInv
<1>8. CASE WaitFails \/ RouterGivesUp
  <2>1. /\ gas' = gas /\ pc \in Awaiting /\ slots' = Doubted(slots, "lost")
        /\ pc' \notin Awaiting
    BY <1>8, RoutesOn DEF WaitFails, RouterGivesUp, Awaiting, Doubtful, Doubted
  <2>2. Cardinality(Paid(slots')) = Cardinality(Paid(slots)) - Owed(slots)
    BY <1>1, <2>1, PaidLost
  <2>3. Owed(slots) \in {0, 1}
    BY DEF Owed
  <2> QED
    BY <1>1, <2>1, <2>2, <2>3 DEF GasInv
<1>9. CASE SettleUnsettled
  <2>1. /\ slots' = slots /\ pc = "settle" /\ pc' = "done" /\ outcome' = "unsettled"
        /\ gas' = gas \/ (Current.fate # "open" /\ gas' = gas + 1)
    BY <1>9 DEF SettleUnsettled, NoFallback, Stop
  <2>2. CASE Current.fate = "open"
    BY <1>1, <2>1, <2>2 DEF GasInv, Owed, Current, Awaiting
  <2>3. CASE Current.fate # "open"
    <3>1. Rested(slots) /\ Cardinality(Paid(slots)) = gas + 1
      BY <1>1, <2>1, <2>3, OldRested DEF Owed, Current, Awaiting
    <3> QED
      BY <2>1, <3>1 DEF GasInv, Awaiting
  <2> QED
    BY <2>2, <2>3
<1>10. CASE BalanceStale
  <2>1. /\ gas' = gas /\ pc = "landed" /\ pc' \notin Awaiting
        /\ slots' = Doubted(slots, "stale")
    BY <1>10, RoutesOn DEF BalanceStale, Doubtful, Doubted
  <2>2. Len(slots) > 0 /\ slots[Len(slots)].doubt = "none"
    BY <2>1 DEF Inv, StepInv, During, LastNew, New
  <2>3. LET n == Len(slots) IN
        /\ Len(slots') = n /\ slots'[n].fate = slots[n].fate
        /\ slots'[n].doubt = "stale"
        /\ \A i \in 1 .. n : i # n => slots'[i] = slots[i]
    BY <1>1, <2>1, <2>2, MarkedFacts
  <2>4. Paid(slots') = Paid(slots)
    BY <2>2, <2>3, PaidSame
  <2> QED
    BY <1>1, <2>1, <2>4 DEF GasInv
<1> QED
  BY <1>3, <1>4, <1>5, <1>6, <1>7, <1>8, <1>9, <1>10 DEF Next

\* Every transaction mined for the swap is counted in its gas once, for any
\* number of chunks, attempts and sends gone unnoticed; only an unsettled swap
\* may leave its last nonce uncounted.
THEOREM GasCountedCorrect == Spec => []GasCounted
<1>1. Init => GasInv
  <2> SUFFICES ASSUME Init PROVE GasInv
    OBVIOUS
  <2>1. Paid(slots) = {} /\ gas = 0 /\ pc = "quote"
    BY EmptySeq DEF Init, Paid
  <2> QED
    BY <2>1, FS_EmptySet DEF GasInv, Awaiting
<1>2. Inv /\ GasInv /\ [Next]_vars => GasInv'
  <2>1. UNCHANGED vars /\ GasInv => GasInv'
    BY DEF vars, GasInv
  <2> QED
    BY <2>1, GasMine, GasCode
<1>3. Inv /\ GasInv => GasCounted
  <2> SUFFICES ASSUME Inv, GasInv, pc = "done"
               PROVE  \/ gas = Cardinality(Paid(slots))
                      \/ /\ outcome = "unsettled" /\ gas <= Cardinality(Paid(slots))
                         /\ Cardinality(Paid(slots)) <= gas + 1
    BY SlotFacts DEF GasCounted, Paid, Inv
  <2>1. gas \in Nat
    BY DEF Inv, Types
  <2> QED
    BY <2>1 DEF GasInv, Awaiting
<1> QED
  BY Invariance, <1>1, <1>2, <1>3, PTL DEF Spec
=============================================================================
