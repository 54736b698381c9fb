-------------------------- MODULE MoveControlProofs --------------------------
(*****************************************************************************)
(* The safety of MoveControl, for any set of positions.  The argument has    *)
(* two halves.  Sound(r) is what the loop keeps true of one position's       *)
(* record; since a handler is a function from record to record, each         *)
(* function gets one lemma (TriggeredFacts, PollEndsFacts, EndedFacts...).   *)
(* LockMoves(p, r) is what a step of one position does to the rebalance lock:*)
(* nothing, queue, or let go.  PositionMoves joins them, one lemma per group *)
(* of actions, and GoodKeepsInv carries the lock's queue over to the next    *)
(* state.  The invariants the runs check follow from Inv by definition.      *)
(*****************************************************************************)
EXTENDS MoveControl, TLAPS

\* What holds of a position's record even in the middle of a handler: no scan
\* runs that a waiting move should hold, a scan waits only while none runs, a
\* request stays forced, and only an early Stop Managing disowns a loop.
Settled(r) ==
    /\ r.scan # "none" => ~MoveWaiting(r)
    /\ r.scanWait => r.scan = "none"
    /\ r.asked => r.force
    /\ r.loop = "disowned" => StopEarly

\* What holds of it between the steps.
Sound(r) ==
    /\ Settled(r)
    /\ r.pc \in Deciding => r.scan = "none"
    /\ r.scanWait /\ r.pc = "none" => MoveWaiting(r)
    /\ r.loop = "on" => r.timer \/ r.pc # "none" \/ r.scan # "none"
    /\ r.loop = "off" => /\ r.pc = "none" /\ r.scan = "none"
                         /\ ~r.scanWait /\ ~r.timer

\* t has r's loop, and asks for what r asks for.
SameMind(t, r) ==
    /\ t.loop = r.loop /\ t.force = r.force /\ t.forceC = r.forceC
    /\ t.cleanup = r.cleanup /\ t.asked = r.asked

-----------------------------------------------------------------------------
\* A poll that is over leaves all but its place as it was.
LEMMA IdleFacts ==
    ASSUME NEW r \in Record
    PROVE  /\ Idle(r) \in Record /\ Idle(r).pc = "none"
           /\ SameMind(Idle(r), r)
           /\ Idle(r).scan = r.scan /\ Idle(r).scanWait = r.scanWait
           /\ Idle(r).timer = r.timer
BY DEF Idle, Record, PollSteps, SameMind

\* Setting the timer changes nothing else.
LEMMA RearmedFacts ==
    ASSUME NEW r \in Record
    PROVE  /\ Rearmed(r) \in Record /\ Rearmed(r).pc = r.pc
           /\ SameMind(Rearmed(r), r) /\ Rearmed(r).timer
           /\ Rearmed(r).scan = r.scan /\ Rearmed(r).scanWait = r.scanWait
BY DEF Rearmed, Record, SameMind

\* A trigger starts a scan, marks it waiting, or finds one running; it changes
\* no request and no place.
LEMMA TriggeredFacts ==
    ASSUME NEW r \in Record, NEW t, t = Triggered(r)
    PROVE  /\ t \in Record /\ t.pc = r.pc /\ SameMind(t, r)
           /\ r.scan # "none" => t = r
           /\ r.scan = "none" /\ CoinMoveUnderWay(r) =>
                 t.scan = "none" /\ t.scanWait /\ t.timer = r.timer
           /\ r.scan = "none" /\ ~CoinMoveUnderWay(r) =>
                 t.scan = "read" /\ ~t.scanWait
<1>1. CASE r.scan # "none"
  BY <1>1 DEF Triggered, SameMind
<1>2. CASE r.scan = "none" /\ CoinMoveUnderWay(r)
  <2>1. t = [r EXCEPT !.scanWait = TRUE]
    BY <1>2 DEF Triggered
  <2> QED
    BY ZenonT(60), <1>2, <2>1 DEF Record, SameMind
<1>3. CASE r.scan = "none" /\ ~CoinMoveUnderWay(r)
  <2>1. t = [r EXCEPT !.scan = "read", !.scanWait = FALSE, !.timer = FALSE]
    BY <1>3 DEF Triggered
  <2> QED
    BY ZenonT(60), <1>3, <2>1 DEF Record, SameMind
<1> QED
  BY <1>1, <1>2, <1>3

\* Whether a move waits depends on the requests alone.
LEMMA SameWaiting ==
    ASSUME NEW r, NEW t, SameMind(t, r)
    PROVE  MoveWaiting(t) = MoveWaiting(r)
BY DEF SameMind, MoveWaiting

\* A position without a loop is sound.
LEMMA OffFacts ==
    ASSUME NEW empty \in BOOLEAN, NEW orphan \in BOOLEAN
    PROVE  Off(empty, orphan) \in Record /\ Sound(Off(empty, orphan))
<1>1. Off(empty, orphan) \in Record
  BY DEF Off, Record, PollSteps, Loops
<1>2. Sound(Off(empty, orphan))
  BY DEF Off, Sound, Settled, MoveWaiting, Deciding, Locking, Making
<1> QED
  BY <1>1, <1>2

\* Removing a position leaves a sound record at rest.
LEMMA RemovedFacts ==
    ASSUME NEW r \in Record
    PROVE  /\ Removed(r) \in Record /\ Sound(Removed(r))
           /\ Removed(r).pc = "none"
<1>1. r.drained \in BOOLEAN /\ (r.orphan \/ r.scan # "none") \in BOOLEAN
  BY DEF Record
<1>2. Removed(r) \in Record /\ Sound(Removed(r))
  BY <1>1, OffFacts DEF Removed
<1>3. Removed(r).pc = "none"
  BY DEF Removed, Off
<1> QED
  BY <1>2, <1>3

\* Stopping a loop leaves its record sound: only a running loop needs a timer.
LEMMA HaltFacts ==
    ASSUME NEW r \in Record, NEW how \in {"removing", "halted"},
           Sound(r), r.loop # "off"
    PROVE  /\ Halt(r, how) \in Record /\ Sound(Halt(r, how))
           /\ Halt(r, how).pc = r.pc
<1> DEFINE h == Halt(r, how)
<1>1. /\ h \in Record /\ h.loop = how /\ h.pc = r.pc /\ h.scan = r.scan
      /\ h.scanWait = r.scanWait /\ h.asked = r.asked /\ h.force = r.force
      /\ h.forceC = r.forceC /\ h.cleanup = r.cleanup
  BY ZenonT(60) DEF Halt, Record, Loops
<1>2. MoveWaiting(h) = MoveWaiting(r)
  BY <1>1 DEF MoveWaiting
<1> HIDE DEF h
<1>3. Sound(h)
  BY <1>1, <1>2 DEF Sound, Settled
<1> QED
  BY <1>1, <1>3 DEF h

\* Triggering a scan at rest leaves a record sound, but for the timer.
LEMMA TriggeredAtRest ==
    ASSUME NEW r \in Record, r.pc = "none", Settled(r)
    PROVE  /\ Triggered(r) \in Record /\ Triggered(r).pc = "none"
           /\ SameMind(Triggered(r), r) /\ Settled(Triggered(r))
           /\ Triggered(r).scanWait => MoveWaiting(Triggered(r))
<1> DEFINE t == Triggered(r)
<1>1. CoinMoveUnderWay(r) <=> MoveWaiting(r)
  BY DEF CoinMoveUnderWay, Deciding, Locking, Making
<1>2. /\ t \in Record /\ t.pc = "none" /\ SameMind(t, r)
      /\ r.scan # "none" => t = r
      /\ r.scan = "none" /\ MoveWaiting(r) => t.scan = "none" /\ t.scanWait
      /\ r.scan = "none" /\ ~MoveWaiting(r) => t.scan = "read" /\ ~t.scanWait
  BY <1>1, TriggeredFacts
<1> HIDE DEF t
<1>3. MoveWaiting(t) = MoveWaiting(r)
  BY <1>2, SameWaiting
<1>4. Settled(t) /\ (t.scanWait => MoveWaiting(t))
  BY <1>2, <1>3 DEF Settled, SameMind
<1> QED
  BY <1>2, <1>4 DEF t

\* The end of a poll starts what waited, and leaves a loop that runs its timer.
LEMMA PollEndsFacts ==
    ASSUME NEW r \in Record, Settled(r)
    PROVE  /\ PollEnds(r) \in Record /\ PollEnds(r).pc = "none"
           /\ SameMind(PollEnds(r), r) /\ Settled(PollEnds(r))
           /\ r.loop \notin {"starting", "disowned"} =>
                 (PollEnds(r).scanWait => MoveWaiting(PollEnds(r)))
           /\ ~Halted(r) => PollEnds(r).timer
<1> DEFINE i == Idle(r)
           w == IF r.scanWait THEN SelfTriggered(i) ELSE i
           q == IF r.scan = "poll" THEN [w EXCEPT !.scan = "none"] ELSE w
<1>1. /\ i \in Record /\ i.pc = "none" /\ SameMind(i, r)
      /\ i.scan = r.scan /\ i.scanWait = r.scanWait
  BY IdleFacts
<1>2. PollEnds(r) = IF Halted(r) THEN q ELSE Rearmed(q)
  BY DEF PollEnds
<1> HIDE DEF i
<1>3. Settled(i)
  <2>1. MoveWaiting(i) = MoveWaiting(r)
    BY <1>1, SameWaiting
  <2> QED
    BY <1>1, <2>1 DEF Settled, SameMind
<1>4. /\ w \in Record /\ w.pc = "none" /\ SameMind(w, r) /\ Settled(w)
      /\ r.loop \notin {"starting", "disowned"} => (w.scanWait => MoveWaiting(w))
  <2>1. CASE ~r.scanWait \/ r.loop \in {"starting", "disowned"}
    <3>1. w = i
      BY <2>1, <1>1 DEF SelfTriggered, SameMind
    <3> QED
      BY <2>1, <3>1, <1>1, <1>3
  <2>2. CASE r.scanWait /\ r.loop \notin {"starting", "disowned"}
    <3>1. w = Triggered(i)
      BY <2>2, <1>1 DEF SelfTriggered, SameMind
    <3>2. /\ w \in Record /\ w.pc = "none" /\ SameMind(w, i) /\ Settled(w)
          /\ w.scanWait => MoveWaiting(w)
      BY <3>1, <1>1, <1>3, TriggeredAtRest
    <3> QED
      BY <3>2, <1>1 DEF SameMind
  <2> QED
    BY <2>1, <2>2
<1> HIDE DEF w
<1>5. /\ q \in Record /\ q.pc = "none" /\ SameMind(q, r)
      /\ q.scanWait = w.scanWait /\ (q.scan = w.scan \/ q.scan = "none")
  BY <1>4 DEF Record, SameMind
<1> HIDE DEF q
<1>6. MoveWaiting(q) = MoveWaiting(r) /\ MoveWaiting(w) = MoveWaiting(r)
  BY <1>4, <1>5, SameWaiting
<1>7. /\ Settled(q)
      /\ r.loop \notin {"starting", "disowned"} => (q.scanWait => MoveWaiting(q))
  BY <1>4, <1>5, <1>6 DEF Settled, SameMind
<1>8. CASE Halted(r)
  BY <1>8, <1>2, <1>5, <1>7
<1>9. CASE ~Halted(r)
  <2> DEFINE z == Rearmed(q)
  <2>1. /\ z \in Record /\ z.pc = "none" /\ SameMind(z, q) /\ z.timer
        /\ z.scan = q.scan /\ z.scanWait = q.scanWait
    BY <1>5, RearmedFacts
  <2> HIDE DEF z
  <2>2. MoveWaiting(z) = MoveWaiting(q) /\ SameMind(z, r)
    BY <2>1, <1>5, SameWaiting DEF SameMind
  <2>3. /\ Settled(z)
        /\ r.loop \notin {"starting", "disowned"} => (z.scanWait => MoveWaiting(z))
    BY <2>1, <2>2, <1>7 DEF Settled, SameMind
  <2> QED
    BY <1>9, <1>2, <2>1, <2>2, <2>3 DEF z
<1> QED
  BY <1>8, <1>9

\* The end of a first poll leaves a sound record, running or halted.
LEMMA StartUpEndsFacts ==
    ASSUME NEW r \in Record, r.pc = "none", Settled(r)
    PROVE  /\ StartUpEnds(r) \in Record /\ Sound(StartUpEnds(r))
           /\ StartUpEnds(r).pc = "none"
<1> DEFINE o == [r EXCEPT !.loop = "on"]
           t == Triggered(o)
           s == Rearmed(t)
<1>1. /\ o \in Record /\ o.pc = "none" /\ o.loop = "on" /\ o.scan = r.scan
      /\ o.scanWait = r.scanWait /\ o.asked = r.asked /\ o.force = r.force
      /\ o.forceC = r.forceC /\ o.cleanup = r.cleanup
  BY DEF Record, Loops
<1> HIDE DEF o
<1>2. Settled(o)
  BY <1>1 DEF Settled, MoveWaiting
<1>3. /\ t \in Record /\ t.pc = "none" /\ SameMind(t, o) /\ Settled(t)
      /\ t.scanWait => MoveWaiting(t)
  BY <1>1, <1>2, TriggeredAtRest
<1> HIDE DEF t
<1>4. /\ s \in Record /\ s.pc = "none" /\ SameMind(s, t) /\ s.timer
      /\ s.scan = t.scan /\ s.scanWait = t.scanWait
  BY <1>3, RearmedFacts
<1> HIDE DEF s
<1>5. MoveWaiting(s) = MoveWaiting(t) /\ s.loop = "on"
  BY <1>1, <1>3, <1>4, SameWaiting DEF SameMind
<1>6. Sound(s)
  BY <1>3, <1>4, <1>5
     DEF Sound, Settled, SameMind, Deciding, Locking, Making
<1>7. StartUpEnds(r) = IF app = "up" THEN s ELSE Halt(s, "halted")
  BY DEF StartUpEnds, s, t, o
<1> QED
  BY <1>4, <1>5, <1>6, <1>7, HaltFacts

\* However a poll's loop began, the poll ends in a sound record at rest.
LEMMA EndedFacts ==
    ASSUME NEW r \in Record, Settled(r), r.loop # "off"
    PROVE  /\ Ended(r) \in Record /\ Sound(Ended(r))
           /\ Ended(r).pc = "none"
<1> DEFINE e == PollEnds(r)
<1>1. /\ e \in Record /\ e.pc = "none" /\ SameMind(e, r) /\ Settled(e)
      /\ r.loop \notin {"starting", "disowned"} =>
            (e.scanWait => MoveWaiting(e))
      /\ ~Halted(r) => e.timer
  BY PollEndsFacts
<1>2. Ended(r) = CASE r.loop = "starting" -> StartUpEnds(e)
                   [] r.loop = "disowned" -> Removed(StartUpEnds(e))
                   [] OTHER               -> e
  BY DEF Ended
<1> HIDE DEF e
<1>3. /\ StartUpEnds(e) \in Record /\ Sound(StartUpEnds(e))
      /\ StartUpEnds(e).pc = "none"
  BY <1>1, StartUpEndsFacts
<1>4. CASE r.loop = "starting"
  BY <1>4, <1>2, <1>3
<1>5. CASE r.loop = "disowned"
  <2>1. Ended(r) = Removed(StartUpEnds(e))
    BY <1>5, <1>2
  <2> QED
    BY <2>1, <1>3, RemovedFacts
<1>6. CASE r.loop \notin {"starting", "disowned"}
  <2>1. Ended(r) = e
    BY <1>6, <1>2
  <2>2. e.loop = "on" => e.timer
    BY <1>1 DEF SameMind, Halted
  <2>3. Sound(e)
    BY <1>1, <1>6, <2>2 DEF Sound, SameMind, Deciding, Locking, Making
  <2> QED
    BY <1>1, <2>1, <2>3
<1> QED
  BY <1>4, <1>5, <1>6

-----------------------------------------------------------------------------
\* What the properties see of a record that a poll holds.
SamePoll(t, r) ==
    /\ SameMind(t, r) /\ t.pc = r.pc /\ t.scan = r.scan
    /\ t.scanWait = r.scanWait /\ t.timer = r.timer

\* A record that differs in nothing the properties see stays sound.
LEMMA SamePollSound ==
    ASSUME NEW r, NEW t, SamePoll(t, r), Sound(r)
    PROVE  Sound(t)
<1>1. MoveWaiting(t) = MoveWaiting(r)
  BY SameWaiting DEF SamePoll
<1> QED
  BY <1>1 DEF SamePoll, SameMind, Sound, Settled

\* The drain clock is nothing the properties see.
LEMMA DrainClockedFacts ==
    ASSUME NEW r \in Record
    PROVE  DrainClocked(r) \in Record /\ SamePoll(DrainClocked(r), r)
<1> DEFINE a == [r EXCEPT !.drain = "no"]
           b == [r EXCEPT !.drain = "counting"]
<1>1. a \in Record /\ SamePoll(a, r)
  BY DEF Record, SamePoll, SameMind
<1>2. b \in Record /\ SamePoll(b, r)
  BY DEF Record, SamePoll, SameMind
<1>3. SamePoll(r, r)
  BY DEF SamePoll, SameMind
<1>4. DrainClocked(r) \in {a, b, r}
  BY DEF DrainClocked
<1> QED
  BY <1>1, <1>2, <1>3, <1>4

\* The poll of a position that is held ends in a sound record, retired or not.
LEMMA HeldPollFacts ==
    ASSUME NEW r \in Record, Settled(r), r.loop # "off"
    PROVE  /\ HeldPoll(r) \in Record /\ Sound(HeldPoll(r))
           /\ HeldPoll(r).pc = "none"
<1> DEFINE d == DrainClocked(r)
<1>1. d \in Record /\ SamePoll(d, r)
  BY DrainClockedFacts
<1>2. HeldPoll(r) = IF RetireDue(r) THEN Removed(Ended(r)) ELSE Ended(d)
  BY DEF HeldPoll
<1> HIDE DEF d
<1>3. Settled(d) /\ d.loop # "off"
  BY <1>1, SameWaiting DEF SamePoll, SameMind, Settled
<1>4. Ended(r) \in Record
  BY EndedFacts
<1>5. CASE RetireDue(r)
  BY <1>2, <1>4, <1>5, RemovedFacts
<1>6. CASE ~RetireDue(r)
  BY <1>1, <1>2, <1>3, <1>6, EndedFacts
<1> QED
  BY <1>5, <1>6

\* A poll that begins, of a position at rest.
LEMMA PolledFacts ==
    ASSUME NEW r \in Record, Settled(r), r.loop # "off", r.pc = "none"
    PROVE  /\ Polled(r) \in Record /\ Sound(Polled(r))
           /\ Polled(r).pc \in {"none", "read"}
<1> DEFINE t == [r EXCEPT !.pc = "read"]
<1>1. /\ t \in Record /\ t.pc = "read" /\ SameMind(t, r)
      /\ t.scan = r.scan /\ t.scanWait = r.scanWait
  BY DEF Record, PollSteps, SameMind
<1>2. Polled(r) = IF AbortedDrained(r) THEN HeldPoll(r) ELSE t
  BY DEF Polled
<1> HIDE DEF t
<1>3. Sound(t)
  BY <1>1, SameWaiting
     DEF SameMind, Sound, Settled, Deciding, Locking, Making
<1>4. CASE AbortedDrained(r)
  BY <1>2, <1>4, HeldPollFacts
<1>5. CASE ~AbortedDrained(r)
  BY <1>1, <1>2, <1>3, <1>5
<1> QED
  BY <1>4, <1>5

\* Retiring removes a position at rest, and halts one whose poll runs.
LEMMA RetiredFacts ==
    ASSUME NEW r \in Record, Sound(r), r.loop # "off"
    PROVE  /\ Retired(r) \in Record /\ Sound(Retired(r))
           /\ Retired(r).pc = r.pc
<1>1. CASE r.pc = "none"
  BY <1>1, RemovedFacts DEF Retired
<1>2. CASE r.pc # "none"
  BY <1>2, HaltFacts DEF Retired
<1> QED
  BY <1>1, <1>2

\* What a rebalance that minted leaves of a record is a record.
LEMMA MintedType ==
    ASSUME NEW r \in Record, NEW x \in BOOLEAN
    PROVE  [r EXCEPT !.used = x, !.cleanup = FALSE,
               !.rest = "fresh", !.force = FALSE, !.asked = FALSE,
               !.paused = FALSE, !.midway = FALSE, !.inProg = FALSE,
               !.drained = FALSE, !.seen = FALSE] \in Record
<1> DEFINE a == [r EXCEPT !.used = x, !.cleanup = FALSE, !.rest = "fresh"]
           b == [a EXCEPT !.force = FALSE, !.asked = FALSE, !.paused = FALSE]
           c == [b EXCEPT !.midway = FALSE, !.inProg = FALSE,
                          !.drained = FALSE, !.seen = FALSE]
<1>1. a \in Record
  BY DEF Record
<1>2. b \in Record
  <2> HIDE DEF a
  <2> QED
    BY ZenonT(60), <1>1 DEF Record
<1>3. c \in Record
  <2> HIDE DEF b
  <2> QED
    BY ZenonT(60), <1>2 DEF Record
<1> QED
  BY <1>3

\* The three ends of a rebalance leave a record its poll can end.
LEMMA RebalancedFacts ==
    ASSUME NEW r \in Record, Sound(r), r.pc = "moveR"
    PROVE  /\ Rebalanced(r) \in Record /\ Settled(Rebalanced(r))
           /\ Rebalanced(r).loop # "off"
<1> DEFINE n == [r EXCEPT !.used = r.cleanup, !.cleanup = FALSE,
                   !.rest = "fresh", !.force = FALSE, !.asked = FALSE,
                   !.paused = FALSE, !.midway = FALSE, !.inProg = FALSE,
                   !.drained = FALSE, !.seen = FALSE]
<1>1. /\ n \in Record /\ n.pc = "moveR" /\ n.scan = r.scan /\ ~n.asked
      /\ n.scanWait = r.scanWait /\ n.loop = r.loop
  <2>1. r.cleanup \in BOOLEAN
    BY DEF Record
  <2>2. n \in Record
    BY <2>1, MintedType
  <2>3. /\ n.pc = "moveR" /\ n.scan = r.scan /\ n.asked = FALSE
        /\ n.scanWait = r.scanWait /\ n.loop = r.loop
    BY DEF Record
  <2> QED
    BY <2>2, <2>3
<1>2. Rebalanced(r) = SelfTriggered(n)
  BY DEF Rebalanced
<1> HIDE DEF n
<1>3. n.scan = "none" /\ n.loop # "off"
  BY <1>1 DEF Sound, Deciding, Making
<1>4. Settled(n)
  BY <1>1, <1>3 DEF Sound, Settled
<1> DEFINE t == Triggered(n)
<1>5. /\ t \in Record /\ t.scan = "none" /\ SameMind(t, n)
  BY <1>1, <1>3, TriggeredFacts DEF CoinMoveUnderWay, Deciding, Making
<1> HIDE DEF t
<1>6. Settled(t) /\ t.loop # "off"
  BY <1>1, <1>3, <1>4, <1>5 DEF Settled, SameMind
<1>7. Rebalanced(r) = n \/ Rebalanced(r) = t
  BY <1>2 DEF SelfTriggered, t
<1> QED
  BY <1>1, <1>3, <1>4, <1>5, <1>6, <1>7

\* A rebalance stopped for a moved price leaves a record its poll can end.
LEMMA PriceMovedFacts ==
    ASSUME NEW r \in Record, Sound(r), r.pc = "moveR"
    PROVE  /\ PriceMoved(r) \in Record /\ Settled(PriceMoved(r))
           /\ PriceMoved(r).loop # "off"
<1> DEFINE n == PriceMoved(r)
<1>1. n \in Record /\ SameMind(n, r) /\ n.scan = r.scan
  BY DEF PriceMoved, Record, SameMind
<1> HIDE DEF n
<1>2. r.scan = "none" /\ r.loop # "off"
  BY DEF Sound, Deciding, Making
<1> QED
  BY <1>1, <1>2 DEF n, Sound, Settled, SameMind

\* A rebalance that failed leaves a record its poll can end, however it failed.
LEMMA FailedFacts ==
    ASSUME NEW r \in Record, Sound(r), r.pc = "moveR", NEW abort \in BOOLEAN,
           NEW emptied \in BOOLEAN, NEW exhausted \in BOOLEAN
    PROVE  /\ Failed(r, abort, emptied, exhausted) \in Record
           /\ Settled(Failed(r, abort, emptied, exhausted))
           /\ Failed(r, abort, emptied, exhausted).loop # "off"
<1> DEFINE f == [r EXCEPT !.inProg = FALSE, !.cleanup = FALSE,
                   !.drained = @ \/ emptied]
           g == [f EXCEPT !.paused = TRUE, !.midway = FALSE, !.reopen = TRUE]
           h == [f EXCEPT !.paused = abort \/ (r.seen /\ exhausted),
                          !.midway = r.seen /\ ~exhausted]
           n == Failed(r, abort, emptied, exhausted)
<1>1. /\ f \in Record /\ f.loop = r.loop /\ f.scan = r.scan
      /\ f.asked = r.asked /\ f.force = r.force
  <2>1. r.drained \in BOOLEAN
    BY DEF Record
  <2>2. (r.drained \/ emptied) \in BOOLEAN
    BY <2>1
  <2> DEFINE k == [r EXCEPT !.inProg = FALSE, !.cleanup = FALSE]
  <2>3. /\ k \in Record /\ k.loop = r.loop /\ k.scan = r.scan
        /\ k.asked = r.asked /\ k.force = r.force
    BY DEF Record
  <2>4. f = [k EXCEPT !.drained = r.drained \/ emptied]
    BY DEF Record
  <2> HIDE DEF f, k
  <2>5. \A d \in BOOLEAN : [k EXCEPT !.drained = d] \in Record
    <3> TAKE d \in BOOLEAN
    <3> QED
      BY <2>3 DEF Record
  <2>6. f \in Record
    BY <2>2, <2>4, <2>5
  <2>7. /\ f.loop = k.loop /\ f.scan = k.scan
        /\ f.asked = k.asked /\ f.force = k.force
    BY <2>3, <2>4 DEF Record
  <2> QED
    BY <2>3, <2>6, <2>7
<1>2. n = IF r.began THEN g ELSE h
  BY DEF Failed
<1>3. r.seen \in BOOLEAN
  BY DEF Record
<1> HIDE DEF f
<1>4. /\ g \in Record /\ g.loop = r.loop /\ g.scan = r.scan
      /\ g.asked = r.asked /\ g.force = r.force
  BY ZenonT(60), <1>1 DEF Record
<1>5. /\ (abort \/ (r.seen /\ exhausted)) \in BOOLEAN
      /\ (r.seen /\ ~exhausted) \in BOOLEAN
  BY <1>3
<1>6. /\ h \in Record /\ h.loop = r.loop /\ h.scan = r.scan
      /\ h.asked = r.asked /\ h.force = r.force
  <2>1. \A d, t \in BOOLEAN : [f EXCEPT !.paused = d, !.midway = t] \in Record
    <3> TAKE d, t \in BOOLEAN
    <3> QED
      BY <1>1 DEF Record
  <2>2. h \in Record
    BY <1>5, <2>1
  <2>3. /\ h.loop = f.loop /\ h.scan = f.scan
        /\ h.asked = f.asked /\ h.force = f.force
    BY <1>1 DEF Record
  <2> QED
    BY <1>1, <2>2, <2>3
<1> HIDE DEF g, h, n
<1>7. /\ n \in Record /\ n.loop = r.loop /\ n.scan = r.scan
      /\ n.asked = r.asked /\ n.force = r.force
  BY <1>2, <1>4, <1>6
<1>8. /\ r.scan = "none" /\ r.loop # "off" /\ (r.asked => r.force)
      /\ r.loop = "disowned" => StopEarly
      /\ r.scanWait => r.scan = "none"
  BY DEF Sound, Settled, Deciding, Making
<1> QED
  BY <1>7, <1>8 DEF n, Settled

-----------------------------------------------------------------------------
\* What every step of one position does to the lock: nothing, or its poll
\* queues for it, or lets it go.
UnderLock == Locking \cup Making

LockMoves(p, r) ==
    \/ /\ queue' = queue
       /\ r.pc \in UnderLock <=> bot[p].pc \in UnderLock
       /\ r.pc \in Making => bot[p].pc \in Making \/ HoldsLock(p)
    \/ /\ queue' = Append(queue, p)
       /\ bot[p].pc \notin UnderLock /\ r.pc \in Locking
    \/ /\ queue' = Tail(queue)
       /\ HoldsLock(p) /\ r.pc \notin UnderLock

Good(p, r) ==
    /\ r \in Record /\ Sound(r) /\ Becomes(p, r) /\ LockMoves(p, r)

Safe == bot \in [Positions -> Record] /\ \A p \in Positions : Sound(bot[p])

\* A poll's next step.
LEMMA MovesOn ==
    ASSUME NEW r, NEW t, Settled(r), r.loop # "off", SameMind(t, r),
           t.scan = r.scan, t.scanWait = r.scanWait, t.pc # "none",
           t.pc \in Deciding => r.scan = "none"
    PROVE  Sound(t)
<1>1. MoveWaiting(t) = MoveWaiting(r)
  BY SameWaiting
<1> QED
  BY <1>1 DEF SameMind, Sound, Settled

\* A record with a poll under way is settled, and its loop is there.
LEMMA PollRuns ==
    ASSUME NEW r \in Record, Sound(r), r.pc # "none"
    PROVE  Settled(r) /\ r.loop # "off"
BY DEF Sound

\* A poll that ends without the lock.
LEMMA EndsWithout ==
    ASSUME NEW p, NEW r \in Record, Settled(r), r.loop # "off",
           bot[p].pc \notin UnderLock, queue' = queue, Becomes(p, Ended(r))
    PROVE  \E t : Good(p, t)
<1>1. /\ Ended(r) \in Record /\ Sound(Ended(r)) /\ Ended(r).pc = "none"
  BY EndedFacts
<1>2. LockMoves(p, Ended(r))
  BY <1>1 DEF LockMoves, UnderLock, Locking, Making
<1> QED
  BY <1>1, <1>2 DEF Good

\* A poll that ends and lets the lock go.
LEMMA EndsAndReleases ==
    ASSUME NEW p, NEW r \in Record, Settled(r), r.loop # "off",
           HoldsLock(p), Release, Becomes(p, Ended(r))
    PROVE  \E t : Good(p, t)
<1>1. /\ Ended(r) \in Record /\ Sound(Ended(r)) /\ Ended(r).pc = "none"
  BY EndedFacts
<1>2. LockMoves(p, Ended(r))
  BY <1>1 DEF LockMoves, UnderLock, Locking, Making, Release
<1> QED
  BY <1>1, <1>2 DEF Good

\* A poll that queues for the lock.
LEMMA Queues ==
    ASSUME NEW p, NEW r \in Record, Settled(r), r.loop # "off",
           bot[p].pc \notin UnderLock, r.scan = "none",
           NEW step \in Locking, Queue(p, [r EXCEPT !.pc = step])
    PROVE  \E t : Good(p, t)
<1> DEFINE t == [r EXCEPT !.pc = step]
<1>1. /\ t \in Record /\ t.pc = step /\ SameMind(t, r)
      /\ t.scan = r.scan /\ t.scanWait = r.scanWait
  BY DEF Record, PollSteps, Deciding, SameMind
<1>2. Becomes(p, t) /\ queue' = Append(queue, p)
  BY DEF Queue
<1> HIDE DEF t
<1>3. Sound(t)
  <2>1. step # "none"
    BY DEF Locking
  <2> QED
    BY <1>1, <2>1, MovesOn
<1>4. LockMoves(p, t)
  BY <1>1, <1>2 DEF LockMoves
<1> QED
  BY <1>1, <1>2, <1>3, <1>4 DEF Good

\* A poll that goes on without the lock.
LEMMA GoesOn ==
    ASSUME NEW p, NEW r \in Record, Settled(r), r.loop # "off",
           bot[p].pc \notin UnderLock, queue' = queue,
           NEW t \in Record, SameMind(t, r), t.scan = r.scan,
           t.scanWait = r.scanWait, t.pc \notin UnderLock \cup {"none"},
           t.pc \in Deciding => r.scan = "none", Becomes(p, t)
    PROVE  \E u : Good(p, u)
<1>1. Sound(t)
  BY MovesOn
<1>2. LockMoves(p, t)
  BY DEF LockMoves, UnderLock
<1> QED
  BY <1>1, <1>2 DEF Good

\* A trigger outside the handlers leaves a sound record, in a poll or at rest.
LEMMA TriggeredSound ==
    ASSUME NEW b \in Record, Sound(b), b.scan = "none"
    PROVE  /\ Triggered(b) \in Record /\ Triggered(b).pc = b.pc
           /\ (b.loop # "off" => Sound(Triggered(b)))
<1> DEFINE t == Triggered(b)
<1>1. /\ t \in Record /\ t.pc = b.pc /\ SameMind(t, b)
      /\ CoinMoveUnderWay(b) =>
            t.scan = "none" /\ t.scanWait /\ t.timer = b.timer
      /\ ~CoinMoveUnderWay(b) => t.scan = "read" /\ ~t.scanWait
  BY TriggeredFacts
<1> HIDE DEF t
<1>2. MoveWaiting(t) = MoveWaiting(b)
  BY <1>1, SameWaiting
<1>3. b.pc = "none" => (CoinMoveUnderWay(b) <=> MoveWaiting(b))
  BY DEF CoinMoveUnderWay, Deciding, Locking, Making
<1>4. ~CoinMoveUnderWay(b) => ~MoveWaiting(b) /\ b.pc \notin Deciding
  BY DEF CoinMoveUnderWay
<1>5. b.loop # "off" => Sound(t)
  BY <1>1, <1>2, <1>3, <1>4 DEF Sound, Settled, SameMind
<1> QED
  BY <1>1, <1>5 DEF t

\* A step of no poll, which keeps the position's place in it.
LEMMA KeepsPlace ==
    ASSUME NEW p, NEW t \in Record, Sound(t), Becomes(p, t),
           queue' = queue, t.pc = bot[p].pc
    PROVE  \E u : Good(p, u)
BY DEF Good, LockMoves

\* A poll that ends, or goes on, outside the lock.
LEMMA StaysOut ==
    ASSUME NEW p, NEW t \in Record, Sound(t), Becomes(p, t),
           queue' = queue, bot[p].pc \notin UnderLock,
           t.pc \notin UnderLock
    PROVE  \E u : Good(p, u)
<1>1. LockMoves(p, t)
  BY DEF LockMoves, UnderLock
<1> QED
  BY <1>1 DEF Good

-----------------------------------------------------------------------------
(* The owner's requests. *)

\* The owner's requests leave sound records, and do not touch the lock.
LEMMA OwnerMoves ==
    ASSUME NEW p \in Positions, Safe, OwnerStep(p)
    PROVE  \E t : Good(p, t)
<1> DEFINE b == bot[p]
<1>0. b \in Record /\ Sound(b)
  BY DEF Safe
<1>q. queue' = queue
  BY DEF OwnerStep, Manage, ManageAgain, RebalanceNow, CompoundNow,
         SlippageChange, StopManaging, Reload, ViewLifetime, Quietly, Request
<1>t. b.scan = "none" => /\ Triggered(b) \in Record /\ Triggered(b).pc = b.pc
                         /\ (b.loop # "off" => Sound(Triggered(b)))
  BY <1>0, TriggeredSound
<1>1. CASE Manage(p)
  <2> DEFINE t == [b EXCEPT !.loop = "starting", !.pc = "read",
                     !.seen = @ \/ b.drained, !.force = b.drained,
                     !.asked = b.drained]
             k == [b EXCEPT !.loop = "starting", !.pc = "read"]
  <2>1. b.loop = "off" /\ Becomes(p, t)
    BY <1>1 DEF Manage
  <2>2. b.drained \in BOOLEAN /\ (b.seen \/ b.drained) \in BOOLEAN
    BY <1>0 DEF Record
  <2>3. /\ k \in Record /\ k.scan = b.scan /\ k.scanWait = b.scanWait
        /\ k.pc = "read" /\ k.loop = "starting"
    BY <1>0 DEF Record, Loops, PollSteps
  <2>4. t = [k EXCEPT !.seen = b.seen \/ b.drained, !.force = b.drained,
                      !.asked = b.drained]
    BY <1>0 DEF Record
  <2> HIDE DEF k, t
  <2>5. \A s, d \in BOOLEAN :
           [k EXCEPT !.seen = s, !.force = d, !.asked = d] \in Record
    <3> TAKE s, d \in BOOLEAN
    <3> QED
      BY <2>3 DEF Record
  <2>6. t \in Record
    BY <2>2, <2>4, <2>5
  <2>7. /\ t.scan = b.scan /\ t.scanWait = b.scanWait /\ t.pc = "read"
        /\ t.loop = "starting" /\ t.asked = t.force
    BY <2>3, <2>4 DEF Record
  <2>8. b.scan = "none" /\ b.pc = "none"
    BY <1>0, <2>1 DEF Sound
  <2>9. Sound(t)
    BY <2>7, <2>8 DEF Sound, Settled, Deciding, Locking, Making
  <2>10. LockMoves(p, t)
    BY <1>q, <2>7, <2>8 DEF LockMoves, UnderLock, Locking, Making
  <2> QED
    BY <2>1, <2>6, <2>9, <2>10 DEF Good
<1>2. CASE ManageAgain(p)
  <2> DEFINE t == [b EXCEPT !.force = TRUE, !.paused = FALSE,
                            !.midway = FALSE, !.asked = TRUE]
  <2>1. b.loop # "off" /\ b.scan = "none" /\ Becomes(p, t)
    BY <1>2 DEF ManageAgain, Running
  <2>2. t \in Record
    BY ZenonT(60), <1>0 DEF Record
  <2>3. /\ t.scan = b.scan /\ t.scanWait = b.scanWait /\ t.pc = b.pc
        /\ t.loop = b.loop /\ t.timer = b.timer /\ t.force = TRUE
        /\ t.forceC = b.forceC /\ t.cleanup = b.cleanup
    BY <1>0 DEF Record
  <2> HIDE DEF t
  <2>4. MoveWaiting(b) => MoveWaiting(t)
    BY <2>3 DEF MoveWaiting
  <2>5. Sound(t)
    BY <1>0, <2>1, <2>3, <2>4 DEF Sound, Settled
  <2> QED
    BY <1>q, <2>1, <2>2, <2>3, <2>5, KeepsPlace
<1>3. CASE RebalanceNow(p)
  <2> DEFINE k == [b EXCEPT !.force = TRUE, !.inProg = TRUE,
                            !.paused = FALSE, !.asked = TRUE]
             t == Kicked(k)
  <2>1. b.loop # "off" /\ b.scan = "none" /\ Becomes(p, t)
    BY <1>3 DEF RebalanceNow, Running
  <2>2. k \in Record
    BY <1>0 DEF Record
  <2>3. /\ k.scan = b.scan /\ k.scanWait = b.scanWait /\ k.pc = b.pc
        /\ k.loop = b.loop /\ k.timer = b.timer /\ k.force = TRUE
        /\ k.forceC = b.forceC /\ k.cleanup = b.cleanup
    BY <1>0 DEF Record
  <2> HIDE DEF k
  <2>4. t = k \/ t = Rearmed(k)
    BY DEF Kicked
  <2>5. /\ t \in Record /\ t.pc = k.pc /\ SameMind(t, k)
        /\ t.scan = k.scan /\ t.scanWait = k.scanWait /\ (k.timer => t.timer)
    BY <2>2, <2>4, RearmedFacts DEF SameMind
  <2> HIDE DEF t
  <2>6. MoveWaiting(b) => MoveWaiting(t)
    BY <2>3, <2>5 DEF MoveWaiting, SameMind
  <2>7. Sound(t)
    BY <1>0, <2>1, <2>3, <2>5, <2>6 DEF Sound, Settled, SameMind
  <2> QED
    BY <1>q, <2>1, <2>3, <2>5, <2>7, KeepsPlace
<1>4. CASE CompoundNow(p)
  <2> DEFINE k == [b EXCEPT !.forceC = TRUE]
             t == Kicked(k)
  <2>1. b.loop # "off" /\ b.scan = "none" /\ Becomes(p, t)
    BY <1>4 DEF CompoundNow, Running
  <2>2. k \in Record
    BY <1>0 DEF Record
  <2>3. /\ k.scan = b.scan /\ k.scanWait = b.scanWait /\ k.pc = b.pc
        /\ k.loop = b.loop /\ k.timer = b.timer /\ k.force = b.force
        /\ k.forceC = TRUE /\ k.asked = b.asked
    BY <1>0 DEF Record
  <2> HIDE DEF k
  <2>4. t = k \/ t = Rearmed(k)
    BY DEF Kicked
  <2>5. /\ t \in Record /\ t.pc = k.pc /\ SameMind(t, k)
        /\ t.scan = k.scan /\ t.scanWait = k.scanWait /\ (k.timer => t.timer)
    BY <2>2, <2>4, RearmedFacts DEF SameMind
  <2> HIDE DEF t
  <2>6. MoveWaiting(t)
    BY <2>3, <2>5 DEF MoveWaiting, SameMind
  <2>7. Sound(t)
    BY <1>0, <2>1, <2>3, <2>5, <2>6 DEF Sound, Settled, SameMind
  <2> QED
    BY <1>q, <2>1, <2>3, <2>5, <2>7, KeepsPlace
<1>5. CASE SlippageChange(p)
  <2> DEFINE t == [b EXCEPT !.paused = FALSE]
  <2>1. Becomes(p, t)
    BY <1>5 DEF SlippageChange
  <2>2. t \in Record /\ SamePoll(t, b)
    BY <1>0 DEF Record, SamePoll, SameMind
  <2> QED
    BY <1>0, <1>q, <2>1, <2>2, SamePollSound, KeepsPlace DEF SamePoll
<1>6. CASE StopManaging(p)
  <2>1. CASE b.loop = "on" /\ Becomes(p, Halt(b, "removing"))
    BY <1>0, <1>q, <2>1, HaltFacts, KeepsPlace
  <2>2. CASE /\ b.loop = "starting" /\ StopEarly
             /\ Becomes(p, [b EXCEPT !.loop = "disowned"])
    <3> DEFINE t == [b EXCEPT !.loop = "disowned"]
    <3>1. /\ t \in Record /\ t.loop = "disowned" /\ t.pc = b.pc
          /\ t.scan = b.scan /\ t.scanWait = b.scanWait /\ t.asked = b.asked
          /\ t.force = b.force /\ t.forceC = b.forceC
          /\ t.cleanup = b.cleanup
      BY <1>0 DEF Record, Loops
    <3> HIDE DEF t
    <3>2. MoveWaiting(t) = MoveWaiting(b)
      BY <3>1 DEF MoveWaiting
    <3>3. Sound(t)
      BY <1>0, <2>2, <3>1, <3>2 DEF Sound, Settled
    <3> QED
      BY <1>q, <2>2, <3>1, <3>3, KeepsPlace DEF t
  <2> QED
    BY <1>6, <2>1, <2>2 DEF StopManaging
<1>7. CASE Reload(p)
  <2>1. b.scan = "none" /\ b.loop # "off" /\ Becomes(p, SelfTriggered(b))
    BY <1>7 DEF Reload, Running
  <2>2. SelfTriggered(b) = b \/ SelfTriggered(b) = Triggered(b)
    BY DEF SelfTriggered
  <2> QED
    BY <1>0, <1>q, <1>t, <2>1, <2>2, KeepsPlace
<1>8. CASE ViewLifetime(p)
  <2>1. b.scan = "none" /\ b.loop # "off" /\ Becomes(p, Triggered(b))
    BY <1>8 DEF ViewLifetime
  <2> QED
    BY <1>q, <1>t, <2>1, KeepsPlace
<1> QED
  BY <1>1, <1>2, <1>3, <1>4, <1>5, <1>6, <1>7, <1>8 DEF OwnerStep

-----------------------------------------------------------------------------
(* The loop: its polls. *)

\* A poll's reads end it, let it go on, or queue a Compound Now for the lock.
LEMMA ReadMoves ==
    ASSUME NEW p \in Positions, Safe, ReadFails(p) \/ Unhealable(p) \/ ReadOk(p)
    PROVE  \E t : Good(p, t)
<1> DEFINE b == bot[p]
<1>0. b \in Record /\ Sound(b) /\ b.pc = "read"
  BY DEF Safe, ReadFails, Unhealable, ReadOk
<1>p. Settled(b) /\ b.loop # "off"
  BY <1>0, PollRuns
<1>u. b.pc \notin UnderLock
  BY <1>0 DEF UnderLock, Locking, Making
<1>1. CASE ReadFails(p)
  BY <1>0, <1>p, <1>u, <1>1, EndsWithout DEF ReadFails, Quietly
<1>2. CASE Unhealable(p)
  <2>1. Ended(b) \in Record
    BY <1>0, <1>p, EndedFacts
  <2>2. /\ Removed(Ended(b)) \in Record /\ Sound(Removed(Ended(b)))
        /\ Removed(Ended(b)).pc = "none"
    BY <2>1, RemovedFacts
  <2>3. Removed(Ended(b)).pc \notin UnderLock
    BY <2>2 DEF UnderLock, Locking, Making
  <2> QED
    BY <1>2, <1>u, <2>2, <2>3, StaysOut DEF Unhealable, Quietly
<1>3. CASE ReadOk(p)
  <2>1. PICK seen \in {b.seen, b.drained} :
           LET r == DrainClocked([b EXCEPT !.seen = seen]) IN
           IF HeldEmpty(r) THEN Becomes(p, HeldPoll(r)) /\ Quietly
           ELSE IF r.forceC THEN Queue(p, [r EXCEPT !.pc = "lockC1"])
           ELSE Becomes(p, [r EXCEPT !.pc = "range"]) /\ Quietly
    BY <1>3 DEF ReadOk
  <2> DEFINE k == [b EXCEPT !.seen = seen]
             r == DrainClocked(k)
  <2>2. seen \in BOOLEAN
    BY <1>0 DEF Record
  <2>3. k \in Record /\ SamePoll(k, b)
    BY <1>0, <2>2 DEF Record, SamePoll, SameMind
  <2> HIDE DEF k
  <2>4. r \in Record /\ SamePoll(r, k)
    BY <2>3, DrainClockedFacts
  <2>5. IF HeldEmpty(r) THEN Becomes(p, HeldPoll(r)) /\ Quietly
        ELSE IF r.forceC THEN Queue(p, [r EXCEPT !.pc = "lockC1"])
        ELSE Becomes(p, [r EXCEPT !.pc = "range"]) /\ Quietly
    BY <2>1 DEF k
  <2> HIDE DEF r
  <2>6. Sound(k) /\ k.pc = "read"
    BY <1>0, <2>3, SamePollSound DEF SamePoll
  <2>7. Sound(r) /\ r.pc = "read"
    BY <2>4, <2>6, SamePollSound DEF SamePoll
  <2>8. Settled(r) /\ r.loop # "off"
    BY <2>4, <2>7, PollRuns
  <2>9. CASE HeldEmpty(r)
    <3>1. /\ HeldPoll(r) \in Record /\ Sound(HeldPoll(r))
          /\ HeldPoll(r).pc \notin UnderLock
      BY <2>4, <2>8, HeldPollFacts DEF UnderLock, Locking, Making
    <3> QED
      BY <1>u, <2>5, <2>9, <3>1, StaysOut DEF Quietly
  <2>10. CASE ~HeldEmpty(r) /\ r.forceC
    <3>1. r.scan = "none"
      BY <2>8, <2>10 DEF Settled, MoveWaiting
    <3>2. Queue(p, [r EXCEPT !.pc = "lockC1"]) /\ "lockC1" \in Locking
      BY <2>5, <2>10 DEF Locking
    <3> QED
      BY <1>u, <2>4, <2>8, <3>1, <3>2, Queues
  <2>11. CASE ~HeldEmpty(r) /\ ~r.forceC
    <3> DEFINE t == [r EXCEPT !.pc = "range"]
    <3>1. /\ t \in Record /\ SameMind(t, r) /\ t.pc = "range"
          /\ t.scan = r.scan /\ t.scanWait = r.scanWait
      BY <2>4 DEF Record, PollSteps, SameMind
    <3>2. Becomes(p, t) /\ queue' = queue
      BY <2>5, <2>11 DEF Quietly
    <3> HIDE DEF t
    <3>3. t.pc \notin UnderLock \cup {"none"} /\ t.pc \notin Deciding
      BY <3>1 DEF UnderLock, Deciding, Locking, Making
    <3> QED
      BY <1>u, <2>4, <2>8, <3>1, <3>2, <3>3, GoesOn
  <2> QED
    BY <2>9, <2>10, <2>11
<1> QED
  BY <1>1, <1>2, <1>3

\* A poll that checks its range ends, or goes on without the lock.
LEMMA RangeMoves ==
    ASSUME NEW p \in Positions, Safe, Range(p)
    PROVE  \E t : Good(p, t)
<1> DEFINE b == bot[p]
<1>0. b \in Record /\ Sound(b) /\ b.pc = "range" /\ queue' = queue
  BY DEF Safe, Range, Quietly
<1>u. b.pc \notin UnderLock
  BY <1>0 DEF UnderLock, Locking, Making
<1>1. PICK arm \in BOOLEAN, out \in BOOLEAN :
         /\ arm => MayArm(b)
         /\ LET r == IF arm THEN Armed(b) ELSE b IN
            IF out \/ r.force THEN Gates(p, r) ELSE NoRebalance(p, r)
  BY DEF Range
<1> DEFINE r == IF arm THEN Armed(b) ELSE b
<1>2. Gates(p, r) \/ NoRebalance(p, r)
  BY <1>1
<1>3. /\ r \in Record /\ r.loop = b.loop /\ r.scan = b.scan
      /\ r.scanWait = b.scanWait /\ r.forceC = b.forceC /\ r.asked = b.asked
      /\ b.asked => r.force
      /\ r.force /\ ~r.cleanup => b.force /\ ~b.cleanup
  <2>1. CASE arm
    BY <1>0, <1>1, <2>1 DEF Armed, MayArm, Record, Sound, Settled
  <2>2. CASE ~arm
    BY <1>0, <2>2 DEF Sound, Settled
  <2> QED
    BY <2>1, <2>2
<1> HIDE DEF r
<1>4. Settled(r) /\ r.loop # "off"
  BY <1>0, <1>3 DEF Sound, Settled, MoveWaiting
<1>5. CASE Becomes(p, Ended(r))
  BY <1>0, <1>u, <1>3, <1>4, <1>5, EndsWithout
<1>6. ASSUME NEW q \in BOOLEAN, NEW to \in {"fees", "guard"},
             r.scan = "none",
             Becomes(p, [r EXCEPT !.pc = to, !.manual = q])
      PROVE  \E t : Good(p, t)
  <2> DEFINE t == [r EXCEPT !.pc = to, !.manual = q]
  <2>1. /\ t \in Record /\ SameMind(t, r) /\ t.pc = to
        /\ t.scan = r.scan /\ t.scanWait = r.scanWait
    BY <1>3 DEF Record, PollSteps, Deciding, SameMind
  <2>2. Becomes(p, t)
    BY <1>6
  <2> HIDE DEF t
  <2>3. t.pc \notin UnderLock \cup {"none"}
    BY <2>1 DEF UnderLock, Locking, Making
  <2> QED
    BY <1>0, <1>u, <1>3, <1>4, <1>6, <2>1, <2>2, <2>3, GoesOn
<1>7. CASE /\ StateGates(r)
           /\ Becomes(p, [r EXCEPT !.pc = "guard", !.manual = Forced(r)])
  <2>1. r.scan = "none"
    BY <1>4, <1>7 DEF StateGates, Forced, Settled, MoveWaiting
  <2>2. Forced(r) \in BOOLEAN
    BY <1>3 DEF Forced, Record
  <2> QED
    BY <1>6, <1>7, <2>1, <2>2
<1>8. CASE /\ r.forceC \/ (AutoCompound /\ r.scan = "none")
           /\ Becomes(p, [r EXCEPT !.pc = "fees", !.manual = r.forceC])
  <2>1. r.scan = "none"
    BY <1>4, <1>8 DEF Settled, MoveWaiting
  <2>2. r.forceC \in BOOLEAN
    BY <1>3 DEF Record
  <2> QED
    BY <1>6, <1>8, <2>1, <2>2
<1> QED
  BY <1>2, <1>5, <1>7, <1>8 DEF Gates, NoRebalance

\* Fees, Guard and gas end a poll, let it go on, or queue it for the lock.
LEMMA DecisionMoves ==
    ASSUME NEW p \in Positions, Safe,
           \/ FeesDue(p) \/ FeesLow(p) \/ GuardPasses(p) \/ GuardRefuses(p)
           \/ GasTooHigh(p) \/ GasOk(p)
    PROVE  \E t : Good(p, t)
<1> DEFINE b == bot[p]
<1>0. b \in Record /\ Sound(b) /\ b.pc \in {"fees", "guard", "gas"}
  BY DEF Safe, FeesDue, FeesLow, GuardPasses, GuardRefuses, GasTooHigh, GasOk
<1>p. Settled(b) /\ b.loop # "off" /\ b.scan = "none"
  BY <1>0 DEF Sound, Deciding
<1>u. b.pc \notin UnderLock
  BY <1>0 DEF UnderLock, Locking, Making
<1>1. CASE FeesDue(p)
  <2>1. Queue(p, [b EXCEPT !.pc = "lockC2"]) /\ "lockC2" \in Locking
    BY <1>1 DEF FeesDue, Locking
  <2> QED
    BY <1>0, <1>p, <1>u, <2>1, Queues
<1>2. CASE FeesLow(p)
  BY <1>0, <1>p, <1>u, <1>2, EndsWithout DEF FeesLow, Quietly
<1>3. CASE GuardPasses(p)
  <2> DEFINE t == [b EXCEPT !.pc = "gas"]
  <2>1. /\ t \in Record /\ SameMind(t, b) /\ t.pc = "gas"
        /\ t.scan = b.scan /\ t.scanWait = b.scanWait
    BY <1>0 DEF Record, PollSteps, Deciding, SameMind
  <2>2. Becomes(p, t) /\ queue' = queue
    BY <1>3 DEF GuardPasses, Quietly
  <2> HIDE DEF t
  <2>3. t.pc \notin UnderLock \cup {"none"}
    BY <2>1 DEF UnderLock, Locking, Making
  <2> QED
    BY <1>0, <1>p, <1>u, <2>1, <2>2, <2>3, GoesOn
<1>4. CASE GuardRefuses(p)
  <2> DEFINE r == [b EXCEPT !.force = FALSE, !.asked = FALSE]
  <2>1. r \in Record /\ r.scan = b.scan /\ ~r.asked /\ r.loop = b.loop
    BY <1>0 DEF Record
  <2>2. queue' = queue /\ (Becomes(p, Ended(b)) \/ Becomes(p, Ended(r)))
    BY <1>4 DEF GuardRefuses, Quietly
  <2> HIDE DEF r
  <2>3. Settled(r) /\ r.loop # "off"
    BY <1>p, <2>1 DEF Settled
  <2> QED
    BY <1>0, <1>p, <1>u, <2>1, <2>2, <2>3, EndsWithout
<1>5. CASE GasTooHigh(p)
  BY <1>0, <1>p, <1>u, <1>5, EndsWithout DEF GasTooHigh, Quietly
<1>6. CASE GasOk(p)
  <2>1. Queue(p, [b EXCEPT !.pc = "lockR"]) /\ "lockR" \in Locking
    BY <1>6 DEF GasOk, Locking
  <2> QED
    BY <1>0, <1>p, <1>u, <2>1, Queues
<1> QED
  BY <1>1, <1>2, <1>3, <1>4, <1>5, <1>6

\* After a compound the poll goes on or ends, and the lock is let go.
LEMMA CompoundedMoves ==
    ASSUME NEW p \in Positions, Safe, HoldsLock(p), Compounded(p), Release,
           bot[p].pc \in UnderLock
    PROVE  \E t : Good(p, t)
<1> DEFINE b == bot[p]
<1>0. b \in Record /\ Sound(b) /\ b.pc # "none"
  BY DEF Safe, UnderLock, Locking, Making
<1>1. PICK seen \in {b.seen, b.drained} :
         LET r == [b EXCEPT !.seen = seen] IN
         Becomes(p, IF r.pc \in {"lockC1", "moveC1"}
                    THEN [r EXCEPT !.pc = "range"] ELSE Ended(r))
  BY DEF Compounded
<1> DEFINE r == [b EXCEPT !.seen = seen]
           t == [r EXCEPT !.pc = "range"]
<1>2. Becomes(p, t) \/ Becomes(p, Ended(r))
  BY <1>1
<1>3. seen \in BOOLEAN
  BY <1>0 DEF Record
<1>4. r \in Record /\ SamePoll(r, b)
  BY <1>0, <1>3 DEF Record, SamePoll, SameMind
<1> HIDE DEF r
<1>5. Sound(r) /\ Settled(r) /\ r.loop # "off"
  BY <1>0, <1>4, SamePollSound DEF SamePoll, Sound
<1>6. CASE Becomes(p, Ended(r))
  BY <1>4, <1>5, <1>6, EndsAndReleases
<1>7. CASE Becomes(p, t)
  <2>1. /\ t \in Record /\ SameMind(t, r) /\ t.pc = "range"
        /\ t.scan = r.scan /\ t.scanWait = r.scanWait
    BY <1>4 DEF Record, PollSteps, SameMind
  <2> HIDE DEF t
  <2>2. t.pc \notin UnderLock /\ t.pc \notin Deciding /\ t.pc # "none"
    BY <2>1 DEF UnderLock, Deciding, Locking, Making
  <2>3. Sound(t)
    BY <1>5, <2>1, <2>2, MovesOn
  <2>4. LockMoves(p, t)
    BY <2>2 DEF LockMoves, Release
  <2> QED
    BY <1>7, <2>1, <2>3, <2>4 DEF Good
<1> QED
  BY <1>2, <1>6, <1>7

\* Under the lock a move starts as its holder and ends by letting it go.
LEMMA LockedMoves ==
    ASSUME NEW p \in Positions, Safe, LockAccounted,
           \/ TurnedBack(p) \/ RebalanceStarts(p) \/ CompoundStarts(p)
           \/ CompoundEnds(p) \/ RebalanceEnds(p)
    PROVE  \E t : Good(p, t)
<1> DEFINE b == bot[p]
<1>0. b \in Record /\ Sound(b)
  BY DEF Safe
<1>1. CASE TurnedBack(p)
  <2>1. HoldsLock(p) /\ Release /\ b.pc \in UnderLock
    BY <1>1 DEF TurnedBack, UnderLock
  <2>2. CASE b.pc = "lockR"
    <3>1. Becomes(p, Ended(b)) /\ Settled(b) /\ b.loop # "off"
      BY <1>0, <1>1, <2>2, PollRuns DEF TurnedBack
    <3> QED
      BY <1>0, <2>1, <3>1, EndsAndReleases
  <2>3. CASE b.pc # "lockR"
    BY <1>1, <2>1, <2>3, CompoundedMoves DEF TurnedBack
  <2> QED
    BY <2>2, <2>3
<1>2. CASE RebalanceStarts(p)
  <2> DEFINE k == [b EXCEPT !.pc = "moveR", !.inProg = TRUE, !.force = FALSE,
                     !.asked = FALSE]
             t == [b EXCEPT !.pc = "moveR", !.inProg = TRUE,
                     !.force = FALSE, !.asked = FALSE,
                     !.began = b.seen]
  <2>1. /\ HoldsLock(p) /\ b.pc = "lockR" /\ Becomes(p, t)
        /\ queue' = queue
    BY <1>2 DEF RebalanceStarts, Quietly
  <2>2. /\ k \in Record /\ k.loop = b.loop /\ k.scan = b.scan /\ ~k.asked
        /\ k.scanWait = b.scanWait /\ k.pc = "moveR"
    BY ZenonT(60), <1>0 DEF Record, PollSteps, Deciding, Making
  <2>3. t = [k EXCEPT !.began = b.seen] /\ b.seen \in BOOLEAN
    BY <1>0 DEF Record
  <2> HIDE DEF t, k
  <2>4. /\ t \in Record /\ t.loop = b.loop /\ t.scan = b.scan /\ ~t.asked
        /\ t.scanWait = b.scanWait /\ t.pc = "moveR"
    BY <2>2, <2>3 DEF Record
  <2>5. /\ b.scan = "none" /\ b.loop # "off"
        /\ b.loop = "disowned" => StopEarly
    BY <1>0, <2>1 DEF Sound, Settled, Deciding, Locking
  <2>6. Sound(t)
    BY <2>4, <2>5 DEF Sound, Settled
  <2>7. LockMoves(p, t)
    BY <2>1, <2>4 DEF LockMoves, UnderLock, Locking, Making
  <2> QED
    BY <2>1, <2>4, <2>6, <2>7 DEF Good
<1>3. CASE CompoundStarts(p)
  <2> DEFINE next == IF b.pc = "lockC1" THEN "moveC1" ELSE "moveC2"
             t == [b EXCEPT !.forceC = FALSE, !.pc = next]
  <2>1. /\ HoldsLock(p) /\ b.pc \in Locking /\ Becomes(p, t)
        /\ queue' = queue
    BY <1>3 DEF CompoundStarts, Quietly, Locking
  <2>2. next \in Making
    BY DEF Making
  <2> HIDE DEF next
  <2>3. /\ t \in Record /\ t.loop = b.loop /\ t.scan = b.scan
        /\ t.asked = b.asked /\ t.force = b.force
        /\ t.scanWait = b.scanWait /\ t.pc \in Making
    BY <1>0, <2>2 DEF Record, PollSteps, Deciding
  <2> HIDE DEF t
  <2>4. b.scan = "none" /\ b.loop # "off"
    BY <1>0, <2>1 DEF Sound, Deciding, Locking
  <2>5. Sound(t)
    BY <1>0, <2>3, <2>4 DEF Sound, Settled, Making
  <2>6. LockMoves(p, t)
    BY <2>1, <2>3 DEF LockMoves, UnderLock
  <2> QED
    BY <2>1, <2>3, <2>5, <2>6 DEF Good
<1>4. CASE CompoundEnds(p)
  <2>1. b.pc \in Making /\ Compounded(p) /\ Release
    BY <1>4 DEF CompoundEnds, Making
  <2>2. HoldsLock(p)
    BY <2>1 DEF LockAccounted
  <2> QED
    BY <2>1, <2>2, CompoundedMoves DEF UnderLock
<1>5. CASE RebalanceEnds(p)
  <2>1. b.pc = "moveR" /\ Release
    BY <1>5 DEF RebalanceEnds
  <2>2. HoldsLock(p)
    BY <2>1 DEF LockAccounted, Making
  <2>3. CASE Becomes(p, Ended(Rebalanced(b)))
    BY <1>0, <2>1, <2>2, <2>3, RebalancedFacts, EndsAndReleases
  <2>4. CASE Becomes(p, Ended(PriceMoved(b)))
    BY <1>0, <2>1, <2>2, <2>4, PriceMovedFacts, EndsAndReleases
  <2>5. ASSUME NEW abort \in BOOLEAN, NEW emptied \in BOOLEAN,
               NEW exhausted \in BOOLEAN,
               Becomes(p, Ended(Failed(b, abort, emptied, exhausted)))
        PROVE  \E t : Good(p, t)
    BY <1>0, <2>1, <2>2, <2>5, FailedFacts, EndsAndReleases
  <2> QED
    BY <1>5, <2>3, <2>4, <2>5 DEF RebalanceEnds
<1> QED
  BY <1>1, <1>2, <1>3, <1>4, <1>5

-----------------------------------------------------------------------------
(* The loop: its timers, its scans and its end. *)

\* Delays that run out leave sound records, and do not touch the lock.
LEMMA TimerMoves ==
    ASSUME NEW p \in Positions, Safe,
           \/ Tick(p) \/ DrainTime(p) \/ CleanupDelay(p) \/ ReopenTimer(p)
           \/ OrphanEnds(p)
    PROVE  \E t : Good(p, t)
<1> DEFINE b == bot[p]
<1>0. b \in Record /\ Sound(b) /\ queue' = queue
  BY DEF Safe, Tick, DrainTime, CleanupDelay, ReopenTimer, OrphanEnds, Quietly
<1>1. CASE Tick(p)
  <2> DEFINE r == [b EXCEPT !.timer = FALSE]
  <2>1. b.timer /\ Becomes(p, IF r.pc = "none" THEN Polled(r) ELSE r)
    BY <1>1 DEF Tick
  <2>2. /\ r \in Record /\ SameMind(r, b) /\ r.pc = b.pc /\ r.scan = b.scan
        /\ r.scanWait = b.scanWait
    BY <1>0 DEF Record, SameMind
  <2> HIDE DEF r
  <2>3. Settled(r) /\ r.loop # "off"
    BY <1>0, <2>1, <2>2, SameWaiting DEF Sound, Settled, SameMind
  <2>4. CASE r.pc = "none"
    <3>1. /\ Polled(r) \in Record /\ Sound(Polled(r)) /\ Becomes(p, Polled(r))
          /\ Polled(r).pc \in {"none", "read"}
      BY <2>1, <2>2, <2>3, <2>4, PolledFacts
    <3>2. Polled(r).pc \notin UnderLock /\ b.pc \notin UnderLock
      BY <2>2, <2>4, <3>1 DEF UnderLock, Locking, Making
    <3> QED
      BY <1>0, <3>1, <3>2, StaysOut
  <2>5. CASE r.pc # "none"
    <3>1. r.pc \in Deciding => r.scan = "none"
      BY <1>0, <2>2 DEF Sound
    <3>2. SameMind(r, r)
      BY DEF SameMind
    <3>3. Sound(r)
      BY <2>3, <2>5, <3>1, <3>2, MovesOn
    <3> QED
      BY <1>0, <2>1, <2>2, <2>5, <3>3, KeepsPlace
  <2> QED
    BY <2>4, <2>5
<1>2. CASE DrainTime(p)
  <2> DEFINE t == [b EXCEPT !.drain = "elapsed"]
  <2>1. t \in Record /\ SamePoll(t, b) /\ Becomes(p, t)
    BY <1>0, <1>2 DEF DrainTime, Record, SamePoll, SameMind
  <2> QED
    BY <1>0, <2>1, SamePollSound, KeepsPlace DEF SamePoll
<1>3. CASE CleanupDelay(p)
  <2> DEFINE t == [b EXCEPT !.rest = "long"]
  <2>1. t \in Record /\ SamePoll(t, b) /\ Becomes(p, t)
    BY <1>0, <1>3 DEF CleanupDelay, Record, SamePoll, SameMind
  <2> QED
    BY <1>0, <2>1, SamePollSound, KeepsPlace DEF SamePoll
<1>4. CASE ReopenTimer(p)
  <2> DEFINE r == [b EXCEPT !.reopen = FALSE]
  <2>1. b.reopen /\ (Becomes(p, r) \/ (~Halted(r) /\ Becomes(p, Retired(r))))
    BY <1>4 DEF ReopenTimer
  <2>2. r \in Record /\ SamePoll(r, b)
    BY <1>0 DEF Record, SamePoll, SameMind
  <2> HIDE DEF r
  <2>3. Sound(r) /\ r.pc = b.pc
    BY <1>0, <2>2, SamePollSound DEF SamePoll
  <2>4. CASE Becomes(p, r)
    BY <1>0, <2>2, <2>3, <2>4, KeepsPlace
  <2>5. CASE Becomes(p, Retired(r)) /\ r.loop # "off"
    BY <1>0, <2>2, <2>3, <2>5, RetiredFacts, KeepsPlace
  <2>6. CASE Becomes(p, Retired(r)) /\ r.loop = "off"
    <3>1. r.pc = "none"
      BY <2>3, <2>6 DEF Sound
    <3>2. /\ Removed(r) \in Record /\ Sound(Removed(r))
          /\ Removed(r).pc = "none" /\ Retired(r) = Removed(r)
      BY <2>2, <3>1, RemovedFacts DEF Retired
    <3> QED
      BY <1>0, <2>3, <2>6, <3>1, <3>2, KeepsPlace
  <2> QED
    BY <2>1, <2>4, <2>5, <2>6
<1>5. CASE OrphanEnds(p)
  <2> DEFINE t == [b EXCEPT !.orphan = FALSE]
  <2>1. t \in Record /\ SamePoll(t, b) /\ Becomes(p, t)
    BY ZenonT(60), <1>0, <1>5 DEF OrphanEnds, Record, SamePoll, SameMind
  <2> QED
    BY <1>0, <2>1, SamePollSound, KeepsPlace DEF SamePoll
<1> QED
  BY <1>1, <1>2, <1>3, <1>4, <1>5

\* A scan read or asked for, and a removal that ends, leave sound records.
LEMMA ScanMoves ==
    ASSUME NEW p \in Positions, Safe,
           ScanRead(p) \/ RescanDue(p) \/ RemovalEnds(p)
    PROVE  \E t : Good(p, t)
<1> DEFINE b == bot[p]
<1>0. b \in Record /\ Sound(b) /\ queue' = queue
  BY DEF Safe, ScanRead, RescanDue, RemovalEnds, Quietly
<1>1. CASE ScanRead(p)
  <2>1. /\ b.scan = "read" /\ b.loop # "off"
        /\ ~b.scanWait /\ ~MoveWaiting(b) /\ (b.asked => b.force)
        /\ b.loop = "disowned" => StopEarly
    BY <1>0, <1>1 DEF ScanRead, Sound, Settled
  <2>2. CASE Halted(b) \/ b.pc # "none"
    <3> DEFINE t == [b EXCEPT !.scan = "none"]
    <3>1. Becomes(p, t)
      BY <1>1, <2>2 DEF ScanRead
    <3>2. /\ t \in Record /\ SameMind(t, b) /\ t.pc = b.pc
          /\ t.scan = "none" /\ t.scanWait = b.scanWait /\ t.timer = b.timer
      BY <1>0 DEF Record, SameMind
    <3> HIDE DEF t
    <3>3. Sound(t)
      BY <1>0, <2>1, <2>2, <3>2 DEF Sound, Settled, SameMind, Halted
    <3> QED
      BY <1>0, <3>1, <3>2, <3>3, KeepsPlace
  <2>3. CASE ~Halted(b) /\ b.pc = "none"
    <3> DEFINE r == [b EXCEPT !.scan = "poll"]
    <3>1. Becomes(p, Polled(r))
      BY <1>1, <2>3 DEF ScanRead
    <3>2. /\ r \in Record /\ SameMind(r, b) /\ r.pc = "none"
          /\ r.scan = "poll" /\ r.scanWait = b.scanWait
      BY <1>0, <2>3 DEF Record, SameMind
    <3> HIDE DEF r
    <3>3. Settled(r) /\ r.loop # "off"
      BY <2>1, <3>2, SameWaiting DEF Settled, SameMind
    <3>4. /\ Polled(r) \in Record /\ Sound(Polled(r))
          /\ Polled(r).pc \in {"none", "read"}
      BY <3>2, <3>3, PolledFacts
    <3>5. Polled(r).pc \notin UnderLock /\ b.pc \notin UnderLock
      BY <2>3, <3>4 DEF UnderLock, Locking, Making
    <3> QED
      BY <1>0, <3>1, <3>4, <3>5, StaysOut
  <2> QED
    BY <2>2, <2>3
<1>2. CASE RescanDue(p)
  <2>1. b.scan = "none" /\ b.loop # "off" /\ Becomes(p, Triggered(b))
    BY <1>2 DEF RescanDue
  <2> QED
    BY <1>0, <2>1, TriggeredSound, KeepsPlace
<1>3. CASE RemovalEnds(p)
  <2>1. b.pc = "none" /\ Becomes(p, Removed(b))
    BY <1>3 DEF RemovalEnds
  <2> QED
    BY <1>0, <2>1, RemovedFacts, KeepsPlace
<1> QED
  BY <1>1, <1>2, <1>3

\* Every step of one position leaves it sound, and takes or leaves the lock
\* as its poll says.
LEMMA PositionMoves ==
    ASSUME NEW p \in Positions, Safe, LockAccounted,
           OwnerStep(p) \/ LoopStep(p)
    PROVE  \E t : Good(p, t)
BY OwnerMoves, ReadMoves, RangeMoves, DecisionMoves, LockedMoves, TimerMoves,
   ScanMoves DEF LoopStep

-----------------------------------------------------------------------------
(* The lock. *)

\* The queue q is exactly the positions under the lock in the states b, each
\* once, and only its head moves: LockAccounted, of any queue and states.
Queued(b, q) ==
    /\ \A i, j \in DOMAIN q : q[i] = q[j] => i = j
    /\ \A p \in Positions :
          /\ b[p].pc \in UnderLock <=> \E i \in DOMAIN q : q[i] = p
          /\ b[p].pc \in Making => q # <<>> /\ Head(q) = p

\* A position that joins the queue was not in it.
LEMMA AppendQueued ==
    ASSUME NEW b, NEW c, NEW q \in Seq(Positions), NEW p \in Positions,
           Queued(b, q), b[p].pc \notin UnderLock, c[p].pc \in Locking,
           \A x \in Positions \ {p} : c[x].pc = b[x].pc
    PROVE  Append(q, p) \in Seq(Positions) /\ Queued(c, Append(q, p))
<1> DEFINE z == Append(q, p)
           n == Len(q)
<1>1. /\ z \in Seq(Positions) /\ n \in Nat /\ DOMAIN q = 1..n
      /\ DOMAIN z = 1..(n + 1) /\ z[n + 1] = p /\ z # <<>>
      /\ \A i \in 1..n : z[i] = q[i]
  OBVIOUS
<1>2. q # <<>> => Head(z) = Head(q)
  <2>1. q # <<>> => n >= 1 /\ Head(q) = q[1]
    BY <1>1
  <2>2. Head(z) = z[1]
    BY <1>1
  <2> QED
    BY <1>1, <2>1, <2>2
<1> HIDE DEF z, n
<1>3. \A i \in DOMAIN q : q[i] # p
  BY DEF Queued
<1>4. ASSUME NEW i \in DOMAIN z, NEW j \in DOMAIN z, z[i] = z[j]
      PROVE  i = j
  <2>1. CASE i \in 1..n /\ j \in 1..n
    BY <1>1, <1>4, <2>1 DEF Queued
  <2>2. CASE i = n + 1 /\ j \in 1..n
    BY <1>1, <1>3, <1>4, <2>2
  <2>3. CASE j = n + 1 /\ i \in 1..n
    BY <1>1, <1>3, <1>4, <2>3
  <2>4. CASE i = n + 1 /\ j = n + 1
    BY <2>4
  <2> QED
    BY <1>1, <2>1, <2>2, <2>3, <2>4
<1>5. ASSUME NEW x \in Positions
      PROVE  /\ c[x].pc \in UnderLock <=> \E i \in DOMAIN z : z[i] = x
             /\ c[x].pc \in Making => z # <<>> /\ Head(z) = x
  <2>1. CASE x = p
    <3>1. c[x].pc \in UnderLock /\ c[x].pc \notin Making
      BY <2>1 DEF UnderLock, Locking, Making
    <3>2. n + 1 \in DOMAIN z /\ z[n + 1] = x
      BY <1>1, <2>1
    <3> QED
      BY <3>1, <3>2
  <2>2. CASE x # p
    <3>1. c[x].pc = b[x].pc
      BY <2>2
    <3>2. (\E i \in DOMAIN z : z[i] = x) <=> (\E i \in DOMAIN q : q[i] = x)
      BY <1>1, <2>2
    <3>3. b[x].pc \in Making => z # <<>> /\ Head(z) = x
      BY <1>1, <1>2 DEF Queued
    <3> QED
      BY <3>1, <3>2, <3>3 DEF Queued
  <2> QED
    BY <2>1, <2>2
<1>6. Queued(c, z)
  BY <1>4, <1>5 DEF Queued
<1> QED
  BY <1>1, <1>6 DEF z

\* A holder that leaves the queue leaves the others as they were.
LEMMA TailQueued ==
    ASSUME NEW b, NEW c, NEW q \in Seq(Positions), NEW p \in Positions,
           Queued(b, q), q # <<>>, Head(q) = p, c[p].pc \notin UnderLock,
           \A x \in Positions \ {p} : c[x].pc = b[x].pc
    PROVE  Tail(q) \in Seq(Positions) /\ Queued(c, Tail(q))
<1> DEFINE z == Tail(q)
           n == Len(q)
<1>1. /\ z \in Seq(Positions) /\ n \in Nat \ {0} /\ DOMAIN q = 1..n
      /\ DOMAIN z = 1..(n - 1) /\ q[1] = p
      /\ \A i \in 1..(n - 1) : z[i] = q[i + 1]
  OBVIOUS
<1> HIDE DEF z, n
<1>2. ASSUME NEW i \in DOMAIN z, NEW j \in DOMAIN z, z[i] = z[j]
      PROVE  i = j
  <2>1. i + 1 \in DOMAIN q /\ j + 1 \in DOMAIN q /\ q[i + 1] = q[j + 1]
    BY <1>1, <1>2
  <2>2. i + 1 = j + 1
    BY <2>1 DEF Queued
  <2> QED
    BY <1>1, <2>2
<1>3. ASSUME NEW x \in Positions
      PROVE  /\ c[x].pc \in UnderLock <=> \E i \in DOMAIN z : z[i] = x
             /\ c[x].pc \in Making => z # <<>> /\ Head(z) = x
  <2>1. CASE x = p
    <3>1. c[x].pc \notin UnderLock /\ c[x].pc \notin Making
      BY <2>1 DEF UnderLock
    <3>2. ASSUME NEW i \in DOMAIN z, z[i] = x
          PROVE  FALSE
      <4>1. /\ 1 \in DOMAIN q /\ i + 1 \in DOMAIN q /\ q[i + 1] = q[1]
            /\ i + 1 # 1
        BY <1>1, <2>1, <3>2
      <4> QED
        BY <4>1 DEF Queued
    <3> QED
      BY <3>1, <3>2
  <2>2. CASE x # p
    <3>1. c[x].pc = b[x].pc /\ b[x].pc \notin Making
      BY <2>2 DEF Queued
    <3>2. ASSUME NEW i \in DOMAIN q, q[i] = x
          PROVE  \E j \in DOMAIN z : z[j] = x
      <4>1. i # 1
        BY <1>1, <2>2, <3>2
      <4>2. i - 1 \in DOMAIN z /\ z[i - 1] = q[(i - 1) + 1]
        BY <1>1, <4>1
      <4>3. (i - 1) + 1 = i
        BY <1>1
      <4> QED
        BY <3>2, <4>2, <4>3
    <3>3. ASSUME NEW j \in DOMAIN z, z[j] = x
          PROVE  \E i \in DOMAIN q : q[i] = x
      <4>1. j + 1 \in DOMAIN q /\ q[j + 1] = x
        BY <1>1, <3>3
      <4> QED
        BY <4>1
    <3>4. b[x].pc \in UnderLock <=> \E i \in DOMAIN q : q[i] = x
      BY DEF Queued
    <3> QED
      BY <3>1, <3>2, <3>3, <3>4
  <2> QED
    BY <2>1, <2>2
<1>4. Queued(c, z)
  BY <1>2, <1>3 DEF Queued
<1> QED
  BY <1>1, <1>4 DEF z

\* The property and its form as an operator of the next state's variables.
LEMMA AccountedIsQueued == LockAccounted <=> Queued(bot, queue)
BY DEF LockAccounted, Queued, HoldsLock, UnderLock

\* The inductive invariant.
Inv == Safe /\ queue \in Seq(Positions) /\ Queued(bot, queue)

\* A step of one position that is good for its record and the lock keeps Inv.
LEMMA GoodKeepsInv ==
    ASSUME Inv, NEW p \in Positions, NEW t, Good(p, t)
    PROVE  Inv'
<1>1. /\ bot' = [bot EXCEPT ![p] = t] /\ t \in Record /\ Sound(t)
      /\ LockMoves(p, t)
  BY DEF Good, Becomes
<1>2. /\ bot' \in [Positions -> Record] /\ bot'[p] = t
      /\ \A x \in Positions \ {p} : bot'[x] = bot[x]
  BY <1>1 DEF Inv, Safe
<1>3. \A x \in Positions : Sound(bot'[x])
  BY <1>1, <1>2 DEF Inv, Safe
<1>4. queue' \in Seq(Positions) /\ Queued(bot', queue')
  <2>0. queue \in Seq(Positions) /\ Queued(bot, queue)
    BY DEF Inv
  <2>1. CASE /\ queue' = queue
             /\ t.pc \in UnderLock <=> bot[p].pc \in UnderLock
             /\ t.pc \in Making => bot[p].pc \in Making \/ HoldsLock(p)
    BY <1>2, <2>0, <2>1 DEF Queued, HoldsLock
  <2>2. CASE /\ queue' = Append(queue, p)
             /\ bot[p].pc \notin UnderLock /\ t.pc \in Locking
    BY <1>2, <2>0, <2>2, AppendQueued
  <2>3. CASE /\ queue' = Tail(queue)
             /\ HoldsLock(p) /\ t.pc \notin UnderLock
    BY <1>2, <2>0, <2>3, TailQueued DEF HoldsLock
  <2> QED
    BY <1>1, <2>1, <2>2, <2>3 DEF LockMoves
<1>5. Safe'
  <2>1. \A x \in Positions : Sound(bot[x])'
    BY <1>3 DEF Sound, Settled, MoveWaiting
  <2> QED
    BY <1>2, <2>1 DEF Safe
<1> QED
  BY <1>4, <1>5 DEF Inv, Queued

-----------------------------------------------------------------------------
(* The specification's steps. *)

\* Nothing is managed yet.
LEMMA InitInv == Init => Inv
<1> SUFFICES ASSUME Init PROVE Inv
  OBVIOUS
<1>1. bot = [p \in Positions |-> Off(p \in Closed, FALSE)] /\ queue = <<>>
  BY DEF Init
<1>2. \A p \in Positions : bot[p] \in Record /\ Sound(bot[p])
  <2> TAKE p \in Positions
  <2>1. bot[p] = Off(p \in Closed, FALSE) /\ (p \in Closed) \in BOOLEAN
    BY <1>1
  <2> QED
    BY <2>1, OffFacts
<1>3. bot \in [Positions -> Record]
  BY <1>1, <1>2
<1>4. \A p \in Positions : bot[p].pc = "none"
  BY <1>1 DEF Off
<1>5. queue \in Seq(Positions)
  BY <1>1
<1>6. DOMAIN queue = {} /\ \A p \in Positions : bot[p].pc \notin UnderLock
  <2>1. Len(queue) = 0 /\ DOMAIN queue = 1..Len(queue)
    BY <1>1
  <2>2. DOMAIN queue = {}
    BY <2>1
  <2> QED
    BY <1>4, <2>2 DEF UnderLock, Locking, Making
<1>7. Queued(bot, queue)
  BY <1>6 DEF Queued, UnderLock
<1> QED
  BY <1>2, <1>3, <1>5, <1>7 DEF Inv, Safe

\* The held stop only stops the loops that run.
LEMMA HeldStopFacts ==
    ASSUME Safe, HeldStop
    PROVE  /\ Safe' /\ queue' = queue
           /\ \A p \in Positions : bot'[p].pc = bot[p].pc
<1>1. /\ bot' = [p \in Positions |-> IF bot[p].loop = "on"
                    THEN Halt(bot[p], "halted") ELSE bot[p]]
      /\ queue' = queue
  BY DEF HeldStop
<1>2. ASSUME NEW p \in Positions
      PROVE  /\ bot'[p] \in Record /\ Sound(bot'[p])
             /\ bot'[p].pc = bot[p].pc
  <2>1. bot[p] \in Record /\ Sound(bot[p])
    BY DEF Safe
  <2>2. CASE bot[p].loop = "on"
    BY <1>1, <2>1, <2>2, HaltFacts
  <2>3. CASE bot[p].loop # "on"
    BY <1>1, <2>1, <2>3
  <2> QED
    BY <2>2, <2>3
<1>3. bot' \in [Positions -> Record]
  BY <1>1, <1>2
<1>4. \A p \in Positions : Sound(bot[p])'
  BY <1>2 DEF Sound, Settled, MoveWaiting
<1> QED
  BY <1>1, <1>2, <1>3, <1>4 DEF Safe

\* Every step keeps Inv.
LEMMA StepInv == Inv /\ [Next]_vars => Inv'
<1> SUFFICES ASSUME Inv, [Next]_vars PROVE Inv'
  OBVIOUS
<1>1. CASE HeldStop
  <2>1. /\ Safe' /\ queue' = queue
        /\ \A p \in Positions : bot'[p].pc = bot[p].pc
    BY <1>1, HeldStopFacts DEF Inv
  <2> QED
    BY <2>1 DEF Inv, Queued
<1>2. CASE UNCHANGED <<bot, queue>>
  BY <1>2 DEF Inv, Safe, Sound, Settled, MoveWaiting, Queued
<1>3. ASSUME NEW p \in Positions, OwnerStep(p) \/ LoopStep(p)
      PROVE  Inv'
  <2>1. \E t : Good(p, t)
    BY <1>3, PositionMoves, AccountedIsQueued DEF Inv
  <2> QED
    BY <2>1, GoodKeepsInv
<1>4. Exit => UNCHANGED <<bot, queue>>
  BY DEF Exit
<1> QED
  BY <1>1, <1>2, <1>3, <1>4 DEF Next, vars

\* Inv always holds.
LEMMA Invariance == Spec => []Inv
BY InitInv, StepInv, PTL DEF Spec

-----------------------------------------------------------------------------
(* The theorems. *)

\* Every reachable state has the declared shape: no handler of the loop, the
\* routes or the scans leaves a record the others do not know.
THEOREM TypeCorrect == Spec => []TypeOK
<1> DEFINE Rest == /\ app \in {"up", "stopping", "exited"}
                   /\ dry \in BOOLEAN /\ requests \in Nat
<1>1. Init => Rest
  BY ConstantsAssumption DEF Init
<1>2. Rest /\ [Next]_vars => Rest'
  <2> SUFFICES ASSUME Rest, [Next]_vars PROVE Rest'
    OBVIOUS
  <2>1. CASE HeldStop \/ Exit \/ UNCHANGED vars
    BY <2>1 DEF HeldStop, Exit, vars
  <2>2. ASSUME NEW p \in Positions, OwnerStep(p) PROVE Rest'
    BY <2>2 DEF OwnerStep, Manage, ManageAgain, RebalanceNow, CompoundNow,
       SlippageChange, StopManaging, Reload, ViewLifetime, Quietly, Request
  <2>3. ASSUME NEW p \in Positions, LoopStep(p) PROVE Rest'
    <3>1. UNCHANGED <<app, dry, requests>>
      BY <2>3 DEF LoopStep, Tick, ReadFails, Unhealable, ReadOk, Range,
         FeesDue, FeesLow, GuardPasses, GuardRefuses, GasTooHigh, GasOk,
         TurnedBack, RebalanceStarts, CompoundStarts, CompoundEnds,
         RebalanceEnds, ScanRead, OrphanEnds, RescanDue, DrainTime,
         CleanupDelay, ReopenTimer, RemovalEnds, Quietly, Queue, Release
    <3> QED
      BY <3>1
  <2> QED
    BY <2>1, <2>2, <2>3 DEF Next
<1>3. Inv /\ Rest => TypeOK
  BY DEF Inv, Safe, TypeOK
<1> QED
  BY <1>1, <1>2, <1>3, Invariance, PTL DEF Spec

\* The rebalance lock's queue accounts for every position that waits or
\* moves, and only its head moves (rebalance-lock.js), for any number of
\* positions and whatever the owner asks.
THEOREM LockCorrect == Spec => []LockAccounted
<1>1. Inv => LockAccounted
  BY AccountedIsQueued DEF Inv
<1> QED
  BY <1>1, Invariance, PTL

\* No scan of a position's loop reads the chain while a move of it is decided
\* or made (scan-state.js).
THEOREM ScansCorrect == Spec => []NoMoveWhileScanRuns
<1>1. Inv => NoMoveWhileScanRuns
  BY DEF Inv, Safe, Sound, NoMoveWhileScanRuns
<1> QED
  BY <1>1, Invariance, PTL

\* Between polls a scan waits only for a request that still waits: no end of
\* a poll forgets it (bot-loop.js, the end of poll).
THEOREM WaitsCorrect == Spec => []WaitsOnlyForMoves
<1>1. Inv => WaitsOnlyForMoves
  BY DEF Inv, Safe, Sound, WaitsOnlyForMoves
<1> QED
  BY <1>1, Invariance, PTL

\* A running loop always has its next poll under way or set: no scan, stop or
\* poll takes the timer and leaves nothing that sets it again.
THEOREM LoopAliveCorrect == Spec => []LoopAlive
<1>1. Inv => LoopAlive
  BY DEF Inv, Safe, Sound, LoopAlive
<1> QED
  BY <1>1, Invariance, PTL

\* A Rebalance Now that waits keeps the position's scans back.
THEOREM RequestHoldsCorrect == Spec => []RequestHoldsScans
<1>1. Inv => RequestHoldsScans
  BY DEF Inv, Safe, Sound, Settled, MoveWaiting, RequestHoldsScans
<1> QED
  BY <1>1, Invariance, PTL

\* When the held stop exits, no move is cut off, and no scan of a position
\* still managed, as long as Stop Managing reaches no position that is still
\* starting.
THEOREM ExitCorrect ==
    ASSUME ~StopEarly
    PROVE  Spec => []ExitIsClear
<1> DEFINE Clear == app = "exited" => AllClear
<1>1. Init => Clear
  BY DEF Init
<1>2. Inv /\ Clear /\ [Next]_vars => Clear'
  <2> SUFFICES ASSUME Inv, Clear, [Next]_vars, app' = "exited"
               PROVE AllClear'
    OBVIOUS
  <2>1. CASE Exit \/ UNCHANGED vars
    BY <2>1 DEF Exit, vars, AllClear, Halted
  <2>2. CASE HeldStop
    BY <2>2 DEF HeldStop
  <2>3. ASSUME NEW p \in Positions, OwnerStep(p)
        PROVE FALSE
    <3>0. \E t : Good(p, t)
      BY <2>3, PositionMoves, AccountedIsQueued DEF Inv
    <3>1. app' = app
      BY <2>3 DEF OwnerStep, Manage, ManageAgain, RebalanceNow, CompoundNow,
         SlippageChange, StopManaging, Reload, ViewLifetime, Quietly, Request
    <3> QED
      BY <3>0, <3>1 DEF Good, Becomes
  <2>4. ASSUME NEW p \in Positions, LoopStep(p)
        PROVE FALSE
    <3>0. \E t : Good(p, t)
      BY <2>4, PositionMoves, AccountedIsQueued DEF Inv
    <3>1. app' = app
      BY <2>4 DEF LoopStep, Tick, ReadFails, Unhealable, ReadOk, Range,
         FeesDue, FeesLow, GuardPasses, GuardRefuses, GasTooHigh, GasOk,
         TurnedBack, RebalanceStarts, CompoundStarts, CompoundEnds,
         RebalanceEnds, ScanRead, OrphanEnds, RescanDue, DrainTime,
         CleanupDelay, ReopenTimer, RemovalEnds, Quietly, Queue, Release
    <3> QED
      BY <3>0, <3>1 DEF Good, Becomes
  <2> QED
    BY <2>1, <2>2, <2>3, <2>4 DEF Next
<1>3. Inv /\ Clear => ExitIsClear
  BY DEF Inv, Safe, Sound, Settled, AllClear, ExitIsClear, Making
<1> QED
  BY <1>1, <1>2, <1>3, Invariance, PTL DEF Spec

\* A poll at the range check leaves it by the range check alone: no request,
\* timer or scan moves it.
LEMMA RangeStays ==
    ASSUME NEW p \in Positions, Safe, bot[p].pc = "range",
           OwnerStep(p) \/ LoopStep(p), ~Range(p)
    PROVE  bot'[p].pc = "range"
<1> DEFINE b == bot[p]
<1>0. b \in Record /\ b.pc = "range" /\ b.loop # "off" /\ Sound(b)
  BY DEF Safe, Sound
<1>1. \A t : Becomes(p, t) => bot'[p] = t
  BY DEF Becomes, Safe
<1>2. Triggered(b).pc = "range"
  BY <1>0, TriggeredFacts
<1>3. CASE OwnerStep(p)
  <2>1. ~Manage(p)
    BY <1>0 DEF Manage
  <2>2. CASE ManageAgain(p)
    BY <1>0, <1>1, <2>2 DEF ManageAgain, Record
  <2>3. CASE RebalanceNow(p)
    BY <1>0, <1>1, <2>3 DEF RebalanceNow, Kicked, Record
  <2>4. CASE CompoundNow(p)
    BY <1>0, <1>1, <2>4 DEF CompoundNow, Kicked, Record
  <2>5. CASE SlippageChange(p)
    BY <1>0, <1>1, <2>5 DEF SlippageChange, Record
  <2>6. CASE StopManaging(p)
    BY <1>0, <1>1, <2>6 DEF StopManaging, Halt, Record
  <2>7. CASE Reload(p)
    BY <1>0, <1>1, <1>2, <2>7 DEF Reload, SelfTriggered
  <2>8. CASE ViewLifetime(p)
    BY <1>1, <1>2, <2>8 DEF ViewLifetime
  <2> QED
    BY <1>3, <2>1, <2>2, <2>3, <2>4, <2>5, <2>6, <2>7, <2>8 DEF OwnerStep
<1>4. CASE LoopStep(p)
  <2>1. \/ Tick(p) \/ ScanRead(p) \/ OrphanEnds(p) \/ RescanDue(p)
        \/ DrainTime(p) \/ CleanupDelay(p) \/ ReopenTimer(p)
    BY <1>0, <1>4 DEF LoopStep, ReadFails, Unhealable, ReadOk, FeesDue,
       FeesLow, GuardPasses, GuardRefuses, GasTooHigh, GasOk, TurnedBack,
       RebalanceStarts, CompoundStarts, CompoundEnds, RebalanceEnds,
       RemovalEnds, Locking
  <2>2. CASE Tick(p)
    BY <1>0, <1>1, <2>2 DEF Tick, Record
  <2>3. CASE ScanRead(p)
    BY <1>0, <1>1, <2>3 DEF ScanRead, Record
  <2>4. CASE OrphanEnds(p)
    BY <1>0, <1>1, <2>4 DEF OrphanEnds, Record
  <2>5. CASE RescanDue(p)
    BY <1>1, <1>2, <2>5 DEF RescanDue
  <2>6. CASE DrainTime(p)
    BY <1>0, <1>1, <2>6 DEF DrainTime, Record
  <2>7. CASE CleanupDelay(p)
    BY <1>0, <1>1, <2>7 DEF CleanupDelay, Record
  <2>8. CASE ReopenTimer(p)
    BY ZenonT(60), <1>0, <1>1, <2>8 DEF ReopenTimer, Retired, Halt, Record
  <2> QED
    BY <2>1, <2>2, <2>3, <2>4, <2>5, <2>6, <2>7, <2>8
<1> QED
  BY <1>3, <1>4

\* A poll that finds a Rebalance Now goes on past the range check and the
\* gates the automatic rebalances stop at (bot-cycle-gates.js), whatever
\* steps are taken meanwhile.
THEOREM GatesCorrect == Spec => RebalanceNowPassesGates
<1> DEFINE Passes == \A p \in Positions :
              bot[p].asked /\ ~bot[p].cleanup /\ bot[p].pc = "range"
                  => bot'[p].pc \in {"range", "guard"}
<1>1. Inv /\ [Next]_vars => Passes
  <2> SUFFICES ASSUME Inv, [Next]_vars, NEW p \in Positions,
                      bot[p].asked, ~bot[p].cleanup, bot[p].pc = "range"
               PROVE  bot'[p].pc \in {"range", "guard"}
    OBVIOUS
  <2>0. Safe /\ bot[p] \in Record /\ bot[p].force
    BY DEF Inv, Safe, Sound, Settled
  <2>1. CASE HeldStop
    BY <2>0, <2>1, HeldStopFacts
  <2>2. CASE UNCHANGED bot
    BY <2>2
  <2>3. ASSUME NEW q \in Positions, OwnerStep(q) \/ LoopStep(q)
        PROVE  bot'[p].pc \in {"range", "guard"}
    <3>1. CASE q # p
      <4>1. PICK t : Good(q, t)
        BY <2>3, PositionMoves, AccountedIsQueued DEF Inv
      <4> QED
        BY <2>0, <3>1, <4>1 DEF Good, Becomes, Safe
    <3>2. CASE q = p /\ ~Range(p)
      BY <2>0, <2>3, <3>2, RangeStays
    <3>3. CASE Range(p)
      <4>1. PICK arm \in BOOLEAN, out \in BOOLEAN :
               /\ arm => MayArm(bot[p])
               /\ LET r == IF arm THEN Armed(bot[p]) ELSE bot[p] IN
                  IF out \/ r.force THEN Gates(p, r) ELSE NoRebalance(p, r)
        BY <3>3 DEF Range
      <4>2. ~arm
        BY <2>0, <4>1 DEF MayArm
      <4>3. Gates(p, bot[p])
        BY <2>0, <4>1, <4>2
      <4>4. Becomes(p, [bot[p] EXCEPT !.pc = "guard",
                                      !.manual = Forced(bot[p])])
        BY <2>0, <4>3 DEF Gates, StateGates, Forced
      <4> QED
        BY <2>0, <4>4 DEF Becomes, Safe, Record
    <3> QED
      BY <3>1, <3>2, <3>3
  <2> QED
    BY <2>1, <2>2, <2>3 DEF Next, Exit, vars
<1> QED
  BY <1>1, Invariance, PTL DEF Spec, RebalanceNowPassesGates
=============================================================================
