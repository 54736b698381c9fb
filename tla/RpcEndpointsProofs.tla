-------------------------- MODULE RpcEndpointsProofs --------------------------
(*****************************************************************************)
(* Theorems about RpcEndpoints, for any lists, callers, windows and pause,   *)
(* as long as the list does not change, and startup's probe does not run,    *)
(* while a walk of the list awaits its answer.                               *)
(*****************************************************************************)
EXTENDS RpcEndpoints, SequenceTheorems, TLAPS

-----------------------------------------------------------------------------
(* The inductive invariant. *)

\* A walk under way is in the list it began on, and has found each endpoint behind it failing.
WalkOK(c) ==
    ~Idle(c) /\ call[c].job \in Walks =>
        /\ call[c].gen = gen /\ call[c].from \in 1 .. Size
        /\ call[c].at \in call[c].from .. Size
        /\ call[c].url = list[call[c].at]
        /\ call[c].from .. (call[c].at - 1) \subseteq refused

\* Startup's probe runs alone, from the first endpoint, and never while requests are held.
AloneOK(c) ==
    ~Idle(c) /\ call[c].job = "startup" =>
        /\ call[c].from = 1 /\ \A d \in Callers \ {c} : Idle(d)
        /\ Sent(c) => sel.halt = 0

\* No provider is of a list to come.
CallerOK(c) == WalkOK(c) /\ AloneOK(c) /\ call[c].gen <= gen

\* Every endpoint the selection has gone past has failed a request.
PassedRefused == 1 .. (sel.active - 1) \subseteq refused

\* While requests are held and the list has changed, nothing asked of it is on its way.
HeldStill == \A c \in Callers : Sent(c) => call[c].gen # gen

HeldOK == sel.halt > 0 => \/ sel.active = Size /\ sel.sticky = sel.halt
                          \/ sel.active = 1 /\ HeldStill

IInv == TypeOK /\ (\A c \in Callers : CallerOK(c)) /\ PassedRefused /\ HeldOK

-----------------------------------------------------------------------------
(* Types of the operators. *)

Selections == [active : 1 .. Size, sticky : Nat, halt : 0 .. Pause]
Tallies    == [Urls -> Seq(BOOLEAN)]

LEMMA ListType ==
    ASSUME TypeOK
    PROVE  /\ list \in Seq(Urls) /\ Size \in Nat \ {0} /\ gen \in Nat
           /\ \A i \in 1 .. Size : list[i] \in Urls
<1>1. list \in Seq(Urls) /\ list # <<>>
  BY ConstantsAssumption DEF TypeOK
<1>2. MaxChanges \in Nat
  BY ConstantsAssumption
<1> QED
  BY <1>1, <1>2 DEF TypeOK, Size

LEMMA CurrentType ==
    ASSUME TypeOK, NEW s \in Selections
    PROVE  /\ Current(s) \in Selections /\ Current(s).halt = s.halt
           /\ Lapsed(s) => Current(s).active = 1 /\ Current(s).sticky = s.sticky
           /\ ~Lapsed(s) => Current(s) = s
BY ListType DEF Current, Lapsed, Selections

LEMMA EngageType ==
    ASSUME TypeOK, NEW s \in Selections, NEW i \in 1 .. Size
    PROVE  /\ Engage(s, i) \in Selections /\ Engage(s, i).active = i
           /\ Engage(s, i).halt = s.halt
<1>1. Sticky \in Nat
  BY ConstantsAssumption
<1> QED
  BY <1>1 DEF Engage, Selections

LEMMA ExhaustedType ==
    ASSUME TypeOK, NEW s \in Selections
    PROVE  /\ Exhausted(s) \in Selections /\ Exhausted(s).active = s.active
           /\ Exhausted(s).sticky = Pause /\ Exhausted(s).halt = Pause
<1> DEFINE h == IF Pause > s.halt THEN Pause ELSE s.halt
<1>1. Pause \in Nat /\ s.halt \in 0 .. Pause
  BY ConstantsAssumption DEF Selections
<1>2. h = Pause /\ Pause \in 0 .. Pause
  BY <1>1
<1>3. Exhausted(s) = [s EXCEPT !.sticky = Pause, !.halt = h]
  BY DEF Exhausted
<1> HIDE DEF h
<1> QED
  BY <1>1, <1>2, <1>3 DEF Selections

LEMMA NoteType ==
    ASSUME NEW t \in Tallies, NEW u, NEW ok \in BOOLEAN
    PROVE  Note(t, u, ok) \in Tallies
<1>1. Window \in Nat \ {0}
  BY ConstantsAssumption
<1> DEFINE all == Append(t[u], ok)
           new == IF Len(all) > Window THEN Tail(all) ELSE all
<1>2. ASSUME u \in Urls PROVE new \in Seq(BOOLEAN)
  <2>1. t[u] \in Seq(BOOLEAN)
    BY <1>2 DEF Tallies
  <2>2. all \in Seq(BOOLEAN)
    BY <2>1
  <2> HIDE DEF all
  <2>3. Len(all) > Window => all # <<>>
    BY <1>1, <2>2
  <2>4. Len(all) > Window => Tail(all) \in Seq(BOOLEAN)
    BY <2>2, <2>3
  <2> QED
    BY <2>2, <2>4
<1>3. Note(t, u, ok) = [t EXCEPT ![u] = new]
  BY DEF Note
<1> HIDE DEF new
<1> QED
  BY <1>2, <1>3 DEF Tallies

LEMMA TallyTypes ==
    ASSUME TypeOK, NEW c \in Callers, NEW ok \in BOOLEAN
    PROVE  NoteCall(c, ok) \in Tallies /\ NoteWalk(c, ok) \in Tallies
BY NoteType DEF NoteCall, NoteWalk, TypeOK, Tallies

LEMMA ForgetType ==
    ASSUME NEW t \in Tallies, NEW i PROVE Forget(t, i) \in Tallies
<1>1. <<>> \in Seq(BOOLEAN)
  OBVIOUS
<1> QED
  BY <1>1 DEF Forget, Tallies

LEMMA CallType ==
    ASSUME TypeOK, NEW c \in Callers
    PROVE  /\ call[c] \in Call /\ call[c].job \in AllJobs /\ call[c].gen \in Nat
           /\ call[c].at \in Nat /\ call[c].from \in Nat
           /\ call[c].pc \in {"idle", "queued", "sent"}
BY DEF TypeOK, Call

LEMMA NothingType == Nothing \in Call
BY DEF Nothing, Call, AllJobs

LEMMA AsksType ==
    ASSUME TypeOK, NEW k \in Call, NEW i \in 1 .. Size
    PROVE  /\ Asks(k, i) \in Call /\ Asks(k, i).pc = "queued" /\ Asks(k, i).gen = gen
           /\ Asks(k, i).url = list[i] /\ Asks(k, i).job = k.job
           /\ Asks(k, i).at = k.at /\ Asks(k, i).from = k.from
BY ListType DEF Asks, Call

LEMMA SelType == ASSUME TypeOK PROVE sel \in Selections /\ tally \in Tallies
BY DEF TypeOK, Selections, Tallies

\* What a walk has found failing survives the list starting over.
LEMMA WalkedStays ==
    ASSUME IInv, NEW d \in Callers, ~Idle(d), call[d].job \in Walks
    PROVE  call[d].from .. (call[d].at - 1) \subseteq Since(sel)
<1>1. /\ call[d].gen = gen /\ call[d].from \in 1 .. Size
      /\ call[d].at \in call[d].from .. Size
      /\ call[d].from .. (call[d].at - 1) \subseteq refused
  BY DEF IInv, CallerOK, WalkOK
<1>2. Size \in Nat /\ call[d].from \in Nat /\ call[d].at \in Nat
  BY ListType, CallType DEF IInv
<1>3. ASSUME NEW i \in call[d].from .. (call[d].at - 1) PROVE i \in Walked
  <2>1. i \in 1 .. Size /\ call[d].from <= i /\ i < call[d].at
    BY <1>1, <1>2
  <2>2. d \in {e \in Callers : ~Idle(e) /\ call[e].gen = gen}
    BY <1>1
  <2>3. i \in {n \in 1 .. Size : call[d].from <= n /\ n < call[d].at}
    BY <2>1
  <2> QED
    BY <2>2, <2>3 DEF Walked
<1> QED
  BY <1>1, <1>3 DEF Since

\* The places passed are still passed after the selection has been read.
LEMMA PassedSince ==
    ASSUME IInv PROVE 1 .. (Current(sel).active - 1) \subseteq Since(sel)
<1>1. CASE Lapsed(sel)
  BY <1>1, SelType, CurrentType DEF IInv
<1>2. CASE ~Lapsed(sel)
  BY <1>2, SelType, CurrentType DEF IInv, PassedRefused, Since
<1> QED
  BY <1>1, <1>2

LEMMA SinceType ==
    ASSUME TypeOK PROVE Since(sel) \subseteq refused /\ Since(sel) \subseteq 1 .. Size
BY DEF Since, TypeOK

LEMMA RefusedByType ==
    ASSUME TypeOK, NEW c, NEW r \in SUBSET (1 .. Size)
    PROVE  r \subseteq RefusedBy(c, r) /\ RefusedBy(c, r) \subseteq 1 .. Size
BY DEF RefusedBy
-----------------------------------------------------------------------------
(* Steps. *)

\* A step of one caller leaves the others as they were.
LEMMA OthersOK ==
    ASSUME IInv, NEW c \in Callers, ~Idle(c), NEW k, call' = [call EXCEPT ![c] = k],
           UNCHANGED <<list, gen>>, Since(sel) \subseteq refused',
           NEW d \in Callers \ {c}
    PROVE  CallerOK(d)'
<1>1. call'[d] = call[d] /\ Idle(d)' = Idle(d)
  BY DEF IInv, TypeOK, Idle
<1>2. CallerOK(d) /\ CallerOK(c)
  BY DEF IInv
<1>3. WalkOK(d)'
  <2> SUFFICES ASSUME ~Idle(d), call[d].job \in Walks PROVE WalkOK(d)'
    BY <1>1 DEF WalkOK
  <2>1. call[d].from .. (call[d].at - 1) \subseteq refused'
    BY WalkedStays
  <2> QED
    BY <1>1, <1>2, <2>1 DEF WalkOK, CallerOK, Size
<1>4. AloneOK(d)'
  <2>1. ~(~Idle(d) /\ call[d].job = "startup")
    BY <1>2 DEF CallerOK, AloneOK
  <2> QED
    BY <1>1, <2>1 DEF AloneOK
<1> QED
  BY <1>1, <1>2, <1>3, <1>4 DEF CallerOK

\* A caller with no walk and nothing sent is in order.
LEMMA QuietOK ==
    ASSUME IInv, NEW c \in Callers, NEW k, call' = [call EXCEPT ![c] = k], gen' = gen,
           k.pc = "idle" \/ k.job \notin Walks, k.gen <= gen
    PROVE  CallerOK(c)'
<1>1. call'[c] = k
  BY DEF IInv, TypeOK
<1> QED
  BY <1>1 DEF CallerOK, WalkOK, AloneOK, Idle, Walks

LEMMA StillHeld ==
    ASSUME TypeOK, HeldStill, NEW c \in Callers, NEW k, k.pc # "sent",
           call' = [call EXCEPT ![c] = k], gen' = gen
    PROVE  HeldStill'
<1> SUFFICES ASSUME NEW d \in Callers, Sent(d)' PROVE call'[d].gen # gen'
  BY DEF HeldStill
<1>1. d # c
  BY DEF TypeOK, Sent
<1> QED
  BY <1>1 DEF TypeOK, HeldStill, Sent

\* A caller is done, or waits, and the selection stays.
LEMMA CallDone ==
    ASSUME IInv, NEW c \in Callers, ~Idle(c), NEW k \in Call, k.pc # "sent", k.gen <= gen,
           k.pc = "idle" \/ k.job \notin Walks,
           call' = [call EXCEPT ![c] = k], UNCHANGED <<list, gen, sel>>,
           refused \subseteq refused', refused' \subseteq 1 .. Size, tally' \in Tallies
    PROVE  IInv'
<1>1. TypeOK'
  BY DEF IInv, TypeOK, Tallies, Size
<1>2. \A d \in Callers : CallerOK(d)'
  <2>1. Since(sel) \subseteq refused'
    BY SinceType DEF IInv
  <2> QED
    BY <2>1, OthersOK, QuietOK
<1>3. PassedRefused'
  BY DEF IInv, PassedRefused
<1>4. HeldOK'
  BY StillHeld DEF IInv, HeldOK, Size
<1> QED
  BY <1>1, <1>2, <1>3, <1>4 DEF IInv

LEMMA NothingFields ==
    ASSUME TypeOK PROVE Nothing.pc = "idle" /\ Nothing.gen <= gen /\ Nothing.job = "read"
BY ListType DEF Nothing

LEMMA DoneSteps ==
    ASSUME IInv, NEW c \in Callers,
           Served(c) \/ Rejected(c) \/ Exhausts(c) \/ AgainFails(c)
    PROVE  IInv'
<1>1. TypeOK /\ tally \in Tallies /\ refused \subseteq 1 .. Size
  BY SelType DEF IInv, TypeOK
<1>2. /\ ~Idle(c) /\ UNCHANGED <<list, gen, sel>>
      /\ call' = [call EXCEPT ![c] = Nothing]
      /\ refused' \in {refused, RefusedBy(c, refused)}
  BY DEF Served, Rejected, Exhausts, AgainFails, Sent, Idle, Ends, Aside
<1>3. tally' \in Tallies
  BY <1>1, TallyTypes DEF Served, Rejected, Exhausts, AgainFails
<1>4. refused \subseteq refused' /\ refused' \subseteq 1 .. Size
  BY <1>1, <1>2, RefusedByType
<1> QED
  BY <1>1, <1>2, <1>3, <1>4, CallDone, NothingType, NothingFields

\* What failoverToNextRPC leaves, told of a provider of the list.
LEMMA FailOverSteps ==
    ASSUME IInv, NEW c \in Callers, Sent(c), NEW t \in Tallies
    PROVE  LET s == FailOver(sel, t, call[c].url, call[c].gen)
               r == RefusedBy(c, Since(sel))
           IN  /\ s \in Selections
               /\ 1 .. (s.active - 1) \subseteq r
               /\ s.halt > sel.halt => r = 1 .. Size
               /\ s.halt > 0 => \/ s.active = Size /\ s.sticky = s.halt
                                \/ s.active = 1 /\ HeldStill
<1> DEFINE u == call[c].url
           g == call[c].gen
           now == Current(sel)
           s == FailOver(sel, t, u, g)
           r == RefusedBy(c, Since(sel))
<1>1. /\ TypeOK /\ sel \in Selections /\ now \in Selections /\ now.halt = sel.halt
      /\ Size \in Nat \ {0} /\ Pause \in Nat /\ Since(sel) \subseteq 1 .. Size
      /\ 1 .. (now.active - 1) \subseteq Since(sel)
      /\ now.active \in 1 .. Size /\ sel.halt \in 0 .. Pause
  BY SelType, CurrentType, ListType, SinceType, PassedSince, ConstantsAssumption
     DEF IInv, Selections
<1>2. Since(sel) \subseteq r /\ r \subseteq 1 .. Size
  BY <1>1, RefusedByType
<1>3. sel.halt > 0 => /\ now = sel
                      /\ \/ sel.active = Size /\ sel.sticky = sel.halt
                         \/ sel.active = 1 /\ HeldStill
  <2>1. sel.halt > 0 => \/ sel.active = Size /\ sel.sticky = sel.halt
                        \/ sel.active = 1 /\ HeldStill
    BY DEF IInv, HeldOK
  <2>2. sel.halt > 0 => ~Lapsed(sel)
    BY <2>1 DEF Lapsed
  <2> QED
    BY <1>1, <2>1, <2>2, CurrentType
<1>4. CASE ~Moves(sel, t, u, g)
  <2>1. s = now
    BY <1>4 DEF FailOver
  <2> QED
    BY <1>1, <1>2, <1>3, <2>1
<1>5. CASE Moves(sel, t, u, g)
  <2>1. Size > 1 /\ g = gen /\ list[now.active] = u
    BY <1>5 DEF Moves
  <2>2. now.active \in r
    BY <1>1, <2>1 DEF RefusedBy
  <2>3. sel.halt > 0 => now.active = Size
    <3>1. ~HeldStill
      BY <2>1 DEF HeldStill
    <3> QED
      BY <1>3, <3>1
  <2>4. CASE now.active >= Size
    <3> DEFINE e == Exhausted(now)
    <3>1. now.active = Size
      BY <1>1, <2>4
    <3>2. s = Current(e)
      BY <1>5, <2>4 DEF FailOver
    <3>3. e \in Selections /\ e.active = Size /\ e.sticky = Pause /\ e.halt = Pause
      BY <1>1, <3>1, ExhaustedType
    <3>4. r = 1 .. Size
      <4>1. \A i \in 1 .. Size : i \in 1 .. (Size - 1) \/ i = Size
        BY <1>1
      <4> QED
        BY <1>1, <1>2, <2>2, <3>1, <4>1
    <3> HIDE DEF e
    <3>5. s \in Selections /\ s.halt = Pause /\ (Pause > 0 => s = e)
      <4>1. Pause > 0 => ~Lapsed(e)
        BY <3>3 DEF Lapsed
      <4> QED
        BY <1>1, <3>2, <3>3, <4>1, CurrentType
    <3>6. 1 .. (s.active - 1) \subseteq r
      BY <1>1, <3>4, <3>5 DEF Selections
    <3> QED
      BY <1>1, <3>3, <3>4, <3>5, <3>6
  <2>5. CASE ~(now.active >= Size)
    <3> DEFINE n == now.active + 1
    <3>1. s = Engage(now, n) /\ n \in 1 .. Size
      BY <1>1, <1>5, <2>5 DEF FailOver
    <3>2. s \in Selections /\ s.active = now.active + 1 /\ s.halt = sel.halt
      <4>1. n = now.active + 1
        OBVIOUS
      <4> HIDE DEF n, now, s
      <4> QED
        BY <1>1, <3>1, <4>1, EngageType
    <3>3. \A i \in 1 .. (s.active - 1) : i \in 1 .. (now.active - 1) \/ i = now.active
      BY <1>1, <3>2
    <3>4. 1 .. (s.active - 1) \subseteq r
      BY <1>1, <1>2, <2>2, <3>3
    <3>5. sel.halt = 0
      BY <1>1, <2>3, <2>5
    <3> HIDE DEF s, r
    <3> QED
      BY <3>2, <3>4, <3>5 DEF s, r
  <2> QED
    BY <2>4, <2>5
<1> QED
  BY <1>4, <1>5

LEMMA ReportSteps ==
    ASSUME IInv, NEW c \in Callers, Retries(c) \/ BroadcastFails(c)
    PROVE  IInv' /\ (sel'.halt > sel.halt => refused' = 1 .. Size')
<1> DEFINE t == NoteCall(c, FALSE)
           s == FailOver(sel, t, call[c].url, call[c].gen)
           r == RefusedBy(c, Since(sel))
<1>1. /\ Sent(c) /\ ~Idle(c) /\ sel' = s /\ refused' = r /\ UNCHANGED <<list, gen>>
      /\ tally' = TallyAfter(sel, t, call[c].url, call[c].gen)
      /\ call[c].job \notin Walks
  BY DEF Retries, BroadcastFails, Reports, Aside, Sent, Idle, Walks
<1>2. TypeOK /\ t \in Tallies /\ Size' = Size /\ gen \in Nat /\ call[c] \in Call
  BY <1>1, TallyTypes, ListType, CallType DEF IInv, Size
<1>3. tally' \in Tallies
  BY <1>1, <1>2, ForgetType DEF TallyAfter
<1> HIDE DEF t
<1>4. /\ s \in Selections /\ 1 .. (s.active - 1) \subseteq r
      /\ s.halt > sel.halt => r = 1 .. Size
      /\ s.halt > 0 => \/ s.active = Size /\ s.sticky = s.halt
                       \/ s.active = 1 /\ HeldStill
  BY <1>1, <1>2, FailOverSteps
<1>5. Since(sel) \subseteq r /\ r \subseteq 1 .. Size
  BY <1>2, SinceType, RefusedByType
<1> HIDE DEF s, r
<1>6. PICK k \in Call : /\ call' = [call EXCEPT ![c] = k] /\ k.pc # "sent" /\ k.gen <= gen
                        /\ k.pc = "idle" \/ k.job \notin Walks
  <2>1. s.active \in 1 .. Size
    BY <1>4 DEF Selections
  <2>2. CASE Retries(c)
    <3> DEFINE k == Asks(call[c], s.active)
    <3>1. call' = [call EXCEPT ![c] = k]
      BY <1>1, <2>2 DEF Retries
    <3>2. k \in Call /\ k.pc = "queued" /\ k.gen = gen /\ k.job = call[c].job
      BY <1>2, <2>1, AsksType
    <3> HIDE DEF k
    <3>3. k.pc # "sent" /\ k.gen <= gen /\ k.job \notin Walks
      BY <1>1, <1>2, <3>2
    <3> QED
      BY <3>1, <3>2, <3>3, Zenon
  <2>3. CASE BroadcastFails(c)
    <3> DEFINE k == [call[c] EXCEPT !.job = "again"]
    <3>1. k \in Call /\ k.job \notin Walks
      BY <1>2 DEF Call, AllJobs, Walks
    <3>2. \/ call' = [call EXCEPT ![c] = Nothing]
          \/ call' = [call EXCEPT ![c] = Asks(k, s.active)]
      BY <1>1, <2>3 DEF BroadcastFails, Ends
    <3> HIDE DEF k
    <3> QED
      BY <1>2, <2>1, <3>1, <3>2, AsksType, NothingType, NothingFields
  <2> QED
    BY <2>2, <2>3
<1>7. TypeOK'
  BY <1>1, <1>2, <1>3, <1>4, <1>5, <1>6 DEF TypeOK, Selections, Tallies
<1>8. \A d \in Callers : CallerOK(d)'
  BY <1>1, <1>5, <1>6, OthersOK, QuietOK
<1>9. PassedRefused'
  BY <1>1, <1>4 DEF PassedRefused
<1>10. HeldOK'
  BY <1>1, <1>2, <1>4, <1>6, StillHeld DEF HeldOK
<1> QED
  BY <1>1, <1>2, <1>4, <1>7, <1>8, <1>9, <1>10 DEF IInv

\* A walk's endpoint has failed: the walk goes on, or ends.
LEMMA WalkSteps ==
    ASSUME IInv, NEW c \in Callers, EstimateFails(c) \/ EstimateReverts(c) \/ StartupFails(c)
    PROVE  IInv'
<1> DEFINE w == call[c]
           k == Asks([call[c] EXCEPT !.at = @ + 1], call[c].at + 1)
           r == RefusedBy(c, refused)
<1>1. /\ Sent(c) /\ ~Idle(c) /\ UNCHANGED <<list, gen, sel>> /\ refused' = r
      /\ w.job \in Walks /\ w.job \in {"estimate", "startup"}
      /\ \/ w.at < Size /\ call' = [call EXCEPT ![c] = k]
         \/ call' = [call EXCEPT ![c] = Nothing]
  BY DEF EstimateFails, EstimateReverts, StartupFails, WalksOn, Sent, Idle, Aside, Ends,
         Walks
<1>2. /\ TypeOK /\ tally \in Tallies /\ refused \subseteq 1 .. Size /\ gen \in Nat
      /\ Size \in Nat /\ w \in Call
  BY SelType, ListType, CallType DEF IInv, TypeOK
<1>3. tally' \in Tallies
  BY <1>2, TallyTypes DEF EstimateFails, EstimateReverts, StartupFails
<1>4. refused \subseteq r /\ r \subseteq 1 .. Size
  BY <1>2, RefusedByType
<1>5. CASE call' = [call EXCEPT ![c] = Nothing]
  BY <1>1, <1>2, <1>3, <1>4, <1>5, CallDone, NothingType, NothingFields
<1>6. CASE w.at < Size /\ call' = [call EXCEPT ![c] = k]
  <2> DEFINE n == w.at + 1
             h == [call[c] EXCEPT !.at = n]
  <2>1. /\ w.gen = gen /\ w.from \in 1 .. Size /\ w.at \in w.from .. Size
        /\ w.url = list[w.at] /\ w.from .. (w.at - 1) \subseteq refused
    BY <1>1 DEF IInv, CallerOK, WalkOK
  <2>2. n \in 1 .. Size /\ n \in Nat /\ n \in w.from .. Size
    BY <1>2, <1>6, <2>1
  <2>3. h \in Call /\ h.at = n /\ h.from = w.from /\ h.job = w.job
    <3> HIDE DEF n
    <3> QED
      BY <1>2, <2>2 DEF Call
  <2>4. k = Asks(h, n)
    OBVIOUS
  <2>5. /\ k \in Call /\ k.pc = "queued" /\ k.gen = gen /\ k.url = list[n]
        /\ k.job = w.job /\ k.at = n /\ k.from = w.from
    <3> HIDE DEF h, n, k
    <3> QED
      BY <1>2, <2>2, <2>3, <2>4, AsksType
  <2>6. w.at \in r
    BY <1>2, <2>1 DEF RefusedBy
  <2>7. w.from .. (n - 1) \subseteq r
    <3>1. \A i \in w.from .. (n - 1) : i \in w.from .. (w.at - 1) \/ i = w.at
      BY <1>2, <2>1
    <3> QED
      BY <1>4, <2>1, <2>6, <3>1
  <2> HIDE DEF k, n, r, w
  <2>8. call' = [call EXCEPT ![c] = k] /\ call'[c] = k
    BY <1>2, <1>6 DEF TypeOK
  <2>9. CallerOK(c)'
    <3>1. WalkOK(c)'
      BY <1>1, <2>1, <2>2, <2>5, <2>7, <2>8 DEF WalkOK, Size
    <3>2. AloneOK(c)'
      <4>1. AloneOK(c) /\ ~Idle(c) /\ w.job = call[c].job /\ w.from = call[c].from
        BY <1>1 DEF IInv, CallerOK, w
      <4>2. \A d \in Callers \ {c} : Idle(d)' = Idle(d)
        BY <1>2, <2>8 DEF TypeOK, Idle
      <4>3. ~Sent(c)'
        BY <2>5, <2>8 DEF Sent
      <4> QED
        BY <2>5, <2>8, <4>1, <4>2, <4>3 DEF AloneOK
    <3> QED
      BY <1>1, <1>2, <2>5, <2>8, <3>1, <3>2 DEF CallerOK
  <2>10. \A d \in Callers : CallerOK(d)'
    <3>1. Since(sel) \subseteq refused'
      BY <1>1, <1>2, <1>4, SinceType
    <3> QED
      BY <1>1, <2>8, <2>9, <3>1, OthersOK
  <2>11. TypeOK'
    BY <1>1, <1>2, <1>3, <1>4, <2>5, <2>8 DEF TypeOK, Tallies, Size
  <2>12. PassedRefused'
    BY <1>1, <1>4 DEF IInv, PassedRefused
  <2>13. HeldOK'
    BY <1>1, <1>2, <2>5, <2>8, StillHeld DEF IInv, HeldOK, Size
  <2> QED
    BY <2>10, <2>11, <2>12, <2>13 DEF IInv
<1> QED
  BY <1>1, <1>5, <1>6

\* The selection is taken past endpoints that failed, with nothing held.
LEMMA EngageSteps ==
    ASSUME IInv, NEW c \in Callers, Sent(c), NEW i \in 1 .. Size,
           sel.halt = 0, 1 .. (i - 1) \subseteq refused, sel' = Engage(sel, i),
           UNCHANGED <<list, gen, refused>>, tally' \in Tallies,
           call' = [call EXCEPT ![c] = Nothing]
    PROVE  IInv'
<1>1. /\ TypeOK /\ sel \in Selections /\ Size \in Nat
  BY SelType, ListType DEF IInv
<1>2. sel' \in Selections /\ sel'.active = i /\ sel'.halt = 0
  BY <1>1, EngageType
<1>3. TypeOK'
  BY <1>1, <1>2, NothingType DEF TypeOK, Tallies, Selections, Size
<1>4. \A d \in Callers : CallerOK(d)'
  <2>1. Since(sel) \subseteq refused' /\ ~Idle(c)
    BY <1>1, SinceType DEF Sent, Idle
  <2> QED
    BY <1>1, <2>1, OthersOK, QuietOK, NothingFields
<1>5. PassedRefused' /\ HeldOK'
  BY <1>2 DEF PassedRefused, HeldOK
<1> QED
  BY <1>3, <1>4, <1>5 DEF IInv

\* A walk that has gone past its first endpoint answers with nothing held.
LEMMA WalkNotHeld ==
    ASSUME IInv, NEW c \in Callers, Sent(c), call[c].job \in Walks, call[c].from < call[c].at,
           \/ sel.active = call[c].from
           \/ call[c].job = "startup"
    PROVE  sel.halt = 0
<1>1. /\ call[c].gen = gen /\ call[c].from \in 1 .. Size
      /\ call[c].at \in call[c].from .. Size
  BY DEF IInv, CallerOK, WalkOK, Sent, Idle
<1>2. Size \in Nat /\ sel.halt \in Nat
  <2>1. Pause \in Nat
    BY ConstantsAssumption
  <2> QED
    BY <2>1, ListType, SelType DEF IInv, Selections
<1>3. CASE call[c].job = "startup"
  BY <1>3 DEF IInv, CallerOK, AloneOK, Sent, Idle
<1>4. CASE sel.active = call[c].from
  <2>1. sel.active # Size /\ ~HeldStill
    BY <1>1, <1>2, <1>4 DEF HeldStill
  <2> QED
    BY <1>2, <2>1 DEF IInv, HeldOK
<1> QED
  BY <1>3, <1>4

LEMMA AnswerSteps ==
    ASSUME IInv, NEW c \in Callers, EstimateAnswers(c) \/ StartupAnswers(c)
    PROVE  IInv'
<1> DEFINE w == call[c]
           first == w.at = w.from
<1>1. /\ Sent(c) /\ ~Idle(c) /\ UNCHANGED <<list, gen, refused>>
      /\ w.job \in Walks /\ call' = [call EXCEPT ![c] = Nothing]
  BY DEF EstimateAnswers, StartupAnswers, Sent, Idle, Ends, Aside, Walks
<1>2. TypeOK /\ refused \subseteq 1 .. Size /\ Size \in Nat
  BY ListType DEF IInv, TypeOK
<1>3. tally' \in Tallies
  <2>1. NoteCall(c, TRUE) \in Tallies /\ NoteWalk(c, TRUE) \in Tallies
    BY <1>2, TallyTypes
  <2>2. CASE EstimateAnswers(c)
    <3>1. PICK t \in Tallies : tally' = t \/ tally' = Forget(t, w.from)
      BY <2>1, <2>2 DEF EstimateAnswers
    <3> QED
      BY <3>1, ForgetType
  <2>3. CASE StartupAnswers(c)
    <3>1. PICK t \in Tallies : tally' = t \/ tally' = Forget(t, 1)
      BY <2>1, <2>3 DEF StartupAnswers
    <3> QED
      BY <3>1, ForgetType
  <2> QED
    BY <2>2, <2>3
<1>4. /\ w.from \in 1 .. Size /\ w.at \in w.from .. Size
      /\ w.from .. (w.at - 1) \subseteq refused
  BY <1>1 DEF IInv, CallerOK, WalkOK
<1>5. CASE sel' = sel
  <2>1. refused \subseteq refused'
    BY <1>1
  <2> QED
    BY <1>1, <1>2, <1>3, <1>5, <2>1, CallDone, NothingType, NothingFields
<1>6. CASE sel' # sel
  <2>1. /\ sel' = Engage(sel, w.at) /\ w.from < w.at
        /\ \/ sel.active = w.from
           \/ w.job = "startup" /\ w.from = 1
    <3>1. CASE EstimateAnswers(c)
      BY <1>2, <1>4, <1>6, <3>1 DEF EstimateAnswers
    <3>2. CASE StartupAnswers(c)
      <4>1. w.job = "startup" /\ w.from = 1
        BY <1>1, <3>2 DEF StartupAnswers, IInv, CallerOK, AloneOK
      <4> QED
        BY <1>6, <3>2, <4>1 DEF StartupAnswers
    <3> QED
      BY <3>1, <3>2
  <2>2. sel.halt = 0
    BY <1>1, <2>1, WalkNotHeld
  <2>3. 1 .. (w.at - 1) \subseteq refused /\ w.at \in 1 .. Size
    <3>1. 1 .. (w.from - 1) \subseteq refused
      BY <1>2, <2>1 DEF IInv, PassedRefused
    <3>2. \A i \in 1 .. (w.at - 1) : i \in 1 .. (w.from - 1) \/ i \in w.from .. (w.at - 1)
      BY <1>2, <1>4
    <3> QED
      BY <1>2, <1>4, <3>1, <3>2
  <2> HIDE DEF w
  <2> QED
    BY <1>1, <1>3, <2>1, <2>2, <2>3, EngageSteps
<1> QED
  BY <1>5, <1>6

LEMMA BeginSteps ==
    ASSUME MidRun = FALSE, IInv, NEW c \in Callers, NEW j \in Jobs, Begin(c, j)
    PROVE  IInv'
<1> DEFINE s == Current(sel)
           i == IF j = "startup" THEN 1 ELSE s.active
           h == [Nothing EXCEPT !.job = j, !.at = IF j \in Walks THEN i ELSE 0,
                                !.from = IF j \in Walks THEN i ELSE 0]
           k == Asks(h, i)
<1>1. /\ Idle(c) /\ UNCHANGED <<list, gen, tally>> /\ call' = [call EXCEPT ![c] = k]
      /\ \A d \in Callers \ {c} : Idle(d) \/ (j # "startup" /\ call[d].job # "startup")
      /\ \/ j = "startup" /\ UNCHANGED <<sel, refused>>
         \/ j # "startup" /\ sel' = s /\ refused' = Since(sel)
  BY DEF Begin
<1>2. /\ TypeOK /\ sel \in Selections /\ s \in Selections /\ s.halt = sel.halt
      /\ Size \in Nat \ {0} /\ gen \in Nat /\ Since(sel) \subseteq refused
      /\ refused \subseteq 1 .. Size /\ 1 .. (s.active - 1) \subseteq Since(sel)
  BY SelType, CurrentType, ListType, SinceType, PassedSince DEF IInv, TypeOK
<1>3. i \in 1 .. Size /\ j \in AllJobs /\ j # "again"
  BY <1>2, ConstantsAssumption DEF Selections
<1> HIDE DEF s, i
<1>4. h \in Call /\ h.job = j /\ (j \in Walks => h.at = i /\ h.from = i)
  <2>1. (IF j \in Walks THEN i ELSE 0) \in Nat
    BY <1>2, <1>3
  <2> QED
    BY <1>3, <2>1, NothingType DEF Call, Nothing
<1> HIDE DEF h
<1>5. /\ k \in Call /\ k.pc = "queued" /\ k.gen = gen /\ k.url = list[i] /\ k.job = j
      /\ j \in Walks => k.at = i /\ k.from = i
  BY <1>2, <1>3, <1>4, AsksType
<1> HIDE DEF k
<1>6. call'[c] = k /\ \A d \in Callers \ {c} : call'[d] = call[d]
  BY <1>1, <1>2 DEF TypeOK
<1>7. Since(sel) \subseteq refused' /\ refused' \subseteq 1 .. Size
  BY <1>1, <1>2
<1>8. CallerOK(c)'
  <2>1. WalkOK(c)'
    <3> SUFFICES ASSUME j \in Walks PROVE WalkOK(c)'
      BY <1>5, <1>6 DEF WalkOK
    <3>1. k.from .. (k.at - 1) = {}
      BY <1>2, <1>3, <1>5
    <3>2. k.at \in k.from .. Size
      BY <1>2, <1>3, <1>5
    <3> QED
      BY <1>1, <1>3, <1>5, <1>6, <3>1, <3>2 DEF WalkOK, Size
  <2>2. AloneOK(c)'
    <3> SUFFICES ASSUME j = "startup" PROVE AloneOK(c)'
      BY <1>5, <1>6 DEF AloneOK
    <3>1. k.from = 1
      BY <1>5 DEF Walks, i
    <3>2. \A d \in Callers \ {c} : Idle(d)'
      BY <1>1, <1>6 DEF Idle
    <3>3. ~Sent(c)'
      BY <1>5, <1>6 DEF Sent
    <3> QED
      BY <1>6, <3>1, <3>2, <3>3 DEF AloneOK
  <2> QED
    BY <1>1, <1>2, <1>5, <1>6, <2>1, <2>2 DEF CallerOK
<1>9. ASSUME NEW d \in Callers \ {c} PROVE CallerOK(d)'
  <2>1. CallerOK(d) /\ Idle(d)' = Idle(d) /\ call'[d] = call[d]
    BY <1>6 DEF IInv, Idle
  <2>2. WalkOK(d)'
    <3> SUFFICES ASSUME ~Idle(d), call[d].job \in Walks PROVE WalkOK(d)'
      BY <2>1 DEF WalkOK
    <3>1. call[d].from .. (call[d].at - 1) \subseteq refused'
      BY <1>7, WalkedStays
    <3> QED
      BY <1>1, <2>1, <3>1 DEF WalkOK, CallerOK, Size
  <2>3. AloneOK(d)'
    BY <1>1, <2>1 DEF AloneOK
  <2> QED
    BY <1>1, <2>1, <2>2, <2>3 DEF CallerOK
<1>10. TypeOK'
  <2>1. sel' \in Selections
    BY <1>1, <1>2
  <2> QED
    BY <1>1, <1>2, <1>5, <1>7, <2>1 DEF TypeOK, Selections, Size
<1>11. PassedRefused'
  BY <1>1, <1>2 DEF IInv, PassedRefused
<1>12. HeldOK'
  <2>1. sel.halt > 0 => ~Lapsed(sel)
    BY DEF IInv, HeldOK, Lapsed
  <2>2. sel.halt > 0 => sel' = sel
    BY <1>1, <1>2, <2>1, CurrentType DEF s
  <2>3. sel'.halt = sel.halt
    BY <1>1, <1>2
  <2> QED
    BY <1>1, <1>2, <1>5, <2>2, <2>3, StillHeld DEF IInv, HeldOK, Size
<1> QED
  BY <1>8, <1>9, <1>10, <1>11, <1>12 DEF IInv

LEMMA ReleaseSteps ==
    ASSUME IInv, NEW c \in Callers, Release(c) PROVE IInv'
<1> DEFINE k == [call[c] EXCEPT !.pc = "sent"]
<1>1. /\ call[c].pc = "queued" /\ sel.halt = 0 /\ UNCHANGED <<list, gen, sel, tally, refused>>
      /\ call' = [call EXCEPT ![c] = k]
  BY DEF Release
<1>2. /\ k \in Call /\ k.pc = "sent" /\ k.gen = call[c].gen /\ k.url = call[c].url
      /\ k.job = call[c].job /\ k.at = call[c].at /\ k.from = call[c].from
  BY CallType DEF IInv, Call
<1> HIDE DEF k
<1>3. call'[c] = k /\ \A d \in Callers \ {c} : call'[d] = call[d]
  BY <1>1 DEF IInv, TypeOK
<1>4. \A d \in Callers : Idle(d)' = Idle(d)
  BY <1>1, <1>2, <1>3 DEF Idle
<1>5. ASSUME NEW d \in Callers PROVE CallerOK(d)'
  <2>1. /\ CallerOK(d) /\ call'[d].gen = call[d].gen /\ call'[d].url = call[d].url
        /\ call'[d].job = call[d].job /\ call'[d].at = call[d].at
        /\ call'[d].from = call[d].from
    BY <1>2, <1>3 DEF IInv
  <2>2. WalkOK(d)'
    BY <1>1, <1>4, <2>1 DEF WalkOK, CallerOK, Size
  <2>3. AloneOK(d)'
    BY <1>1, <1>4, <2>1 DEF AloneOK, CallerOK
  <2> QED
    BY <1>1, <2>1, <2>2, <2>3 DEF CallerOK
<1>6. TypeOK'
  BY <1>1, <1>2 DEF IInv, TypeOK, Size
<1>7. PassedRefused' /\ HeldOK'
  BY <1>1 DEF IInv, PassedRefused, HeldOK
<1> QED
  BY <1>5, <1>6, <1>7 DEF IInv

LEMMA ListSteps ==
    ASSUME MidRun = FALSE, IInv, NEW l \in Lists, ListChanges(l) PROVE IInv'
<1>1. /\ list' = l /\ gen' = gen + 1 /\ gen < MaxChanges /\ refused' = {}
      /\ sel' = [sel EXCEPT !.active = 1, !.sticky = 0] /\ UNCHANGED <<tally, call>>
      /\ \A c \in Callers : Idle(c) \/ call[c].job \notin {"estimate", "startup"}
  BY DEF ListChanges
<1>2. TypeOK /\ sel \in Selections /\ gen \in Nat /\ MaxChanges \in Nat /\ gen \in 0 .. MaxChanges
  BY SelType, ListType, ConstantsAssumption DEF IInv, TypeOK
<1>3. Size' \in Nat \ {0}
  <2>1. l \in Seq(Urls) /\ l # <<>>
    BY ConstantsAssumption
  <2> QED
    BY <1>1, <2>1 DEF Size
<1>4. /\ sel'.active = 1 /\ sel'.halt = sel.halt
      /\ sel' \in [active : 1 .. Size', sticky : Nat, halt : 0 .. Pause]
  <2>1. sel.halt \in 0 .. Pause /\ 0 \in Nat /\ 1 \in 1 .. Size'
    BY <1>2, <1>3 DEF Selections
  <2>2. sel' = [active |-> 1, sticky |-> 0, halt |-> sel.halt]
    BY <1>1, <1>2 DEF Selections
  <2> QED
    BY <2>1, <2>2, Zenon
<1>5. TypeOK'
  BY <1>1, <1>2, <1>4 DEF TypeOK
<1>6. \A c \in Callers : CallerOK(c)' /\ call'[c].gen # gen'
  <2> TAKE c \in Callers
  <2>1. call[c].gen \in Nat /\ call[c].gen <= gen /\ call'[c] = call[c]
    BY <1>1, <1>2, CallType DEF IInv, CallerOK
  <2>2. ~(~Idle(c)' /\ call'[c].job \in Walks)
    BY <1>1 DEF Idle, Walks
  <2>3. WalkOK(c)' /\ AloneOK(c)'
    BY <2>2 DEF WalkOK, AloneOK, Walks
  <2>4. call'[c].gen <= gen' /\ call'[c].gen # gen'
    BY <1>1, <1>2, <2>1
  <2> QED
    BY <2>3, <2>4 DEF CallerOK
<1>7. PassedRefused' /\ HeldOK'
  BY <1>3, <1>4, <1>6 DEF PassedRefused, HeldOK, HeldStill
<1> QED
  BY <1>5, <1>6, <1>7 DEF IInv

LEMMA TimeSteps ==
    ASSUME IInv, TimePasses \/ \E u \in Urls : OutcomeAges(u) PROVE IInv'
<1>1. TypeOK /\ sel \in Selections /\ tally \in Tallies /\ Pause \in Nat
  BY SelType, ConstantsAssumption DEF IInv
<1>2. CASE TimePasses
  <2>1. /\ sel' = [sel EXCEPT !.sticky = Less(@), !.halt = Less(@)]
        /\ UNCHANGED <<list, gen, tally, call, refused>>
    BY <1>2 DEF TimePasses
  <2>2. /\ Less(sel.sticky) \in Nat /\ Less(sel.halt) \in 0 .. Pause
        /\ Less(sel.halt) <= sel.halt /\ (sel.halt = 0 => Less(sel.halt) = 0)
    BY <1>1 DEF Less, Selections
  <2>3. /\ sel' \in Selections /\ sel'.active = sel.active
        /\ sel'.sticky = Less(sel.sticky) /\ sel'.halt = Less(sel.halt)
    BY <1>1, <2>1, <2>2 DEF Selections
  <2>4. TypeOK'
    BY <1>1, <2>1, <2>3 DEF TypeOK, Selections, Size
  <2>5. sel'.halt > 0 => sel.halt > 0
    BY <1>1, <2>2, <2>3 DEF Selections
  <2>6. \A c \in Callers : CallerOK(c)'
    BY <2>1, <2>2, <2>3 DEF IInv, CallerOK, WalkOK, AloneOK, Idle, Sent, Size
  <2>7. PassedRefused' /\ HeldOK'
    BY <2>1, <2>3, <2>5 DEF IInv, PassedRefused, HeldOK, HeldStill, Sent, Size
  <2> QED
    BY <2>4, <2>6, <2>7 DEF IInv
<1>3. CASE \E u \in Urls : OutcomeAges(u)
  <2>1. PICK u \in Urls : tally[u] # <<>> /\ tally' = [tally EXCEPT ![u] = Tail(@)]
                          /\ UNCHANGED <<list, gen, sel, call, refused>>
    BY <1>3 DEF OutcomeAges
  <2>2. tally' \in Tallies
    <3>1. tally[u] \in Seq(BOOLEAN)
      BY <1>1 DEF Tallies
    <3>2. Tail(tally[u]) \in Seq(BOOLEAN)
      BY <2>1, <3>1, HeadTailProperties
    <3> QED
      BY <1>1, <2>1, <3>2 DEF Tallies
  <2> QED
    BY <1>1, <2>1, <2>2
       DEF IInv, TypeOK, Tallies, CallerOK, WalkOK, AloneOK, Idle, Sent, Size, PassedRefused,
           HeldOK, HeldStill
<1> QED
  BY <1>2, <1>3

-----------------------------------------------------------------------------
(* The theorems. *)

LEMMA InvInit == Init => IInv
<1> SUFFICES ASSUME Init PROVE IInv
  OBVIOUS
<1>1. TypeOK
  <2>1. list \in Seq(Urls) /\ list # <<>> /\ list \in Lists
    BY ConstantsAssumption DEF Init
  <2>2. Size \in Nat \ {0} /\ Pause \in Nat /\ MaxChanges \in Nat
    BY <2>1, ConstantsAssumption DEF Size
  <2>3. [active |-> 1, sticky |-> 0, halt |-> 0] \in Selections
    BY <2>2 DEF Selections
  <2>4. <<>> \in Seq(BOOLEAN)
    OBVIOUS
  <2> QED
    BY <2>1, <2>2, <2>3, <2>4, NothingType DEF Init, TypeOK, Selections
<1>2. \A c \in Callers : CallerOK(c)
  BY DEF Init, CallerOK, WalkOK, AloneOK, Idle, Nothing
<1> QED
  BY <1>1, <1>2 DEF Init, IInv, PassedRefused, HeldOK

LEMMA InvNext == ASSUME MidRun = FALSE PROVE IInv /\ [Next]_vars => IInv'
<1> SUFFICES ASSUME IInv, [Next]_vars PROVE IInv'
  OBVIOUS
<1>1. CASE UNCHANGED vars
  BY <1>1 DEF vars, IInv, TypeOK, CallerOK, WalkOK, AloneOK, Idle, Sent, Size, PassedRefused,
              HeldOK, HeldStill
<1>2. CASE Next
  BY <1>2, BeginSteps, ReleaseSteps, DoneSteps, ReportSteps, WalkSteps, AnswerSteps, ListSteps,
     TimeSteps, Zenon DEF Next, Replies
<1> QED
  BY <1>1, <1>2

\* The selection is always a place in the list, and every variable has its type, for any
\* lists and callers, when the list stays as it is while a walk of it awaits an answer.
THEOREM TypeCorrect == ASSUME MidRun = FALSE PROVE Spec => []TypeOK
<1>1. IInv => TypeOK
  BY DEF IInv
<1> QED
  BY <1>1, InvInit, InvNext, PTL DEF Spec

\* While requests are held the app sits on the last endpoint and returns to the first as the
\* hold ends, for any sticky window, pause and share of failures.
THEOREM HeldAtTheLastCorrect == ASSUME MidRun = FALSE PROVE Spec => []HeldAtTheLast
<1>1. IInv => HeldAtTheLast
  BY DEF IInv, HeldOK, HeldAtTheLast
<1> QED
  BY <1>1, InvInit, InvNext, PTL DEF Spec

\* Only reports lengthen the hold.
LEMMA OthersHold ==
    ASSUME IInv, NEW c \in Callers,
           \/ \E j \in Jobs : Begin(c, j)
           \/ Release(c) \/ Served(c) \/ Rejected(c) \/ Exhausts(c) \/ AgainFails(c)
           \/ EstimateFails(c) \/ EstimateReverts(c) \/ EstimateAnswers(c)
           \/ StartupFails(c) \/ StartupAnswers(c)
    PROVE  sel'.halt = sel.halt
<1>1. sel \in Selections
  BY SelType DEF IInv
<1>2. CASE \E j \in Jobs : Begin(c, j)
  BY <1>1, <1>2, CurrentType DEF Begin, IInv
<1>3. CASE EstimateAnswers(c) \/ StartupAnswers(c)
  <2>1. PICK i : sel' = sel \/ sel' = Engage(sel, i)
    BY <1>3 DEF EstimateAnswers, StartupAnswers
  <2> QED
    BY <1>1, <2>1 DEF Engage, Selections
<1>4. CASE \/ Release(c) \/ Served(c) \/ Rejected(c) \/ Exhausts(c) \/ AgainFails(c)
           \/ EstimateFails(c) \/ EstimateReverts(c) \/ StartupFails(c)
  BY <1>4 DEF Release, Served, Rejected, Exhausts, AgainFails, EstimateFails,
              EstimateReverts, StartupFails, WalksOn
<1> QED
  BY <1>2, <1>3, <1>4

\* However late reports arrive, requests are held only when every endpoint of the list has
\* failed one since the list last started over: for any list and any number of callers.
THEOREM ListSpentCorrect == ASSUME MidRun = FALSE PROVE Spec => ListSpentByRefusals
<1>1. IInv /\ [Next]_vars => [sel'.halt > sel.halt => refused' = 1 .. Size']_vars
  <2> SUFFICES ASSUME IInv, Next, sel'.halt > sel.halt PROVE refused' = 1 .. Size'
    OBVIOUS
  <2>1. sel \in Selections /\ sel.halt \in Nat
    <3>1. Pause \in Nat
      BY ConstantsAssumption
    <3> QED
      BY <3>1, SelType DEF IInv, Selections
  <2>2. ASSUME NEW c \in Callers, Retries(c) \/ BroadcastFails(c) PROVE refused' = 1 .. Size'
    BY <2>2, ReportSteps
  <2>3. ASSUME NEW l \in Lists, ListChanges(l) PROVE FALSE
    <3>1. sel'.halt = sel.halt
      BY <2>1, <2>3 DEF ListChanges, Selections
    <3> QED
      BY <2>1, <3>1
  <2>4. ASSUME TimePasses PROVE FALSE
    <3>1. sel'.halt = Less(sel.halt)
      BY <2>1, <2>4 DEF TimePasses, Selections
    <3> QED
      BY <2>1, <3>1 DEF Less
  <2>5. ASSUME NEW u \in Urls, OutcomeAges(u) PROVE FALSE
    BY <2>1, <2>5 DEF OutcomeAges
  <2>6. ASSUME sel'.halt = sel.halt PROVE FALSE
    BY <2>1, <2>6
  <2> QED
    BY <2>2, <2>3, <2>4, <2>5, <2>6, OthersHold, Zenon DEF Next, Replies
<1> QED
  BY <1>1, InvInit, InvNext, PTL DEF Spec, ListSpentByRefusals

=============================================================================
