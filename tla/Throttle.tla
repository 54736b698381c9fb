------------------------------- MODULE Throttle -------------------------------
(*****************************************************************************)
(* One position's rebalance throttle (src/lib/throttle.js): a minimum        *)
(* interval, a daily cap, and a wait that doubles when rebalances come too   *)
(* thick.  A throttle is a record, and each function of the handle is an     *)
(* operator from the throttle it finds to the one it leaves.                 *)
(*                                                                           *)
(* Time is in ticks, and a time stamp is its age.  Ages beyond MaxAge and    *)
(* waits beyond MaxWait act alike, and are not told apart; the stamps kept   *)
(* for the doubling are counted by age, and one no window reaches is dropped.*)
(*****************************************************************************)
EXTENDS Naturals, FiniteSetsExt

CONSTANTS
    TriggerCount,           \* throttleDoubling.triggerCount
    TriggerWindowMultiple,  \* throttleDoubling.triggerWindowMultiple
    QuietWindowMultiple,    \* throttleDoubling.quietWindowMultiple
    Intervals,              \* minimum intervals the owner may configure
    MaxAge,                 \* bound: an age this great is "long ago"
    MaxWait                 \* bound: a wait this long outlasts the day

\* lastRebTime is long ago when there was none.  due: midnight has passed, and tick has not seen it.
Throttles ==
    [minInterval : Nat, dailyCount : Nat, age : 0 .. MaxAge,
     stamps : [0 .. MaxAge -> Nat], doublings : Nat, wait : Nat, due : BOOLEAN]

Fresh(interval) ==
    [minInterval |-> interval, dailyCount |-> 0, age |-> MaxAge,
     stamps |-> [a \in 0 .. MaxAge |-> 0], doublings |-> 0, wait |-> interval, due |-> FALSE]

AtMost(n, cap) == IF n > cap THEN cap ELSE n

EffectiveWait(t) == IF t.doublings > 0 THEN t.wait ELSE t.minInterval

\* canRebalance.  No lastRebTime (0) asks for no wait.
CanRebalance(t, dailyMax) ==
    t.dailyCount < dailyMax /\ (t.age = MaxAge \/ t.age >= EffectiveWait(t))

\* The rebalances in the window that triggers a doubling.
Recent(t) ==
    MapThenSumSet(LAMBDA a : t.stamps[a],
        {a \in 0 .. MaxAge : a <= TriggerWindowMultiple * t.minInterval})

InSomeWindow(a) == \E i \in Intervals : a <= TriggerWindowMultiple * i

\* _evaluateDoubling
Doubled(t) ==
    IF t.doublings > 0
    THEN [t EXCEPT !.doublings = @ + 1, !.wait = AtMost(2 * @, MaxWait)]
    ELSE IF Recent(t) >= TriggerCount
    THEN [t EXCEPT !.doublings = 1,
                   !.wait = AtMost(2 * t.minInterval, MaxWait)]
    ELSE t

\* recordRebalance
Recorded(t) ==
    Doubled([t EXCEPT !.age = 0, !.dailyCount = @ + 1,
                      !.stamps[0] = @ + 1])

\* A bug: the day's reset forgets the last rebalance too.
ResetForgets(t) == [Fresh(t.minInterval) EXCEPT !.due = FALSE]

\* _resetDaily keeps the last rebalance's time.
Reset(t) == [Fresh(t.minInterval) EXCEPT !.age = t.age]

\* _maybeExpireDoubling
Expired(t) ==
    IF t.doublings > 0 /\ t.age > QuietWindowMultiple * t.wait
    THEN [t EXCEPT !.doublings = 0, !.wait = t.minInterval] ELSE t

\* A bug: midnight goes unnoticed.
TickedOnly(t) == Expired(t)

\* tick, at the top of each poll.
Ticked(t) == Expired(IF t.due THEN Reset(t) ELSE t)

\* configure, before it.
Configured(t, interval) ==
    [t EXCEPT !.minInterval = interval,
              !.wait = IF t.doublings > 0 THEN @ ELSE interval]

\* rehydrate
Rehydrated(t, n) == [t EXCEPT !.dailyCount = n]

\* One tick of the clock; midnight is the one at which the day ends.
Aged(t, midnight) ==
    [t EXCEPT !.age = AtMost(@ + 1, MaxAge), !.due = @ \/ midnight,
              !.stamps = [a \in 0 .. MaxAge |->
                  IF a > 0 /\ InSomeWindow(a) THEN @[a - 1] ELSE 0]]
=============================================================================
