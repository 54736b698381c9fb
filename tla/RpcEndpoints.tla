----------------------------- MODULE RpcEndpoints -----------------------------
(*****************************************************************************)
(* Which RPC endpoint the app talks to.  One ordered list for the process    *)
(* (src/lib/send-transaction.js): the first endpoint is preferred, a failing *)
(* one is left for the next and returned to when the sticky window lapses,   *)
(* and when the last one fails too, every request is held for a pause        *)
(* (rpc-endpoints-exhausted.js, rpc-request-manager.js).  An endpoint fails  *)
(* when it fails more than a share of what it was asked of late              *)
(* (rpc-out-of-service.js).  A 429 is waited out within a request.           *)
(*                                                                           *)
(* The selection is shared by callers that each await one request at a time: *)
(* plain reads and bounded ones (rpc-read-retry.js), broadcasts              *)
(* (nonce-manager-wrapper.js), gas estimates that walk the list, and the     *)
(* probe at startup.  Each reports an endpoint it chose before its await to  *)
(* a selection that may have moved since.                                    *)
(*                                                                           *)
(* A provider is its URL and the generation of the list it was built for.    *)
(* Time is in ticks left, so that the model has no horizon.  The request     *)
(* queue's pacing is left out: requests that wait leave it in any order.     *)
(*****************************************************************************)
EXTENDS Naturals, Sequences, FiniteSets

CONSTANTS
    Urls,          \* endpoints
    Lists,         \* the lists the operator may configure
    Callers,       \* callers that may each await one request
    Jobs,          \* what they ask for: a subset of AllJobs
    Sticky,        \* rpcFailoverStickyMs, in ticks
    Pause,         \* rpcAllEndpointsDownPauseMS, in ticks; 0 is off
    Percentage,    \* rpcFailoverRatePercentage
    Window,        \* bound: outcomes one endpoint has in the window
    MaxChanges,    \* bound: changes of the list
    MidRun         \* may the list change, and startup's probe run, while
                   \* others' requests are awaited?

Walks   == {"estimate", "startup"}
AllJobs == Walks \cup {"read", "bounded", "broadcast", "again"}

ASSUME ConstantsAssumption ==
    /\ Lists \subseteq Seq(Urls) \ {<<>>}
    /\ Jobs \subseteq AllJobs \ {"again"} /\ MidRun \in BOOLEAN
    /\ {Sticky, Percentage, Window} \subseteq Nat \ {0}
    /\ {Pause, MaxChanges} \subseteq Nat

VARIABLES
    list, gen,   \* _urls, and how often _providers was rebuilt
    sel,         \* _activeIdx, _stickyUntilMs, _haltUntilMs
    tally,       \* each endpoint's outcomes in the window, oldest first
    call,        \* what each caller awaits
    refused      \* history: places in the list whose endpoint failed a
                 \* request since the list last started over

vars == <<list, gen, sel, tally, call, refused>>

\* pc: in the request queue, or sent.  url, gen: the provider asked.  at, from: where a walk of the list is, and began.
Call == [job : AllJobs, pc : {"idle", "queued", "sent"},
         url : Urls \cup {"none"}, gen : Nat, at : Nat, from : Nat]

Nothing == [job |-> "read", pc |-> "idle", url |-> "none", gen |-> 0,
            at |-> 0, from |-> 0]

Idle(c) == call[c].pc = "idle"
Size == Len(list)

Init ==
    /\ list \in Lists /\ gen = 0
    /\ sel = [active |-> 1, sticky |-> 0, halt |-> 0]
    /\ tally = [u \in Urls |-> <<>>] /\ refused = {}
    /\ call = [c \in Callers |-> Nothing]

-----------------------------------------------------------------------------
(* The selection. *)

Lapsed(s) == s.active # 1 /\ s.sticky = 0

\* getCurrentRPC
Current(s) == IF Lapsed(s) THEN [s EXCEPT !.active = 1] ELSE s

\* places an estimate or a probe under way has found failing
Walked == UNION {{i \in 1 .. Size : call[c].from <= i /\ i < call[c].at} :
                 c \in {d \in Callers : ~Idle(d) /\ call[d].gen = gen}}

\* What stays refused once s has been read through Current.
Since(s) == IF Lapsed(s) THEN refused \cap Walked ELSE refused

\* noteRpcResult, for an endpoint still in the list.
Note(t, u, ok) ==
    [t EXCEPT ![u] = LET all == Append(@, ok)
                     IN  IF Len(all) > Window THEN Tail(all) ELSE all]

NoteCall(c, ok) ==
    IF call[c].gen = gen THEN Note(tally, call[c].url, ok) ELSE tally

NoteWalk(c, ok) ==
    IF call[c].at <= Size THEN Note(tally, list[call[c].at], ok) ELSE tally

\* decideIfCurrentRPCIsOutOfService
OutOfService(t) ==
    Cardinality({i \in DOMAIN t : ~t[i]}) * 100 > Percentage * Len(t)

\* _engageFailoverTo, and what it forgets
Engage(s, i) == [s EXCEPT !.active = i, !.sticky = Sticky]
Forget(t, i) == [t EXCEPT ![list[i]] = <<>>]

\* A bug: each refusal at the end of the list lengthens the hold.
HoldsAddUp(s) == [s EXCEPT !.sticky = Pause, !.halt = @ + Pause]

\* A bug: the hold begins and the sticky window runs out by itself.
HeldOnly(s) == [s EXCEPT !.halt = IF Pause > @ THEN Pause ELSE @]

\* pauseForExhaustedEndpoints, with halt
Exhausted(s) ==
    [s EXCEPT !.sticky = Pause, !.halt = IF Pause > @ THEN Pause ELSE @]

\* A bug: the report of an endpoint that is no longer selected counts.
MovesLate(s, t, u, g) == Size > 1 /\ g = gen /\ OutOfService(t[u])

\* Does failoverToNextRPC, told of the provider (u, g), move?
Moves(s, t, u, g) ==
    /\ Size > 1 /\ g = gen
    /\ list[Current(s).active] = u /\ OutOfService(t[u])

\* failoverToNextRPC and the read of the selection that always follows it
FailOver(s, t, u, g) ==
    IF ~Moves(s, t, u, g) THEN Current(s)
    ELSE IF Current(s).active >= Size THEN Current(Exhausted(Current(s)))
    ELSE Engage(Current(s), Current(s).active + 1)

TallyAfter(s, t, u, g) ==
    IF Moves(s, t, u, g) /\ Current(s).active < Size
    THEN Forget(t, Current(s).active) ELSE t

-----------------------------------------------------------------------------
(* Requests on their way. *)

\* The call goes to place i: it waits for the request queue.
Asks(k, i) == [k EXCEPT !.pc = "queued", !.url = list[i], !.gen = gen]

\* A caller starts on whatever is selected, startup's probe on the first.
Begin(c, j) ==
    LET s == Current(sel)
        i == IF j = "startup" THEN 1 ELSE s.active
    IN  /\ Idle(c)
        /\ MidRun \/ \A d \in Callers \ {c} :
               Idle(d) \/ "startup" \notin {j, call[d].job}
        /\ call' = [call EXCEPT ![c] =
               Asks([Nothing EXCEPT !.job = j,
                         !.at = IF j \in Walks THEN i ELSE 0,
                         !.from = IF j \in Walks THEN i ELSE 0], i)]
        /\ IF j = "startup" THEN UNCHANGED <<sel, refused>>
           ELSE sel' = s /\ refused' = Since(sel)
        /\ UNCHANGED <<list, gen, tally>>

\* acquire lets one go once nothing is held.
Release(c) ==
    /\ call[c].pc = "queued" /\ sel.halt = 0
    /\ call' = [call EXCEPT ![c].pc = "sent"]
    /\ UNCHANGED <<list, gen, sel, tally, refused>>

Sent(c) == call[c].pc = "sent"

Ends(c) == call' = [call EXCEPT ![c] = Nothing]

\* The places in the list that have failed a request, this one included.
RefusedBy(c, since) ==
    since \cup {i \in 1 .. Size : call[c].gen = gen /\ list[i] = call[c].url}

Aside == UNCHANGED <<list, gen>>

-----------------------------------------------------------------------------
(* Answers. *)

Served(c) ==
    /\ Sent(c) /\ call[c].job \in {"read", "bounded", "broadcast", "again"}
    /\ tally' = IF call[c].job = "again" THEN tally ELSE NoteCall(c, TRUE)
    /\ Ends(c) /\ Aside /\ UNCHANGED <<sel, refused>>

\* The request, or the transaction, is at fault: thrown as it is.
Rejected(c) ==
    /\ Sent(c) /\ call[c].job \in {"read", "broadcast", "again"}
    /\ Ends(c) /\ Aside /\ UNCHANGED <<sel, tally, refused>>

\* What a failed request reports, and where the selection is afterwards.
Reports(c) ==
    LET t == NoteCall(c, FALSE)
    IN  /\ sel' = FailOver(sel, t, call[c].url, call[c].gen)
        /\ tally' = TallyAfter(sel, t, call[c].url, call[c].gen)
        /\ refused' = RefusedBy(c, Since(sel))

\* retryRead: report, and ask whatever is selected now.
Retries(c) ==
    /\ Sent(c) /\ call[c].job \in {"read", "bounded"}
    /\ Reports(c)
    /\ call' = [call EXCEPT ![c] = Asks(call[c], sel'.active)]
    /\ Aside

\* A bounded read's budget is spent: noted, and not reported.
Exhausts(c) ==
    /\ Sent(c) /\ call[c].job = "bounded"
    /\ tally' = NoteCall(c, FALSE) /\ refused' = RefusedBy(c, refused)
    /\ Ends(c) /\ Aside /\ UNCHANGED sel

\* FailoverNonceManager: one more send, if the selection is now elsewhere.
BroadcastFails(c) ==
    /\ Sent(c) /\ call[c].job = "broadcast"
    /\ Reports(c)
    /\ IF call[c].gen = gen /\ list[sel'.active] = call[c].url
       THEN Ends(c)
       ELSE call' = [call EXCEPT ![c] =
                Asks([call[c] EXCEPT !.job = "again"], sel'.active)]
    /\ Aside

AgainFails(c) ==
    /\ Sent(c) /\ call[c].job = "again"
    /\ refused' = RefusedBy(c, refused)
    /\ Ends(c) /\ Aside /\ UNCHANGED <<sel, tally>>

\* The walk goes to the next place, or is out of places.
WalksOn(c) ==
    /\ IF call[c].at < Size
       THEN call' = [call EXCEPT ![c] =
                Asks([call[c] EXCEPT !.at = @ + 1], call[c].at + 1)]
       ELSE Ends(c)
    /\ refused' = RefusedBy(c, refused)
    /\ Aside /\ UNCHANGED sel

\* _estimateWithFailover: an endpoint's failure is noted, a revert is not.
EstimateFails(c) ==
    /\ Sent(c) /\ call[c].job = "estimate"
    /\ tally' = IF call[c].at = call[c].from THEN NoteCall(c, FALSE)
                ELSE NoteWalk(c, FALSE)
    /\ WalksOn(c)

EstimateReverts(c) ==
    /\ Sent(c) /\ call[c].job = "estimate"
    /\ UNCHANGED tally /\ WalksOn(c)

\* Moves the selection only if it is where the walk found it.
EstimateAnswers(c) ==
    LET first == call[c].at = call[c].from
        t     == IF first THEN NoteCall(c, TRUE) ELSE NoteWalk(c, TRUE)
        moves == ~first /\ sel.active = call[c].from
    IN  /\ Sent(c) /\ call[c].job = "estimate"
        /\ sel' = IF moves THEN Engage(sel, call[c].at) ELSE sel
        /\ tally' = IF moves THEN Forget(t, call[c].from) ELSE t
        /\ Ends(c) /\ Aside /\ UNCHANGED refused

\* ensureReachable
StartupFails(c) ==
    /\ Sent(c) /\ call[c].job = "startup"
    /\ tally' = NoteWalk(c, FALSE)
    /\ WalksOn(c)

StartupAnswers(c) ==
    LET t == NoteWalk(c, TRUE)
    IN  /\ Sent(c) /\ call[c].job = "startup"
        /\ sel' = IF call[c].at > 1 THEN Engage(sel, call[c].at) ELSE sel
        /\ tally' = IF call[c].at > 1 THEN Forget(t, 1) ELSE t
        /\ Ends(c) /\ Aside /\ UNCHANGED refused

\* setRpcUrls: a new list, from its first place.  A hold goes on.
ListChanges(l) ==
    /\ gen < MaxChanges /\ l # list
    /\ MidRun \/ \A c \in Callers :
           Idle(c) \/ call[c].job \notin {"estimate", "startup"}
    /\ list' = l /\ gen' = gen + 1
    /\ sel' = [sel EXCEPT !.active = 1, !.sticky = 0]
    /\ refused' = {}
    /\ UNCHANGED <<tally, call>>

-----------------------------------------------------------------------------
(* Time, and the endpoints. *)

Less(n) == IF n = 0 THEN 0 ELSE n - 1

TimePasses ==
    /\ sel.sticky > 0 \/ sel.halt > 0
    /\ sel' = [sel EXCEPT !.sticky = Less(@), !.halt = Less(@)]
    /\ UNCHANGED <<list, gen, tally, call, refused>>

\* An outcome leaves the window of _survivors.
OutcomeAges(u) ==
    /\ tally[u] # <<>>
    /\ tally' = [tally EXCEPT ![u] = Tail(@)]
    /\ UNCHANGED <<list, gen, sel, call, refused>>

Replies(c) ==
    \/ Served(c) \/ Rejected(c) \/ Retries(c) \/ Exhausts(c)
    \/ BroadcastFails(c) \/ AgainFails(c)
    \/ EstimateFails(c) \/ EstimateReverts(c) \/ EstimateAnswers(c)
    \/ StartupFails(c) \/ StartupAnswers(c)

Next ==
    \/ \E c \in Callers :
           \/ \E j \in Jobs : Begin(c, j)
           \/ Release(c) \/ Replies(c)
    \/ \E l \in Lists : ListChanges(l)
    \/ TimePasses
    \/ \E u \in Urls : OutcomeAges(u)

Spec == Init /\ [][Next]_vars

-----------------------------------------------------------------------------
(* Properties. *)

\* Every variable has its type, and the selection is a place in the list.
TypeOK ==
    /\ list \in Lists /\ gen \in 0 .. MaxChanges
    /\ sel \in [active : 1 .. Size, sticky : Nat, halt : 0 .. Pause]
    /\ tally \in [Urls -> Seq(BOOLEAN)]
    /\ call \in [Callers -> Call] /\ refused \subseteq 1 .. Size

\* send-transaction.js:505, "The list is then spent only by endpoints that
\* actually refused": however late reports arrive, requests are held only
\* when every endpoint of the list has failed one since it last started over.
ListSpentByRefusals ==
    [][sel'.halt > sel.halt => refused' = 1 .. Size']_vars

\* rpc-endpoints-exhausted.js:45: while requests are held the app sits on the
\* last endpoint, and is back at the first when the hold ends, neither before
\* nor later; or the list was changed, and it is at the first already.
HeldAtTheLast ==
    sel.halt > 0 => \/ sel.active = 1
                    \/ sel.active = Size /\ sel.sticky = sel.halt
=============================================================================
