----------------------------- MODULE MoveOutcome ------------------------------
(*****************************************************************************)
(* What sendTransaction (src/lib/send-transaction.js) promises whoever holds *)
(* the rebalance lock, without nonces, endpoints or retries: its calls are   *)
(* made one at a time, a move takes effect on chain at most once, and the    *)
(* answer a call ends with tells whether it did.  Three answers settle the   *)
(* question for good; after "cancelFailed" or a crash the move may still take*)
(* effect.                                                                   *)
(*****************************************************************************)
EXTENDS Integers

CONSTANT Moves       \* one per call, in the order the calls are made

VARIABLES
    state,   \* how far each call is: "none", "running", or how it ended
    times    \* how many times each move has taken effect on chain

vars == <<state, times>>

Settled   == {"confirmed", "reverted", "cancelled", "taken", "sendFailed"}
Unsettled == {"cancelFailed", "waitFailed", "crashed"}

Init == /\ state = [c \in Moves |-> "none"]
        /\ times = [c \in Moves |-> 0]

Begin(c) ==
    /\ state[c] = "none"
    /\ \A d \in Moves : state[d] # "running" /\ (d < c => state[d] # "none")
    /\ state' = [state EXCEPT ![c] = "running"]
    /\ UNCHANGED times

\* A block takes the move.
TakeEffect(c) ==
    /\ state[c] \in {"running"} \cup Unsettled /\ times[c] = 0
    /\ times' = [times EXCEPT ![c] = 1]
    /\ UNCHANGED state

\* The call answers: a confirmed move has taken effect, every other settled
\* answer is final that it has not.
End(c, outcome) ==
    /\ state[c] = "running"
    /\ outcome = "confirmed" => times[c] = 1
    /\ outcome \in Settled \ {"confirmed"} => times[c] = 0
    /\ state' = [state EXCEPT ![c] = outcome]
    /\ UNCHANGED times

Next == \E c \in Moves :
           Begin(c) \/ TakeEffect(c) \/ \E o \in Settled \cup Unsettled : End(c, o)

Spec == Init /\ [][Next]_vars
=============================================================================
