------------------------------ MODULE SwapRoutes ------------------------------
(*****************************************************************************)
(* One swap of a move, by swapIfNeeded (src/lib/rebalancer-swap.js): the     *)
(* aggregator with the full amount, the aggregator in chunks, or the pool's  *)
(* own router, whichever goes through.  The aggregator sends its own         *)
(* transactions: a swap that does not confirm in time is cancelled at its    *)
(* nonce, the chain is asked which of the two took it                        *)
(* (src/lib/aggregator-nonce-settle.js), and the answer decides whether      *)
(* another swap of the same coins may follow.                                *)
(*                                                                           *)
(* The chain runs on its own: a transaction once sent may be mined at any    *)
(* later step, whatever the code has concluded.  A transaction the router    *)
(* sends goes through sendTransaction, which TxPipeline models: here it is   *)
(* confirmed, reverted, cancelled, refused, or given up.  Only the bot       *)
(* sends.  The coins are above the swap's threshold: a smaller amount        *)
(* returns at once.                                                          *)
(*                                                                           *)
(* Left out: the approvals, which are sent and paid for before a swap and    *)
(* move none of its coins; and a receipt without a status where ethers has   *)
(* checked it, so that only settleNonce can meet one.                        *)
(*****************************************************************************)
EXTENDS Naturals, Sequences, FiniteSets

CONSTANTS
    Chunks,        \* bot setting swapChunkCount
    MaxAttempts,   \* chains.json aggregator.maxAttempts
    MaxLost        \* bound: sends whose transaction went out unnoticed

ASSUME ConstantsAssumption ==
    Chunks \in Nat \ {0, 1} /\ MaxAttempts \in Nat \ {0} /\ MaxLost \in Nat

VARIABLES
    slots,     \* the nonces used so far, one transaction of each to be mined
    pc,        \* where the swap is
    mode,      \* "full", "chunk" or "router"
    chunk,     \* the chunk under way
    attempt,   \* the aggregator's attempt under way
    moved,     \* has a chunk's balance risen: amountOut > 0
    held,      \* did the cancel's wait return a receipt?
    hash,      \* is the cancel's hash known?
    gas,       \* swaps and cancels whose gas the swap has counted
    lost,      \* sends that went out unnoticed
    outcome    \* how the swap ended

vars == <<slots, pc, mode, chunk, attempt, moved, held, hash, gas, lost, outcome>>
aside == <<moved, lost, outcome>>

\* The coins a swap takes: the parts the amount would be chunked into.
Parts == 1 .. Chunks

Taken == IF mode = "chunk" THEN {chunk} ELSE Parts

\* One nonce.  fate: what of it was mined.  cancel: a cancel competes for it.
\* doubt only records history: the code has lost sight of this swap ("lost"),
\* or of what it delivered ("stale").
Slot == [parts : SUBSET Parts, fate : {"open", "swapped", "reverted", "cancelled"},
         cancel : BOOLEAN, doubt : {"none", "lost", "stale"}]

NewSlot(doubt) ==
    [parts |-> Taken, fate |-> "open", cancel |-> FALSE, doubt |-> doubt]

Current == slots[Len(slots)]
Doubtful(doubt) == slots' = [slots EXCEPT ![Len(slots)] = [@ EXCEPT !.doubt = doubt]]
Cancelling(live) == slots' = [slots EXCEPT ![Len(slots)] = [@ EXCEPT !.cancel = live]]

Init ==
    /\ slots = <<>> /\ pc = "quote" /\ mode = "full" /\ chunk = 1
    /\ attempt = 1 /\ moved = FALSE /\ held = FALSE /\ hash = FALSE
    /\ gas = 0 /\ lost = 0 /\ outcome = "none"

-----------------------------------------------------------------------------
\* The chain: each nonce in its turn.
Mine(i) ==
    /\ slots[i].fate = "open" /\ \A j \in 1 .. i - 1 : slots[j].fate # "open"
    /\ \E f \in {"swapped", "reverted", "cancelled"} :
          /\ f = "cancelled" => slots[i].cancel
          /\ slots' = [slots EXCEPT ![i] = [@ EXCEPT !.fate = f]]
    /\ UNCHANGED <<pc, mode, chunk, attempt, moved, held, hash, gas, lost,
                   outcome>>

-----------------------------------------------------------------------------
(* How a route ends. *)

Stop(how) ==
    /\ pc' = "done" /\ outcome' = how
    /\ UNCHANGED <<mode, chunk, attempt, moved>>

Route(m, c) ==
    /\ mode' = m /\ chunk' = c /\ attempt' = 1 /\ UNCHANGED <<moved, outcome>>
    /\ pc' = IF m = "router" THEN "router" ELSE "quote"

\* After a failure that leaves nothing to mine: the next route, unless an
\* earlier chunk has moved part of the amount.
NextRoute(impact) ==
    \/ mode = "full" /\ impact /\ Route("chunk", 1)
    \/ mode = "full" /\ Route("router", 1)   \* or too small to chunk
    \/ mode = "chunk" /\ moved /\ Stop("partial")
    \/ mode = "chunk" /\ ~moved /\ Route("router", 1)

\* A bug: an unsettled nonce is a failure like any other.
FallsBackUnsettled(how) ==
    IF how = "unsettled" THEN NextRoute(FALSE) ELSE Stop(how)

\* A swap that may still be mined, or was, takes no other route.
NoFallback(how) == Stop(how)

-----------------------------------------------------------------------------
(* The aggregator. *)

QuoteFails ==
    /\ pc \in {"quote", "requote"} /\ \E impact \in BOOLEAN : NextRoute(impact)
    /\ UNCHANGED <<slots, held, hash, gas, lost>>

Quote ==
    /\ pc = "quote" /\ pc' = "approve"
    /\ UNCHANGED <<slots, mode, chunk, attempt, held, hash, gas, aside>>

\* The allowance, a fresh quote, an allowance for its target, and the
\* balance before the swap.
Approve ==
    /\ pc = "approve"
    /\ \/ /\ pc' = "send"
          /\ UNCHANGED <<mode, chunk, attempt, moved, outcome>>
       \/ \E impact \in BOOLEAN : NextRoute(impact)
    /\ UNCHANGED <<slots, held, hash, gas, lost>>

Send ==
    /\ pc = "send" /\ pc' = "wait" /\ slots' = Append(slots, NewSlot("none"))
    /\ UNCHANGED <<mode, chunk, attempt, held, hash, gas, aside>>

\* An attempt of the send went out though its reply was lost; the next one
\* is signed afresh, and may take another nonce.
SendGoesUnnoticed ==
    /\ pc = "send" /\ lost < MaxLost /\ lost' = lost + 1
    /\ slots' = Append(slots, NewSlot("lost"))
    /\ UNCHANGED <<pc, mode, chunk, attempt, moved, held, hash, gas, outcome>>

\* Refused before it was admitted, or no price to send it at.
SendRefused ==
    /\ pc = "send" /\ NextRoute(FALSE)
    /\ UNCHANGED <<slots, held, hash, gas, lost>>

\* Every other failure of the send may have a swap behind it.
SendFails ==
    /\ pc = "send" /\ NoFallback("unsettled")
    /\ \E live \in BOOLEAN :
          slots' = IF live THEN Append(slots, NewSlot("none")) ELSE slots
    /\ UNCHANGED <<held, hash, gas, lost>>

WaitConfirms ==
    /\ pc = "wait" /\ Current.fate = "swapped"
    /\ pc' = "landed" /\ gas' = gas + 1
    /\ UNCHANGED <<slots, mode, chunk, attempt, held, hash, aside>>

\* A bug: the loop counts its attempts from nought.
SpentOffByOne ==
    IF attempt <= MaxAttempts
    THEN pc' = "requote" /\ UNCHANGED <<mode, chunk, attempt, moved, outcome>>
    ELSE NextRoute(FALSE)

\* The nonce is spent: another attempt, or the aggregator gives up.
Spent ==
    IF attempt < MaxAttempts
    THEN pc' = "requote" /\ UNCHANGED <<mode, chunk, attempt, moved, outcome>>
    ELSE NextRoute(FALSE)

WaitReverts ==
    /\ pc = "wait" /\ Current.fate = "reverted" /\ Spent /\ gas' = gas + 1
    /\ UNCHANGED <<slots, held, hash, lost>>

WaitTimesOut ==
    /\ pc = "wait" /\ pc' = "cancel"
    /\ UNCHANGED <<slots, mode, chunk, attempt, held, hash, gas, aside>>

\* The check for the receipt failed with an error no one recognises: the swap
\* is taken to have failed.
WaitFails ==
    /\ pc = "wait" /\ Doubtful("lost") /\ NextRoute(FALSE)
    /\ UNCHANGED <<held, hash, gas, lost>>

\* A cancel that is sent is waited on.
Cancel ==
    /\ pc = "cancel" /\ pc' = "cancelWait" /\ hash' = TRUE
    /\ Cancelling(TRUE)
    /\ UNCHANGED <<mode, chunk, attempt, held, gas, aside>>

\* One that fails may have gone out, and its error may carry its hash.
CancelFails ==
    /\ pc = "cancel" /\ pc' = "settle" /\ held' = FALSE
    /\ hash' \in BOOLEAN /\ \E live \in BOOLEAN : Cancelling(live)
    /\ UNCHANGED <<mode, chunk, attempt, gas, aside>>

\* The wait returns the receipt of whichever took the nonce, if it returns
\* one: a revert is an error, and every error is no receipt.
CancelWaited ==
    /\ pc = "cancelWait" /\ pc' = "settle"
    /\ held' \in BOOLEAN /\ (held' => Current.fate \in {"swapped", "cancelled"})
    /\ UNCHANGED <<slots, mode, chunk, attempt, hash, gas, aside>>

\* A bug: the cancel's gas is forgotten.
CancelIsFree(s) == IF s.fate = "cancelled" THEN 0 ELSE 1

\* The gas of a reverted swap, or of the cancel, is the swap's cost.
ClosingGas(s) == 1

\* A bug: a receipt the cancel's wait returned is taken for the cancel's.
TrustsTheWait(s) == held \/ s.fate = "reverted" \/ (s.fate = "cancelled" /\ hash)

Forget == held' = FALSE /\ hash' = FALSE

\* settleNonce sees what took the nonce, unless its reads are late or lack the
\* status; a receipt in hand is not read again, and its hash says whose it is.
ClosedSeen(s) ==
    s.fate = "reverted" \/ (s.fate = "cancelled" /\ (held \/ hash))

SettleLanded ==
    /\ pc = "settle" /\ Current.fate = "swapped"
    /\ pc' = "landed" /\ gas' = gas + 1 /\ Forget
    /\ UNCHANGED <<slots, mode, chunk, attempt, aside>>

SettleSpent ==
    /\ pc = "settle" /\ ClosedSeen(Current)
    /\ Spent /\ gas' = gas + ClosingGas(Current) /\ Forget
    /\ UNCHANGED <<slots, lost>>

SettleUnsettled ==
    /\ pc = "settle" /\ ~held /\ NoFallback("unsettled") /\ Forget
    /\ \/ gas' = gas
       \/ Current.fate \in {"swapped", "reverted"} /\ gas' = gas + 1
    /\ UNCHANGED <<slots, lost>>

Requote ==
    /\ pc = "requote" /\ pc' = "send" /\ attempt' = attempt + 1
    /\ UNCHANGED <<slots, mode, chunk, held, hash, gas, aside>>

-----------------------------------------------------------------------------
(* The router, and what a swap delivered. *)

\* The allowance, the quote and its impact; any of them may fail.
RouterFails ==
    /\ pc = "router" /\ Stop("failed")
    /\ UNCHANGED <<slots, held, hash, gas, lost>>

RouterSend ==
    /\ pc = "router" /\ pc' = "routerWait"
    /\ slots' = Append(slots, NewSlot("none"))
    /\ UNCHANGED <<mode, chunk, attempt, held, hash, gas, aside>>

RouterConfirms ==
    /\ pc = "routerWait" /\ Current.fate = "swapped"
    /\ pc' = "landed" /\ gas' = gas + 1
    /\ UNCHANGED <<slots, mode, chunk, attempt, held, hash, aside>>

\* The pipeline's cancel of the transaction may have gone out.
RouterCancel ==
    /\ pc = "routerWait" /\ ~Current.cancel /\ Cancelling(TRUE)
    /\ UNCHANGED <<pc, mode, chunk, attempt, held, hash, gas, aside>>

\* The transaction reverted, or that cancel took its nonce: the error names the gas.
RouterSpent ==
    /\ pc = "routerWait" /\ Current.fate \in {"reverted", "cancelled"}
    /\ Stop("failed") /\ gas' = gas + 1
    /\ UNCHANGED <<slots, held, hash, lost>>

\* The pipeline gave the transaction up, not knowing what becomes of it.
RouterGivesUp ==
    /\ pc = "routerWait" /\ Doubtful("lost") /\ Stop("failed")
    /\ UNCHANGED <<held, hash, gas, lost>>

Delivered ==
    IF mode = "chunk" /\ chunk < Chunks
    THEN /\ pc' = "quote" /\ chunk' = chunk + 1 /\ attempt' = 1
         /\ UNCHANGED <<mode, outcome>>
    ELSE pc' = "done" /\ outcome' = "swapped" /\ UNCHANGED <<mode, chunk, attempt>>

BalanceRises ==
    /\ pc = "landed" /\ Delivered /\ moved' = (mode = "chunk")
    /\ UNCHANGED <<slots, held, hash, gas, lost>>

\* An endpoint behind the chain still gives the old balance.
BalanceStale ==
    /\ pc = "landed" /\ Delivered /\ Doubtful("stale")
    /\ UNCHANGED <<moved, held, hash, gas, lost>>

BalanceUnread ==
    /\ pc = "landed" /\ NoFallback("unread")
    /\ UNCHANGED <<slots, held, hash, gas, lost>>

-----------------------------------------------------------------------------
Next ==
    \/ \E i \in DOMAIN slots : Mine(i)
    \/ QuoteFails \/ Quote \/ Approve \/ Send \/ SendGoesUnnoticed
    \/ SendRefused \/ SendFails \/ WaitConfirms \/ WaitReverts \/ WaitTimesOut
    \/ WaitFails \/ Cancel \/ CancelFails \/ CancelWaited \/ SettleLanded
    \/ SettleSpent \/ SettleUnsettled \/ Requote
    \/ RouterFails \/ RouterSend \/ RouterConfirms \/ RouterCancel
    \/ RouterSpent \/ RouterGivesUp \/ BalanceRises \/ BalanceStale \/ BalanceUnread

Spec == Init /\ [][Next]_vars

-----------------------------------------------------------------------------
(* Properties. *)

TypeOK ==
    /\ slots \in Seq(Slot)
    /\ pc \in {"quote", "approve", "send", "wait", "cancel", "cancelWait",
               "settle", "requote", "router", "routerWait", "landed", "done"}
    /\ mode \in {"full", "chunk", "router"} /\ chunk \in Parts
    /\ attempt \in 1 .. MaxAttempts
    /\ moved \in BOOLEAN /\ held \in BOOLEAN /\ hash \in BOOLEAN
    /\ gas \in Nat /\ lost \in 0 .. MaxLost
    /\ outcome \in {"none", "swapped", "partial", "failed", "unsettled", "unread"}

\* The swaps the code has not lost sight of.
Known == {i \in DOMAIN slots : slots[i].doubt = "none"}

\* No coins are swapped twice, by an attempt after one that mined late, a
\* chunk, or the router after either, however the cancels, their waits and
\* the reads of the chain interleave with what is mined.
NoDoubleSwap ==
    \A i, j \in Known :
        slots[i].fate = "swapped" /\ slots[j].fate = "swapped" /\ i # j
            => slots[i].parts \cap slots[j].parts = {}

\* What the swap answers is true of the chain, for good: after a failure none
\* of its coins moved or can move, after a partial swap only those of whole
\* chunks, and after a full one all of them, whatever is mined later.  Not
\* held to this: a swap lost from sight, whose send went out unnoticed or
\* whose check failed with an error no one recognises, and, after a failure,
\* one whose delivery was read from an endpoint behind the chain.
AnswerIsTrue ==
    LET moving == {i \in Known : slots[i].fate = "open"}
        done   == {i \in DOMAIN slots :
                      slots[i].fate = "swapped" /\ slots[i].doubt # "lost"}
        gone   == UNION {slots[i].parts : i \in done}
    IN  /\ outcome \in {"swapped", "partial", "failed"} => moving = {}
        /\ outcome = "swapped" => gone = Parts
        /\ outcome = "partial" => gone # {} /\ gone # Parts
        /\ outcome = "failed" => done \cap Known = {}
        /\ outcome = "unread" => gone # {}

\* Every transaction mined for the swap, reverted swaps and cancels included,
\* is counted in its gas once, through every change of route; only an unsettled
\* swap may leave its last nonce uncounted.
GasCounted ==
    LET mined == {i \in DOMAIN slots :
                     slots[i].fate # "open" /\ slots[i].doubt # "lost"}
        paid  == Cardinality(mined)
    IN  pc = "done" => \/ gas = paid
                       \/ outcome = "unsettled" /\ gas <= paid /\ paid <= gas + 1

-----------------------------------------------------------------------------
(* What a comment says, and the code does not keep. *)

\* rebalancer-swap.js: amountOut above zero "means balance actually moved", so
\* the router is handed the whole amount only when no chunk of it has.
RouterTakesWhatIsLeft ==
    pc = "router" => \A i \in DOMAIN slots :
        slots[i].fate = "swapped" => slots[i].doubt = "lost"
=============================================================================
