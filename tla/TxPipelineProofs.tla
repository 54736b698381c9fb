--------------------------- MODULE TxPipelineProofs ---------------------------
(*****************************************************************************)
(* Theorems about TxPipeline, for any number of calls, retries, gas prices   *)
(* and faults.  Those that need a fault to be absent say so by a hypothesis  *)
(* on the constant that bounds it.                                           *)
(*****************************************************************************)
EXTENDS TxPipeline, FiniteSetTheorems, TLAPS

\* Where a call is, and which transactions it holds: they are all its own, and
\* they compete for one nonce.
CallInv ==
    /\ pc # "idle" => call \in Moves /\ result[call] = "none"
    /\ \A c \in Moves : c > call => result[c] = "none"
    /\ pc = "idle" => moves = {} /\ cancels = {}
    /\ pc \in {"idle", "sign"} => job = "move"
    /\ pc = "wait1" => job = "move"
    /\ pc = "wait3" => job = "speedup"
    /\ pc = "wait4" => job = "cancel"

HeldInv ==
    /\ moves \subseteq pool
    /\ \A t \in moves : t.pay = call
    /\ \A t \in cancels : t.pay = Cancel
    /\ \A t, u \in moves \cup cancels : t.nonce = u.nonce
    /\ pc \in Waits \/ (pc # "idle" /\ job # "move") => moves # {}
    /\ pc # "wait4" => cancels = {}

CandInv ==
    /\ pc = "send" /\ job = "move" => cand.pay = call
    /\ pc \in {"send", "refused"} /\ job = "speedup" => cand.pay = call
    /\ pc \in {"send", "refused"} /\ job = "cancel" => cand.pay = Cancel
    /\ pc \in {"send", "refused"} /\ job # "move" =>
          \A t \in moves : t.nonce = cand.nonce
    /\ job = "move" /\ pc \in {"sign", "send", "refused"} => moves = {}

\* The chain takes each nonce once, from what reached the network.
ChainInv ==
    /\ \A m \in mined : m.tx \in pool /\ m.tx.nonce < height
    /\ \A m, n \in mined : m.tx.nonce = n.tx.nonce => m = n

\* A cancelled call has a copy of its move at the nonce a cancel took.
CancelInv ==
    \A c \in Moves : result[c] = "cancelled" =>
        \E m \in mined, t \in pool :
            m.tx.pay = Cancel /\ t.pay = c /\ t.nonce = m.tx.nonce

IInv == TypeOK /\ CallInv /\ HeldInv /\ CandInv /\ ChainInv /\ CancelInv

-----------------------------------------------------------------------------
USE DEF vars, chain, nonceMgr, loop, waiting, faults

\* Nothing has been sent.
LEMMA InitInv == Init => IInv
<1> SUFFICES ASSUME Init PROVE IInv
  OBVIOUS
<1>1. TypeOK
  <2>1. cand \in Tx /\ recovered \in BOOLEAN /\ rebound \in BOOLEAN
    BY DEF Init, NoTx, Tx, Cancel
  <2> QED
    BY <2>1, ConstantsAssumption DEF Init, TypeOK, Errors, Outcomes, Moves, None
<1>2. CallInv /\ HeldInv /\ CandInv /\ ChainInv /\ CancelInv
  BY DEF Init, CallInv, HeldInv, CandInv, ChainInv, CancelInv, Waits
<1> QED
  BY <1>1, <1>2 DEF IInv

\* A price that outbids is a price.
LEMMA BumpedType ==
    ASSUME NEW g \in Nat, NEW pay PROVE BumpedGas(pay, g) \in Nat
<1>1. 2 * g \in Nat /\ (3 * g + 1) \div 2 \in Nat
  OBVIOUS
<1> QED
  BY <1>1 DEF BumpedGas

\* What a fresh loop and the end of a call leave behind, and its type.
LEMMA FreshLoopType ==
    ASSUME FreshLoop
    PROVE  /\ attempt' \in 0 .. RetryMax /\ recovered' \in BOOLEAN
           /\ rebound' \in BOOLEAN /\ err' \in Errors
<1>1. recovered' \in BOOLEAN /\ rebound' \in BOOLEAN
  BY DEF FreshLoop
<1>2. attempt' \in 0 .. RetryMax /\ err' \in Errors
  BY ConstantsAssumption DEF FreshLoop, Errors
<1> QED
  BY <1>1, <1>2

\* What the end of a call leaves behind, and its type.
LEMMA FinishType ==
    ASSUME TypeOK, NEW o \in Outcomes, Finish(o)
    PROVE  /\ attempt' \in 0 .. RetryMax /\ recovered' \in BOOLEAN
           /\ rebound' \in BOOLEAN /\ err' \in Errors
           /\ pc' = "idle" /\ job' = "move" /\ call' = call
           /\ cand' \in Tx /\ moves' = {} /\ cancels' = {} /\ deaf' = {}
           /\ result' \in [Moves -> Outcomes \cup {"none"}]
<1>1. FreshLoop
  BY DEF Finish
<1>2. cand' \in Tx
  BY DEF Finish, NoTx, Tx, Cancel
<1>3. result' \in [Moves -> Outcomes \cup {"none"}]
  BY DEF Finish, TypeOK
<1> QED
  BY <1>1, <1>2, <1>3, FreshLoopType DEF Finish

\* An endpoint's pending count is a nonce.
LEMMA PendingCountsType ==
    ASSUME TypeOK, NEW view \in SUBSET Pending
    PROVE  PendingCounts(view) \subseteq Nat
BY DEF PendingCounts, Pending, TypeOK, Tx

\* An endpoint holds pending transactions only.
LEMMA ViewsType == \A view \in Views : view \subseteq Pending
BY DEF Views

\* Whatever becomes of the NonceManager, it stays one.
LEMMA ResetType ==
    ASSUME TypeOK, ThrowReset \/ ResetSigner \/ ResetNonce \/ UNCHANGED nonceMgr
    PROVE  base' \in Nat \cup {None, Rejected} /\ delta' \in Nat
<1>1. ResetNonce \/ UNCHANGED nonceMgr
  BY DEF ThrowReset, ResetSigner
<1> QED
  BY <1>1 DEF ResetNonce, TypeOK, None

\* Every step keeps the types, given where the call is and what it holds.
LEMMA TypeStep == TypeOK /\ CallInv /\ HeldInv /\ [Next]_vars => TypeOK'
<1> SUFFICES ASSUME TypeOK, CallInv, HeldInv, [Next]_vars PROVE TypeOK'
  OBVIOUS
<1> USE ConstantsAssumption DEF TypeOK, Tx, Waits, Errors, Outcomes, Moves,
        None, Rejected, Cancel, Foreign
<1>1. CASE Begin
  BY <1>1 DEF Begin
<1>2. CASE SignMove
  <2>1. PICK b \in {base, None}, d \in {delta, 0}, view \in Views, g \in GasLevels :
           /\ b # Rejected
           /\ base' \in IF b = None THEN PendingCounts(view) ELSE {b}
           /\ delta' = d + 1
           /\ cand' = [pay |-> call, nonce |-> base' + d, gas |-> g]
    BY <1>2 DEF SignMove
  <2>2. PendingCounts(view) \subseteq Nat
    BY PendingCountsType, ViewsType
  <2>3. base' \in Nat /\ d \in Nat
    BY <2>1, <2>2
  <2>4. call \in Moves /\ g \in Nat
    BY <1>2 DEF SignMove, CallInv
  <2>5. base' + d \in Nat /\ delta' \in Nat
    <3>1. delta' = d + 1
      BY <2>1
    <3>2. \A i, j \in Nat : i + j \in Nat
      OBVIOUS
    <3> QED
      BY <2>3, <3>1, <3>2
  <2>6. cand' \in Tx
    <3> HIDE DEF TypeOK
    <3> QED
      BY <2>1, <2>4, <2>5
  <2> QED
    BY <1>2, <2>3, <2>5, <2>6 DEF SignMove
<1>3. CASE SignFails
  BY <1>3 DEF SignFails, Synced
<1>4. CASE Accepted
  BY <1>4 DEF Accepted, Submitted
<1>5. CASE AlreadyKnown
  BY <1>5 DEF AlreadyKnown, Submitted
<1>6. CASE ReplyLost
  BY <1>6 DEF ReplyLost
<1>7. CASE Refused
  BY <1>7 DEF Refused
<1>8. CASE FailOver
  BY <1>8 DEF FailOver, ResetNonce
<1>9. CASE RetryTransient
  <2>1. base' \in Nat \cup {None, Rejected} /\ delta' \in Nat
    BY <1>9, ResetType DEF RetryTransient
  <2>2. attempt' \in 0 .. RetryMax
    BY <1>9 DEF RetryTransient, RetriesLeft
  <2>3. pc' \in {"sign", "send"}
    BY <1>9 DEF RetryTransient, Resend
  <2> QED
    BY <1>9, <2>1, <2>2, <2>3 DEF RetryTransient
<1>10. CASE RecoverNonceTooLow
  BY <1>10 DEF RecoverNonceTooLow, ResetNonce
<1>11. CASE SendFails
  BY <1>11, FinishType, ResetType DEF SendFails
<1>12. CASE SpeedUpFails
  BY <1>12, FreshLoopType, ResetType DEF SpeedUpFails
<1>13. CASE CancelRefused
  BY <1>13, FreshLoopType DEF CancelRefused, GivesUp
<1>14. CASE CancelFails
  BY <1>14, FinishType, ResetType DEF CancelFails
<1>15. CASE Receipt
  BY <1>15, FinishType DEF Receipt, ReceiptOutcome
<1>16. CASE SpeedUp
  <2>1. PICK g \in GasLevels, t \in moves :
           cand' = [pay |-> call, nonce |-> t.nonce,
                    gas |-> BumpedGas(call, Higher(g, t.gas))]
    BY <1>16 DEF SpeedUp, Outbids, ReplacementNonce
  <2>2. Higher(g, t.gas) \in Nat /\ t.nonce \in Nat
    BY <2>1, ConstantsAssumption DEF Higher, Tx
  <2>3. cand' \in Tx
    BY <1>16, <2>1, <2>2, BumpedType DEF SpeedUp, CallInv, Tx
  <2> QED
    BY SMTT(30), <1>16, <2>3, FreshLoopType DEF SpeedUp, BaseSigner, Synced
<1>17. CASE CancelNonce
  <2>1. PICK g \in GasLevels, t \in moves :
           cand' = [pay |-> Cancel, nonce |-> t.nonce,
                    gas |-> BumpedGas(Cancel, Higher(g, t.gas))]
    BY <1>17 DEF CancelNonce, Outbids, ReplacementNonce
  <2>2. Higher(g, t.gas) \in Nat /\ t.nonce \in Nat
    BY <2>1, ConstantsAssumption DEF Higher, Tx
  <2>3. cand' \in Tx
    BY <1>17, <2>1, <2>2, BumpedType DEF CancelNonce, CallInv, Tx
  <2> QED
    BY SMTT(30), <1>17, <2>3, FreshLoopType DEF CancelNonce, BaseSigner, Synced
<1>18. CASE CancelReceipt
  <2>1. PICK m \in mined : Finish(Settled(m))
    BY <1>18 DEF CancelReceipt
  <2>2. Settled(m) \in Outcomes
    BY DEF Settled, ReceiptOutcome
  <2>3. ResetNonce \/ UNCHANGED nonceMgr
    BY <1>18 DEF CancelReceipt
  <2> QED
    BY <1>18, <2>1, <2>2, <2>3, FinishType, ResetType DEF CancelReceipt
<1>19. CASE WaitFallsBack
  BY <1>19 DEF WaitFallsBack, Waited
<1>20. CASE Crash
  <2>1. Finish("crashed") /\ crashes' \in 0 .. MaxCrash
    BY <1>20 DEF Crash
  <2>2. base' \in Nat \cup {None, Rejected} /\ delta' \in Nat
    BY <1>20, ResetType DEF Crash
  <2> QED
    BY <1>20, <2>1, <2>2, FinishType DEF Crash
<1>21. CASE Mine
  BY <1>21 DEF Mine
<1>22. CASE ForeignSend
  <2>1. PICK view \in SUBSET Pending, g \in GasLevels :
           \E k \in PendingCounts(view) :
              pool' = pool \cup {[pay |-> Foreign, nonce |-> k, gas |-> g]}
    BY <1>22 DEF ForeignSend
  <2>2. PICK n \in PendingCounts(view) :
           pool' = pool \cup {[pay |-> Foreign, nonce |-> n, gas |-> g]}
    BY <2>1
  <2>3. n \in Nat /\ g \in Nat
    <3> HIDE DEF TypeOK
    <3> QED
      BY <2>2, PendingCountsType
  <2>4. foreign' \in 0 .. MaxForeign
    BY <1>22 DEF ForeignSend
  <2> QED
    BY <1>22, <2>2, <2>3, <2>4 DEF ForeignSend
<1>23. CASE WaitErrors
  BY <1>23, FinishType DEF WaitErrors
<1>24. CASE UNCHANGED vars
  BY <1>24
<1> QED
  BY <1>1, <1>2, <1>3, <1>4, <1>5, <1>6, <1>7, <1>8, <1>9, <1>10, <1>11, <1>12,
     <1>13, <1>14, <1>15, <1>16, <1>17, <1>18, <1>19, <1>20, <1>21, <1>22, <1>23, <1>24
     DEF Next, Submit, Await

-----------------------------------------------------------------------------
\* Where a call is after each step.
LEMMA CallStep == TypeOK /\ CallInv /\ [Next]_vars => CallInv'
<1> SUFFICES ASSUME TypeOK, CallInv, [Next]_vars PROVE CallInv'
  OBVIOUS
<1> USE DEF CallInv
<1>1. CASE Begin
  <2>1. call \in 0 .. Calls /\ call < Calls /\ Calls \in Nat
    BY <1>1, ConstantsAssumption DEF Begin, TypeOK, Moves
  <2>2. call' = call + 1 /\ pc' = "sign" /\ job' = job /\ result' = result
    BY <1>1 DEF Begin
  <2>3. call' \in Moves /\ result[call'] = "none"
    BY <2>1, <2>2 DEF Moves
  <2>4. \A c \in Moves : c > call' => result'[c] = "none"
    BY <2>1, <2>2 DEF Moves
  <2> QED
    BY <1>1, <2>2, <2>3, <2>4 DEF Begin
<1>2. CASE SignMove \/ SignFails
  BY <1>2 DEF SignMove, SignFails
<1>3. CASE Accepted
  BY <1>3 DEF Accepted, Submitted
<1>4. CASE AlreadyKnown
  BY <1>4 DEF AlreadyKnown, Submitted
<1>5. CASE ReplyLost \/ Refused
  BY <1>5 DEF ReplyLost, Refused
<1>6. CASE FailOver
  BY <1>6 DEF FailOver
<1>7. CASE RetryTransient
  BY <1>7 DEF RetryTransient, Resend
<1>8. CASE RecoverNonceTooLow
  BY <1>8 DEF RecoverNonceTooLow
<1>9. CASE SpeedUpFails
  BY <1>9 DEF SpeedUpFails, GivesUp
<1>10. CASE CancelRefused
  BY <1>10 DEF CancelRefused, GivesUp
<1>11. CASE SpeedUp
  BY <1>11 DEF SpeedUp
<1>12. CASE CancelNonce
  BY <1>12 DEF CancelNonce
<1>13. CASE WaitFallsBack
  BY <1>13 DEF WaitFallsBack, Waits
<1>14. CASE Mine
  BY <1>14 DEF Mine
<1>15. CASE ForeignSend
  BY <1>15 DEF ForeignSend
<1>16. CASE UNCHANGED vars
  BY <1>16
<1>17. ASSUME NEW o, Finish(o), pc # "idle" PROVE CallInv'
  BY <1>17 DEF Finish, TypeOK, Moves
<1> QED
  BY <1>1, <1>2, <1>3, <1>4, <1>5, <1>6, <1>7, <1>8, <1>9, <1>10, <1>11, <1>12,
     <1>13, <1>14, <1>15, <1>16, <1>17
     DEF Next, Submit, Await, SendFails, CancelFails, GivesUp, Receipt, WaitErrors,
         Waits, CancelReceipt, Crash

\* Nothing leaves the network, and a call's transactions stay its own.
LEMMA HeldStep ==
    TypeOK /\ CallInv /\ HeldInv /\ CandInv /\ [Next]_vars => HeldInv'
<1> SUFFICES ASSUME TypeOK, CallInv, HeldInv, CandInv, [Next]_vars PROVE HeldInv'
  OBVIOUS
<1> USE DEF HeldInv, Waits
<1>1. CASE Begin
  BY <1>1 DEF Begin, CallInv
<1>2. CASE SignMove \/ SignFails
  BY <1>2 DEF SignMove, SignFails, CallInv
<1>3. CASE Accepted
  BY <1>3 DEF Accepted, Submitted, CandInv
<1>4. CASE AlreadyKnown
  <2>1. cand \in pool
    BY <1>4, ViewsType DEF AlreadyKnown, Answer, Pending
  <2> QED
    BY <1>4, <2>1 DEF AlreadyKnown, Submitted, CandInv
<1>5. CASE ReplyLost \/ Refused
  BY <1>5 DEF ReplyLost, Refused
<1>6. CASE FailOver
  BY <1>6 DEF FailOver
<1>7. CASE RetryTransient
  BY <1>7 DEF RetryTransient, Resend
<1>8. CASE RecoverNonceTooLow
  BY <1>8 DEF RecoverNonceTooLow
<1>9. CASE SpeedUpFails
  BY <1>9 DEF SpeedUpFails, GivesUp
<1>10. CASE CancelRefused
  BY <1>10 DEF CancelRefused, GivesUp, CandInv
<1>11. CASE SpeedUp
  BY <1>11 DEF SpeedUp
<1>12. CASE CancelNonce
  BY <1>12 DEF CancelNonce
<1>13. CASE WaitFallsBack
  BY <1>13 DEF WaitFallsBack
<1>14. CASE Mine
  BY <1>14 DEF Mine
<1>15. CASE ForeignSend
  BY <1>15 DEF ForeignSend
<1>16. CASE UNCHANGED vars
  BY <1>16
<1>17. ASSUME NEW o, Finish(o), UNCHANGED pool PROVE HeldInv'
  BY <1>17 DEF Finish
<1> QED
  BY <1>1, <1>2, <1>3, <1>4, <1>5, <1>6, <1>7, <1>8, <1>9, <1>10, <1>11, <1>12,
     <1>13, <1>14, <1>15, <1>16, <1>17
     DEF Next, Submit, Await, SendFails, CancelFails, Receipt, WaitErrors,
         CancelReceipt, Crash

\* The signed transaction in hand is what the job says it is.
LEMMA CandStep ==
    TypeOK /\ CallInv /\ HeldInv /\ CandInv /\ [Next]_vars => CandInv'
<1> SUFFICES ASSUME TypeOK, CallInv, HeldInv, CandInv, [Next]_vars PROVE CandInv'
  OBVIOUS
<1> USE DEF CandInv
<1>1. CASE Begin
  BY <1>1 DEF Begin, CallInv
<1>2. CASE SignMove \/ SignFails
  BY <1>2 DEF SignMove, SignFails, CallInv
<1>3. CASE Accepted \/ AlreadyKnown
  BY <1>3 DEF Accepted, AlreadyKnown, Submitted
<1>4. CASE ReplyLost \/ Refused
  BY <1>4 DEF ReplyLost, Refused
<1>5. CASE FailOver
  BY <1>5 DEF FailOver
<1>6. CASE RetryTransient
  BY <1>6 DEF RetryTransient, Resend
<1>7. CASE RecoverNonceTooLow
  BY <1>7 DEF RecoverNonceTooLow
<1>8. CASE SpeedUpFails \/ CancelRefused
  BY <1>8 DEF SpeedUpFails, CancelRefused
<1>9. CASE SpeedUp
  <2>1. PICK t \in moves : cand'.pay = call /\ cand'.nonce = t.nonce
    BY <1>9 DEF SpeedUp, Outbids, ReplacementNonce
  <2> QED
    BY <1>9, <2>1 DEF SpeedUp, HeldInv
<1>10. CASE CancelNonce
  <2>1. PICK t \in moves : cand'.pay = Cancel /\ cand'.nonce = t.nonce
    BY <1>10 DEF CancelNonce, Outbids, ReplacementNonce
  <2> QED
    BY <1>10, <2>1 DEF CancelNonce, HeldInv
<1>11. CASE WaitFallsBack
  BY <1>11 DEF WaitFallsBack
<1>12. CASE Mine
  BY <1>12 DEF Mine
<1>13. CASE ForeignSend
  BY <1>13 DEF ForeignSend
<1>14. CASE UNCHANGED vars
  BY <1>14
<1>15. ASSUME NEW o, Finish(o) PROVE CandInv'
  BY <1>15 DEF Finish
<1> QED
  BY <1>1, <1>2, <1>3, <1>4, <1>5, <1>6, <1>7, <1>8, <1>9, <1>10, <1>11, <1>12,
     <1>13, <1>14, <1>15
     DEF Next, Submit, Await, SendFails, CancelFails, Receipt, WaitErrors,
         CancelReceipt, Crash

\* Only a block changes the chain, and nothing leaves the network.
LEMMA ChainGrows == [Next]_vars => (Mine \/ UNCHANGED chain) /\ pool \subseteq pool'
BY DEF Next, Submit, Await, Begin, SignMove, SignFails, Accepted, AlreadyKnown,
   ReplyLost, Refused, FailOver, RetryTransient, RecoverNonceTooLow, SendFails,
   SpeedUpFails, CancelRefused, CancelFails, Receipt, WaitErrors, SpeedUp, CancelNonce,
   CancelReceipt, WaitFallsBack, Crash, Mine, ForeignSend

\* Only the end of a call sets its result.
LEMMA ResultChanges ==
    [Next]_vars => \/ UNCHANGED result
                   \/ CancelReceipt
                   \/ \E o : o # "cancelled" /\ Finish(o)
BY DEF Next, Submit, Await, Begin, SignMove, SignFails, Accepted, AlreadyKnown,
   ReplyLost, Refused, FailOver, RetryTransient, RecoverNonceTooLow, SendFails,
   SpeedUpFails, CancelRefused, CancelFails, Receipt, ReceiptOutcome, WaitErrors,
   SpeedUp, CancelNonce, WaitFallsBack, Crash, Mine, ForeignSend

\* The chain takes each nonce once, and only what reached the network.
LEMMA ChainStep == TypeOK /\ ChainInv /\ [Next]_vars => ChainInv'
<1> SUFFICES ASSUME TypeOK, ChainInv, [Next]_vars PROVE ChainInv'
  OBVIOUS
<1> USE DEF ChainInv
<1>1. CASE Mine
  <2>1. PICK t \in pool, ok \in BOOLEAN :
           t.nonce = height /\ mined' = mined \cup {[tx |-> t, ok |-> ok]}
    BY <1>1 DEF Mine
  <2>2. pool' = pool /\ height' = height + 1
    BY <1>1 DEF Mine
  <2>3. \A m \in mined : m.tx \in Tx /\ m.tx.nonce \in Nat
    BY DEF TypeOK, Tx
  <2>4. height \in Nat
    BY DEF TypeOK
  <2> QED
    BY <2>1, <2>2, <2>3, <2>4
<1>2. CASE UNCHANGED chain /\ pool \subseteq pool'
  BY <1>2
<1> QED
  BY <1>1, <1>2, ChainGrows

\* A cancelled call is one whose cancel was seen to take its move's nonce.
LEMMA CancelStep == IInv /\ [Next]_vars => CancelInv'
<1> SUFFICES ASSUME IInv, [Next]_vars PROVE CancelInv'
  OBVIOUS
<1> USE DEF CancelInv
<1>1. mined \subseteq mined' /\ pool \subseteq pool'
  BY ChainGrows DEF Mine
<1>2. CASE CancelReceipt
  <2>1. PICK t \in Waited, m \in mined : Answers(t, m) /\ Finish(Settled(m))
    BY <1>2 DEF CancelReceipt
  <2>2. CASE Settled(m) = "cancelled"
    <3>1. m.tx \in cancels
      BY <2>2 DEF Settled, ReceiptOutcome
    <3>2. PICK u \in moves : TRUE
      BY <1>2 DEF CancelReceipt, IInv, HeldInv, Waits
    <3>3. m.tx.pay = Cancel /\ u.pay = call /\ u.nonce = m.tx.nonce /\ u \in pool
      BY <3>1, <3>2 DEF IInv, HeldInv
    <3>4. result' = [result EXCEPT ![call] = "cancelled"]
      BY <2>1, <2>2 DEF Finish
    <3> QED
      BY <1>1, <3>3, <3>4 DEF IInv, TypeOK
  <2>3. CASE Settled(m) # "cancelled"
    BY <1>1, <2>1, <2>3 DEF Finish, IInv, TypeOK
  <2> QED
    BY <2>2, <2>3
<1>3. CASE UNCHANGED result
  BY <1>1, <1>3 DEF IInv
<1>4. ASSUME NEW o, o # "cancelled", Finish(o) PROVE CancelInv'
  BY <1>1, <1>4 DEF Finish, IInv, TypeOK
<1> QED
  BY <1>2, <1>3, <1>4, ResultChanges

\* Every step keeps IInv.
LEMMA InductiveStep == IInv /\ [Next]_vars => IInv'
BY TypeStep, CallStep, HeldStep, CandStep, ChainStep, CancelStep DEF IInv

\* Every variable keeps its type, for any number of calls and faults.
THEOREM TypeCorrect == Spec => []TypeOK
<1>1. IInv => TypeOK
  BY DEF IInv
<1> QED
  BY InitInv, InductiveStep, <1>1, PTL DEF Spec

\* A call that answers "cancelled" is final: its copies, sharing a nonce, have
\* neither taken effect nor can they any more.
THEOREM CancelledCorrect == Spec => []CancelledIsFinal
<1>1. IInv => CancelledIsFinal
  <2> SUFFICES ASSUME IInv, NEW c \in Moves, result[c] = "cancelled",
                      \A t, u \in Copies(c) : t.nonce = u.nonce
               PROVE  /\ Happened(c) = {}
                      /\ \A t \in Copies(c) : t.nonce < height
    BY DEF CancelledIsFinal
  <2>1. PICK m \in mined, t \in pool :
           m.tx.pay = Cancel /\ t.pay = c /\ t.nonce = m.tx.nonce
    BY DEF IInv, CancelInv
  <2>2. \A u \in Copies(c) : u.nonce = m.tx.nonce
    BY <2>1 DEF Copies
  <2>3. ASSUME NEW n \in Happened(c) PROVE FALSE
    <3>1. n \in mined /\ n.tx \in Copies(c)
      BY DEF Happened, Copies, IInv, ChainInv
    <3>2. n = m
      BY <2>2, <3>1 DEF IInv, ChainInv
    <3> QED
      BY <2>1, <3>1, <3>2 DEF Copies, Moves, Cancel
  <2> QED
    BY <2>2, <2>3 DEF IInv, ChainInv
<1> QED
  BY InitInv, InductiveStep, <1>1, PTL DEF Spec

-----------------------------------------------------------------------------
(* One call, and nothing sent from the wallet outside the bot. *)

\* All that reached the network is the call's move or a cancel, and a cancel
\* only once the call has begun its last phase.
OneCallInv ==
    /\ \A t \in pool : t.pay \in {1, Cancel}
    /\ \A t \in pool : t.pay = Cancel => job = "cancel" \/ (call = 1 /\ pc = "idle")
    /\ result[1] = "confirmed" => Happened(1) # {}

\* With one call and nothing sent from elsewhere, only the move and its cancel
\* reach the network, and a receipt before the last phase is the move's.
LEMMA OneCallStep ==
    ASSUME Calls = 1, MaxForeign = 0
    PROVE  IInv /\ OneCallInv /\ [Next]_vars => OneCallInv'
<1> SUFFICES ASSUME IInv, OneCallInv, [Next]_vars PROVE OneCallInv'
  OBVIOUS
<1>1. call \in {0, 1} /\ (pc # "idle" => call = 1)
  BY DEF IInv, TypeOK, CallInv, Moves
<1>2. mined \subseteq mined' /\ pool \subseteq pool'
  BY ChainGrows DEF Mine
<1>3. Happened(1) \subseteq Happened(1)'
  BY <1>2 DEF Happened
<1>4. CASE Begin
  BY <1>4, <1>3 DEF Begin, OneCallInv, IInv, TypeOK
<1>5. CASE Accepted \/ ReplyLost
  <2>1. pc = "send" /\ pool' = pool \cup {cand}
        /\ UNCHANGED <<job, call, result>> /\ pc' # "idle"
    BY <1>5 DEF Accepted, ReplyLost, Submitted
  <2>2. cand.pay = 1 \/ (cand.pay = Cancel /\ job = "cancel")
    BY <1>1, <2>1 DEF IInv, CandInv, TypeOK
  <2> QED
    BY <1>1, <1>3, <2>1, <2>2 DEF OneCallInv, Cancel
<1>6. CASE SpeedUp
  BY <1>3, <1>6 DEF SpeedUp, OneCallInv, IInv, CallInv
<1>7. CASE CancelNonce
  BY <1>3, <1>7 DEF CancelNonce, OneCallInv
<1>8. CASE Receipt
  <2>1. PICK t \in Waited, m \in mined : Finish(ReceiptOutcome(m))
    BY <1>8 DEF Receipt
  <2>2. m.tx.pay = 1
    BY <1>8 DEF Receipt, OneCallInv, IInv, CallInv, ChainInv
  <2>3. ReceiptOutcome(m) = "confirmed" => m \in Happened(1)
    BY <2>2 DEF ReceiptOutcome, Happened
  <2> QED
    BY <1>1, <1>3, <1>8, <2>1, <2>3 DEF Receipt, Finish, OneCallInv, IInv, TypeOK, Moves
<1>9. CASE CancelReceipt
  <2>1. PICK t \in Waited, m \in mined : Finish(Settled(m))
    BY <1>9 DEF CancelReceipt
  <2>2. Settled(m) = "confirmed" => m \in Happened(1)
    BY <1>1, <1>9 DEF Settled, ReceiptOutcome, Happened, IInv, HeldInv, CancelReceipt
  <2> QED
    BY <1>1, <1>3, <1>9, <2>1, <2>2
       DEF CancelReceipt, Finish, OneCallInv, IInv, TypeOK, Moves
<1>10. ASSUME NEW o, o # "confirmed", Finish(o), UNCHANGED pool, pc # "idle"
       PROVE  OneCallInv'
  BY <1>1, <1>3, <1>10 DEF Finish, OneCallInv, IInv, TypeOK, Moves
<1>11. CASE UNCHANGED <<pool, job, call, result>> /\ (pc = "idle" <=> pc' = "idle")
  BY <1>3, <1>11 DEF OneCallInv
<1>12. ~ForeignSend
  <2>1. foreign \in 0 .. MaxForeign
    BY DEF IInv, TypeOK
  <2> QED
    BY <2>1 DEF ForeignSend
<1>13. CASE SpeedUpFails
  BY <1>3, <1>13 DEF SpeedUpFails, GivesUp, OneCallInv, IInv, CallInv
<1> QED
  BY <1>4, <1>5, <1>6, <1>7, <1>8, <1>9, <1>10, <1>11, <1>12, <1>13
     DEF Next, Submit, Await, SignMove, SignFails, AlreadyKnown, Submitted, Refused,
         FailOver, RetryTransient, Resend, RecoverNonceTooLow, SendFails, GivesUp,
         CancelRefused, CancelFails, WaitErrors, WaitFallsBack, Waits, Crash, Mine

\* With one call and no foreign transaction, a receipt means that the move
\* took effect, whatever replies are lost and whichever endpoints answer.
THEOREM ConfirmedCorrect ==
    ASSUME Calls = 1, MaxForeign = 0
    PROVE  Spec => []ConfirmedMeansMoved
<1>1. Init => OneCallInv
  BY DEF Init, OneCallInv, Moves
<1>2. OneCallInv => ConfirmedMeansMoved
  BY DEF OneCallInv, ConfirmedMeansMoved, Moves
<1>3. IInv /\ OneCallInv /\ [Next]_vars => OneCallInv'
  BY OneCallStep
<1> QED
  BY InitInv, InductiveStep, <1>1, <1>2, <1>3, PTL DEF Spec

-----------------------------------------------------------------------------
(* Every reply to an accepted broadcast arrives. *)

\* What reached the network of the call under way is what its wait holds; of
\* a call to come, nothing; and no call has used two nonces.
CopiesInv ==
    /\ pc # "idle" => Copies(call) \subseteq moves
    /\ \A c \in Moves : c > call => Copies(c) = {}
    /\ OneNoncePerMove

\* With no reply lost, no accepted broadcast is taken for a refusal.
LEMMA NoReplyLost == ASSUME MaxLost = 0, IInv PROVE ~ReplyLost
<1>1. lost \in 0 .. MaxLost
  BY DEF IInv, TypeOK
<1> QED
  BY <1>1 DEF ReplyLost

\* The network gains a transaction by three actions alone.
LEMMA PoolChanges ==
    [Next]_vars => UNCHANGED pool \/ Accepted \/ ReplyLost \/ ForeignSend
BY DEF Next, Submit, Await, Begin, SignMove, SignFails, AlreadyKnown, Refused,
   FailOver, RetryTransient, RecoverNonceTooLow, SendFails, SpeedUpFails,
   CancelRefused, CancelFails, Receipt, WaitErrors, SpeedUp, CancelNonce,
   CancelReceipt, WaitFallsBack, Crash, Mine

\* Only the beginning of a call makes it the call under way, and a call that
\* is under way keeps its transactions until it ends.
LEMMA CallChanges ==
    ASSUME TypeOK, CallInv, CandInv, [Next]_vars
    PROVE  \/ Begin
           \/ call' = call /\ (pc' # "idle" => pc # "idle" /\ moves \subseteq moves')
<1>1. ASSUME NEW o, Finish(o) PROVE call' = call /\ pc' = "idle"
  BY <1>1 DEF Finish
<1>2. CASE Accepted \/ AlreadyKnown
  <2>1. pc = "send" /\ call' = call
    BY <1>2 DEF Accepted, AlreadyKnown
  <2> QED
    BY <1>2, <2>1 DEF Accepted, AlreadyKnown, Submitted, CandInv
<1>3. CASE SignMove \/ SignFails \/ ReplyLost \/ Refused \/ FailOver
           \/ RetryTransient \/ RecoverNonceTooLow \/ SpeedUpFails \/ CancelRefused
           \/ SpeedUp \/ CancelNonce \/ WaitFallsBack
  BY <1>3 DEF SignMove, SignFails, ReplyLost, Refused, FailOver, RetryTransient,
     RecoverNonceTooLow, SpeedUpFails, CancelRefused, GivesUp, SpeedUp,
     CancelNonce, WaitFallsBack, Waits
<1>4. CASE Mine \/ ForeignSend \/ UNCHANGED vars
  BY <1>4 DEF Mine, ForeignSend
<1> QED
  BY <1>1, <1>2, <1>3, <1>4
     DEF Next, Submit, Await, SendFails, CancelFails, Receipt, WaitErrors,
         CancelReceipt, Crash

\* With every reply heard, a call's copies are those its wait holds.
LEMMA CopiesStep ==
    ASSUME MaxLost = 0
    PROVE  IInv /\ CopiesInv /\ [Next]_vars => CopiesInv'
<1> SUFFICES ASSUME IInv, CopiesInv, [Next]_vars PROVE CopiesInv'
  OBVIOUS
<1> USE DEF CopiesInv, OneNoncePerMove, Copies
<1>1. TypeOK /\ CallInv /\ HeldInv /\ CandInv /\ HeldInv' /\ call \in 0 .. Calls
  <2>1. IInv'
    BY InductiveStep
  <2>2. call \in 0 .. Calls
    BY ConstantsAssumption DEF IInv, TypeOK, Moves
  <2> QED
    BY <2>1, <2>2 DEF IInv
<1>2. CASE Accepted
  <2>1. /\ pool' = pool \cup {cand} /\ call' = call
        /\ pc = "send" /\ pc' # "idle" /\ Submitted
    BY <1>2 DEF Accepted, Submitted
  <2>2. cand.pay \in {call, Cancel} /\ call \in Moves
    BY <1>1, <2>1 DEF CandInv, CallInv, TypeOK
  <2>3. \A c \in Moves : c # call => Copies(c)' = Copies(c)
    BY <2>1, <2>2 DEF Moves, Cancel
  <2>4. Copies(call)' \subseteq moves'
    <3>1. CASE job = "cancel"
      BY <1>1, <2>1, <2>2, <3>1 DEF Submitted, CandInv, Moves, Cancel
    <3>2. CASE job # "cancel"
      BY <1>1, <2>1, <3>2 DEF Submitted, CandInv
    <3> QED
      BY <3>1, <3>2
  <2>5. \A t, u \in Copies(call)' : t.nonce = u.nonce
    BY <1>1, <2>4 DEF HeldInv
  <2> QED
    BY <1>1, <2>1, <2>2, <2>3, <2>4, <2>5 DEF Moves
<1>3. CASE ForeignSend
  <2>1. PICK g, n :
           pool' = pool \cup {[pay |-> Foreign, nonce |-> n, gas |-> g]}
    BY <1>3 DEF ForeignSend
  <2>2. \A c \in Moves : Copies(c)' = Copies(c)
    BY <2>1 DEF Moves, Foreign
  <2> QED
    BY <1>1, <1>3, <2>2 DEF ForeignSend, CallInv
<1>4. CASE UNCHANGED pool
  <2>1. \A c \in Moves : Copies(c)' = Copies(c)
    BY <1>4
  <2>2. CASE Begin
    <3>1. call' = call + 1 /\ call + 1 \in Moves /\ call + 1 > call /\ pc = "idle"
      BY <1>1, <2>2, ConstantsAssumption DEF Begin, Moves
    <3>2. \A c \in Moves : c > call' => c > call
      BY <1>1, <3>1 DEF Moves
    <3>3. moves' = moves
      BY <2>2 DEF Begin
    <3> QED
      BY <2>1, <3>1, <3>2, <3>3
  <2>3. CASE call' = call /\ (pc' # "idle" => pc # "idle" /\ moves \subseteq moves')
    BY <1>1, <1>4, <2>1, <2>3 DEF CallInv
  <2> QED
    BY <1>1, <2>2, <2>3, CallChanges
<1> QED
  BY <1>2, <1>3, <1>4, PoolChanges, NoReplyLost

\* Nothing has reached the network, and no call has begun.
LEMMA CopiesInit == Init => CopiesInv
BY DEF Init, CopiesInv, OneNoncePerMove, Copies

\* With no reply lost, all that is broadcast for one move competes for one
\* nonce, whichever endpoints answer, whatever is sent from elsewhere and
\* whenever the process stops.
THEOREM OneNonceCorrect == ASSUME MaxLost = 0 PROVE Spec => []OneNoncePerMove
<1>1. IInv /\ CopiesInv /\ [Next]_vars => CopiesInv'
  BY CopiesStep
<1>2. CopiesInv => OneNoncePerMove
  BY DEF CopiesInv
<1> QED
  BY InitInv, InductiveStep, CopiesInit, <1>1, <1>2, PTL DEF Spec

-----------------------------------------------------------------------------
(* Every error is recognised. *)

\* Some transaction holds every nonce the chain has not reached, below n.
Filled(n) == \A k \in height .. n - 1 : \E u \in pool : u.nonce = k

\* The move in hand has been given a nonce, and is not known to hold it.
Reserved == pc \in {"send", "refused"} /\ job = "move"

\* What the NonceManager would sign next leaves no gap: all below it is held,
\* but for the nonce given to the move in hand.
NextNonceInv ==
    /\ base = None => delta = 0
    /\ pc = "send" /\ job = "move" => base \in Nat
    /\ Reserved /\ base \in Nat => cand.nonce + 1 = base + delta
    /\ base \in Nat => Filled(IF Reserved THEN cand.nonce ELSE base + delta)

\* What a refusal that keeps the NonceManager's count tells of that nonce.
RefusedInv ==
    pc = "refused" /\ job = "move" =>
        /\ err = "tooLow" => cand.nonce < height
        /\ err = "underpriced" => \E u \in pool : u.nonce = cand.nonce
        /\ err = "unknown" => base = Rejected

GapInv == NextNonceInv /\ RefusedInv /\ NoNonceGap

\* What is filled stays so: blocks take from the bottom, and nothing leaves.
LEMMA FilledStays ==
    ASSUME TypeOK, [Next]_vars, NEW n, Filled(n)
    PROVE  \A k \in height' .. n - 1 : \E u \in pool' : u.nonce = k
<1>1. pool \subseteq pool' /\ (height' = height + 1 \/ height' = height)
  BY ChainGrows DEF Mine
<1>2. height \in Nat
  BY DEF TypeOK
<1>3. \A k \in height' .. n - 1 : k \in height .. n - 1
  BY <1>1, <1>2
<1> QED
  BY <1>1, <1>3 DEF Filled

\* An endpoint's pending count leaves no gap, whatever the endpoint holds.
LEMMA PendingCountFilled ==
    ASSUME NEW view, view \subseteq Pending, NEW n \in PendingCounts(view)
    PROVE  Filled(n)
BY DEF PendingCounts, Pending, Filled

\* The nonce in hand is filled up to when it is used: a move's by the
\* NonceManager's count, a replacement's by what it replaces.
LEMMA CandFilled ==
    ASSUME IInv, GapInv, pc = "send"
    PROVE  Filled(cand.nonce)
<1>1. CASE job = "move"
  BY <1>1 DEF GapInv, NextNonceInv, Reserved
<1>2. CASE job # "move"
  <2>1. PICK t \in moves : t.nonce = cand.nonce /\ t \in pool
    BY <1>2 DEF IInv, HeldInv, CandInv
  <2> QED
    BY <2>1 DEF GapInv, NoNonceGap, Filled
<1> QED
  BY <1>1, <1>2

\* No transaction is broadcast over a gap.
LEMMA GapStep == IInv /\ GapInv /\ [Next]_vars => NoNonceGap'
<1> SUFFICES ASSUME IInv, GapInv, [Next]_vars PROVE NoNonceGap'
  OBVIOUS
<1> SUFFICES ASSUME NEW t \in pool'
             PROVE  \A k \in height' .. t.nonce - 1 : \E u \in pool' : u.nonce = k
  BY DEF NoNonceGap
<1>1. Filled(t.nonce)
  <2>1. CASE t \in pool
    BY <2>1 DEF GapInv, NoNonceGap, Filled
  <2>2. CASE Accepted \/ ReplyLost
    <3>1. pc = "send" /\ pool' = pool \cup {cand}
      BY <2>2 DEF Accepted, ReplyLost
    <3> QED
      BY <2>1, <3>1, CandFilled
  <2>3. CASE ForeignSend
    <3>1. PICK view \in SUBSET Pending, g \in GasLevels :
             \E n \in PendingCounts(view) :
                 pool' = pool \cup {[pay |-> Foreign, nonce |-> n, gas |-> g]}
      BY <2>3 DEF ForeignSend
    <3>2. PICK n \in PendingCounts(view) :
             pool' = pool \cup {[pay |-> Foreign, nonce |-> n, gas |-> g]}
      BY <3>1
    <3>3. t \in pool \/ t.nonce = n
      BY <3>2
    <3> QED
      BY <2>1, <3>3, PendingCountFilled
  <2> QED
    BY <2>1, <2>2, <2>3, PoolChanges
<1> QED
  BY <1>1, FilledStays DEF IInv

\* A refusal says what it says of the nonce in hand.
LEMMA RefusedStep ==
    ASSUME Unrecognised = FALSE
    PROVE  IInv /\ GapInv /\ [Next]_vars => RefusedInv'
<1> SUFFICES ASSUME IInv, GapInv, [Next]_vars, pc' = "refused", job' = "move"
             PROVE  RefusedInv'
  BY DEF RefusedInv
<1> USE DEF RefusedInv
<1>1. CASE SignFails
  BY <1>1 DEF SignFails
<1>2. CASE ReplyLost
  BY <1>2 DEF ReplyLost
<1>3. CASE Refused
  <2>1. pc = "send" /\ UNCHANGED <<pool, height, cand, base>>
    BY <1>3 DEF Refused
  <2>2. \/ err' \in {"transient", "unused"}
        \/ \E view \in Views : Answer(cand, view) \in {"tooLow", "underpriced"}
                              /\ err' = Answer(cand, view)
    BY <1>3 DEF Refused
  <2>3. ASSUME NEW view \in Views, Answer(cand, view) = "tooLow"
        PROVE  cand.nonce < height
    BY <2>3 DEF Answer
  <2>4. ASSUME NEW view \in Views, Answer(cand, view) = "underpriced"
        PROVE  \E u \in pool : u.nonce = cand.nonce
    BY <2>4, ViewsType DEF Answer, Pending
  <2> QED
    BY <2>1, <2>2, <2>3, <2>4
<1>4. CASE pc = "refused" /\ UNCHANGED <<job, cand, err, base>>
  <2>1. pool \subseteq pool' /\ (height' = height + 1 \/ height' = height)
    BY ChainGrows DEF Mine
  <2>2. height \in Nat /\ cand.nonce \in Nat
    BY DEF IInv, TypeOK, Tx
  <2> QED
    BY <1>4, <2>1, <2>2 DEF GapInv
<1>5. \/ SignFails \/ ReplyLost \/ Refused
      \/ pc = "refused" /\ UNCHANGED <<job, cand, err, base>>
  BY DEF Next, Submit, Await, Begin, SignMove, Accepted, AlreadyKnown, Submitted,
     FailOver, RetryTransient, Resend, RecoverNonceTooLow, SendFails, SpeedUpFails,
     CancelRefused, CancelFails, Receipt, WaitErrors, SpeedUp, CancelNonce,
     CancelReceipt, Finish, WaitFallsBack, Crash, Mine, ForeignSend, Waits
<1> QED
  BY <1>1, <1>2, <1>3, <1>4, <1>5

\* A reset NonceManager reads the count afresh.
LEMMA ResetNonceInv ==
    ASSUME ResetNonce, ~(pc' = "send" /\ job' = "move")
    PROVE  NextNonceInv'
BY DEF ResetNonce, NextNonceInv, None

\* The count is kept, and so is the move it gave a nonce to.
LEMMA ReservedNonceInv ==
    ASSUME IInv, NextNonceInv, [Next]_vars, UNCHANGED <<base, delta, job, cand>>,
           Reserved <=> Reserved', pc' = "send" => pc = "send"
    PROVE  NextNonceInv'
<1> DEFINE n == IF Reserved THEN cand.nonce ELSE base + delta
<1>1. base' \in Nat => Filled(n)
  BY DEF NextNonceInv
<1>2. base' \in Nat => \A k \in height' .. n - 1 : \E u \in pool' : u.nonce = k
  BY <1>1, FilledStays DEF IInv
<1>3. base' \in Nat => Filled(IF Reserved THEN cand.nonce ELSE base + delta)'
  BY <1>2 DEF Filled
<1> QED
  BY <1>3 DEF NextNonceInv

\* The count is kept, and no move in hand is short of its nonce.
LEMMA UsedNonceInv ==
    ASSUME IInv, NextNonceInv, [Next]_vars, UNCHANGED nonceMgr, ~Reserved',
           Reserved => \/ base = Rejected
                       \/ cand.nonce < height
                       \/ \E u \in pool' : u.nonce = cand.nonce
    PROVE  NextNonceInv'
<1>1. SUFFICES ASSUME base \in Nat
               PROVE  \A k \in height' .. (base + delta) - 1 : \E u \in pool' : u.nonce = k
  BY DEF NextNonceInv, Filled, Reserved
<1>2. height \in Nat /\ height' \in Nat /\ height <= height' /\ delta \in Nat
  BY ChainGrows DEF Mine, IInv, TypeOK
<1>3. CASE ~Reserved
  <2> DEFINE n == base + delta
  <2>1. Filled(n)
    BY <1>1, <1>3 DEF NextNonceInv
  <2> HIDE DEF n
  <2>2. \A k \in height' .. n - 1 : \E u \in pool' : u.nonce = k
    BY <2>1, FilledStays DEF IInv
  <2> QED
    BY <2>2 DEF n
<1>4. CASE Reserved
  <2>1. cand.nonce + 1 = base + delta /\ cand.nonce \in Nat /\ Filled(cand.nonce)
    BY <1>1, <1>4 DEF NextNonceInv, IInv, TypeOK, Tx
  <2>2. \A k \in height' .. cand.nonce - 1 : \E u \in pool' : u.nonce = k
    BY <2>1, FilledStays DEF IInv
  <2>3. ASSUME NEW k \in height' .. (base + delta) - 1
        PROVE  \E u \in pool' : u.nonce = k
    <3>1. k \in height' .. cand.nonce - 1 \/ k = cand.nonce
      BY <1>1, <1>2, <2>1
    <3>2. CASE k = cand.nonce
      <4>1. ~(cand.nonce < height) /\ base # Rejected
        BY <1>1, <1>2, <2>1, <3>2 DEF Rejected
      <4> QED
        BY <1>4, <3>2, <4>1
    <3> QED
      BY <2>2, <3>1, <3>2
  <2> QED
    BY <2>3
<1> QED
  BY <1>3, <1>4

\* Signing counts the nonce it gives: the next of the count, or a fresh one.
LEMMA SignNonceInv ==
    ASSUME IInv, GapInv, SignMove PROVE NextNonceInv'
<1>1. PICK b \in {base, None}, d \in {delta, 0}, view \in Views, g \in GasLevels :
         /\ Synced(b, d) /\ b # Rejected
         /\ base' \in IF b = None THEN PendingCounts(view) ELSE {b}
         /\ delta' = d + 1
         /\ cand' = [pay |-> call, nonce |-> base' + d, gas |-> g]
  BY DEF SignMove
<1>2. pc' = "send" /\ job' = job /\ job = "move" /\ UNCHANGED <<pool, height>>
  BY DEF SignMove, IInv, CallInv
<1>3. view \subseteq Pending /\ PendingCounts(view) \subseteq Nat
  BY ViewsType, PendingCountsType DEF IInv
<1>4. cand'.nonce = base' + d /\ d \in Nat
  BY <1>1 DEF IInv, TypeOK
<1>5. base' \in Nat /\ Filled(base' + d)
  <2>1. CASE b = None
    <3>1. d = 0
      BY <1>1, <2>1 DEF Synced, GapInv, NextNonceInv
    <3>2. base' \in Nat /\ Filled(base')
      BY <1>1, <1>3, <2>1, PendingCountFilled
    <3> QED
      BY <3>1, <3>2
  <2>2. CASE b # None
    <3>1. b = base /\ d = delta /\ base' = base /\ base \in Nat
      BY <1>1, <2>2 DEF Synced, IInv, TypeOK
    <3>2. ~Reserved
      BY DEF Reserved, SignMove
    <3> QED
      BY <3>1, <3>2 DEF GapInv, NextNonceInv
  <2> QED
    BY <2>1, <2>2
<1>6. Filled(cand.nonce)'
  BY <1>2, <1>4, <1>5 DEF Filled
<1>7. cand'.nonce + 1 = base' + delta'
  BY <1>1, <1>4, <1>5
<1>8. base' # None /\ Reserved'
  BY <1>2, <1>5 DEF None, Reserved
<1> QED
  BY <1>2, <1>5, <1>6, <1>7, <1>8 DEF NextNonceInv

\* The NonceManager's count leaves no gap, through every refusal it is kept
\* or reset on.
LEMMA NextNonceStep == IInv /\ GapInv /\ [Next]_vars => NextNonceInv'
<1> SUFFICES ASSUME IInv, GapInv, [Next]_vars PROVE NextNonceInv'
  OBVIOUS
<1>1. CASE SignMove
  BY <1>1, SignNonceInv
<1>2. CASE SignFails
  BY <1>2 DEF SignFails, NextNonceInv, None, Rejected
<1>3. CASE Accepted \/ AlreadyKnown
  <2>1. UNCHANGED nonceMgr /\ ~Reserved'
    BY <1>3 DEF Accepted, AlreadyKnown, Submitted, Reserved
  <2>2. cand \in pool'
    BY <1>3, ViewsType DEF Accepted, AlreadyKnown, Answer, Pending
  <2> QED
    BY <2>1, <2>2, UsedNonceInv DEF GapInv
<1>4. CASE ReplyLost \/ Refused \/ Mine \/ ForeignSend \/ UNCHANGED vars
  <2>1. UNCHANGED <<base, delta, job, cand>> /\ (pc' = "send" => pc = "send")
    BY <1>4 DEF ReplyLost, Refused, Mine, ForeignSend
  <2>2. Reserved <=> Reserved'
    BY <1>4 DEF ReplyLost, Refused, Mine, ForeignSend, Reserved
  <2> QED
    BY <2>1, <2>2, ReservedNonceInv DEF GapInv
<1>5. CASE FailOver \/ RetryTransient \/ RecoverNonceTooLow
  <2>1. CASE job = "cancel"
    <3>1. UNCHANGED nonceMgr /\ ~Reserved /\ ~Reserved'
      BY <1>5, <2>1 DEF FailOver, RetryTransient, RecoverNonceTooLow, ResetSigner, Reserved
    <3> QED
      BY <3>1, UsedNonceInv DEF GapInv
  <2>2. CASE job # "cancel"
    <3>1. ResetNonce /\ ~(pc' = "send" /\ job' = "move")
      BY <1>5, <2>2 DEF FailOver, RetryTransient, Resend, RecoverNonceTooLow, ResetSigner
    <3> QED
      BY <3>1, ResetNonceInv
  <2> QED
    BY <2>1, <2>2
<1>6. CASE SendFails
  <2>1. pc' = "idle" /\ pc = "refused" /\ job = "move" /\ pool' = pool
    BY <1>6 DEF SendFails, GivesUp, Finish
  <2>2. CASE err \in {"transient", "unused"}
    <3>1. ResetNonce
      BY <1>6, <2>1, <2>2 DEF SendFails, ThrowReset, ResetSigner
    <3> QED
      BY <2>1, <3>1, ResetNonceInv
  <2>3. CASE err \notin {"transient", "unused"}
    <3>1. UNCHANGED nonceMgr /\ err \in {"underpriced", "unknown", "tooLow"}
      BY <1>6, <2>3 DEF SendFails, ThrowReset, GivesUp
    <3>2. \/ base = Rejected \/ cand.nonce < height
          \/ \E u \in pool' : u.nonce = cand.nonce
      BY <2>1, <3>1 DEF GapInv, RefusedInv
    <3> QED
      BY <2>1, <3>1, <3>2, UsedNonceInv DEF GapInv, Reserved
  <2> QED
    BY <2>2, <2>3
<1>7. ASSUME ~Reserved, ~Reserved', ResetNonce \/ UNCHANGED nonceMgr PROVE NextNonceInv'
  BY <1>7, ResetNonceInv, UsedNonceInv DEF GapInv, Reserved
<1>8. CASE Begin \/ WaitFallsBack \/ Receipt \/ WaitErrors \/ CancelReceipt
  <2>1. ~Reserved /\ ~Reserved'
    BY <1>8 DEF Begin, WaitFallsBack, Receipt, WaitErrors, CancelReceipt, Finish,
       Reserved, Waits
  <2> QED
    BY <1>7, <1>8, <2>1 DEF Begin, WaitFallsBack, Receipt, WaitErrors, CancelReceipt
<1>9. CASE SpeedUpFails \/ CancelRefused \/ CancelFails
  <2>1. ~Reserved /\ ~Reserved'
    BY <1>9 DEF SpeedUpFails, CancelRefused, CancelFails, GivesUp, Finish, Reserved
  <2> QED
    BY <1>7, <1>9, <2>1
       DEF SpeedUpFails, CancelRefused, CancelFails, ThrowReset, ResetSigner
<1>10. CASE SpeedUp \/ CancelNonce
  <2>1. ~Reserved /\ ~Reserved'
    BY <1>10 DEF SpeedUp, CancelNonce, Reserved
  <2>2. ResetNonce \/ UNCHANGED nonceMgr
    BY <1>10 DEF SpeedUp, CancelNonce, BaseSigner, Synced, ResetNonce
  <2> QED
    BY <1>7, <2>1, <2>2
<1>11. CASE Crash
  BY <1>11, ResetNonceInv DEF Crash, Finish
<1> QED
  BY <1>1, <1>2, <1>3, <1>4, <1>5, <1>6, <1>8, <1>9, <1>10, <1>11
     DEF Next, Submit, Await

\* No nonce has been given out.
LEMMA GapInit == Init => GapInv
BY DEF Init, GapInv, NextNonceInv, RefusedInv, NoNonceGap, None

\* When every error is recognised, no transaction ever waits behind a nonce
\* nobody uses, whatever replies are lost, whichever endpoints answer and
\* whatever is sent from elsewhere.
THEOREM NoGapCorrect == ASSUME Unrecognised = FALSE PROVE Spec => []NoNonceGap
<1>1. IInv /\ GapInv /\ [Next]_vars => GapInv'
  BY GapStep, NextNonceStep, RefusedStep DEF GapInv
<1>2. GapInv => NoNonceGap
  BY DEF GapInv
<1> QED
  BY InitInv, InductiveStep, GapInit, <1>1, <1>2, PTL DEF Spec

-----------------------------------------------------------------------------(* Every endpoint holds what is pending, every error is recognised, and      *)
(* nothing is sent from the wallet outside the bot, though replies may be    *)
(* lost: each call then has a nonce of its own.                              *)

InTouch == MaxForeign = 0 /\ Stale = FALSE /\ Unrecognised = FALSE

\* Nothing that may still be mined has nonce n or a later one.
Fresh(n) == \A u \in pool : u.nonce < n \/ u.nonce < height

Sending == pc = "send" /\ job = "move"

\* The next nonce of the count is fresh, and so is that of the move in hand.
FreshInv ==
    base \in Nat => Fresh(IF Sending THEN cand.nonce ELSE base + delta)

\* Until its cancel is sent, a call has its nonce to itself.
OwnInv ==
    pc # "idle" /\ job # "cancel" =>
        \A t \in moves, u \in pool : u.nonce = t.nonce => u.pay = call

LEMMA NoForeign == ASSUME InTouch, IInv PROVE ~ForeignSend
<1>1. foreign \in 0 .. MaxForeign
  BY DEF IInv, TypeOK
<1> QED
  BY <1>1 DEF ForeignSend, InTouch

\* What a step may do to the NonceManager, the network and the move in hand.
LEMMA ManagerChanges ==
    ASSUME IInv, [Next]_vars
    PROVE  \/ SignMove \/ Accepted \/ ReplyLost \/ ForeignSend
           \/ UNCHANGED <<pool, base, delta, pc, job, cand>>
           \/ UNCHANGED pool /\ base' \in {None, Rejected}
           \/ UNCHANGED <<pool, base, delta>> /\ ~Sending'
<1>1. CASE SignFails
  BY <1>1 DEF SignFails
<1>2. CASE AlreadyKnown \/ Refused \/ Begin
  BY <1>2 DEF AlreadyKnown, Submitted, Refused, Begin, Sending
<1>3. CASE FailOver \/ RetryTransient \/ RecoverNonceTooLow
  BY <1>3 DEF FailOver, RetryTransient, Resend, RecoverNonceTooLow, ResetSigner,
     ResetNonce, Sending
<1>4. ASSUME UNCHANGED pool, ~Sending', ResetNonce \/ UNCHANGED nonceMgr
      PROVE  \/ UNCHANGED pool /\ base' \in {None, Rejected}
             \/ UNCHANGED <<pool, base, delta>> /\ ~Sending'
  BY <1>4 DEF ResetNonce
<1>5. CASE SendFails \/ SpeedUpFails \/ CancelRefused \/ CancelFails
  BY <1>4, <1>5 DEF SendFails, SpeedUpFails, CancelRefused, CancelFails, GivesUp,
     Finish, ThrowReset, ResetSigner, Sending
<1>6. CASE Receipt \/ WaitErrors \/ CancelReceipt \/ Crash
  BY <1>4, <1>6 DEF Receipt, WaitErrors, CancelReceipt, Crash, Finish, Sending, Waits
<1>7. CASE SpeedUp \/ CancelNonce
  BY <1>7 DEF SpeedUp, CancelNonce, BaseSigner, Synced, Sending
<1>8. CASE WaitFallsBack \/ Mine \/ UNCHANGED vars
  BY <1>8 DEF WaitFallsBack, Mine
<1> QED
  BY <1>1, <1>2, <1>3, <1>5, <1>6, <1>7, <1>8 DEF Next, Submit, Await

\* With no gap, the first nonce no pending transaction holds is fresh.
LEMMA PendingCountFresh ==
    ASSUME IInv, NoNonceGap, NEW n \in PendingCounts(Pending)
    PROVE  Fresh(n)
<1>1. n \in Nat /\ height \in Nat /\ n >= height
  BY PendingCountsType DEF IInv, TypeOK, PendingCounts, Pending, Tx
<1>2. SUFFICES ASSUME NEW u \in pool, ~(u.nonce < n), ~(u.nonce < height)
               PROVE  FALSE
  BY DEF Fresh
<1>3. u.nonce \in Nat
  BY DEF IInv, TypeOK, Tx
<1>4. \A t \in pool : t.nonce # n
  BY <1>1 DEF PendingCounts, Pending, IInv, TypeOK, Tx
<1>5. n \in height .. u.nonce - 1
  BY <1>1, <1>2, <1>3, <1>4
<1> QED
  BY <1>4, <1>5 DEF NoNonceGap

\* Signing takes a fresh nonce, and what it takes is no longer the next one.
LEMMA FreshStep ==
    ASSUME InTouch PROVE IInv /\ GapInv /\ FreshInv /\ [Next]_vars => FreshInv'
<1> SUFFICES ASSUME IInv, GapInv, FreshInv, [Next]_vars, base' \in Nat
             PROVE  Fresh(IF Sending THEN cand.nonce ELSE base + delta)'
  BY DEF FreshInv
<1>1. /\ height \in Nat /\ height' \in Nat /\ height <= height'
      /\ delta \in Nat /\ cand.nonce \in Nat
      /\ \A u \in pool : u.nonce \in Nat
  BY ChainGrows DEF Mine, IInv, TypeOK, Tx
<1>2. ASSUME NEW n, Fresh(n), UNCHANGED pool
      PROVE  \A u \in pool' : u.nonce < n \/ u.nonce < height'
  BY <1>1, <1>2 DEF Fresh
<1>3. base \in Nat => Fresh(base + delta)
  <2>1. CASE ~Sending
    BY <2>1 DEF FreshInv
  <2>2. CASE Sending
    <3>1. base \in Nat => Fresh(cand.nonce) /\ cand.nonce + 1 = base + delta
      BY <2>2 DEF FreshInv, GapInv, NextNonceInv, Sending, Reserved
    <3> QED
      BY <1>1, <3>1 DEF Fresh
  <2> QED
    BY <2>1, <2>2
<1>4. CASE SignMove
  <2>1. PICK b \in {base, None}, d \in {delta, 0}, view \in Views, g \in GasLevels :
           /\ Synced(b, d) /\ b # Rejected
           /\ base' \in IF b = None THEN PendingCounts(view) ELSE {b}
           /\ cand' = [pay |-> call, nonce |-> base' + d, gas |-> g]
    BY <1>4 DEF SignMove
  <2>2. Sending' /\ UNCHANGED <<pool, height>> /\ cand'.nonce = base' + d
    BY <1>4, <2>1 DEF SignMove, Sending, IInv, CallInv
  <2>3. Fresh(base' + d)
    <3>1. CASE b = None
      <4>1. d = 0 /\ view = Pending
        BY <2>1, <3>1 DEF Synced, GapInv, NextNonceInv, Views, InTouch
      <4>2. Fresh(base')
        BY <2>1, <3>1, <4>1, PendingCountFresh DEF GapInv
      <4> QED
        BY <4>1, <4>2
    <3>2. CASE b # None
      <4>1. base' = base /\ d = delta /\ base \in Nat
        BY <2>1, <3>2 DEF Synced, IInv, TypeOK
      <4> QED
        BY <1>3, <4>1
    <3> QED
      BY <3>1, <3>2
  <2>4. Fresh(cand.nonce)'
    BY <2>2, <2>3 DEF Fresh
  <2> QED
    BY <2>2, <2>4
<1>5. CASE Accepted \/ ReplyLost
  <2>1. /\ pc = "send" /\ pc' # "send" /\ ~Sending' /\ pool' = pool \cup {cand}
        /\ base' = base /\ delta' = delta /\ height' = height
    BY <1>5 DEF Accepted, ReplyLost, Submitted, Sending
  <2>2. cand.nonce < base + delta \/ cand.nonce < height
    <3>1. CASE job = "move"
      BY <1>1, <2>1, <3>1 DEF GapInv, NextNonceInv, Reserved
    <3>2. CASE job # "move"
      <4>1. PICK t \in moves : t.nonce = cand.nonce /\ t \in pool
        BY <2>1, <3>2 DEF IInv, HeldInv, CandInv
      <4> QED
        BY <1>3, <2>1, <4>1 DEF Fresh
    <3> QED
      BY <3>1, <3>2
  <2>3. \A u \in pool' : u.nonce < base' + delta' \/ u.nonce < height'
    BY <1>3, <2>1, <2>2 DEF Fresh
  <2>4. Fresh(base + delta)'
    BY <2>3 DEF Fresh
  <2> QED
    BY <2>1, <2>4
<1>6. CASE UNCHANGED <<pool, base, delta, pc, job, cand>>
  <2> DEFINE n == IF Sending THEN cand.nonce ELSE base + delta
  <2>1. Fresh(n)
    BY <1>6 DEF FreshInv
  <2>2. \A u \in pool' : u.nonce < n \/ u.nonce < height'
    BY <1>2, <1>6, <2>1
  <2>3. n' = n
    BY <1>6 DEF Sending
  <2> HIDE DEF n
  <2>4. Fresh(n)'
    BY <2>2, <2>3 DEF Fresh
  <2> QED
    BY <2>4 DEF n
<1>7. CASE UNCHANGED <<pool, base, delta>> /\ ~Sending'
  <2>1. \A u \in pool' : u.nonce < base + delta \/ u.nonce < height'
    BY <1>2, <1>3, <1>7
  <2>2. Fresh(base + delta)'
    BY <1>7, <2>1 DEF Fresh
  <2> QED
    BY <1>7, <2>2
<1>8. base' \notin {None, Rejected}
  BY DEF None, Rejected
<1> QED
  BY <1>4, <1>5, <1>6, <1>7, <1>8, ManagerChanges, NoForeign

\* A move is accepted at a nonce nothing else holds, and its speed-ups take
\* the same one.
LEMMA OwnStep ==
    ASSUME InTouch
    PROVE  IInv /\ GapInv /\ FreshInv /\ OwnInv /\ [Next]_vars => OwnInv'
<1> SUFFICES ASSUME IInv, GapInv, FreshInv, OwnInv, [Next]_vars,
                    pc' # "idle", job' # "cancel"
             PROVE  \A t \in moves', u \in pool' : u.nonce = t.nonce => u.pay = call'
  BY DEF OwnInv
<1>1. CASE Begin
  BY <1>1 DEF Begin, IInv, CallInv
<1>2. CASE Accepted
  <2>1. /\ pc = "send" /\ pool' = pool \cup {cand} /\ call' = call /\ job' = job
        /\ moves' = moves \cup {cand} /\ cand.pay = call
    BY <1>2 DEF Accepted, Submitted, IInv, CandInv, TypeOK
  <2>2. CASE job = "move"
    <3>1. moves = {} /\ cand.nonce \in Nat /\ height \in Nat
          /\ \A u \in pool : u.nonce \in Nat
      BY <2>1, <2>2 DEF IInv, CandInv, TypeOK, Tx
    <3>2. Fresh(cand.nonce)
      BY <2>1, <2>2 DEF FreshInv, GapInv, NextNonceInv, Sending
    <3>3. ~(cand.nonce < height)
      BY <1>2 DEF Accepted, Answer
    <3>4. \A u \in pool : u.nonce # cand.nonce
      BY <3>1, <3>2, <3>3 DEF Fresh
    <3> QED
      BY <2>1, <3>1, <3>4
  <2>3. CASE job = "speedup"
    <3>1. moves # {} /\ \A t \in moves : t.nonce = cand.nonce
      BY <2>1, <2>3 DEF IInv, HeldInv, CandInv
    <3>2. \A t \in moves, u \in pool : u.nonce = t.nonce => u.pay = call
      BY <2>1, <2>3 DEF OwnInv
    <3> QED
      BY <2>1, <3>1, <3>2
  <2> QED
    BY <2>1, <2>2, <2>3 DEF IInv, TypeOK
<1>3. CASE AlreadyKnown
  <2>1. /\ pc = "send" /\ UNCHANGED <<pool, call, job>> /\ cand.pay = call
        /\ moves' = moves \cup {cand} /\ cand \in pool /\ cand.nonce >= height
    BY <1>3, ViewsType
       DEF AlreadyKnown, Submitted, Answer, Pending, IInv, CandInv, TypeOK
  <2>2. job # "move"
    <3>1. job = "move" => Fresh(cand.nonce)
      BY <2>1 DEF FreshInv, GapInv, NextNonceInv, Sending
    <3>2. cand.nonce \in Nat /\ height \in Nat
      BY DEF IInv, TypeOK, Tx
    <3> QED
      BY <2>1, <3>1, <3>2 DEF Fresh
  <2>3. moves # {} /\ \A t \in moves : t.nonce = cand.nonce
    BY <2>1, <2>2 DEF IInv, HeldInv, CandInv
  <2> QED
    BY <2>1, <2>3 DEF OwnInv
<1>6. CASE ReplyLost
  <2>1. /\ pc = "send" /\ pool' = pool \cup {cand} /\ UNCHANGED <<moves, call, job>>
        /\ cand.pay = call
    BY <1>6 DEF ReplyLost, IInv, CandInv, TypeOK
  <2> QED
    BY <2>1 DEF OwnInv
<1>4. CASE UNCHANGED <<pool, moves, call>> /\ pc # "idle" /\ job # "cancel"
  BY <1>4 DEF OwnInv
<1>5. \/ Begin \/ Accepted \/ AlreadyKnown \/ ReplyLost \/ ForeignSend
      \/ UNCHANGED <<pool, moves, call>> /\ pc # "idle" /\ job # "cancel"
  BY DEF Next, Submit, Await, SignMove, SignFails, Refused, FailOver, RetryTransient,
     RecoverNonceTooLow, SendFails, SpeedUpFails, GivesUp, CancelRefused, CancelFails,
     Receipt, WaitErrors, SpeedUp, CancelNonce, CancelReceipt, Finish, WaitFallsBack,
     Waits, Crash, Mine, IInv, CallInv
<1> QED
  BY <1>1, <1>2, <1>3, <1>4, <1>5, <1>6, NoForeign

\* What a step may do to the calls, their answers and the chain.
LEMMA CallOutcomes ==
    ASSUME [Next]_vars
    PROVE  \/ Begin \/ Mine
           \/ Receipt \/ WaitErrors \/ CancelReceipt \/ SendFails \/ CancelFails \/ Crash
           \/ UNCHANGED <<call, result, chain>> /\ (pc = "idle" <=> pc' = "idle")
BY DEF Next, Submit, Await, SignMove, SignFails, Accepted, AlreadyKnown, Submitted,
   ReplyLost, Refused, FailOver, RetryTransient, Resend, RecoverNonceTooLow,
   SpeedUpFails, GivesUp, CancelRefused, SpeedUp, CancelNonce, WaitFallsBack, Waits,
   ForeignSend

\* A receipt taken for the move's is the move's.
LEMMA ConfirmedTells ==
    ASSUME IInv, OwnInv,
           Receipt \/ WaitErrors \/ CancelReceipt \/ SendFails \/ CancelFails \/ Crash
    PROVE  /\ call' = call /\ UNCHANGED mined
           /\ \A c \in Moves : c # call => result'[c] = result[c]
           /\ result'[call] = "confirmed" => Happened(call) # {}
<1>1. ASSUME NEW o, Finish(o), pc # "idle"
      PROVE  /\ call' = call /\ result'[call] = o
             /\ \A c \in Moves : c # call => result'[c] = result[c]
  BY <1>1 DEF Finish, IInv, CallInv, TypeOK
<1>2. CASE Receipt
  <2>1. PICK t \in Waited, m \in mined : Answers(t, m) /\ Finish(ReceiptOutcome(m))
    BY <1>2 DEF Receipt
  <2>2. t \in moves /\ job # "cancel" /\ pc # "idle" /\ UNCHANGED mined
    BY <1>2, <2>1 DEF Receipt, Waited, IInv, CallInv
  <2>3. m.tx.pay = call
    BY <2>1, <2>2 DEF Answers, OwnInv, IInv, ChainInv
  <2>4. ReceiptOutcome(m) = "confirmed" => m \in Happened(call)
    BY <2>3 DEF ReceiptOutcome, Happened
  <2> QED
    BY <1>1, <2>1, <2>2, <2>4
<1>3. CASE CancelReceipt
  <2>1. PICK t \in Waited, m \in mined : Finish(Settled(m))
    BY <1>3 DEF CancelReceipt
  <2>2. Settled(m) = "confirmed" => m \in Happened(call)
    BY DEF Settled, ReceiptOutcome, Happened, IInv, HeldInv
  <2>3. pc # "idle" /\ UNCHANGED mined
    BY <1>3 DEF CancelReceipt
  <2> QED
    BY <1>1, <2>1, <2>2, <2>3
<1>4. CASE SendFails \/ CancelFails \/ WaitErrors \/ Crash
  <2>1. PICK o \in {"sendFailed", "cancelFailed", "waitFailed", "crashed"} :
           Finish(o) /\ pc # "idle" /\ UNCHANGED mined
    BY <1>4 DEF SendFails, CancelFails, GivesUp, WaitErrors, Waits, Crash
  <2> QED
    BY <1>1, <2>1
<1> QED
  BY <1>2, <1>3, <1>4

\* What is mined stays mined.
LEMMA ConfirmedStep ==
    IInv /\ OwnInv /\ ConfirmedMeansMoved /\ [Next]_vars => ConfirmedMeansMoved'
<1> SUFFICES ASSUME IInv, OwnInv, ConfirmedMeansMoved, [Next]_vars
             PROVE  ConfirmedMeansMoved'
  OBVIOUS
<1> USE DEF ConfirmedMeansMoved
<1>1. CASE UNCHANGED result /\ mined \subseteq mined'
  BY <1>1 DEF Happened
<1>2. CASE Receipt \/ WaitErrors \/ CancelReceipt \/ SendFails \/ CancelFails \/ Crash
  <2>1. \A c \in Moves : Happened(c)' = Happened(c)
    BY <1>2, ConfirmedTells DEF Happened
  <2> QED
    BY <1>2, <2>1, ConfirmedTells
<1>3. CASE Begin \/ Mine
  BY <1>1, <1>3 DEF Begin, Mine
<1> QED
  BY <1>1, <1>2, <1>3, CallOutcomes

\* Every call that answers with a receipt made its move, for any number of
\* calls, lost replies, retries and crashes: a call never takes for its own
\* the receipt of another call's transaction.
THEOREM EveryReceiptCorrect ==
    ASSUME InTouch PROVE Spec => []ConfirmedMeansMoved
<1>1. Init => FreshInv /\ OwnInv /\ ConfirmedMeansMoved
  BY DEF Init, FreshInv, OwnInv, ConfirmedMeansMoved, None
<1>2. IInv /\ GapInv /\ [Next]_vars => GapInv'
  BY GapStep, NextNonceStep, RefusedStep DEF InTouch, GapInv
<1>3. IInv /\ GapInv /\ FreshInv /\ [Next]_vars => FreshInv'
  BY FreshStep
<1>4. IInv /\ GapInv /\ FreshInv /\ OwnInv /\ [Next]_vars => OwnInv'
  BY OwnStep
<1> QED
  BY InitInv, InductiveStep, GapInit, ConfirmedStep, <1>1, <1>2, <1>3, <1>4, PTL
     DEF Spec

-----------------------------------------------------------------------------
(* Every reply arrives: a call that ends settled has ended for good.         *)

\* A settled answer is final, and every call that has ended has answered.
ResultInv ==
    /\ \A c \in Moves : result[c] \in Outcome!Settled =>
          \A t \in Copies(c) : t.nonce < height
    /\ \A c \in Moves : c < call \/ (c = call /\ pc = "idle") => result[c] # "none"

\* "reverted", "cancelled", "taken" and "sendFailed" all mean that the move did
\* not take effect, and never will: no copy of it can be mined any more.
NotMovedIsFinal ==
    \A c \in Moves : result[c] \in Outcome!Settled \ {"confirmed"} =>
        Happened(c) = {} /\ \A t \in Copies(c) : t.nonce < height

\* What an answer must be true to, besides that a receipt is the move's.
Final(o) ==
    /\ o \in Outcome!Settled \ {"confirmed"} => Happened(call) = {}
    /\ o \in Outcome!Settled => \A t \in Copies(call) : t.nonce < height

\* A receipt that answers a wait is of the one nonce the move competed for.
LEMMA ReceiptSettles ==
    ASSUME IInv, CopiesInv, pc \in Waits, NEW t \in Waited, NEW m \in mined,
           Answers(t, m)
    PROVE  /\ call \in Moves
           /\ \A u \in Copies(call) : u.nonce = m.tx.nonce /\ u.nonce < height
           /\ \A n \in Happened(call) : n = m
<1>1. call \in Moves /\ Copies(call) \subseteq moves
  BY DEF IInv, CallInv, CopiesInv, Waits
<1>2. t \in moves \cup cancels /\ m.tx.nonce = t.nonce
  BY DEF Waited, Answers
<1>3. \A u \in Copies(call) : u.nonce = m.tx.nonce /\ u.nonce < height
  BY <1>1, <1>2 DEF IInv, HeldInv, ChainInv
<1>4. ASSUME NEW n \in Happened(call) PROVE n = m
  <2>1. n \in mined /\ n.tx \in Copies(call)
    BY DEF Happened, Copies, IInv, ChainInv
  <2> QED
    BY <1>3, <2>1 DEF IInv, ChainInv
<1> QED
  BY <1>1, <1>3, <1>4

\* Every settled answer is final when it is given.
LEMMA AnswerFinal ==
    ASSUME IInv, CopiesInv,
           Receipt \/ WaitErrors \/ CancelReceipt \/ SendFails \/ CancelFails \/ Crash
    PROVE  \E o \in Outcomes :
              Finish(o) /\ Final(o) /\ pc # "idle" /\ UNCHANGED <<pool, chain>>
<1>1. CASE Receipt
  <2>1. PICK t \in Waited, m \in mined : Answers(t, m) /\ Finish(ReceiptOutcome(m))
    BY <1>1 DEF Receipt
  <2>2. pc \in {"wait1", "wait3"} /\ pc \in Waits /\ UNCHANGED <<pool, chain>>
    BY <1>1 DEF Receipt, Waits
  <2>5. ~m.ok => Happened(call) = {}
    BY <2>1, <2>2, ReceiptSettles DEF Happened
  <2>6. Final(ReceiptOutcome(m))
    BY <2>1, <2>2, <2>5, ReceiptSettles DEF Final, ReceiptOutcome
  <2> QED
    BY <2>1, <2>2, <2>6 DEF ReceiptOutcome, Outcomes
<1>2. CASE CancelReceipt
  <2>1. PICK t \in Waited, m \in mined : Answers(t, m) /\ Finish(Settled(m))
    BY <1>2 DEF CancelReceipt
  <2>2. pc \in Waits /\ pc # "idle" /\ UNCHANGED <<pool, chain>>
    BY <1>2 DEF CancelReceipt, Waits
  <2>3. CASE m.ok /\ m.tx \in moves
    <3>2. Settled(m) = "confirmed"
      BY <2>3 DEF Settled, ReceiptOutcome
    <3>3. Final("confirmed")
      BY <2>1, <2>2, ReceiptSettles DEF Final
    <3> QED
      BY <2>1, <2>2, <3>2, <3>3 DEF Outcomes
  <2>4. CASE ~(m.ok /\ m.tx \in moves)
    <3>1. m \notin Happened(call)
      BY <2>2, <2>4 DEF Happened, IInv, CallInv, ChainInv, CopiesInv, Copies
    <3>2. Happened(call) = {}
      BY <2>1, <2>2, <3>1, ReceiptSettles
    <3>3. Settled(m) \in {"reverted", "cancelled", "taken"}
      BY <2>4 DEF Settled, ReceiptOutcome
    <3>4. Final(Settled(m))
      BY <2>1, <2>2, <3>2, <3>3, ReceiptSettles DEF Final
    <3> QED
      BY <2>1, <2>2, <3>3, <3>4 DEF Outcomes
  <2> QED
    BY <2>3, <2>4
<1>3. CASE SendFails
  <2>1. pc = "refused" /\ job = "move" /\ Finish("sendFailed") /\ UNCHANGED <<pool, chain>>
    BY <1>3 DEF SendFails, GivesUp
  <2>2. Copies(call) = {}
    BY <2>1 DEF CopiesInv, IInv, CandInv
  <2>3. Happened(call) = {}
    BY <2>2 DEF Happened, Copies, IInv, ChainInv
  <2> QED
    BY <2>1, <2>2, <2>3 DEF Final, Outcomes
<1>4. CASE CancelFails \/ WaitErrors \/ Crash
  <2>1. PICK o \in {"cancelFailed", "waitFailed", "crashed"} :
           Finish(o) /\ pc # "idle" /\ UNCHANGED <<pool, chain>>
    BY <1>4 DEF CancelFails, GivesUp, WaitErrors, Waits, Crash
  <2> QED
    BY <2>1 DEF Final, Outcome!Settled, Outcomes
<1> QED
  BY <1>1, <1>2, <1>3, <1>4

\* Settled answers stay final.
LEMMA ResultStep ==
    ASSUME MaxLost = 0
    PROVE  IInv /\ CopiesInv /\ ResultInv /\ [Next]_vars => ResultInv'
<1> SUFFICES ASSUME IInv, CopiesInv, ResultInv, [Next]_vars PROVE ResultInv'
  OBVIOUS
<1>1. call \in 0 .. Calls /\ height <= height' /\ height \in Nat /\ height' \in Nat
  BY ChainGrows, ConstantsAssumption DEF Mine, IInv, TypeOK, Moves
<1>2. \A t \in pool : t.nonce \in Nat
  BY DEF IInv, TypeOK, Tx
<1>3. ASSUME NEW c \in Moves, result[c] # "none" PROVE Copies(c)' = Copies(c)
  <2>1. CASE Accepted
    <3>1. pc = "send" /\ pool' = pool \cup {cand}
      BY <2>1 DEF Accepted
    <3>2. cand.pay \in {call, Cancel} /\ c # call
      BY <1>3, <3>1 DEF IInv, CandInv, CallInv, TypeOK
    <3> QED
      BY <3>1, <3>2 DEF Copies, Moves, Cancel
  <2>2. CASE ForeignSend
    BY <2>2 DEF ForeignSend, Copies, Moves, Foreign
  <2> QED
    BY <2>1, <2>2, PoolChanges, NoReplyLost DEF Copies
<1>4. ASSUME NEW c \in Moves, result[c] \in Outcome!Settled
      PROVE  \A t \in Copies(c)' : t.nonce < height'
  BY <1>1, <1>2, <1>3, <1>4 DEF Outcome!Settled, ResultInv, Copies
<1>5. CASE Begin
  <2>1. call' = call + 1 /\ result' = result /\ pc = "idle" /\ pc' # "idle"
    BY <1>5 DEF Begin
  <2>2. \A c \in Moves : c < call' => c < call \/ c = call
    BY <1>1, <2>1 DEF Moves
  <2> QED
    BY <1>4, <2>1, <2>2 DEF ResultInv
<1>6. CASE UNCHANGED <<call, result>> /\ (pc = "idle" <=> pc' = "idle")
  BY <1>4, <1>6 DEF ResultInv
<1>7. CASE Receipt \/ WaitErrors \/ CancelReceipt \/ SendFails \/ CancelFails \/ Crash
  <2>1. PICK o \in Outcomes :
           Finish(o) /\ Final(o) /\ pc # "idle" /\ UNCHANGED <<pool, chain>>
    BY <1>7, AnswerFinal
  <2>2. call' = call /\ result' = [result EXCEPT ![call] = o] /\ call \in Moves
    BY <2>1 DEF Finish, IInv, CallInv
  <2>3. o # "none" /\ result \in [Moves -> Outcomes \cup {"none"}]
    BY DEF Outcomes, IInv, TypeOK
  <2>4. \A c \in Moves : c < call => result'[c] # "none"
    BY <2>2, <2>3 DEF ResultInv
  <2>5. ASSUME NEW c \in Moves, result'[c] \in Outcome!Settled
        PROVE  \A t \in Copies(c)' : t.nonce < height'
    <3>1. CASE c = call
      BY <2>1, <2>2, <2>3, <2>5, <3>1 DEF Final, Copies
    <3>2. CASE c # call
      BY <1>4, <2>2, <2>3, <2>5, <3>2
    <3> QED
      BY <3>1, <3>2
  <2> QED
    BY <2>2, <2>3, <2>4, <2>5 DEF ResultInv
<1>8. CASE Mine
  BY <1>6, <1>8 DEF Mine
<1> QED
  BY <1>5, <1>6, <1>7, <1>8, CallOutcomes

\* Of a move that ended without one, no later block makes a confirmed one.
LEMMA NotMovedStep ==
    IInv /\ CopiesInv /\ NotMovedIsFinal /\ ResultInv' /\ [Next]_vars
        => NotMovedIsFinal'
<1> SUFFICES ASSUME IInv, CopiesInv, NotMovedIsFinal, ResultInv', [Next]_vars,
                    NEW c \in Moves, result'[c] \in Outcome!Settled \ {"confirmed"}
             PROVE  Happened(c)' = {}
  BY DEF NotMovedIsFinal, ResultInv
<1>1. CASE Mine
  <2>1. PICK t \in pool, ok \in BOOLEAN :
           t.nonce = height /\ mined' = mined \cup {[tx |-> t, ok |-> ok]}
    BY <1>1 DEF Mine
  <2>2. result' = result /\ height \in Nat
    BY <1>1 DEF Mine, IInv, TypeOK
  <2>3. Happened(c) = {} /\ t.pay # c
    BY <2>1, <2>2 DEF NotMovedIsFinal, Copies
  <2> QED
    BY <2>1, <2>3 DEF Happened
<1>2. CASE Receipt \/ WaitErrors \/ CancelReceipt \/ SendFails \/ CancelFails \/ Crash
  <2>1. PICK o \in Outcomes :
           Finish(o) /\ Final(o) /\ pc # "idle" /\ UNCHANGED <<pool, chain>>
    BY <1>2, AnswerFinal
  <2>2. result' = [result EXCEPT ![call] = o] /\ result \in [Moves -> Outcomes \cup {"none"}]
    BY <2>1 DEF Finish, IInv, TypeOK
  <2>3. Happened(c) = {}
    BY <2>1, <2>2 DEF NotMovedIsFinal, Final
  <2> QED
    BY <2>1, <2>3 DEF Happened
<1>3. CASE UNCHANGED <<result, chain>>
  BY <1>3 DEF NotMovedIsFinal, Happened
<1>4. CASE Begin
  BY <1>3, <1>4 DEF Begin
<1> QED
  BY <1>1, <1>2, <1>3, <1>4, CallOutcomes

LEMMA ResultInit == Init => ResultInv /\ NotMovedIsFinal
BY DEF Init, ResultInv, NotMovedIsFinal, Copies, Moves, Outcome!Settled

\* With no reply lost, a call that answers "reverted", "cancelled", "taken" or
\* "sendFailed" is right, and stays so: its move has not taken effect, and
\* every nonce a copy of it could be mined at is spent.  This needs nothing of
\* the endpoints, of other senders, or of the errors' classes.
THEOREM NotMovedCorrect == ASSUME MaxLost = 0 PROVE Spec => []NotMovedIsFinal
<1>1. IInv /\ CopiesInv /\ [Next]_vars => CopiesInv'
  BY CopiesStep
<1>2. IInv /\ CopiesInv /\ ResultInv /\ [Next]_vars => ResultInv'
  BY ResultStep
<1> QED
  BY InitInv, InductiveStep, CopiesInit, ResultInit, NotMovedStep, <1>1, <1>2, PTL
     DEF Spec

-----------------------------------------------------------------------------
(* Both: every reply arrives, and the bot is in touch with the network.      *)

Reliable == MaxLost = 0 /\ InTouch

ReliableInv == CopiesInv /\ GapInv /\ FreshInv /\ OwnInv /\ ResultInv

LEMMA ReliableInit == Init => ReliableInv
<1>1. Init => FreshInv /\ OwnInv
  BY DEF Init, FreshInv, OwnInv, None
<1> QED
  BY <1>1, CopiesInit, GapInit, ResultInit DEF ReliableInv

LEMMA ReliableStep ==
    ASSUME Reliable PROVE IInv /\ ReliableInv /\ [Next]_vars => ReliableInv'
BY CopiesStep, GapStep, NextNonceStep, RefusedStep, FreshStep, OwnStep, ResultStep
   DEF Reliable, InTouch, ReliableInv, GapInv

-----------------------------------------------------------------------------
(* The pipeline implements MoveOutcome: each step is one of its steps, or    *)
(* none.                                                                     *)

\* A block takes a move that is under way or unsettled, and takes it once.
LEMMA MineRefines ==
    ASSUME Reliable, IInv, ReliableInv, Mine
    PROVE  [Outcome!Next]_(Outcome!vars)
<1>1. PICK t \in pool, ok \in BOOLEAN :
         t.nonce = height /\ mined' = mined \cup {[tx |-> t, ok |-> ok]}
  BY DEF Mine
<1>2. UNCHANGED <<call, pc, result, pool>>
  BY DEF Mine
<1> DEFINE c == t.pay
<1>3. CASE c \in Moves /\ ok
  <2>1. Happened(c)' = Happened(c) \cup {[tx |-> t, ok |-> ok]}
    BY <1>1, <1>3 DEF Happened
  <2>2. \A d \in Moves : d # c => Happened(d)' = Happened(d)
    BY <1>1 DEF Happened
  <2>3. t \in Copies(c) /\ height \in Nat
    BY <1>3 DEF Copies, IInv, TypeOK
  <2>4. Happened(c) = {}
    <3>1. ASSUME NEW m \in Happened(c) PROVE FALSE
      <4>1. m.tx \in Copies(c) /\ m.tx.nonce < height
        BY DEF Happened, Copies, IInv, ChainInv
      <4>2. m.tx.nonce = t.nonce
        BY <1>3, <2>3, <4>1 DEF ReliableInv, CopiesInv, OneNoncePerMove
      <4> QED
        BY <1>1, <2>3, <4>1, <4>2
    <3> QED
      BY <3>1
  <2>5. Cardinality(Happened(c)) = 0 /\ Cardinality(Happened(c)') = 1
    <3>1. Happened(c)' = {[tx |-> t, ok |-> ok]}
      BY <2>1, <2>4
    <3> QED
      BY <2>4, <3>1, FS_EmptySet, FS_Singleton
  <2>6. (c = call /\ pc # "idle") \/ result[c] \in Outcome!Unsettled
    <3>1. c <= call
      BY <1>3, <2>3, ConstantsAssumption
         DEF ReliableInv, CopiesInv, IInv, TypeOK, Moves
    <3>2. (c = call /\ pc # "idle") \/ result[c] # "none"
      BY <1>3, <3>1, ConstantsAssumption DEF ReliableInv, ResultInv, IInv, TypeOK, Moves
    <3>3. result[c] \notin Outcome!Settled
      BY <1>1, <1>3, <2>3 DEF ReliableInv, ResultInv
    <3>4. result[c] \in Outcomes \cup {"none"}
      BY <1>3 DEF IInv, TypeOK
    <3> QED
      BY <3>2, <3>3, <3>4 DEF Outcomes, Outcome!Settled, Outcome!Unsettled
  <2>7. Outcome!TakeEffect(c)
    BY <1>2, <1>3, <2>2, <2>5, <2>6 DEF Outcome!TakeEffect
  <2> QED
    BY <1>3, <2>7 DEF Outcome!Next
<1>4. CASE ~(c \in Moves /\ ok)
  <2>1. \A d \in Moves : Happened(d)' = Happened(d)
    BY <1>1, <1>4 DEF Happened
  <2> QED
    BY <1>2, <2>1 DEF Outcome!vars
<1> QED
  BY <1>3, <1>4

\* A call begins when the one before it has answered.
LEMMA BeginRefines ==
    ASSUME IInv, ReliableInv, Begin PROVE Outcome!Next
<1>1. /\ pc = "idle" /\ pc' # "idle" /\ call' = call + 1
      /\ UNCHANGED <<result, mined>>
  BY DEF Begin
<1>2. call \in 0 .. Calls /\ call' \in Moves /\ call' > call
  BY <1>1, ConstantsAssumption DEF Begin, IInv, TypeOK, Moves
<1>3. PICK c \in Moves : c = call'
  BY <1>2
<1>4. result[c] = "none" /\ \A d \in Moves : result[d] # "running"
  BY <1>2, <1>3 DEF IInv, CallInv, TypeOK, Outcomes
<1>5. \A d \in Moves : d < c => result[d] # "none"
  <2>1. \A d \in Moves : d < c => d < call \/ d = call
    BY <1>1, <1>2, <1>3 DEF Moves
  <2> QED
    BY <1>1, <2>1 DEF ReliableInv, ResultInv
<1>6. Outcome!Begin(c)
  BY <1>1, <1>2, <1>3, <1>4, <1>5 DEF Outcome!Begin, Happened
<1> QED
  BY <1>6 DEF Outcome!Next

\* A call's answer is true of the chain.
LEMMA EndRefines ==
    ASSUME IInv, ReliableInv,
           Receipt \/ WaitErrors \/ CancelReceipt \/ SendFails \/ CancelFails \/ Crash
    PROVE  Outcome!Next
<1>1. PICK o \in Outcomes :
         Finish(o) /\ Final(o) /\ pc # "idle" /\ UNCHANGED <<pool, chain>>
  BY AnswerFinal DEF ReliableInv
<1>2. /\ pc' = "idle" /\ call' = call /\ call \in Moves
      /\ result' = [result EXCEPT ![call] = o] /\ result \in [Moves -> Outcomes \cup {"none"}]
  BY <1>1 DEF Finish, IInv, CallInv, TypeOK
<1>3. o = "confirmed" => Cardinality(Happened(call)) = 1
  <2>1. ASSUME NEW m \in Happened(call), NEW n \in Happened(call) PROVE m = n
    <3>1. m \in mined /\ n \in mined /\ m.tx \in Copies(call) /\ n.tx \in Copies(call)
      BY DEF Happened, Copies, IInv, ChainInv
    <3> QED
      BY <1>2, <3>1 DEF IInv, ChainInv, ReliableInv, CopiesInv, OneNoncePerMove
  <2>2. o = "confirmed" => \E m : Happened(call) = {m}
    <3>1. o = "confirmed" => Happened(call) # {}
      BY <1>2, ConfirmedTells DEF ReliableInv, IInv, TypeOK
    <3> QED
      BY <2>1, <3>1
  <2> QED
    BY <2>2, FS_Singleton
<1>4. o \in Outcome!Settled \ {"confirmed"} => Cardinality(Happened(call)) = 0
  BY <1>1, FS_EmptySet DEF Final
<1>5. Outcome!End(call, o)
  BY <1>1, <1>2, <1>3, <1>4 DEF Outcome!End, Happened
<1>6. o \in Outcome!Settled \cup Outcome!Unsettled
  BY DEF Outcomes, Outcome!Settled, Outcome!Unsettled
<1> QED
  BY <1>2, <1>5, <1>6 DEF Outcome!Next

\* When every reply arrives, every error is recognised, endpoints are up to
\* date and only the bot sends, the pipeline keeps what MoveOutcome promises,
\* for any number of calls, retries and crashes.
THEOREM PromiseKept == ASSUME Reliable PROVE Spec => KeepsPromise
<1>1. Init => Outcome!Init
  <2> SUFFICES ASSUME Init PROVE Outcome!Init
    OBVIOUS
  <2>1. \A c \in Moves : Happened(c) = {}
    BY DEF Init, Happened
  <2>2. \A c \in Moves : Cardinality(Happened(c)) = 0
    BY <2>1, FS_EmptySet
  <2> QED
    BY <2>2 DEF Init, Outcome!Init
<1>2. IInv /\ ReliableInv /\ [Next]_vars => [Outcome!Next]_(Outcome!vars)
  <2> SUFFICES ASSUME IInv, ReliableInv, [Next]_vars
               PROVE  [Outcome!Next]_(Outcome!vars)
    OBVIOUS
  <2>1. CASE UNCHANGED <<call, result, chain>> /\ (pc = "idle" <=> pc' = "idle")
    BY <2>1 DEF Outcome!vars, Happened
  <2> QED
    BY <2>1, MineRefines, BeginRefines, EndRefines, CallOutcomes
<1>3. IInv /\ ReliableInv /\ [Next]_vars => ReliableInv'
  BY ReliableStep
<1> QED
  BY InitInv, InductiveStep, ReliableInit, <1>1, <1>2, <1>3, PTL
     DEF Spec, KeepsPromise, Outcome!Spec
=============================================================================
