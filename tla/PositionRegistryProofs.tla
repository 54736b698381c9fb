------------------------ MODULE PositionRegistryProofs ------------------------
(*****************************************************************************)
(* Theorems about PositionRegistry, for any number of NFTs, pools, loops and *)
(* Manage requests.  The types hold whatever the constants.  That no two     *)
(* loops share a pool needs that no NFT is managed while another request for *)
(* it, or the rebalance that minted it, has yet to record it (Overtaken =    *)
(* FALSE); what the settings owe the loops, also that a loop that is over    *)
(* saves no record (LateRecords = FALSE).                                    *)
(*****************************************************************************)
EXTENDS PositionRegistry, FiniteSetTheorems, TLAPS

-----------------------------------------------------------------------------
(* The inductive invariant. *)

Present(l) == loops[l].pc \notin {"none", "over"}

\* A Manage's start; a start of either kind; a loop that may move or may come to.
ByHand(l) == Present(l) /\ loops[l].byHand
Fresh(l)  == Present(l) /\ ~loops[l].handle
Holds(l)  == Present(l) /\ (~loops[l].handle \/ ~loops[l].stopped)
Polls(l)  == loops[l].pc \in Polling \cup {"idle"} /\ ~loops[l].stopped

\* A start whose position was taken off meanwhile.
Disowned(l) == Fresh(l) /\ loops[l].pc # "signer" /\ entries[loops[l].key] # l

Off(k) == mem[k] # "running" /\ disk[k] # "running" /\ entries[k] = None

PoolOf(l) == chain.pool[loops[l].key]

\* What a launch has not reached yet is empty; a start-up starts one position to a pool, and
\* is over before the first request.
PhaseOK ==
    /\ app.todo \subseteq Minted
    /\ app.phase \in {"locked", "listed"} => \A l \in Loops : loops[l] = NoLoop
    /\ app.phase # "up" =>
          /\ \A k \in Nfts : claims[k] = None
          /\ \A r \in Requests : asks[r] = None
          /\ \A l \in Loops : ~loops[l].byHand
    /\ app.phase = "up" => \A l \in Loops : Fresh(l) => loops[l].byHand
    /\ app.phase = "startup" =>
          /\ \A h, k \in app.todo : chain.pool[h] = chain.pool[k] => h = k
          /\ \A l \in Loops, k \in app.todo : Present(l) => PoolOf(l) # chain.pool[k]

\* Each loop's own fields agree.
LoopOK(l) ==
    /\ loops[l].pc = "none" => loops[l] = NoLoop
    /\ loops[l].pc = "over" =>
          loops[l].key \in Nfts /\ ~loops[l].handle /\ ~loops[l].byHand
    /\ loops[l].nfts \subseteq Minted
    /\ Present(l) =>
          /\ loops[l].key \in Minted /\ loops[l].key \in loops[l].nfts
          /\ loops[l].handle => ~loops[l].byHand /\ loops[l].pc \notin {"signer", "detect"}
          /\ loops[l].pc \in {"idle", "halted"} => loops[l].handle
          /\ loops[l].pc = "signer" => loops[l].byHand
          /\ loops[l].pc = "idle" => ~loops[l].stopped
          /\ loops[l].pc = "halted" => loops[l].stopped
          /\ ~loops[l].handle /\ loops[l].stopped =>
                loops[l].pc = "polled" /\ entries[loops[l].key] # l
          /\ loops[l].leaving => loops[l].handle /\ loops[l].stopped
    /\ ByHand(l) =>
          /\ loops[l].orig \in Minted /\ chain.pool[loops[l].orig] = PoolOf(l)
          /\ loops[l].pc \in {"signer", "detect"} => loops[l].key = loops[l].orig

\* No two loops share a key, no loop has the key another's start began with, and no two loops
\* that may move share a pool.
KeysOK ==
    /\ \A l, m \in Loops : l # m /\ Present(l) /\ Present(m) =>
          /\ loops[l].key # loops[m].key
          /\ loops[l].byHand => loops[m].key # loops[l].orig
    /\ \A l, m \in Loops : Holds(l) /\ Holds(m) /\ PoolOf(l) = PoolOf(m) => l = m

\* The tables point at the loops, and the pool rule sees every loop that may move.
TablesOK ==
    /\ \A k \in Nfts : entries[k] # None =>
          /\ Present(entries[k]) /\ loops[entries[k]].key = k
          /\ loops[entries[k]].pc # "signer"
    /\ \A k \in Nfts : claims[k] # None => k \in Minted
    /\ \A l \in Loops :
          /\ Present(l) /\ loops[l].handle => entries[loops[l].key] = l
          /\ Polls(l) /\ entries[loops[l].key] = l => running[loops[l].key] = PoolOf(l)
          /\ ByHand(l) => claims[loops[l].orig] = PoolOf(l)

\* Nothing runs or starts under the key a request in its gate asks for.
AsksOK ==
    /\ \A r \in Requests : asks[r] # None =>
          /\ asks[r] \in Minted /\ entries[asks[r]] = None /\ claims[asks[r]] = None
    /\ \A r, s \in Requests : asks[r] # None /\ asks[r] = asks[s] => r = s

\* An NFT minted a moment ago is in no table yet.
MintOK ==
    /\ \A l, m \in Loops : {loops[l].pc, loops[m].pc} \subseteq {"moving", "minted"} => l = m
    /\ \A l \in Loops : loops[l].pc = "minted" =>
          LET n == loops[l].next IN
          /\ n \in Minted /\ chain.pool[n] = PoolOf(l) /\ n \notin app.todo
          /\ entries[n] = None /\ claims[n] = None
          /\ mem[n] = "absent" /\ disk[n] = "absent"
          /\ \A m \in Loops : n \notin loops[m].nfts /\ (ByHand(m) => loops[m].orig # n)
          /\ \A r \in Requests : asks[r] # n

\* No slot is of an NFT yet to be minted.
MintedOK == \A k \in Nfts : mem[k] # "absent" \/ disk[k] # "absent" => k \in Minted

\* The settings: the file lists no position memory does not, and lists each recorded loop.
SlotsOK ==
    /\ app.phase # "up" => mem = disk
    /\ \A k \in Nfts : disk[k] = "running" => mem[k] = "running"
    /\ \A l \in Loops :
          /\ Present(l) /\ ~loops[l].byHand /\ entries[loops[l].key] = l =>
                mem[loops[l].key] = "running" /\ disk[loops[l].key] = "running"
          /\ Disowned(l) =>
                mem[loops[l].key] \in {"absent", "stopped"} /\ disk[loops[l].key] # "running"
          /\ ByHand(l) /\ loops[l].pc \in {"signer", "detect"} /\ loops[l].prev # "running" =>
                mem[loops[l].orig] # "running" /\ disk[loops[l].orig] # "running"
          /\ ByHand(l) /\ loops[l].key # loops[l].orig =>
                mem[loops[l].orig] # "running" /\ disk[loops[l].orig] # "running"

\* A key a loop has had is off the list, or is the key of a loop; one that starts over it
\* does not go back to "running" when it fails.
HistoryOK ==
    /\ \A l \in Loops : \A k \in loops[l].nfts :
          Off(k) \/ \E m \in Loops : Present(m) /\ loops[m].key = k
    /\ \A l, m \in Loops : l # m /\ Fresh(m) /\ loops[m].key \in loops[l].nfts =>
          loops[m].byHand /\ loops[m].prev # "running"

\* What the loops and the tables owe each other holds whatever the scans save; what they owe
\* the settings, when a loop that is over saves no record.
IInv ==
    /\ TypeOK /\ PhaseOK /\ (\A l \in Loops : LoopOK(l)) /\ KeysOK
    /\ TablesOK /\ AsksOK /\ MintOK /\ MintedOK
    /\ LateRecords = FALSE => SlotsOK /\ HistoryOK

-----------------------------------------------------------------------------
(* Types. *)

LoopType ==
    [pc : Steps, key : Nfts \cup {None}, orig : Nfts \cup {None},
     byHand : BOOLEAN, prev : Slots, handle : BOOLEAN,
     stopped : BOOLEAN, leaving : BOOLEAN, next : Nfts \cup {None},
     nfts : SUBSET Nfts]

LEMMA NoLoopType ==
    /\ NoLoop \in LoopType /\ NoLoop.pc = "none" /\ NoLoop.nfts = {}
    /\ NoLoop.handle = FALSE /\ NoLoop.byHand = FALSE /\ NoLoop.stopped = FALSE
    /\ NoLoop.leaving = FALSE
BY DEF NoLoop, LoopType, Steps, Slots, Polling

LEMMA Typed ==
    ASSUME TypeOK
    PROVE  /\ chain.pool \in [Nfts -> Pools \cup {None}] /\ chain.open \subseteq Nfts
           /\ mem \in [Nfts -> Slots] /\ disk \in [Nfts -> Slots]
           /\ loops \in [Loops -> LoopType] /\ \A l \in Loops : loops[l] \in LoopType
           /\ entries \in [Nfts -> Loops \cup {None}]
           /\ running \in [Nfts -> Pools \cup {None}]
           /\ claims \in [Nfts -> Pools \cup {None}]
           /\ asks \in [Requests -> Nfts \cup {None}]
           /\ Minted \subseteq Nfts /\ None \notin Minted
           /\ None \notin Nfts /\ None \notin Pools /\ None \notin Loops
BY RegistryAssumption DEF TypeOK, LoopType, Minted

LEMMA Typing ==
    ASSUME IInv
    PROVE  /\ chain.pool \in [Nfts -> Pools \cup {None}] /\ chain.open \subseteq Nfts
           /\ mem \in [Nfts -> Slots] /\ disk \in [Nfts -> Slots]
           /\ loops \in [Loops -> LoopType] /\ \A l \in Loops : loops[l] \in LoopType
           /\ entries \in [Nfts -> Loops \cup {None}]
           /\ running \in [Nfts -> Pools \cup {None}]
           /\ claims \in [Nfts -> Pools \cup {None}]
           /\ asks \in [Requests -> Nfts \cup {None}]
           /\ Minted \subseteq Nfts /\ None \notin Minted
           /\ None \notin Nfts /\ None \notin Pools /\ None \notin Loops
BY Typed DEF IInv


\* A record is of a loop that is there, under the loop's key.
LEMMA Records ==
    ASSUME IInv
    PROVE  \A k \in Nfts : entries[k] # None =>
              /\ entries[k] \in Loops /\ Present(entries[k]) /\ loops[entries[k]].key = k
              /\ loops[entries[k]].pc # "signer"
<1>1. entries \in [Nfts -> Loops \cup {None}] /\ TablesOK
  BY Typing DEF IInv
<1> QED
  BY <1>1 DEF TablesOK

-----------------------------------------------------------------------------
(* Each step keeps the invariant: polls. *)

\* What one loop's step leaves of the others.
LEMMA OneLoop ==
    ASSUME IInv, NEW l \in Loops, NEW r \in LoopType, loops' = [loops EXCEPT ![l] = r]
    PROVE  /\ loops' \in [Loops -> LoopType] /\ loops'[l] = r
           /\ \A m \in Loops : m # l => loops'[m] = loops[m]
BY Typing

\* A step of a poll that changes no table.
LEMMA PollGoesOn ==
    ASSUME IInv, NEW l \in Loops, NEW to \in {"poll", "moving", "polled", "idle", "halted"},
           loops[l].pc \in {"poll", "moving", "polled", "idle"},
           loops' = [loops EXCEPT ![l].pc = to],
           to \in {"idle", "halted"} => loops[l].handle,
           to = "idle" => ~loops[l].stopped, to = "halted" => loops[l].stopped,
           ~loops[l].handle /\ loops[l].stopped => to = "polled",
           to = "moving" => \A m \in Loops : loops[m].pc \notin {"moving", "minted"},
           chain' \in [pool : {chain.pool}, open : SUBSET Nfts],
           UNCHANGED <<mem, disk, app, entries, running, claims, asks>>
    PROVE  IInv'
<1>1. loops \in [Loops -> LoopType] /\ loops[l] \in LoopType
  BY Typing
<1>2. /\ loops' \in [Loops -> LoopType]
      /\ loops'[l].pc = to
      /\ \A m \in Loops : m # l => loops'[m] = loops[m]
      /\ \A m \in Loops :
            /\ loops'[m].key = loops[m].key /\ loops'[m].orig = loops[m].orig
            /\ loops'[m].byHand = loops[m].byHand /\ loops'[m].prev = loops[m].prev
            /\ loops'[m].handle = loops[m].handle /\ loops'[m].stopped = loops[m].stopped
            /\ loops'[m].leaving = loops[m].leaving /\ loops'[m].next = loops[m].next
            /\ loops'[m].nfts = loops[m].nfts
  BY <1>1 DEF LoopType, Steps, Polling
<1>3. chain'.pool = chain.pool /\ chain'.open \subseteq Nfts
  OBVIOUS
<1>4. TypeOK'
  BY <1>2 DEF IInv, TypeOK, LoopType
<1>5. PhaseOK'
  BY <1>2, <1>3, NoLoopType DEF IInv, PhaseOK, Present, Fresh, PoolOf, Minted
<1>6. \A m \in Loops : LoopOK(m)'
  BY <1>2, <1>3, NoLoopType DEF IInv, LoopOK, Present, ByHand, PoolOf, Minted
<1>7. KeysOK'
  BY <1>2, <1>3 DEF IInv, KeysOK, Present, Holds, PoolOf
<1>8. TablesOK'
  BY <1>2, <1>3, Typing DEF IInv, TablesOK, Present, ByHand, Polls, Polling, PoolOf, Minted
<1>9. AsksOK'
  BY <1>3 DEF IInv, AsksOK, Minted
<1>10. MintOK'
  BY <1>2, <1>3 DEF IInv, MintOK, Present, ByHand, PoolOf, Minted
<1>m. MintedOK'
  BY <1>3 DEF IInv, MintedOK, Minted
<1>11. LateRecords = FALSE => SlotsOK'
  BY <1>2, <1>3 DEF IInv, SlotsOK, Present, ByHand, Fresh, Disowned, Minted
<1>12. LateRecords = FALSE => HistoryOK'
  BY <1>2 DEF IInv, HistoryOK, Present, Fresh, Off
<1> QED
  BY <1>4, <1>5, <1>6, <1>7, <1>8, <1>9, <1>10, <1>11, <1>12, <1>m DEF IInv

LEMMA ChainType == ASSUME IInv PROVE chain \in [pool : {chain.pool}, open : SUBSET Nfts]
BY DEF IInv, TypeOK

LEMMA PollBeginsKeeps == ASSUME IInv, NEW l \in Loops, PollBegins(l) PROVE IInv'
<1>1. loops[l].handle
  BY DEF IInv, LoopOK, Present, PollBegins
<1> QED
  BY <1>1, ChainType, PollGoesOn DEF PollBegins

LEMMA MoveBeginsKeeps == ASSUME IInv, NEW l \in Loops, MoveBegins(l) PROVE IInv'
BY ChainType, PollGoesOn DEF MoveBegins

LEMMA MoveFailsKeeps == ASSUME IInv, NEW l \in Loops, MoveFails(l) PROVE IInv'
<1>1. PICK open \in {chain.open, chain.open \ {loops[l].key}} :
          chain' = [chain EXCEPT !.open = open]
  BY DEF MoveFails
<1>2. chain \in [pool : {chain.pool}, open : SUBSET Nfts]
  BY ChainType
<1>3. chain' \in [pool : {chain.pool}, open : SUBSET Nfts]
  BY <1>1, <1>2
<1> QED
  BY <1>3, PollGoesOn DEF MoveFails

LEMMA PollEndsKeeps == ASSUME IInv, NEW l \in Loops, PollEnds(l) PROVE IInv'
<1> DEFINE to == IF loops[l].stopped THEN "halted" ELSE "idle"
<1>1. /\ loops[l].pc \in {"poll", "polled"} /\ loops[l].handle
      /\ loops' = [loops EXCEPT ![l].pc = to]
      /\ UNCHANGED <<chain, mem, disk, app, entries, running, claims, asks>>
  BY DEF PollEnds
<1>2. to \in {"halted", "idle"} /\ (to = "idle" => ~loops[l].stopped)
      /\ (to = "halted" => loops[l].stopped)
  OBVIOUS
<1> HIDE DEF to
<1> QED
  BY <1>1, <1>2, ChainType, PollGoesOn

\* A save is refused only when a managed position would vanish.
LEMMA SavedAll ==
    ASSUME NEW slots \in [Nfts -> Slots], NEW file \in [Nfts -> Slots],
           \A k \in Nfts : file[k] = "running" => slots[k] \in {"running", "stopped"}
    PROVE  Saved(slots, file) = slots
BY DEF Saved, WouldLose, ListedIn


\* What a save leaves in the file is what it was given or what the file held.
LEMMA SavedEach ==
    ASSUME NEW slots \in [Nfts -> Slots], NEW file \in [Nfts -> Slots]
    PROVE  /\ Saved(slots, file) \in [Nfts -> Slots]
           /\ \A k \in Nfts : Saved(slots, file)[k] \in {slots[k], file[k]}
BY DEF Saved

LEMMA RecordSavedKeeps ==
    ASSUME IInv, NEW l \in Loops, RecordSaved(l) PROVE IInv'
<1> DEFINE k == loops[l].key
<1>1. /\ UNCHANGED <<chain, app, loops, entries, running, claims, asks>>
      /\ loops[l].pc \in Polling \cup {"idle", "halted", "over"} /\ mem[k] # "absent"
      /\ LateRecords = FALSE => loops[l].pc # "over"
      /\ Write(Persisted(mem, k))
  <2>1. /\ UNCHANGED <<chain, app, loops, entries, running, claims, asks>>
        /\ mem[k] # "absent" /\ Write(Persisted(mem, k))
        /\ loops[l].pc \in Polling \cup {"idle", "halted"}
              \cup (IF LateRecords THEN {"over"} ELSE {})
    BY DEF RecordSaved
  <2>2. CASE LateRecords = FALSE
    BY <2>1, <2>2 DEF Polling
  <2>3. CASE LateRecords # FALSE
    BY <2>1, <2>3 DEF Polling
  <2> QED
    BY <2>2, <2>3
<1>2. /\ mem \in [Nfts -> Slots] /\ disk \in [Nfts -> Slots]
  BY Typing
<1>3. /\ k \in Minted /\ k \in Nfts
      /\ LateRecords = FALSE => Present(l) /\ k \in loops[l].nfts
  <2>1. CASE loops[l].pc = "over"
    BY <1>1, <2>1 DEF IInv, LoopOK, MintedOK
  <2>2. CASE loops[l].pc # "over"
    BY <1>1, <2>2, Typing DEF IInv, LoopOK, Present, Polling
  <2> QED
    BY <1>1, <2>1, <2>2
<1>4. /\ Persisted(mem, k) \in [Nfts -> Slots]
      /\ Persisted(mem, k)[k] = IF mem[k] = "none" THEN "running" ELSE mem[k]
      /\ \A j \in Nfts : j # k => Persisted(mem, k)[j] = mem[j]
  BY <1>2, <1>3 DEF Persisted, Slots
<1>5. LateRecords = FALSE => Saved(Persisted(mem, k), disk) = Persisted(mem, k)
  BY <1>2, <1>4, SavedAll DEF IInv, SlotsOK
<1>6. /\ mem' \in [Nfts -> Slots] /\ disk' \in [Nfts -> Slots]
      /\ LateRecords = FALSE => disk' = mem'
      /\ \A j \in Nfts : disk'[j] \in {mem'[j], disk[j]}
      /\ mem'[k] = IF mem[k] = "none" THEN "running" ELSE mem[k]
      /\ \A j \in Nfts : j # k => mem'[j] = mem[j]
  BY <1>1, <1>2, <1>4, <1>5, SavedEach DEF Write
<1> HIDE DEF k
<1>7. TypeOK'
  BY <1>1, <1>6 DEF IInv, TypeOK
<1>8. PhaseOK'
  BY <1>1, <1>6 DEF IInv, PhaseOK, Present, Fresh, PoolOf, Minted
<1>9. \A m \in Loops : LoopOK(m)'
  BY <1>1 DEF IInv, LoopOK, Present, ByHand, PoolOf, Minted
<1>10. KeysOK' /\ TablesOK' /\ AsksOK'
  BY <1>1 DEF IInv, KeysOK, TablesOK, AsksOK, Present, Holds, ByHand, Polls, PoolOf, Minted
<1>11. MintOK'
  BY <1>1, <1>3, <1>6, Typing DEF IInv, MintOK, Present, ByHand, PoolOf, Minted
<1>m. MintedOK'
  BY <1>1, <1>3, <1>6 DEF IInv, MintedOK, Minted
<1>12. LateRecords = FALSE => SlotsOK'
  <2> SUFFICES ASSUME LateRecords = FALSE PROVE SlotsOK'
    OBVIOUS
  <2>2. \A m \in Loops : m # l /\ Present(m) => loops[m].key # k /\ loops[m].key \in Nfts
    BY <1>3, Typing DEF IInv, KeysOK, LoopOK, k
  <2>3. \A m \in Loops : ByHand(m) => loops[m].orig \in Nfts
                            /\ (m # l \/ loops[l].key # loops[l].orig => loops[m].orig # k)
    BY <1>3, Typing DEF IInv, KeysOK, LoopOK, ByHand, k
  <2> QED
    BY <1>1, <1>3, <1>6, <2>2, <2>3
       DEF IInv, SlotsOK, Present, ByHand, Fresh, Disowned, Minted, Polling, k
<1>13. LateRecords = FALSE => HistoryOK'
  <2> SUFFICES ASSUME LateRecords = FALSE PROVE HistoryOK'
    OBVIOUS
  <2>1. \A m \in Loops : loops[m].nfts \subseteq Nfts
    BY Typing DEF IInv, LoopOK
  <2>2. \A j \in Nfts : Off(j) => Off(j)' \/ j = k
    BY <1>1, <1>6 DEF Off
  <2>3. \A m \in Loops : (Present(m)' <=> Present(m)) /\ (Fresh(m)' <=> Fresh(m))
    BY <1>1 DEF Present, Fresh
  <2> QED
    BY <1>1, <1>3, <2>1, <2>2, <2>3 DEF IInv, HistoryOK, k
<1> QED
  BY <1>7, <1>8, <1>9, <1>10, <1>11, <1>12, <1>13, <1>m DEF IInv

LEMMA MoveMintsKeeps == ASSUME IInv, NEW l \in Loops, MoveMints(l) PROVE IInv'
<1>1. /\ UNCHANGED <<mem, disk, app, entries, running, claims, asks>>
      /\ loops[l].pc = "moving"
  BY DEF MoveMints
<1>2. PICK n \in Nfts \ Minted :
        /\ chain' = [pool |-> [chain.pool EXCEPT ![n] = chain.pool[loops[l].key]],
                     open |-> (chain.open \ {loops[l].key}) \cup {n}]
        /\ loops' = [loops EXCEPT ![l].pc = "minted", ![l].next = n]
  BY DEF MoveMints
<1>3. loops \in [Loops -> LoopType] /\ loops[l] \in LoopType
  BY Typing
<1>4. Present(l) /\ loops[l].key \in Minted
  BY <1>1 DEF IInv, LoopOK, Present
<1>5. /\ loops' \in [Loops -> LoopType]
      /\ loops'[l].pc = "minted" /\ loops'[l].next = n
      /\ \A m \in Loops : m # l => loops'[m] = loops[m]
      /\ \A m \in Loops :
            /\ loops'[m].key = loops[m].key /\ loops'[m].orig = loops[m].orig
            /\ loops'[m].byHand = loops[m].byHand /\ loops'[m].prev = loops[m].prev
            /\ loops'[m].handle = loops[m].handle /\ loops'[m].stopped = loops[m].stopped
            /\ loops'[m].leaving = loops[m].leaving /\ loops'[m].nfts = loops[m].nfts
  BY <1>2, <1>3 DEF LoopType, Steps, Polling
<1>6. /\ chain'.pool \in [Nfts -> Pools \cup {None}] /\ chain'.open \subseteq Nfts
      /\ chain'.pool[n] = PoolOf(l) /\ \A k \in Minted : chain'.pool[k] = chain.pool[k]
      /\ chain' = [pool |-> chain'.pool, open |-> chain'.open]
  BY <1>2, <1>4, Typing DEF PoolOf, Minted
<1>7. Minted' = Minted \cup {n} /\ n \in Nfts /\ n \notin Minted
  BY <1>2, <1>4, <1>6, Typing DEF PoolOf, Minted
<1>8. \A m \in Loops : Present(m) => PoolOf(m)' = PoolOf(m)
  BY <1>5, <1>6 DEF IInv, LoopOK, PoolOf
<1>9. \A m \in Loops : (Present(m)' <=> Present(m)) /\ (ByHand(m)' <=> ByHand(m))
         /\ (Fresh(m)' <=> Fresh(m)) /\ (Holds(m)' <=> Holds(m))
  BY <1>1, <1>5 DEF Present, ByHand, Fresh, Holds
<1> HIDE DEF Minted
<1>10. TypeOK'
  <2>1. chain' \in [pool : [Nfts -> Pools \cup {None}], open : SUBSET Nfts]
    BY <1>6
  <2> QED
    BY <1>1, <1>5, <2>1 DEF IInv, TypeOK, LoopType
<1>11. PhaseOK'
  BY <1>1, <1>5, <1>6, <1>7, <1>8, <1>9, NoLoopType DEF IInv, PhaseOK
<1>12. \A m \in Loops : LoopOK(m)'
  <2> SUFFICES ASSUME NEW m \in Loops PROVE LoopOK(m)'
    OBVIOUS
  <2>1. LoopOK(m)
    BY DEF IInv
  <2>2. ByHand(m) => Present(m)
    BY DEF ByHand
  <2>3. CASE m = l
    BY <1>1, <1>4, <1>5, <1>6, <1>7, <1>8, <1>9, <2>1, <2>2, <2>3 DEF LoopOK
  <2>4. CASE m # l
    BY <1>1, <1>5, <1>6, <1>7, <1>8, <1>9, <2>1, <2>2, <2>4 DEF LoopOK
  <2> QED
    BY <2>3, <2>4
<1>13. KeysOK'
  BY <1>5, <1>8, <1>9 DEF IInv, KeysOK, Holds
<1>14. TablesOK'
  <2>1. \A m \in Loops : (Polls(m)' => Polls(m)) /\ (Polls(m) => Present(m))
           /\ (ByHand(m) => Present(m))
    BY <1>1, <1>5 DEF Polls, Polling, Present, ByHand
  <2>2. \A k \in Nfts : entries'[k] # None =>
          /\ Present(entries[k])' /\ loops'[entries[k]].key = k
          /\ loops'[entries[k]].pc # "signer"
    BY <1>1, <1>5, <1>9, Records
  <2> QED
    BY <1>1, <1>5, <1>7, <1>8, <1>9, <2>1, <2>2 DEF IInv, TablesOK
<1>15. AsksOK'
  BY <1>1, <1>7 DEF IInv, AsksOK
<1>16. /\ n \notin app.todo /\ entries[n] = None /\ claims[n] = None
       /\ mem[n] = "absent" /\ disk[n] = "absent"
       /\ \A m \in Loops : n \notin loops[m].nfts /\ (ByHand(m) => loops[m].orig # n)
       /\ \A r \in Requests : asks[r] # n
  <2>1. entries[n] = None
    <3> SUFFICES ASSUME entries[n] # None PROVE FALSE
      OBVIOUS
    <3>1. entries[n] \in Loops
      BY <1>7, Typing
    <3> QED
      BY <1>7, <3>1 DEF IInv, TablesOK, LoopOK
  <2>2. mem[n] = "absent" /\ disk[n] = "absent"
    BY <1>7 DEF IInv, MintedOK
  <2>3. n \notin app.todo /\ claims[n] = None
    BY <1>7 DEF IInv, PhaseOK, TablesOK
  <2>4. \A m \in Loops : n \notin loops[m].nfts /\ (ByHand(m) => loops[m].orig # n)
    BY <1>7 DEF IInv, LoopOK
  <2>5. \A r \in Requests : asks[r] # n
    BY <1>7, Typing DEF IInv, AsksOK
  <2> QED
    BY <2>1, <2>2, <2>3, <2>4, <2>5
<1>17. MintOK'
  BY <1>1, <1>5, <1>6, <1>7, <1>8, <1>9, <1>16, <1>4 DEF IInv, MintOK
<1>m. MintedOK'
  BY <1>1, <1>7 DEF IInv, MintedOK
<1>18. LateRecords = FALSE => SlotsOK'
  BY <1>1, <1>5, <1>7, <1>9 DEF IInv, SlotsOK, Disowned
<1>19. LateRecords = FALSE => HistoryOK'
  BY <1>1, <1>5, <1>9 DEF IInv, HistoryOK, Off
<1> QED
  BY <1>10, <1>11, <1>12, <1>13, <1>14, <1>15, <1>17, <1>18, <1>19, <1>m DEF IInv

\* A key that moves takes its status with it, in the file too.
LEMMA RekeyedFacts ==
    ASSUME IsFiniteSet(Nfts), IInv, NEW old \in Nfts, NEW new \in Nfts, old # new,
           mem[new] = "absent"
    PROVE  LET first == Persisted(mem, old)
               then  == Rekeyed(first, old, new)
               file  == IF mem[old] = "absent" THEN disk ELSE Saved(first, disk)
               saved == Saved(then, file)
           IN  /\ then \in [Nfts -> Slots] /\ saved \in [Nfts -> Slots]
               /\ LateRecords = FALSE => saved = then
               /\ \A k \in Nfts \ {old, new} : saved[k] \in {mem[k], disk[k]}
               /\ then[old] = "absent"
               /\ then[new] = IF mem[old] = "none" THEN "running" ELSE mem[old]
               /\ \A k \in Nfts : k \notin {old, new} => then[k] = mem[k]
<1> DEFINE first == Persisted(mem, old)
           then  == Rekeyed(first, old, new)
           file  == IF mem[old] = "absent" THEN disk ELSE Saved(first, disk)
<1>1. /\ mem \in [Nfts -> Slots] /\ disk \in [Nfts -> Slots]
      /\ LateRecords = FALSE => \A k \in Nfts : disk[k] = "running" => mem[k] = "running"
  BY Typing DEF IInv, SlotsOK
<1>2. /\ first \in [Nfts -> Slots]
      /\ first[old] = IF mem[old] = "none" THEN "running" ELSE mem[old]
      /\ \A k \in Nfts : k # old => first[k] = mem[k]
  BY <1>1 DEF Persisted, Slots
<1>3. LateRecords = FALSE => Saved(first, disk) = first
  BY <1>1, <1>2, SavedAll
<1> HIDE DEF first
<1>4. /\ then \in [Nfts -> Slots] /\ then[old] = "absent" /\ then[new] = first[old]
      /\ \A k \in Nfts : k \notin {old, new} => then[k] = first[k]
  <2>1. CASE first[old] = "absent"
    BY <1>2, <2>1 DEF Rekeyed
  <2>2. CASE first[old] # "absent"
    BY <1>2, <2>2 DEF Rekeyed, Slots
  <2> QED
    BY <2>1, <2>2
<1> HIDE DEF then
<1>5. LateRecords = FALSE => Saved(then, file) = then
  <2> SUFFICES ASSUME LateRecords = FALSE PROVE Saved(then, file) = then
    OBVIOUS
  <2>1. CASE mem[old] = "absent"
    <3>1. file = disk /\ \A k \in Nfts : disk[k] = "running" => then[k] = "running"
      BY <1>1, <1>2, <1>4, <2>1
    <3> QED
      BY <1>1, <1>4, <3>1, SavedAll
  <2>2. CASE mem[old] # "absent" /\ first[old] # "running"
    <3>1. file = first /\ \A k \in Nfts : first[k] = "running" => then[k] = "running"
      BY <1>2, <1>3, <1>4, <2>2
    <3> QED
      BY <1>2, <1>4, <3>1, SavedAll
  <2>3. CASE mem[old] # "absent" /\ first[old] = "running"
    <3> DEFINE L == ListedIn(first)
               K == L \ {old}
    <3>1. file = first
      BY <1>3, <2>3
    <3>2. ListedIn(then) = K \cup {new} /\ old \in L /\ new \notin K
      BY <1>2, <1>4, <2>3 DEF ListedIn
    <3>3. IsFiniteSet(L)
      BY FS_Subset DEF ListedIn
    <3> HIDE DEF L
    <3>4. IsFiniteSet(K) /\ Cardinality(K) = Cardinality(L) - 1 /\ Cardinality(L) \in Nat
      BY <3>2, <3>3, FS_RemoveElement, FS_CardinalityType
    <3> HIDE DEF K
    <3>5. Cardinality(K \cup {new}) = Cardinality(K) + 1
      BY <3>2, <3>4, FS_AddElement
    <3>6. ~(Cardinality(ListedIn(then)) < Cardinality(ListedIn(first)))
      BY <3>2, <3>4, <3>5 DEF L
    <3> QED
      BY <3>1, <3>6 DEF Saved, WouldLose
  <2> QED
    BY <2>1, <2>2, <2>3
<1>6. /\ file \in [Nfts -> Slots]
      /\ \A k \in Nfts \ {old, new} : file[k] \in {mem[k], disk[k]}
  BY <1>1, <1>2, SavedEach
<1> HIDE DEF file
<1>7. /\ Saved(then, file) \in [Nfts -> Slots]
      /\ \A k \in Nfts \ {old, new} : Saved(then, file)[k] \in {mem[k], disk[k]}
  BY <1>2, <1>4, <1>6, SavedEach
<1> QED
  BY <1>2, <1>4, <1>5, <1>7 DEF first, then, file

LEMMA MoveRecordedKeeps ==
    ASSUME IsFiniteSet(Nfts), IInv, NEW l \in Loops, MoveRecorded(l) PROVE IInv'
<1> DEFINE old == loops[l].key
           new == loops[l].next
<1>1. /\ UNCHANGED <<chain, app, claims, asks>> /\ loops[l].pc = "minted"
      /\ loops' = [loops EXCEPT ![l].pc = "polled", ![l].key = new,
                                ![l].next = None, ![l].nfts = @ \cup {new}]
      /\ running' = [running EXCEPT ![new] = running[old], ![old] = None]
      /\ entries' = EntriesRekeyed(old, new)
  BY DEF MoveRecorded
<1>2. loops \in [Loops -> LoopType] /\ loops[l] \in LoopType
  BY Typing
<1>3. Present(l) /\ old \in Minted /\ old \in loops[l].nfts /\ Minted \subseteq Nfts
  BY <1>1, Typing DEF IInv, LoopOK, Present
<1>4. /\ new \in Minted /\ chain.pool[new] = PoolOf(l) /\ new \notin app.todo
      /\ entries[new] = None /\ claims[new] = None /\ mem[new] = "absent"
      /\ disk[new] = "absent"
      /\ \A m \in Loops : new \notin loops[m].nfts /\ (ByHand(m) => loops[m].orig # new)
      /\ \A r \in Requests : asks[r] # new
  BY <1>1 DEF IInv, MintOK
<1>5. old # new /\ old \in Nfts /\ new \in Nfts
  BY <1>3, <1>4
<1>6. /\ mem' \in [Nfts -> Slots] /\ disk' \in [Nfts -> Slots] /\ mem'[old] = "absent"
      /\ LateRecords = FALSE => disk' = mem'
      /\ \A k \in Nfts \ {old, new} : disk'[k] \in {mem[k], disk[k]}
      /\ mem'[new] = IF mem[old] = "none" THEN "running" ELSE mem[old]
      /\ \A k \in Nfts : k \notin {old, new} => mem'[k] = mem[k]
  <2>1. LET first == Persisted(mem, old)
            then  == Rekeyed(first, old, new)
            file  == IF mem[old] = "absent" THEN disk ELSE Saved(first, disk)
        IN  mem' = then /\ disk' = Saved(then, file)
    BY DEF MoveRecorded
  <2> HIDE DEF old, new
  <2>2. LET first == Persisted(mem, old)
            then  == Rekeyed(first, old, new)
            file  == IF mem[old] = "absent" THEN disk ELSE Saved(first, disk)
            saved == Saved(then, file)
        IN  /\ then \in [Nfts -> Slots] /\ saved \in [Nfts -> Slots]
            /\ LateRecords = FALSE => saved = then
            /\ \A k \in Nfts \ {old, new} : saved[k] \in {mem[k], disk[k]}
            /\ then[old] = "absent"
            /\ then[new] = IF mem[old] = "none" THEN "running" ELSE mem[old]
            /\ \A k \in Nfts : k \notin {old, new} => then[k] = mem[k]
    BY <1>4, <1>5, RekeyedFacts
  <2> QED
    BY <2>1, <2>2
<1>7. /\ loops' \in [Loops -> LoopType]
      /\ loops'[l].pc = "polled" /\ loops'[l].key = new /\ loops'[l].nfts = loops[l].nfts \cup {new}
      /\ \A m \in Loops : m # l => loops'[m] = loops[m]
      /\ \A m \in Loops :
            /\ loops'[m].orig = loops[m].orig
            /\ loops'[m].byHand = loops[m].byHand /\ loops'[m].prev = loops[m].prev
            /\ loops'[m].handle = loops[m].handle /\ loops'[m].stopped = loops[m].stopped
            /\ loops'[m].leaving = loops[m].leaving
  BY <1>1, <1>2, <1>5 DEF LoopType, Steps, Polling
<1>8. /\ entries' \in [Nfts -> Loops \cup {None}]
      /\ entries'[old] = None /\ entries'[new] = entries[old]
      /\ \A k \in Nfts : k \notin {old, new} => entries'[k] = entries[k]
  BY <1>1, <1>4, <1>5, Typing DEF EntriesRekeyed
<1>9. /\ running' \in [Nfts -> Pools \cup {None}] /\ running'[new] = running[old]
      /\ \A k \in Nfts : k \notin {old, new} => running'[k] = running[k]
  BY <1>1, <1>5, Typing
<1>10. entries[old] \in {l, None}
  <2> SUFFICES ASSUME entries[old] # None PROVE entries[old] = l
    OBVIOUS
  <2>1. entries[old] \in Loops /\ Present(entries[old]) /\ loops[entries[old]].key = old
    BY <1>5, Records
  <2> QED
    BY <1>3, <2>1 DEF IInv, KeysOK
<1>11. \A m \in Loops : m # l /\ Present(m) =>
          loops[m].key \notin {old, new} /\ loops[m].key \in Nfts
  BY <1>3, <1>4 DEF IInv, KeysOK, LoopOK
<1>12. \A m \in Loops : (Present(m)' <=> Present(m)) /\ (ByHand(m)' <=> ByHand(m))
         /\ (Fresh(m)' <=> Fresh(m)) /\ (Holds(m)' <=> Holds(m))
         /\ (Present(m) => PoolOf(m)' = PoolOf(m))
  <2>1. \A m \in Loops : Present(m)' <=> Present(m)
    BY <1>1, <1>7 DEF Present
  <2>2. PoolOf(l)' = PoolOf(l)
    BY <1>1, <1>4, <1>7 DEF PoolOf
  <2> QED
    BY <1>1, <1>7, <2>1, <2>2 DEF ByHand, Fresh, Holds, PoolOf
<1>13. Minted' = Minted
  BY <1>1 DEF Minted
<1> HIDE DEF old, new, Minted
<1>14. TypeOK'
  BY <1>1, <1>6, <1>7, <1>8, <1>9 DEF IInv, TypeOK, LoopType
<1>15. PhaseOK'
  BY <1>1, <1>3, <1>6, <1>7, <1>12, <1>13, NoLoopType DEF IInv, PhaseOK, Present
<1>16. \A m \in Loops : LoopOK(m)'
  <2> SUFFICES ASSUME NEW m \in Loops PROVE LoopOK(m)'
    OBVIOUS
  <2>1. LoopOK(m) /\ (ByHand(m) => Present(m))
    BY DEF IInv, ByHand
  <2>2. CASE m = l
    BY <1>1, <1>3, <1>4, <1>7, <1>12, <1>13, <2>1, <2>2 DEF LoopOK
  <2>3. CASE m # l
    BY <1>1, <1>7, <1>8, <1>11, <1>12, <1>13, <2>1, <2>3 DEF LoopOK
  <2> QED
    BY <2>2, <2>3
<1>17. KeysOK'
  <2>1. \A m \in Loops : Holds(m) => Present(m)
    BY DEF Holds
  <2>2. \A m, k \in Loops : m # k /\ Present(m) /\ Present(k) =>
          /\ loops'[m].key # loops'[k].key
          /\ loops'[m].byHand => loops'[k].key # loops'[m].orig
    BY <1>3, <1>4, <1>7, <1>11 DEF IInv, KeysOK, ByHand
  <2> QED
    BY <1>12, <2>1, <2>2 DEF IInv, KeysOK
<1>18. TablesOK'
  <2>1. \A k \in Nfts : entries'[k] # None =>
          loops'[entries'[k]].pc \notin {"none", "over", "signer"} /\ loops'[entries'[k]].key = k
    <3> SUFFICES ASSUME NEW k \in Nfts, entries'[k] # None
                 PROVE  /\ loops'[entries'[k]].pc \notin {"none", "over", "signer"}
                        /\ loops'[entries'[k]].key = k
      OBVIOUS
    <3>1. CASE k = new
      BY <1>7, <1>8, <1>10, <3>1
    <3>2. CASE k # new
      <4>1. k # old /\ entries'[k] = entries[k] /\ entries[k] \in Loops
        BY <1>8, <3>2, Typing
      <4>2. /\ loops[entries[k]].pc \notin {"none", "over", "signer"}
            /\ loops[entries[k]].key = k
        BY <4>1 DEF IInv, TablesOK, Present
      <4>3. entries[k] # l
        BY <4>1, <4>2 DEF old
      <4> QED
        BY <1>7, <4>1, <4>2, <4>3
    <3> QED
      BY <3>1, <3>2
  <2>2. \A m \in Loops :
          /\ Present(m)' /\ loops'[m].handle => entries'[loops'[m].key] = m
          /\ ByHand(m)' => claims'[loops'[m].orig] = PoolOf(m)'
    <3> SUFFICES ASSUME NEW m \in Loops
                 PROVE  /\ Present(m)' /\ loops'[m].handle => entries'[loops'[m].key] = m
                        /\ ByHand(m)' => claims'[loops'[m].orig] = PoolOf(m)'
      OBVIOUS
    <3>1. /\ Present(m) /\ loops[m].handle => entries[loops[m].key] = m
          /\ ByHand(m) => claims[loops[m].orig] = PoolOf(m) /\ Present(m)
      BY DEF IInv, TablesOK, ByHand
    <3>2. Present(m) /\ loops[m].handle => entries'[loops'[m].key] = m
      BY <1>7, <1>8, <1>11, <3>1 DEF old
    <3> QED
      BY <1>1, <1>7, <1>12, <3>1, <3>2
  <2>3. ASSUME NEW m \in Loops, Polls(m)', entries'[loops'[m].key] = m
        PROVE  running'[loops'[m].key] = PoolOf(m)'
    <3>1. loops'[m].stopped = FALSE /\ loops[m].stopped = FALSE /\ Present(m)
      BY <1>3, <1>7, <1>2, <2>3, Typing DEF Polls, Present, Polling, LoopType
    <3>2. CASE m = l
      <4>1. entries[old] = l /\ Polls(l)
        BY <1>1, <1>7, <1>8, <2>3, <3>1, <3>2 DEF Polls, Polling
      <4> QED
        BY <1>7, <1>9, <1>12, <3>1, <3>2, <4>1 DEF IInv, TablesOK, old
    <3>3. CASE m # l
      <4>1. Polls(m) /\ loops'[m].key = loops[m].key /\ loops[m].key \notin {old, new}
            /\ loops[m].key \in Nfts
        BY <1>7, <1>11, <2>3, <3>1, <3>3 DEF Polls
      <4>2. entries[loops[m].key] = m
        BY <1>8, <2>3, <4>1
      <4> QED
        BY <1>9, <1>12, <3>1, <4>1, <4>2 DEF IInv, TablesOK
    <3> QED
      BY <3>2, <3>3
  <2>4. \A k \in Nfts : claims'[k] # None => k \in Minted'
    BY <1>1, <1>13 DEF IInv, TablesOK
  <2> QED
    BY <2>1, <2>2, <2>3, <2>4, Zenon DEF TablesOK, Present
<1>19. AsksOK'
  BY <1>1, <1>3, <1>4, <1>8, <1>13 DEF IInv, AsksOK
<1>20. MintOK'
  <2>1. \A m \in Loops : loops'[m].pc \notin {"moving", "minted"}
    <3> SUFFICES ASSUME NEW m \in Loops, m # l PROVE loops[m].pc \notin {"moving", "minted"}
      BY <1>7
    <3>1. ~({loops[l].pc, loops[m].pc} \subseteq {"moving", "minted"})
      BY DEF IInv, MintOK
    <3> QED
      BY <1>1, <3>1
  <2> QED
    BY <2>1 DEF MintOK
<1>m. MintedOK'
  BY <1>3, <1>4, <1>6, <1>13 DEF IInv, MintedOK
<1>21. LateRecords = FALSE => SlotsOK'
  <2> SUFFICES ASSUME LateRecords = FALSE PROVE SlotsOK'
    OBVIOUS
  <2>1. app'.phase # "up" => mem' = disk'
    BY <1>6
  <2>2. ASSUME NEW m \in Loops, Present(m)', ~loops'[m].byHand, entries'[loops'[m].key] = m
        PROVE  mem'[loops'[m].key] = "running" /\ disk'[loops'[m].key] = "running"
    <3>1. CASE m = l
      BY <1>3, <1>6, <1>7, <1>8, <2>2, <3>1 DEF IInv, SlotsOK, old
    <3>2. CASE m # l
      BY <1>6, <1>7, <1>8, <1>11, <1>12, <2>2, <3>2 DEF IInv, SlotsOK
    <3> QED
      BY <3>1, <3>2
  <2>3. ASSUME NEW m \in Loops, Disowned(m)'
        PROVE  mem'[loops'[m].key] \in {"absent", "stopped"} /\ disk'[loops'[m].key] # "running"
    <3>1. Fresh(m) /\ Present(m)
      BY <1>12, <2>3 DEF Disowned, Fresh
    <3>2. CASE m = l
      <4>1. entries[old] # l
        BY <1>7, <1>8, <2>3, <3>2 DEF Disowned
      <4>2. Disowned(l)
        BY <1>1, <3>1, <3>2, <4>1 DEF Disowned, old
      <4>3. mem[old] \in {"absent", "stopped"}
        BY <4>2 DEF IInv, SlotsOK, old
      <4> QED
        BY <1>6, <1>7, <3>2, <4>3
    <3>3. CASE m # l
      <4>1. Disowned(m)
        BY <1>7, <1>8, <1>11, <2>3, <3>1, <3>3 DEF Disowned
      <4>2. mem[loops[m].key] \in {"absent", "stopped"}
        BY <4>1 DEF IInv, SlotsOK
      <4> QED
        BY <1>6, <1>7, <1>11, <3>1, <3>3, <4>2
    <3> QED
      BY <3>2, <3>3
  <2>4. ASSUME NEW m \in Loops, ByHand(m)',
               \/ loops'[m].pc \in {"signer", "detect"} /\ loops'[m].prev # "running"
               \/ loops'[m].key # loops'[m].orig
        PROVE  mem'[loops'[m].orig] # "running" /\ disk'[loops'[m].orig] # "running"
    <3>1. ByHand(m) /\ Present(m) /\ loops[m].orig \in Nfts /\ loops[m].orig # new
      BY <1>3, <1>4, <1>12, <2>4 DEF IInv, LoopOK, ByHand
    <3>2. CASE loops[m].orig = old
      BY <1>6, <1>7, <3>2
    <3>3. CASE loops[m].orig # old
      <4>1. mem[loops[m].orig] # "running"
        <5>1. CASE m = l
          BY <3>1, <3>3, <5>1 DEF IInv, SlotsOK, old
        <5>2. CASE m # l
          BY <1>7, <2>4, <3>1, <5>2 DEF IInv, SlotsOK
        <5> QED
          BY <5>1, <5>2
      <4> QED
        BY <1>6, <1>7, <3>1, <3>3, <4>1
    <3> QED
      BY <3>2, <3>3
  <2> QED
    BY <1>6, <2>1, <2>2, <2>3, <2>4 DEF SlotsOK
<1>22. LateRecords = FALSE => HistoryOK'
  <2> SUFFICES ASSUME LateRecords = FALSE PROVE HistoryOK'
    OBVIOUS
  <2>1. ASSUME NEW m \in Loops, NEW k \in loops'[m].nfts
        PROVE  Off(k)' \/ \E j \in Loops : Present(j)' /\ loops'[j].key = k
    <3>1. CASE k = new
      BY <1>3, <1>7, <1>12, <3>1
    <3>2. CASE k = old
      BY <1>6, <1>8, <3>2 DEF Off
    <3>3. CASE k \notin {old, new}
      <4>1. k \in loops[m].nfts /\ k \in Nfts
        BY <1>7, <3>3, Typing DEF LoopType
      <4>2. Off(k) => Off(k)'
        BY <1>6, <1>8, <3>3, <4>1 DEF Off
      <4>3. \A j \in Loops : Present(j) /\ loops[j].key = k => Present(j)' /\ loops'[j].key = k
        BY <1>7, <1>12, <3>3 DEF old
      <4> QED
        BY <4>1, <4>2, <4>3 DEF IInv, HistoryOK
    <3> QED
      BY <3>1, <3>2, <3>3
  <2>2. \A j, m \in Loops : j # m /\ Fresh(m)' /\ loops'[m].key \in loops'[j].nfts =>
          loops'[m].byHand /\ loops'[m].prev # "running"
    <3>1. \A m \in Loops : Fresh(m) => Present(m)
      BY DEF Fresh
    <3> QED
      BY <1>4, <1>7, <1>11, <1>12, <3>1 DEF IInv, HistoryOK
  <2> QED
    BY <2>1, <2>2 DEF HistoryOK
<1> QED
  BY <1>14, <1>15, <1>16, <1>17, <1>18, <1>19, <1>20, <1>21, <1>22, <1>m DEF IInv

-----------------------------------------------------------------------------
(* Each step keeps the invariant: the start-up. *)

\* A step of the start-up that only turns its phase.
LEMMA PhaseTurns ==
    ASSUME IInv, PhaseOK', app'.phase # "up" => app.phase # "up",
           app' \in [phase : {"locked", "listed", "startup", "up"}, stopping : BOOLEAN,
                     todo : SUBSET Nfts],
           \A l \in Loops : loops[l].pc # "minted" \/ loops[l].next \notin app'.todo,
           UNCHANGED <<chain, mem, disk, loops, entries, running, claims, asks>>
    PROVE  IInv'
<1>1. TypeOK'
  BY DEF IInv, TypeOK
<1>2. (\A l \in Loops : LoopOK(l)') /\ KeysOK'
  BY DEF IInv, LoopOK, KeysOK, Present, Holds, ByHand, PoolOf, Minted
<1>3. TablesOK' /\ AsksOK'
  BY DEF IInv, TablesOK, AsksOK, Present, ByHand, Polls, PoolOf, Minted
<1>m. MintedOK'
  BY DEF IInv, MintedOK, Minted
<1>4. LateRecords = FALSE => SlotsOK' /\ HistoryOK'
  BY DEF IInv, SlotsOK, HistoryOK, Present, ByHand, Fresh, Disowned, Off, Minted
<1>5. MintOK'
  BY DEF IInv, MintOK, Present, ByHand, PoolOf, Minted
<1> QED
  BY <1>1, <1>2, <1>3, <1>4, <1>5, <1>m DEF IInv

LEMMA AppType ==
    ASSUME IInv
    PROVE  app \in [phase : {"locked", "listed", "startup", "up"}, stopping : BOOLEAN,
                    todo : SUBSET Nfts]
BY DEF IInv, TypeOK

LEMMA UnlockKeeps == ASSUME IInv, Unlock PROVE IInv'
<1>1. /\ app.phase = "locked" /\ app' = [app EXCEPT !.phase = "listed", !.todo = ListedIn(mem)]
      /\ UNCHANGED <<chain, mem, disk, loops, entries, running, claims, asks>>
  BY DEF Unlock
<1>2. ListedIn(mem) \subseteq Minted /\ ListedIn(mem) \subseteq Nfts
  BY DEF IInv, MintedOK, ListedIn
<1>3. /\ app'.phase = "listed" /\ app'.todo = ListedIn(mem)
      /\ app' \in [phase : {"locked", "listed", "startup", "up"}, stopping : BOOLEAN,
                   todo : SUBSET Nfts]
  BY <1>1, <1>2, AppType
<1>4. \A l \in Loops : loops[l] = NoLoop
  BY <1>1 DEF IInv, PhaseOK
<1>5. PhaseOK'
  BY <1>1, <1>2, <1>3, <1>4 DEF IInv, PhaseOK, Minted
<1> QED
  BY <1>1, <1>3, <1>4, <1>5, NoLoopType, PhaseTurns

LEMMA StartUpEndsKeeps == ASSUME IInv, StartUpEnds PROVE IInv'
<1>1. /\ app.phase = "startup" /\ app' = [app EXCEPT !.phase = "up", !.todo = {}]
      /\ \A l \in Loops : ~Starting(l)
      /\ UNCHANGED <<chain, mem, disk, loops, entries, running, claims, asks>>
  BY DEF StartUpEnds
<1>2. /\ app'.phase = "up" /\ app'.todo = {}
      /\ app' \in [phase : {"locked", "listed", "startup", "up"}, stopping : BOOLEAN,
                   todo : SUBSET Nfts]
  BY <1>1, AppType
<1>3. \A l \in Loops : ~Fresh(l)
  BY <1>1, Typing DEF IInv, LoopOK, Starting, Fresh, Present, Polling, Steps, LoopType
<1>4. PhaseOK'
  BY <1>1, <1>2, <1>3 DEF PhaseOK, Fresh, Present
<1> QED
  BY <1>1, <1>2, <1>4, PhaseTurns

LEMMA ChoosePositionsKeeps == ASSUME IInv, ChoosePositions PROVE IInv'
<1>1. /\ app.phase = "listed"
      /\ UNCHANGED <<chain, loops, entries, running, claims, asks>>
  BY DEF ChoosePositions
<1>2. PICK known \in SUBSET app.todo, gone \in SUBSET app.todo, keepers \in SUBSET app.todo :
        /\ keepers \subseteq known /\ Keeps(keepers, known)
        /\ Write(OffList(mem, gone \cup (known \ keepers)))
        /\ app' = [app EXCEPT !.phase = "startup", !.todo = keepers]
  BY DEF ChoosePositions
<1> DEFINE off == OffList(mem, gone \cup (known \ keepers))
<1>3. /\ mem \in [Nfts -> Slots] /\ disk \in [Nfts -> Slots]
      /\ LateRecords = FALSE => mem = disk
      /\ \A l \in Loops : loops[l] = NoLoop
  BY <1>1, Typing DEF IInv, PhaseOK, SlotsOK
<1>4. /\ off \in [Nfts -> Slots]
      /\ \A k \in Nfts : off[k] # mem[k] => off[k] = "stopped" /\ mem[k] # "absent"
  BY <1>3 DEF OffList, SetStatus, Slots
<1>5. LateRecords = FALSE => Saved(off, disk) = off
  BY <1>3, <1>4, SavedAll
<1> HIDE DEF off
<1>6. /\ mem' = off /\ disk' \in [Nfts -> Slots]
      /\ LateRecords = FALSE => disk' = off
      /\ \A k \in Nfts : disk'[k] \in {off[k], disk[k]}
  BY <1>2, <1>3, <1>4, <1>5, SavedEach DEF Write, off
<1>7. /\ app'.phase = "startup" /\ app'.todo = keepers
      /\ app' \in [phase : {"locked", "listed", "startup", "up"}, stopping : BOOLEAN,
                   todo : SUBSET Nfts]
      /\ keepers \subseteq Minted
      /\ \A h, k \in keepers : chain.pool[h] = chain.pool[k] => h = k
  BY <1>2, AppType DEF Keeps, IInv, PhaseOK
<1>8. TypeOK'
  BY <1>1, <1>4, <1>6, <1>7 DEF IInv, TypeOK
<1>9. \A l \in Loops : loops'[l] = NoLoop /\ ~Present(l)' /\ ~Present(l)
  BY <1>1, <1>3, NoLoopType DEF Present
<1>10. PhaseOK'
  BY <1>1, <1>3, <1>6, <1>7, <1>9, NoLoopType DEF IInv, PhaseOK, Fresh, Minted
<1>11. \A l \in Loops : LoopOK(l)'
  BY <1>9, NoLoopType DEF LoopOK, ByHand
<1>12. KeysOK' /\ AsksOK'
  BY <1>1, <1>9 DEF IInv, KeysOK, AsksOK, Holds, Minted
<1>13. TablesOK'
  BY <1>1, <1>3, <1>9, NoLoopType, Typing DEF IInv, TablesOK, ByHand, Polls, Polling, Minted, Present
<1>14. MintOK'
  BY <1>9, NoLoopType DEF MintOK
<1>m. MintedOK'
  BY <1>1, <1>4, <1>6 DEF IInv, MintedOK, Minted
<1>15. LateRecords = FALSE => SlotsOK'
  BY <1>1, <1>3, <1>4, <1>6, <1>9 DEF IInv, SlotsOK, ByHand, Disowned, Fresh, Minted
<1>16. LateRecords = FALSE => HistoryOK'
  BY <1>9, NoLoopType DEF HistoryOK, Fresh
<1> QED
  BY <1>8, <1>10, <1>11, <1>12, <1>13, <1>14, <1>15, <1>16, <1>m DEF IInv

LEMMA ListedStarts ==
    ASSUME NEW j \in Nfts, NEW x, x = Loop(j, FALSE, "running")
    PROVE  /\ x \in LoopType /\ x.pc = "detect"
           /\ x.key = j /\ x.orig = j /\ ~x.byHand /\ x.nfts = {j}
           /\ ~x.handle /\ ~x.stopped /\ ~x.leaving
<1>1. /\ "detect" \in Steps /\ "running" \in Slots /\ NoLoop \in LoopType
      /\ {j} \in SUBSET Nfts
  BY NoLoopType DEF Steps, Slots
<1>2. x = [NoLoop EXCEPT !.pc = "detect", !.key = j, !.orig = j, !.byHand = FALSE,
                         !.prev = "running", !.nfts = {j}]
  BY DEF Loop
<1>3. /\ x.pc = "detect"
      /\ x.key = j /\ x.orig = j /\ ~x.byHand /\ x.nfts = {j}
      /\ x.handle = NoLoop.handle /\ x.stopped = NoLoop.stopped /\ x.leaving = NoLoop.leaving
  BY <1>1, <1>2 DEF LoopType
<1>4. x \in LoopType
  BY <1>1, <1>2 DEF LoopType
<1> QED
  BY <1>3, <1>4, NoLoopType

\* The loop of a Manage's start.
ByHandLoop(k, status) == Loop(k, TRUE, status)

LEMMA ManagedStarts ==
    ASSUME NEW j \in Nfts, NEW status \in Slots, NEW x, x = ByHandLoop(j, status)
    PROVE  /\ x \in LoopType /\ x.pc = "signer"
           /\ x.key = j /\ x.orig = j /\ x.byHand /\ x.nfts = {j} /\ x.prev = status
           /\ ~x.handle /\ ~x.stopped /\ ~x.leaving
<1>1. /\ "signer" \in Steps /\ "running" \in Slots /\ NoLoop \in LoopType
      /\ {j} \in SUBSET Nfts
  BY NoLoopType DEF Steps, Slots
<1>2. x = [NoLoop EXCEPT !.pc = "signer", !.key = j, !.orig = j, !.byHand = TRUE,
                         !.prev = status, !.nfts = {j}]
  BY DEF ByHandLoop, Loop
<1>3. /\ x.pc = "signer"
      /\ x.key = j /\ x.orig = j /\ x.byHand /\ x.nfts = {j} /\ x.prev = status
      /\ x.handle = NoLoop.handle /\ x.stopped = NoLoop.stopped /\ x.leaving = NoLoop.leaving
  BY <1>1, <1>2 DEF LoopType
<1>4. x \in LoopType
  BY <1>1, <1>2 DEF LoopType
<1> QED
  BY <1>3, <1>4, NoLoopType

LEMMA NextToStartKeeps == ASSUME IInv, NEW k \in Nfts, NextToStart(k) PROVE IInv'
<1>1. /\ app.phase = "startup" /\ k \in app.todo
      /\ app' = [app EXCEPT !.todo = @ \ {k}]
      /\ UNCHANGED <<chain, mem, disk, claims, asks>>
  BY DEF NextToStart
<1>2. /\ app'.phase = "startup" /\ app'.todo = app.todo \ {k}
      /\ app' \in [phase : {"locked", "listed", "startup", "up"}, stopping : BOOLEAN,
                   todo : SUBSET Nfts]
  BY <1>1, AppType
<1>3. CASE UNCHANGED <<loops, entries, running>>
  <2>1. PhaseOK'
    BY <1>1, <1>2, <1>3 DEF IInv, PhaseOK, Present, Fresh, PoolOf, Minted
  <2>2. \A l \in Loops : loops[l].pc # "minted" \/ loops[l].next \notin app'.todo
    BY <1>2 DEF IInv, MintOK
  <2> QED
    BY <1>1, <1>2, <1>3, <2>1, <2>2, PhaseTurns
<1>4. CASE /\ mem[k] = "running"
           /\ \E l \in Free :
                  /\ loops' = [loops EXCEPT ![l] = Loop(k, FALSE, "running")]
                  /\ entries' = [entries EXCEPT ![k] = l]
           /\ running' = [running EXCEPT ![k] = None]
  <2>1. PICK l \in Free :
          /\ loops' = [loops EXCEPT ![l] = Loop(k, FALSE, "running")]
          /\ entries' = [entries EXCEPT ![k] = l]
    BY <1>4
  <2>2. l \in Loops /\ loops[l] = NoLoop /\ loops[l].pc = "none"
    BY DEF Free, IInv, LoopOK
  <2> DEFINE r == Loop(k, FALSE, "running")
  <2>s. r = Loop(k, FALSE, "running")
    OBVIOUS
  <2> HIDE DEF r
  <2>3. /\ r \in LoopType /\ r.pc = "detect"
        /\ r.key = k /\ r.orig = k /\ ~r.byHand /\ r.nfts = {k}
        /\ ~r.handle /\ ~r.stopped /\ ~r.leaving
    BY <2>s, ListedStarts
  <2>4. /\ loops' \in [Loops -> LoopType] /\ loops'[l] = r
        /\ \A m \in Loops : m # l => loops'[m] = loops[m]
    BY <2>1, <2>2, <2>3, <2>s, OneLoop
  <2>5. /\ k \in Minted /\ mem[k] = "running"
        /\ LateRecords = FALSE => disk[k] = "running" /\ mem = disk
    BY <1>1, <1>4 DEF IInv, PhaseOK, SlotsOK
  <2>6. \A m \in Loops : Present(m) => PoolOf(m) # chain.pool[k] /\ loops[m].key # k
    BY <1>1 DEF IInv, PhaseOK, PoolOf
  <2>7. entries[k] = None
    <3> SUFFICES ASSUME entries[k] # None PROVE FALSE
      OBVIOUS
    <3>1. entries[k] \in Loops
      BY Typing
    <3> QED
      BY <2>6, <3>1 DEF IInv, TablesOK
  <2>8. /\ entries' \in [Nfts -> Loops \cup {None}] /\ entries'[k] = l
        /\ \A j \in Nfts : j # k => entries'[j] = entries[j]
        /\ running' \in [Nfts -> Pools \cup {None}]
        /\ \A j \in Nfts : j # k => running'[j] = running[j]
    BY <1>4, <2>1, <2>2, Typing
  <2>9. /\ ~Present(l) /\ Present(l)' /\ Fresh(l)' /\ Holds(l)' /\ ~ByHand(l)'
        /\ \A m \in Loops : m # l =>
              /\ (Present(m)' <=> Present(m)) /\ (Fresh(m)' <=> Fresh(m))
              /\ (Holds(m)' <=> Holds(m)) /\ (ByHand(m)' <=> ByHand(m))
              /\ (Polls(m)' <=> Polls(m)) /\ PoolOf(m)' = PoolOf(m)
        /\ PoolOf(l)' = chain.pool[k] /\ ~Polls(l)'
    <3>1. ~Present(l) /\ Present(l)' /\ Fresh(l)' /\ Holds(l)' /\ ~ByHand(l)' /\ ~Polls(l)'
      BY <2>2, <2>3, <2>4 DEF Present, Fresh, Holds, ByHand, Polls, Polling
    <3>2. PoolOf(l)' = chain.pool[k]
      BY <1>1, <2>3, <2>4 DEF PoolOf
    <3>3. \A m \in Loops : m # l =>
              /\ (Present(m)' <=> Present(m)) /\ (Fresh(m)' <=> Fresh(m))
              /\ (Holds(m)' <=> Holds(m)) /\ (ByHand(m)' <=> ByHand(m))
              /\ (Polls(m)' <=> Polls(m)) /\ PoolOf(m)' = PoolOf(m)
      BY <1>1, <2>4 DEF Present, Fresh, Holds, ByHand, Polls, PoolOf
    <3> QED
      BY <3>1, <3>2, <3>3
  <2>10. \A m \in Loops : (Fresh(m) \/ Holds(m) \/ ByHand(m) \/ Polls(m)) => Present(m)
    BY DEF Fresh, Holds, ByHand, Polls, Polling, Present
  <2>11. Minted' = Minted /\ Minted \subseteq Nfts
    BY <1>1, Typing DEF Minted
  <2> HIDE DEF Minted
  <2>12. TypeOK'
    BY <1>1, <1>2, <2>4, <2>8 DEF IInv, TypeOK, LoopType
  <2>13. PhaseOK'
    BY <1>1, <1>2, <2>3, <2>4, <2>6, <2>9, <2>11 DEF IInv, PhaseOK
  <2>14. \A m \in Loops : LoopOK(m)'
    <3> SUFFICES ASSUME NEW m \in Loops PROVE LoopOK(m)'
      OBVIOUS
    <3>1. CASE m = l
      BY <2>3, <2>4, <2>5, <2>9, <2>11, <3>1 DEF LoopOK
    <3>2. CASE m # l
      <4>1. Present(m) => loops[m].key \in Nfts /\ loops[m].key # k
        BY <2>6, <2>11 DEF IInv, LoopOK
      <4> QED
        BY <1>1, <2>4, <2>8, <2>9, <2>11, <3>2, <4>1 DEF IInv, LoopOK
    <3> QED
      BY <3>1, <3>2
  <2>15. \A m \in Loops : ~loops[m].byHand /\ ~ByHand(m)
    BY <1>1 DEF IInv, PhaseOK, ByHand
  <2>16. KeysOK'
    <3>1. \A m, n \in Loops : m # n /\ Present(m)' /\ Present(n)' =>
            loops'[m].key # loops'[n].key /\ ~loops'[m].byHand
      BY <2>3, <2>4, <2>6, <2>9, <2>15 DEF IInv, KeysOK
    <3>2. \A m, n \in Loops : Holds(m)' /\ Holds(n)' /\ PoolOf(m)' = PoolOf(n)' => m = n
      BY <2>6, <2>9, <2>10 DEF IInv, KeysOK
    <3> QED
      BY <3>1, <3>2 DEF KeysOK
  <2>17. TablesOK'
    <3>1. \A j \in Nfts : entries'[j] # None =>
            loops'[entries'[j]].pc \notin {"none", "over", "signer"} /\ loops'[entries'[j]].key = j
      <4> SUFFICES ASSUME NEW j \in Nfts, entries'[j] # None
                   PROVE  /\ loops'[entries'[j]].pc \notin {"none", "over", "signer"}
                          /\ loops'[entries'[j]].key = j
        OBVIOUS
      <4>1. CASE j = k
        BY <2>3, <2>4, <2>8, <4>1
      <4>2. CASE j # k
        <5>1. entries'[j] = entries[j] /\ entries[j] \in Loops
          BY <2>8, <4>2, Typing
        <5>2. /\ loops[entries[j]].pc \notin {"none", "over", "signer"}
              /\ loops[entries[j]].key = j
          BY <5>1 DEF IInv, TablesOK, Present
        <5> QED
          BY <2>2, <2>4, <5>1, <5>2
      <4> QED
        BY <4>1, <4>2
    <3>2. \A m \in Loops : Present(m) => loops[m].key \in Nfts
      BY <2>11 DEF IInv, LoopOK
    <3>3. \A m \in Loops :
            /\ Present(m)' /\ loops'[m].handle => entries'[loops'[m].key] = m
            /\ Polls(m)' /\ entries'[loops'[m].key] = m => running'[loops'[m].key] = PoolOf(m)'
            /\ ~ByHand(m)'
      BY <2>3, <2>4, <2>6, <2>8, <2>9, <2>10, <2>15, <3>2 DEF IInv, TablesOK
    <3>4. \A j \in Nfts : claims'[j] # None => j \in Minted'
      BY <1>1, <2>11 DEF IInv, TablesOK
    <3> QED
      BY <3>1, <3>3, <3>4, Zenon DEF TablesOK, Present
  <2>18. AsksOK'
    BY <1>1 DEF IInv, AsksOK, PhaseOK
  <2>19. MintOK'
    <3>1. \A m, n \in Loops : {loops'[m].pc, loops'[n].pc} \subseteq {"moving", "minted"} => m = n
      BY <2>3, <2>4 DEF IInv, MintOK
    <3>2. \A m \in Loops : loops'[m].pc = "minted" =>
            m # l /\ loops[m].pc = "minted" /\ loops'[m].next = loops[m].next
      BY <2>3, <2>4
    <3>3. \A m \in Loops : loops[m].pc = "minted" => loops[m].next # k /\ loops[m].next \in Nfts
      BY <1>1, <2>11 DEF IInv, MintOK
    <3>4. \A m, j \in Loops : loops[m].pc = "minted" => loops[m].next \notin loops'[j].nfts
      BY <2>3, <2>4, <3>3 DEF IInv, MintOK
    <3> QED
      BY <1>1, <1>2, <2>8, <2>9, <2>11, <2>15, <3>1, <3>2, <3>3, <3>4 DEF IInv, MintOK
  <2>m. MintedOK'
    BY <1>1, <2>11 DEF IInv, MintedOK
  <2>20. LateRecords = FALSE => SlotsOK'
    <3> SUFFICES ASSUME LateRecords = FALSE PROVE SlotsOK'
      OBVIOUS
    <3>1. \A m \in Loops : m # l => (Disowned(m)' => Disowned(m))
      <4> SUFFICES ASSUME NEW m \in Loops, m # l, Disowned(m)' PROVE Disowned(m)
        OBVIOUS
      <4>1. Fresh(m) /\ Present(m) /\ loops'[m] = loops[m] /\ loops[m].key # k
            /\ loops[m].key \in Nfts
        BY <2>4, <2>6, <2>9, <2>10, <2>11 DEF Disowned, IInv, LoopOK
      <4> QED
        BY <2>8, <4>1 DEF Disowned
    <3>2. ~Disowned(l)'
      BY <2>3, <2>4, <2>8 DEF Disowned
    <3>3. \A m \in Loops : m # l /\ Present(m)' /\ entries'[loops'[m].key] = m =>
            Present(m) /\ entries[loops[m].key] = m
      BY <2>4, <2>6, <2>8, <2>9, <2>11 DEF IInv, LoopOK
    <3>4. \A m \in Loops : ~ByHand(m)'
      BY <2>9, <2>15
    <3>5. \A m \in Loops : Present(m)' /\ ~loops'[m].byHand /\ entries'[loops'[m].key] = m =>
            mem'[loops'[m].key] = "running" /\ disk'[loops'[m].key] = "running"
      BY <1>1, <2>3, <2>4, <2>5, <3>3, <2>15 DEF IInv, SlotsOK
    <3> QED
      BY <1>1, <1>2, <2>4, <2>5, <3>1, <3>2, <3>4, <3>5 DEF IInv, SlotsOK
  <2>21. LateRecords = FALSE => HistoryOK'
    <3> SUFFICES ASSUME LateRecords = FALSE PROVE HistoryOK'
      OBVIOUS
    <3>1. \A m \in Loops : k \notin loops[m].nfts
      BY <2>5, <2>6 DEF IInv, HistoryOK, Off
    <3>2. \A m \in Loops : loops[m].nfts \subseteq Nfts
      BY Typing DEF LoopType
    <3>3. \A j \in Nfts : j # k /\ Off(j) => Off(j)'
      BY <1>1, <2>8 DEF Off
    <3>4. ASSUME NEW m \in Loops, NEW j \in loops'[m].nfts
          PROVE  Off(j)' \/ \E n \in Loops : Present(n)' /\ loops'[n].key = j
      <4>1. CASE m = l
        BY <2>3, <2>4, <2>9, <3>4, <4>1
      <4>2. CASE m # l
        <5>1. j \in loops[m].nfts /\ j # k /\ j \in Nfts
          BY <2>4, <3>1, <3>2, <3>4, <4>2
        <5>2. CASE Off(j)
          BY <3>3, <5>1, <5>2
        <5>3. CASE \E n \in Loops : Present(n) /\ loops[n].key = j
          BY <2>4, <2>9, <5>3
        <5> QED
          BY <5>1, <5>2, <5>3 DEF IInv, HistoryOK
      <4> QED
        BY <4>1, <4>2
    <3>5. ASSUME NEW i \in Loops, NEW m \in Loops, i # m, Fresh(m)',
                 loops'[m].key \in loops'[i].nfts
          PROVE  loops'[m].byHand /\ loops'[m].prev # "running"
      <4>1. CASE m = l
        BY <2>3, <2>4, <3>1, <3>5, <4>1
      <4>2. CASE m # l
        <5>1. Fresh(m) /\ Present(m) /\ loops[m].key # k
          BY <2>6, <2>9, <2>10, <3>5, <4>2
        <5> QED
          BY <2>3, <2>4, <3>5, <4>2, <5>1 DEF IInv, HistoryOK
      <4> QED
        BY <4>1, <4>2
    <3> QED
      BY <3>4, <3>5 DEF HistoryOK
  <2> QED
    BY <2>12, <2>13, <2>14, <2>16, <2>17, <2>18, <2>19, <2>20, <2>21, <2>m DEF IInv
<1> QED
  BY <1>3, <1>4 DEF NextToStart

-----------------------------------------------------------------------------
(* Each step keeps the invariant: Manage. *)

\* A step of a request's gate that claims nothing.
LEMMA AsksTurn ==
    ASSUME IInv, app.phase = "up", asks' \in [Requests -> Nfts \cup {None}], AsksOK',
           \A l \in Loops, r \in Requests :
               loops[l].pc = "minted" /\ asks[r] # loops[l].next => asks'[r] # loops[l].next,
           UNCHANGED <<chain, mem, disk, app, loops, entries, running, claims>>
    PROVE  IInv'
<1>1. TypeOK' /\ PhaseOK'
  BY DEF IInv, TypeOK, PhaseOK, Present, Fresh, PoolOf, Minted
<1>2. (\A l \in Loops : LoopOK(l)') /\ KeysOK'
  BY DEF IInv, LoopOK, KeysOK, Present, Holds, ByHand, PoolOf, Minted
<1>3. TablesOK'
  BY DEF IInv, TablesOK, Present, ByHand, Polls, PoolOf, Minted
<1>m. MintedOK'
  BY DEF IInv, MintedOK, Minted
<1>4. LateRecords = FALSE => SlotsOK' /\ HistoryOK'
  BY DEF IInv, SlotsOK, HistoryOK, Present, ByHand, Fresh, Disowned, Off, Minted
<1>5. MintOK'
  BY DEF IInv, MintOK, Present, ByHand, PoolOf, Minted
<1> QED
  BY <1>1, <1>2, <1>3, <1>4, <1>5, <1>m DEF IInv

LEMMA ManageAskedKeeps ==
    ASSUME IInv, Overtaken = FALSE, NEW r \in Requests, NEW k \in Nfts, ManageAsked(r, k)
    PROVE  IInv'
<1>1. /\ app.phase = "up" /\ asks[r] = None /\ k \in Minted
      /\ entries[k] = None /\ claims[k] = None
      /\ \A s \in Requests : asks[s] # k
      /\ \A l \in Loops : loops[l].pc = "minted" => loops[l].next # k
      /\ asks' = [asks EXCEPT ![r] = k]
      /\ UNCHANGED <<chain, mem, disk, app, loops, entries, running, claims>>
  BY DEF ManageAsked
<1>2. /\ asks' \in [Requests -> Nfts \cup {None}]
      /\ asks'[r] = k /\ \A s \in Requests : s # r => asks'[s] = asks[s]
  BY <1>1, Typing
<1>3. AsksOK'
  BY <1>1, <1>2, Typing DEF IInv, AsksOK, Minted
<1> QED
  BY <1>1, <1>2, <1>3, AsksTurn

LEMMA ManageRefusedKeeps ==
    ASSUME IInv, NEW r \in Requests, ManageRefused(r) PROVE IInv'
<1>1. /\ asks[r] # None /\ asks' = [asks EXCEPT ![r] = None]
      /\ UNCHANGED <<chain, mem, disk, app, loops, entries, running, claims>>
  BY DEF ManageRefused
<1>2. /\ asks' \in [Requests -> Nfts \cup {None}]
      /\ asks'[r] = None /\ \A s \in Requests : s # r => asks'[s] = asks[s]
  BY <1>1, Typing
<1>3. AsksOK'
  BY <1>1, <1>2, Typing DEF IInv, AsksOK, Minted
<1>4. app.phase = "up"
  BY <1>1 DEF IInv, PhaseOK
<1>5. \A l \in Loops : loops[l].pc = "minted" => loops[l].next # None
  BY Typing DEF IInv, MintOK
<1> QED
  BY <1>1, <1>2, <1>3, <1>4, <1>5, AsksTurn

LEMMA ManagePassesKeeps ==
    ASSUME IInv, NEW r \in Requests, NEW l \in Loops, ManagePasses(r, l) PROVE IInv'
<1> DEFINE k == asks[r]
<1>1. /\ k # None /\ l \in Free /\ ~Conflict(k)
      /\ asks' = [asks EXCEPT ![r] = None]
      /\ claims' = [claims EXCEPT ![k] = chain.pool[k]]
      /\ mem' = IF mem[k] = "absent" THEN [mem EXCEPT ![k] = "none"] ELSE mem
      /\ running' = [running EXCEPT ![k] = None]
      /\ loops' = [loops EXCEPT ![l] = Loop(k, TRUE, mem[k])]
      /\ UNCHANGED <<chain, disk, app, entries>>
  BY DEF ManagePasses
<1>2. /\ k \in Minted /\ k \in Nfts /\ entries[k] = None /\ claims[k] = None
      /\ \A s \in Requests : s # r => asks[s] # k
      /\ chain.pool[k] \in Pools \cup {None} /\ chain.pool[k] # None
  BY <1>1, Typing DEF IInv, AsksOK, Minted
<1>3. app.phase = "up" /\ \A m \in Loops : Fresh(m) => loops[m].byHand
  BY <1>1 DEF IInv, PhaseOK
<1>4. l \in Loops /\ loops[l] = NoLoop /\ loops[l].pc = "none"
  BY <1>1 DEF Free, IInv, LoopOK
<1>5. \A j \in Nfts : j # k => running[j] # chain.pool[k] /\ claims[j] # chain.pool[k]
  BY <1>1 DEF Conflict
<1>6. \A s \in Requests : asks'[s] = IF s = r THEN None ELSE asks[s]
  BY <1>1, Typing
<1>7. asks' \in [Requests -> Nfts \cup {None}]
  BY <1>1, Typing
<1>8. /\ claims' \in [Nfts -> Pools \cup {None}] /\ claims'[k] = chain.pool[k]
      /\ \A j \in Nfts : j # k => claims'[j] = claims[j]
      /\ running' \in [Nfts -> Pools \cup {None}]
      /\ \A j \in Nfts : j # k => running'[j] = running[j]
  BY <1>1, <1>2, Typing
<1>9. /\ mem' \in [Nfts -> Slots]
      /\ \A j \in Nfts : j # k => mem'[j] = mem[j]
      /\ \A j \in Nfts : mem'[j] = "running" <=> mem[j] = "running"
  BY <1>1, <1>2, Typing DEF Slots
<1> HIDE DEF k
<1>10. PICK status \in Slots : status = mem[k]
  BY <1>2, Typing
<1>11. PICK new :
          /\ loops' = [loops EXCEPT ![l] = new]
          /\ new \in LoopType /\ new.pc = "signer"
          /\ new.key = k /\ new.orig = k /\ new.byHand /\ new.prev = status /\ new.nfts = {k}
          /\ ~new.handle /\ ~new.stopped /\ ~new.leaving
  <2>1. PICK new : new = ByHandLoop(k, status)
    OBVIOUS
  <2>2. loops' = [loops EXCEPT ![l] = new]
    BY <1>1, <1>10, <2>1 DEF ByHandLoop
  <2>3. /\ new \in LoopType /\ new.pc = "signer"
        /\ new.key = k /\ new.orig = k /\ new.byHand /\ new.prev = status /\ new.nfts = {k}
        /\ ~new.handle /\ ~new.stopped /\ ~new.leaving
    BY <1>2, <2>1, ManagedStarts
  <2> QED
    BY <2>2, <2>3
<1>12. /\ loops' \in [Loops -> LoopType] /\ loops'[l] = new
       /\ \A m \in Loops : m # l => loops'[m] = loops[m]
  BY <1>11, OneLoop
<1>13. Minted' = Minted /\ Minted \subseteq Nfts /\ None \notin Minted
  BY <1>1, Typing DEF Minted
<1>14. \A m \in Loops : (Fresh(m) \/ Holds(m) \/ ByHand(m) \/ Polls(m)) => Present(m)
  BY DEF Fresh, Holds, ByHand, Polls, Polling, Present
<1>15. ASSUME NEW m \in Loops, Present(m), loops[m].byHand
       PROVE  loops[m].orig # k /\ loops[m].orig \in Nfts /\ PoolOf(m) # chain.pool[k]
  <2>1. /\ ByHand(m) /\ claims[loops[m].orig] = PoolOf(m) /\ loops[m].orig \in Minted
        /\ loops[m].key \in Minted
    BY <1>15 DEF IInv, TablesOK, LoopOK, ByHand
  <2>2. PoolOf(m) # None /\ loops[m].orig \in Nfts
    BY <2>1 DEF Minted, PoolOf
  <2> QED
    BY <1>2, <1>5, <2>1, <2>2
<1>16. ASSUME NEW m \in Loops, Present(m) PROVE loops[m].key # k /\ loops[m].key \in Nfts
  <2>1. CASE loops[m].handle
    <3>1. loops[m].key \in Nfts /\ entries[loops[m].key] = m
      BY <1>13, <1>16, <2>1 DEF IInv, TablesOK, LoopOK
    <3> QED
      BY <1>2, <3>1, Typing
  <2>2. CASE ~loops[m].handle
    BY <1>3, <1>13, <1>15, <1>16, <2>2 DEF Fresh, PoolOf, IInv, LoopOK
  <2> QED
    BY <2>1, <2>2
<1>17. ASSUME NEW m \in Loops, Holds(m) PROVE PoolOf(m) # chain.pool[k]
  <2>1. CASE ~loops[m].handle
    BY <1>3, <1>15, <1>17, <2>1 DEF Holds, Fresh
  <2>2. CASE loops[m].handle
    <3>1. Polls(m)
      BY <1>17, <2>2 DEF Holds, Polls, IInv, LoopOK, Steps, TypeOK, Present
    <3>2. running[loops[m].key] = PoolOf(m)
      BY <1>14, <1>17, <2>2, <3>1 DEF IInv, TablesOK
    <3> QED
      BY <1>5, <1>14, <1>16, <1>17, <3>2
  <2> QED
    BY <2>1, <2>2
<1>18. /\ ~Present(l) /\ Present(l)' /\ Fresh(l)' /\ Holds(l)' /\ ByHand(l)' /\ ~Polls(l)'
       /\ ~Disowned(l)'
       /\ PoolOf(l)' = chain.pool[k]
  BY <1>1, <1>4, <1>11, <1>12
     DEF Present, Fresh, Holds, ByHand, Polls, Polling, Disowned, PoolOf
<1>19. \A m \in Loops : m # l =>
          /\ (Present(m)' <=> Present(m)) /\ (Fresh(m)' <=> Fresh(m))
          /\ (Holds(m)' <=> Holds(m)) /\ (ByHand(m)' <=> ByHand(m))
          /\ (Polls(m)' <=> Polls(m)) /\ (Disowned(m)' <=> Disowned(m))
          /\ PoolOf(m)' = PoolOf(m)
  BY <1>1, <1>12 DEF Present, Fresh, Holds, ByHand, Polls, Disowned, PoolOf
<1> HIDE DEF Minted
<1>20. TypeOK'
  BY <1>1, <1>7, <1>8, <1>9, <1>12 DEF IInv, TypeOK, LoopType
<1>21. PhaseOK'
  BY <1>1, <1>3, <1>11, <1>12, <1>13, <1>19 DEF IInv, PhaseOK
<1>22. \A m \in Loops : LoopOK(m)'
  <2> SUFFICES ASSUME NEW m \in Loops PROVE LoopOK(m)'
    OBVIOUS
  <2>1. CASE m = l
    BY <1>1, <1>2, <1>11, <1>12, <1>13, <1>18, <2>1 DEF LoopOK
  <2>2. CASE m # l
    BY <1>1, <1>12, <1>13, <1>19, <2>2 DEF IInv, LoopOK
  <2> QED
    BY <2>1, <2>2
<1>23. KeysOK'
  <2>1. \A m, n \in Loops : m # n /\ Present(m)' /\ Present(n)' =>
          /\ loops'[m].key # loops'[n].key
          /\ loops'[m].byHand => loops'[n].key # loops'[m].orig
    BY <1>11, <1>12, <1>15, <1>16, <1>19 DEF IInv, KeysOK
  <2>2. \A m, n \in Loops : Holds(m)' /\ Holds(n)' /\ PoolOf(m)' = PoolOf(n)' => m = n
    BY <1>14, <1>17, <1>18, <1>19 DEF IInv, KeysOK
  <2> QED
    BY <2>1, <2>2 DEF KeysOK
<1>24. TablesOK'
  <2>1. \A j \in Nfts : entries'[j] # None =>
          loops'[entries'[j]].pc \notin {"none", "over", "signer"} /\ loops'[entries'[j]].key = j
    <3> SUFFICES ASSUME NEW j \in Nfts, entries[j] # None
                 PROVE  /\ loops'[entries[j]].pc \notin {"none", "over", "signer"}
                        /\ loops'[entries[j]].key = j
      BY <1>1
    <3>1. /\ entries[j] \in Loops /\ loops[entries[j]].pc \notin {"none", "over", "signer"}
          /\ loops[entries[j]].key = j
      BY Typing DEF IInv, TablesOK, Present
    <3> QED
      BY <1>4, <1>12, <3>1
  <2>2. ASSUME NEW m \in Loops
        PROVE  /\ Present(m)' /\ loops'[m].handle => entries'[loops'[m].key] = m
               /\ Polls(m)' /\ entries'[loops'[m].key] = m => running'[loops'[m].key] = PoolOf(m)'
               /\ ByHand(m)' => claims'[loops'[m].orig] = PoolOf(m)'
    <3>1. CASE m = l
      BY <1>8, <1>11, <1>12, <1>18, <3>1
    <3>2. CASE m # l
      <4>1. ByHand(m) => loops[m].byHand
        BY DEF ByHand
      <4> QED
        BY <1>1, <1>8, <1>12, <1>14, <1>15, <1>16, <1>19, <3>2, <4>1 DEF IInv, TablesOK
    <3> QED
      BY <3>1, <3>2
  <2>3. \A j \in Nfts : claims'[j] # None => j \in Minted'
    BY <1>2, <1>8, <1>13 DEF IInv, TablesOK
  <2> QED
    BY <2>1, <2>2, <2>3, Zenon DEF TablesOK, Present
<1>25. AsksOK'
  BY <1>1, <1>2, <1>6, <1>8, <1>13 DEF IInv, AsksOK
<1>26. MintOK'
  <2>1. \A m, n \in Loops : {loops'[m].pc, loops'[n].pc} \subseteq {"moving", "minted"} => m = n
    BY <1>11, <1>12 DEF IInv, MintOK
  <2>2. ASSUME NEW m \in Loops, loops'[m].pc = "minted"
        PROVE  /\ m # l /\ loops[m].pc = "minted" /\ loops'[m].next = loops[m].next
               /\ loops[m].next # k /\ loops[m].next \in Nfts
    BY <1>11, <1>12, <1>13, <2>2 DEF IInv, MintOK, k
  <2>3. \A m, j \in Loops : loops'[m].pc = "minted" =>
          loops[m].next \notin loops'[j].nfts /\ (ByHand(j)' => loops'[j].orig # loops[m].next)
    BY <1>11, <1>12, <1>19, <2>2 DEF IInv, MintOK
  <2>4. \A m \in Loops, s \in Requests : loops'[m].pc = "minted" => asks'[s] # loops[m].next
    BY <1>6, <1>13, <2>2 DEF IInv, MintOK
  <2>5. ASSUME NEW m \in Loops, loops'[m].pc = "minted"
        PROVE  LET n == loops'[m].next IN
               /\ n \in Minted' /\ chain'.pool[n] = PoolOf(m)' /\ n \notin app'.todo
               /\ entries'[n] = None /\ claims'[n] = None
               /\ mem'[n] = "absent" /\ disk'[n] = "absent"
    <3>1. PICK n \in Nfts : n = loops[m].next /\ n # k /\ n = loops'[m].next
      BY <2>2, <2>5
    <3>2. /\ n \in Minted /\ chain.pool[n] = PoolOf(m) /\ n \notin app.todo
          /\ entries[n] = None /\ claims[n] = None
          /\ mem[n] = "absent" /\ disk[n] = "absent"
      BY <2>2, <2>5, <3>1 DEF IInv, MintOK
    <3>3. m # l
      BY <2>2, <2>5
    <3> QED
      BY <1>1, <1>8, <1>9, <1>13, <1>19, <3>1, <3>2, <3>3
  <2> QED
    BY <2>1, <2>2, <2>3, <2>4, <2>5 DEF MintOK
<1>m. MintedOK'
  BY <1>1, <1>2, <1>9, <1>13 DEF IInv, MintedOK
<1>27. LateRecords = FALSE => SlotsOK'
  <2> SUFFICES ASSUME LateRecords = FALSE PROVE SlotsOK'
    OBVIOUS
  <2>1. /\ app'.phase = "up"
        /\ \A j \in Nfts : disk'[j] = "running" => mem'[j] = "running"
    BY <1>1, <1>3, <1>9 DEF IInv, SlotsOK
  <2>2. ASSUME NEW m \in Loops
        PROVE  /\ Present(m)' /\ ~loops'[m].byHand /\ entries'[loops'[m].key] = m =>
                     mem'[loops'[m].key] = "running" /\ disk'[loops'[m].key] = "running"
               /\ Disowned(m)' =>
                     mem'[loops'[m].key] \in {"absent", "stopped"} /\ disk'[loops'[m].key] # "running"
               /\ ByHand(m)' /\ loops'[m].pc \in {"signer", "detect"} /\ loops'[m].prev # "running" =>
                     mem'[loops'[m].orig] # "running" /\ disk'[loops'[m].orig] # "running"
               /\ ByHand(m)' /\ loops'[m].key # loops'[m].orig =>
                     mem'[loops'[m].orig] # "running" /\ disk'[loops'[m].orig] # "running"
    <3>1. CASE m = l
      <4>1. loops'[m].prev # "running" => mem'[k] # "running" /\ disk'[k] # "running"
        BY <1>2, <1>9, <1>10, <1>11, <1>12, <2>1, <3>1
      <4>2. loops'[m].byHand /\ ~Disowned(m)' /\ loops'[m].orig = k /\ loops'[m].key = k
        BY <1>11, <1>12, <1>18, <3>1
      <4> QED
        BY <4>1, <4>2
    <3>2. CASE m # l
      <4>1. (ByHand(m) => loops[m].byHand) /\ (Disowned(m) => Present(m))
        BY DEF ByHand, Disowned, Fresh
      <4> QED
        BY <1>1, <1>9, <1>12, <1>14, <1>15, <1>16, <1>19, <3>2, <4>1 DEF IInv, SlotsOK
    <3> QED
      BY <3>1, <3>2
  <2> QED
    BY <2>1, <2>2 DEF SlotsOK
<1>28. LateRecords = FALSE => HistoryOK'
  <2> SUFFICES ASSUME LateRecords = FALSE PROVE HistoryOK'
    OBVIOUS
  <2>1. \A m \in Loops : loops[m].nfts \subseteq Nfts
    BY Typing DEF LoopType
  <2>2. \A j \in Nfts : Off(j) => Off(j)'
    BY <1>1, <1>9 DEF Off
  <2>3. \A m \in Loops : k \in loops[m].nfts => Off(k)
    BY <1>16 DEF IInv, HistoryOK
  <2>4. ASSUME NEW m \in Loops, NEW j \in loops'[m].nfts
        PROVE  Off(j)' \/ \E n \in Loops : Present(n)' /\ loops'[n].key = j
    <3>1. CASE m = l
      BY <1>11, <1>12, <1>18, <2>4, <3>1
    <3>2. CASE m # l
      <4>1. j \in loops[m].nfts /\ j \in Nfts
        BY <1>12, <2>1, <2>4, <3>2
      <4>2. \A n \in Loops : Present(n) /\ loops[n].key = j => Present(n)' /\ loops'[n].key = j
        BY <1>12, <1>18, <1>19
      <4> QED
        BY <2>2, <4>1, <4>2 DEF IInv, HistoryOK
    <3> QED
      BY <3>1, <3>2
  <2>5. ASSUME NEW i \in Loops, NEW m \in Loops, i # m, Fresh(m)',
               loops'[m].key \in loops'[i].nfts
        PROVE  loops'[m].byHand /\ loops'[m].prev # "running"
    <3>1. CASE m = l
      BY <1>10, <1>11, <1>12, <2>3, <2>5, <3>1 DEF Off
    <3>2. CASE m # l
      BY <1>11, <1>12, <1>14, <1>16, <1>19, <2>5, <3>2 DEF IInv, HistoryOK
    <3> QED
      BY <3>1, <3>2
  <2> QED
    BY <2>4, <2>5 DEF HistoryOK
<1> QED
  BY <1>20, <1>21, <1>22, <1>23, <1>24, <1>25, <1>26, <1>27, <1>28, <1>m DEF IInv

\* What a step leaves of a loop it moves on.
LEMMA OnePc ==
    ASSUME IInv, NEW l \in Loops, NEW to \in Steps, loops' = [loops EXCEPT ![l].pc = to]
    PROVE  /\ loops' \in [Loops -> LoopType] /\ loops'[l].pc = to
           /\ \A m \in Loops : m # l => loops'[m] = loops[m]
           /\ \A m \in Loops :
                 /\ loops'[m].key = loops[m].key /\ loops'[m].orig = loops[m].orig
                 /\ loops'[m].byHand = loops[m].byHand /\ loops'[m].prev = loops[m].prev
                 /\ loops'[m].handle = loops[m].handle /\ loops'[m].stopped = loops[m].stopped
                 /\ loops'[m].leaving = loops[m].leaving /\ loops'[m].next = loops[m].next
                 /\ loops'[m].nfts = loops[m].nfts
BY Typing DEF LoopType

LEMMA RegisterKeeps ==
    ASSUME IInv, NEW l \in Loops, Register(l) PROVE IInv'
<1> DEFINE k == loops[l].key
<1>1. loops[l].pc = "signer" /\ UNCHANGED <<chain, app, running, asks>>
  BY DEF Register
<1>2. /\ Present(l) /\ ByHand(l) /\ k = loops[l].orig /\ k \in Minted /\ k \in Nfts
      /\ ~loops[l].handle /\ loops[l].byHand /\ ~loops[l].stopped /\ ~loops[l].leaving
  BY <1>1, Typing DEF IInv, LoopOK, Present, ByHand, LoopType
<1>3. claims[k] # None
  BY <1>2, Typing DEF IInv, TablesOK, PoolOf, Minted
<1>4. entries[k] = None
  <2> SUFFICES ASSUME entries[k] # None PROVE FALSE
    OBVIOUS
  <2>1. entries[k] \in Loops /\ Present(entries[k]) /\ loops[entries[k]].key = k
        /\ loops[entries[k]].pc # "signer"
    BY <1>2, Records
  <2>2. entries[k] # l
    BY <1>1, <2>1
  <2> QED
    BY <1>2, <2>1, <2>2 DEF IInv, KeysOK
<1>5. /\ entries' = [entries EXCEPT ![k] = l]
      /\ loops' = [loops EXCEPT ![l].pc = "detect"]
      /\ UNCHANGED <<mem, disk, claims>>
  BY <1>4 DEF Register
<1>6. /\ entries' \in [Nfts -> Loops \cup {None}] /\ entries'[k] = l
      /\ \A j \in Nfts : j # k => entries'[j] = entries[j]
  BY <1>2, <1>5, Typing
<1>7. /\ loops' \in [Loops -> LoopType] /\ loops'[l].pc = "detect"
      /\ \A m \in Loops : m # l => loops'[m] = loops[m]
      /\ \A m \in Loops :
            /\ loops'[m].key = loops[m].key /\ loops'[m].orig = loops[m].orig
            /\ loops'[m].byHand = loops[m].byHand /\ loops'[m].prev = loops[m].prev
            /\ loops'[m].handle = loops[m].handle /\ loops'[m].stopped = loops[m].stopped
            /\ loops'[m].leaving = loops[m].leaving /\ loops'[m].next = loops[m].next
            /\ loops'[m].nfts = loops[m].nfts
  <2>1. "detect" \in Steps
    BY DEF Steps
  <2> QED
    BY <1>5, <2>1, OnePc
<1>8. \A m \in Loops : m # l /\ Present(m) => loops[m].key # k /\ loops[m].key \in Nfts
  BY <1>2, Typing DEF IInv, KeysOK, LoopOK
<1>9. \A m \in Loops : (Present(m)' <=> Present(m)) /\ (ByHand(m)' <=> ByHand(m))
         /\ (Fresh(m)' <=> Fresh(m)) /\ (Holds(m)' <=> Holds(m))
         /\ (Polls(m)' <=> Polls(m)) /\ PoolOf(m)' = PoolOf(m)
  BY <1>1, <1>7 DEF Present, ByHand, Fresh, Holds, Polls, Polling, PoolOf
<1>10. Minted' = Minted /\ Minted \subseteq Nfts
  BY <1>1, Typing DEF Minted
<1>11. \A m \in Loops : (Fresh(m) \/ Holds(m) \/ ByHand(m) \/ Polls(m)) => Present(m)
  BY DEF Fresh, Holds, ByHand, Polls, Polling, Present
<1>12. \A m \in Loops : Disowned(m)' => Disowned(m)
  BY <1>1, <1>6, <1>7, <1>8, <1>9, <1>11 DEF Disowned
<1> HIDE DEF k, Minted
<1>13. TypeOK'
  BY <1>1, <1>5, <1>6, <1>7 DEF IInv, TypeOK, LoopType
<1>14. PhaseOK'
  <2>1. app.phase = "up"
    BY <1>2 DEF IInv, PhaseOK
  <2> QED
    BY <1>1, <1>7, <1>9, <1>10, <2>1 DEF IInv, PhaseOK
<1>15. \A m \in Loops : LoopOK(m)'
  <2> SUFFICES ASSUME NEW m \in Loops PROVE LoopOK(m)'
    OBVIOUS
  <2>1. LoopOK(m) /\ (ByHand(m) => Present(m))
    BY DEF IInv, ByHand
  <2>2. CASE m = l
    BY <1>1, <1>2, <1>7, <1>9, <1>10, <2>1, <2>2 DEF LoopOK, k
  <2>3. CASE m # l
    BY <1>1, <1>6, <1>7, <1>8, <1>9, <1>10, <2>1, <2>3 DEF LoopOK
  <2> QED
    BY <2>2, <2>3
<1>16. KeysOK'
  BY <1>7, <1>9 DEF IInv, KeysOK
<1>17. TablesOK'
  <2>1. \A j \in Nfts : entries'[j] # None =>
          loops'[entries'[j]].pc \notin {"none", "over", "signer"} /\ loops'[entries'[j]].key = j
    <3> SUFFICES ASSUME NEW j \in Nfts, entries'[j] # None
                 PROVE  /\ loops'[entries'[j]].pc \notin {"none", "over", "signer"}
                        /\ loops'[entries'[j]].key = j
      OBVIOUS
    <3>1. CASE j = k
      BY <1>6, <1>7, <3>1 DEF k
    <3>2. CASE j # k
      <4>1. entries'[j] = entries[j] /\ entries[j] \in Loops
        BY <1>6, <3>2, Typing
      <4>2. /\ loops[entries[j]].pc \notin {"none", "over", "signer"}
            /\ loops[entries[j]].key = j
        BY <4>1 DEF IInv, TablesOK, Present
      <4> QED
        BY <1>1, <1>7, <4>1, <4>2
    <3> QED
      BY <3>1, <3>2
  <2>2. \A m \in Loops :
          /\ Present(m)' /\ loops'[m].handle => entries'[loops'[m].key] = m
          /\ Polls(m)' /\ entries'[loops'[m].key] = m => running'[loops'[m].key] = PoolOf(m)'
          /\ ByHand(m)' => claims'[loops'[m].orig] = PoolOf(m)'
    <3>1. ~Polls(l)
      BY <1>1 DEF Polls, Polling
    <3> QED
      BY <1>1, <1>2, <1>5, <1>6, <1>7, <1>8, <1>9, <1>11, <3>1 DEF IInv, TablesOK
  <2>3. \A j \in Nfts : claims'[j] # None => j \in Minted'
    BY <1>5, <1>10 DEF IInv, TablesOK
  <2> QED
    BY <2>1, <2>2, <2>3, Zenon DEF TablesOK, Present
<1>18. AsksOK'
  BY <1>1, <1>3, <1>5, <1>6, <1>10 DEF IInv, AsksOK
<1>19. MintOK'
  <2>1. \A m, n \in Loops : {loops'[m].pc, loops'[n].pc} \subseteq {"moving", "minted"} => m = n
    BY <1>7 DEF IInv, MintOK
  <2>2. \A m \in Loops : loops'[m].pc = "minted" =>
          loops[m].pc = "minted" /\ loops'[m].next = loops[m].next
          /\ loops[m].next # k /\ loops[m].next \in Nfts
    BY <1>3, <1>7, <1>10 DEF IInv, MintOK
  <2> QED
    BY <1>1, <1>5, <1>6, <1>7, <1>9, <1>10, <2>1, <2>2 DEF IInv, MintOK
<1>m. MintedOK'
  BY <1>5, <1>10 DEF IInv, MintedOK
<1>20. LateRecords = FALSE => SlotsOK'
  <2> SUFFICES ASSUME LateRecords = FALSE PROVE SlotsOK'
    OBVIOUS
  <2>1. \A m \in Loops : Present(m) /\ ~loops[m].byHand /\ entries'[loops[m].key] = m =>
          entries[loops[m].key] = m
    BY <1>2, <1>6, <1>8
  <2>2. \A m \in Loops : loops'[m].pc \in {"signer", "detect"} =>
          loops[m].pc \in {"signer", "detect"}
    BY <1>1, <1>7
  <2> QED
    BY <1>1, <1>5, <1>7, <1>9, <1>12, <2>1, <2>2 DEF IInv, SlotsOK
<1>21. LateRecords = FALSE => HistoryOK'
  <2> SUFFICES ASSUME LateRecords = FALSE PROVE HistoryOK'
    OBVIOUS
  <2>1. \A m \in Loops : loops[m].nfts \subseteq Nfts
    BY Typing DEF LoopType
  <2>2. \A j \in Nfts : Off(j) => Off(j)' \/ j = k
    BY <1>5, <1>6 DEF Off
  <2>3. Present(l)' /\ loops'[l].key = k
    BY <1>2, <1>7, <1>9 DEF k
  <2> QED
    BY <1>7, <1>9, <2>1, <2>2, <2>3 DEF IInv, HistoryOK
<1> QED
  BY <1>13, <1>14, <1>15, <1>16, <1>17, <1>18, <1>19, <1>20, <1>21, <1>m DEF IInv

LEMMA DetectKeeps ==
    ASSUME IInv, NEW l \in Loops, Detect(l) PROVE IInv'
<1> DEFINE k == loops[l].key
<1>1. /\ loops[l].pc = "detect" /\ loops' = [loops EXCEPT ![l].pc = "poll"]
      /\ running' = [running EXCEPT ![k] = chain.pool[k]]
      /\ UNCHANGED <<chain, mem, disk, app, entries, claims, asks>>
  BY DEF Detect
<1>2. Present(l) /\ k \in Minted /\ k \in Nfts /\ chain.pool[k] \in Pools \cup {None}
  BY <1>1, Typing DEF IInv, LoopOK, Present
<1>3. /\ loops' \in [Loops -> LoopType] /\ loops'[l].pc = "poll"
      /\ \A m \in Loops : m # l => loops'[m] = loops[m]
      /\ \A m \in Loops :
            /\ loops'[m].key = loops[m].key /\ loops'[m].orig = loops[m].orig
            /\ loops'[m].byHand = loops[m].byHand /\ loops'[m].prev = loops[m].prev
            /\ loops'[m].handle = loops[m].handle /\ loops'[m].stopped = loops[m].stopped
            /\ loops'[m].leaving = loops[m].leaving /\ loops'[m].next = loops[m].next
            /\ loops'[m].nfts = loops[m].nfts
  <2>1. "poll" \in Steps
    BY DEF Steps, Polling
  <2> QED
    BY <1>1, <2>1, OnePc
<1>4. /\ running' \in [Nfts -> Pools \cup {None}] /\ running'[k] = PoolOf(l)
      /\ \A j \in Nfts : j # k => running'[j] = running[j]
  BY <1>1, <1>2, Typing DEF PoolOf
<1>5. \A m \in Loops : m # l /\ Present(m) => loops[m].key # k /\ loops[m].key \in Nfts
  BY <1>2, Typing DEF IInv, KeysOK, LoopOK
<1>6. \A m \in Loops : (Present(m)' <=> Present(m)) /\ (ByHand(m)' <=> ByHand(m))
         /\ (Fresh(m)' <=> Fresh(m)) /\ (Holds(m)' <=> Holds(m))
         /\ (Disowned(m)' <=> Disowned(m)) /\ PoolOf(m)' = PoolOf(m)
         /\ (m # l => (Polls(m)' <=> Polls(m)))
  BY <1>1, <1>3 DEF Present, ByHand, Fresh, Holds, Polls, Polling, PoolOf, Disowned
<1>7. Minted' = Minted /\ Minted \subseteq Nfts
  BY <1>1, Typing DEF Minted
<1> HIDE DEF k, Minted
<1>8. TypeOK'
  BY <1>1, <1>3, <1>4 DEF IInv, TypeOK, LoopType
<1>9. PhaseOK'
  BY <1>1, <1>2, <1>3, <1>6, <1>7, NoLoopType DEF IInv, PhaseOK, Present
<1>10. \A m \in Loops : LoopOK(m)'
  <2> SUFFICES ASSUME NEW m \in Loops PROVE LoopOK(m)'
    OBVIOUS
  <2>1. LoopOK(m) /\ (ByHand(m) => Present(m))
    BY DEF IInv, ByHand
  <2>2. CASE m = l
    BY <1>1, <1>2, <1>3, <1>6, <1>7, <2>1, <2>2 DEF LoopOK
  <2>3. CASE m # l
    BY <1>1, <1>3, <1>6, <1>7, <2>1, <2>3 DEF LoopOK
  <2> QED
    BY <2>2, <2>3
<1>11. KeysOK'
  BY <1>3, <1>6 DEF IInv, KeysOK
<1>12. TablesOK'
  <2>1. \A j \in Nfts : entries'[j] # None =>
          loops'[entries'[j]].pc \notin {"none", "over", "signer"} /\ loops'[entries'[j]].key = j
    BY <1>1, <1>3, Typing DEF IInv, TablesOK, Present
  <2>2. \A m \in Loops : Polls(m) => Present(m)
    BY DEF Polls, Polling, Present
  <2>3. \A m \in Loops :
          Polls(m)' /\ entries'[loops'[m].key] = m => running'[loops'[m].key] = PoolOf(m)'
    BY <1>1, <1>3, <1>4, <1>5, <1>6, <2>2 DEF IInv, TablesOK, k
  <2>4. \A m \in Loops :
          /\ Present(m)' /\ loops'[m].handle => entries'[loops'[m].key] = m
          /\ ByHand(m)' => claims'[loops'[m].orig] = PoolOf(m)'
    BY <1>1, <1>3, <1>6 DEF IInv, TablesOK
  <2>5. \A j \in Nfts : claims'[j] # None => j \in Minted'
    BY <1>1, <1>7 DEF IInv, TablesOK
  <2> QED
    BY <2>1, <2>3, <2>4, <2>5, Zenon DEF TablesOK, Present
<1>13. AsksOK'
  BY <1>1, <1>7 DEF IInv, AsksOK
<1>14. MintOK'
  BY <1>1, <1>3, <1>6, <1>7 DEF IInv, MintOK
<1>m. MintedOK'
  BY <1>1, <1>7 DEF IInv, MintedOK
<1>15. LateRecords = FALSE => SlotsOK'
  BY <1>1, <1>3, <1>6, <1>7 DEF IInv, SlotsOK
<1>16. LateRecords = FALSE => HistoryOK'
  BY <1>1, <1>3, <1>6 DEF IInv, HistoryOK, Off
<1> QED
  BY <1>8, <1>9, <1>10, <1>11, <1>12, <1>13, <1>14, <1>15, <1>16, <1>m DEF IInv

-----------------------------------------------------------------------------
(* Each step keeps the invariant: ends. *)

\* The loop l becomes x, one that is over: what its key k, and the key o its Manage began with,
\* hold is taken away, and (LateRecords = FALSE) if another loop has had one of them, or x remembers it, they are no
\* longer managed.
EndOf(l, x, k, o) ==
    /\ Present(l) /\ x \in LoopType /\ loops' = [loops EXCEPT ![l] = x]
    /\ x.pc \in {"none", "over"} /\ (x.pc = "none" => x = NoLoop) /\ ~x.handle /\ ~x.byHand
    /\ x.pc = "over" => x.key \in Nfts
    /\ x.nfts \subseteq loops[l].nfts
    /\ k = loops[l].key
    /\ (loops[l].byHand => o = loops[l].orig) /\ (~loops[l].byHand => o = k)
    /\ UNCHANGED <<chain, app, asks>>
    /\ entries' \in [Nfts -> Loops \cup {None}]
    /\ \A j \in Nfts : entries'[j] = IF entries[j] = l THEN None ELSE entries[j]
    /\ running' \in [Nfts -> Pools \cup {None}]
    /\ \A j \in Nfts : j \notin {k, o} => running'[j] = running[j]
    /\ claims' \in [Nfts -> Pools \cup {None}]
    /\ \A j \in Nfts : claims'[j] = IF loops[l].byHand /\ j = o THEN None ELSE claims[j]
    /\ mem' \in [Nfts -> Slots] /\ disk' \in [Nfts -> Slots]
    /\ \A j \in Nfts : j \notin {k, o} => mem'[j] = mem[j] /\ disk'[j] \in {mem[j], disk[j]}
    /\ LateRecords = FALSE =>
          /\ \A j \in {k, o} : disk'[j] = "running" => mem'[j] = "running"
          /\ app.phase # "up" => mem' = disk'
          /\ \A j \in {k, o} : (j \in x.nfts \/ \E m \in Loops : m # l /\ j \in loops[m].nfts) =>
                mem'[j] # "running" /\ disk'[j] # "running"

LEMMA LoopLeaves ==
    ASSUME IInv, NEW l \in Loops, NEW x, NEW k, NEW o, EndOf(l, x, k, o)
    PROVE  IInv'
<1> USE DEF EndOf
<1>1. /\ loops' \in [Loops -> LoopType] /\ loops'[l] = x
      /\ \A m \in Loops : m # l => loops'[m] = loops[m]
  BY OneLoop
<1>2. Minted' = Minted /\ Minted \subseteq Nfts
  BY Typing DEF Minted
<1>3. k \in Minted /\ o \in Minted /\ k \in Nfts /\ o \in Nfts
  BY <1>2 DEF IInv, LoopOK, ByHand
<1>4. \A m \in Loops : m # l /\ Present(m) => loops[m].key \notin {k, o} /\ loops[m].key \in Nfts
  BY <1>2 DEF IInv, KeysOK, LoopOK
<1>5. \A m \in Loops : m # l /\ ByHand(m) =>
         /\ loops[m].orig # k /\ loops[m].orig \in Nfts
         /\ loops[m].orig # o \/ ~loops[l].byHand
  <2> SUFFICES ASSUME NEW m \in Loops, m # l, ByHand(m)
               PROVE  /\ loops[m].orig # k /\ loops[m].orig \in Nfts
                      /\ loops[m].orig # o \/ ~loops[l].byHand
    OBVIOUS
  <2>1. loops[m].orig # k /\ loops[m].orig \in Nfts
    BY <1>2 DEF IInv, KeysOK, LoopOK, ByHand
  <2>2. ASSUME loops[l].byHand, loops[m].orig = o PROVE FALSE
    <3>1. /\ ByHand(l) /\ claims[o] = PoolOf(l) /\ claims[o] = PoolOf(m)
      BY <2>2 DEF IInv, TablesOK, ByHand
    <3>2. Holds(l) /\ Holds(m)
      BY <2>2 DEF Holds, ByHand, IInv, LoopOK
    <3> QED
      BY <3>1, <3>2 DEF IInv, KeysOK
  <2> QED
    BY <2>1, <2>2
<1>6. /\ ~Present(l)' /\ ~Fresh(l)' /\ ~Holds(l)' /\ ~ByHand(l)' /\ ~Polls(l)' /\ ~Disowned(l)'
  BY <1>1 DEF Present, Fresh, Holds, ByHand, Polls, Polling, Disowned
<1>7. \A m \in Loops : m # l =>
         /\ (Present(m)' <=> Present(m)) /\ (Fresh(m)' <=> Fresh(m))
         /\ (Holds(m)' <=> Holds(m)) /\ (ByHand(m)' <=> ByHand(m))
         /\ (Polls(m)' <=> Polls(m)) /\ PoolOf(m)' = PoolOf(m)
  BY <1>1 DEF Present, Fresh, Holds, ByHand, Polls, PoolOf
<1>8. \A m \in Loops : (Fresh(m) \/ Holds(m) \/ ByHand(m) \/ Polls(m)) => Present(m)
  BY DEF Fresh, Holds, ByHand, Polls, Polling, Present
<1>9. \A j \in Nfts, m \in Loops : m # l => (entries'[j] = m <=> entries[j] = m)
  BY Typing
<1>10. \A j \in Nfts : entries[j] = None => entries'[j] = None
  BY Typing
<1>11. entries'[k] = None /\ entries'[o] = None
  <2> SUFFICES ASSUME NEW j \in {k, o}, entries[j] # None PROVE entries[j] = l
    BY <1>3
  <2>1. entries[j] \in Loops /\ Present(entries[j]) /\ loops[entries[j]].key = j
    BY <1>3, Typing DEF IInv, TablesOK
  <2> QED
    BY <1>4, <2>1
<1>12. \A m \in Loops : m # l => (Disowned(m)' => Disowned(m))
  BY <1>1, <1>4, <1>7, <1>8, <1>9 DEF Disowned
<1> HIDE DEF Minted
<1>13. TypeOK'
  BY <1>1 DEF IInv, TypeOK, LoopType
<1>14. PhaseOK'
  <2>1. app.phase # "up" => \A j \in Nfts : claims'[j] = None
    BY Typing DEF IInv, PhaseOK
  <2>2. app.phase \in {"locked", "listed"} => \A m \in Loops : loops'[m] = NoLoop
    BY NoLoopType DEF IInv, PhaseOK, Present
  <2>3. app.phase = "up" => \A m \in Loops : Fresh(m)' => loops'[m].byHand
    BY <1>1, <1>6, <1>7 DEF IInv, PhaseOK
  <2>4. app.phase = "startup" =>
          /\ \A h, j \in app.todo : chain.pool[h] = chain.pool[j] => h = j
          /\ \A m \in Loops, j \in app.todo : Present(m)' => PoolOf(m)' # chain.pool[j]
    BY <1>6, <1>7 DEF IInv, PhaseOK
  <2>5. app.phase # "up" => \A m \in Loops : ~loops'[m].byHand
    BY <1>1 DEF IInv, PhaseOK
  <2>6. /\ app.todo \subseteq Minted
        /\ app.phase # "up" => \A r \in Requests : asks[r] = None
    BY DEF IInv, PhaseOK
  <2> QED
    BY <1>2, <2>1, <2>2, <2>3, <2>4, <2>5, <2>6 DEF PhaseOK
<1>15. \A m \in Loops : LoopOK(m)'
  <2> SUFFICES ASSUME NEW m \in Loops PROVE LoopOK(m)'
    OBVIOUS
  <2>1. LoopOK(m)
    BY DEF IInv
  <2>2. CASE m = l
    BY <1>1, <1>2, <1>6, <2>1, <2>2 DEF LoopOK
  <2>3. CASE m # l
    BY <1>1, <1>2, <1>4, <1>7, <1>8, <1>9, <2>1, <2>3 DEF LoopOK
  <2> QED
    BY <2>2, <2>3
<1>16. KeysOK'
  BY <1>1, <1>6, <1>7 DEF IInv, KeysOK
<1>17. TablesOK'
  <2>1. \A j \in Nfts : entries'[j] # None =>
          loops'[entries'[j]].pc \notin {"none", "over", "signer"} /\ loops'[entries'[j]].key = j
    <3> SUFFICES ASSUME NEW j \in Nfts, entries'[j] # None
                 PROVE  /\ loops'[entries'[j]].pc \notin {"none", "over", "signer"}
                        /\ loops'[entries'[j]].key = j
      OBVIOUS
    <3>1. entries'[j] = entries[j] /\ entries[j] \in Loops /\ entries[j] # l
      BY Typing
    <3>2. loops[entries[j]].pc \notin {"none", "over", "signer"} /\ loops[entries[j]].key = j
      BY <3>1 DEF IInv, TablesOK, Present
    <3> QED
      BY <1>1, <3>1, <3>2
  <2>2. \A m \in Loops : ByHand(m)' => claims'[loops'[m].orig] = PoolOf(m)'
    BY <1>1, <1>5, <1>6, <1>7 DEF IInv, TablesOK
  <2>3. \A m \in Loops :
          /\ Present(m)' /\ loops'[m].handle => entries'[loops'[m].key] = m
          /\ Polls(m)' /\ entries'[loops'[m].key] = m => running'[loops'[m].key] = PoolOf(m)'
    BY <1>1, <1>4, <1>6, <1>7, <1>8, <1>9 DEF IInv, TablesOK
  <2>4. \A j \in Nfts : claims'[j] # None => j \in Minted'
    BY <1>2 DEF IInv, TablesOK
  <2> QED
    BY <2>1, <2>2, <2>3, <2>4, Zenon DEF TablesOK, Present
<1>18. AsksOK'
  BY <1>2, <1>10 DEF IInv, AsksOK
<1>19. MintOK'
  <2>1. \A m, n \in Loops : {loops'[m].pc, loops'[n].pc} \subseteq {"moving", "minted"} => m = n
    BY <1>1 DEF IInv, MintOK
  <2>2. ASSUME NEW m \in Loops, loops'[m].pc = "minted"
        PROVE  /\ m # l /\ loops[m].pc = "minted" /\ loops'[m].next = loops[m].next
               /\ loops[m].next \notin {k, o} /\ loops[m].next \in Nfts
    BY <1>1, <1>2, <2>2 DEF IInv, MintOK, LoopOK, ByHand
  <2> QED
    BY <1>1, <1>2, <1>6, <1>7, <1>10, <2>1, <2>2 DEF IInv, MintOK
<1>m. MintedOK'
  BY <1>2, <1>3 DEF IInv, MintedOK
<1>20. LateRecords = FALSE => SlotsOK'
  <2> SUFFICES ASSUME LateRecords = FALSE PROVE SlotsOK'
    OBVIOUS
  <2>1. /\ app'.phase # "up" => mem' = disk'
        /\ \A j \in Nfts : disk'[j] = "running" => mem'[j] = "running"
    BY DEF IInv, SlotsOK
  <2>2. ASSUME NEW m \in Loops
        PROVE  /\ Present(m)' /\ ~loops'[m].byHand /\ entries'[loops'[m].key] = m =>
                     mem'[loops'[m].key] = "running" /\ disk'[loops'[m].key] = "running"
               /\ Disowned(m)' =>
                     mem'[loops'[m].key] \in {"absent", "stopped"} /\ disk'[loops'[m].key] # "running"
    BY <1>1, <1>4, <1>6, <1>7, <1>8, <1>9, <1>12 DEF IInv, SlotsOK, Disowned
  <2>3. ASSUME NEW m \in Loops, ByHand(m)',
               \/ loops'[m].pc \in {"signer", "detect"} /\ loops'[m].prev # "running"
               \/ loops'[m].key # loops'[m].orig
        PROVE  mem'[loops'[m].orig] # "running" /\ disk'[loops'[m].orig] # "running"
    <3>1. m # l /\ ByHand(m) /\ loops[m].byHand
      BY <1>6, <1>7, <2>3 DEF ByHand
    <3>2. loops[m].orig \notin {k, o} /\ loops[m].orig \in Nfts
      BY <1>5, <3>1
    <3> QED
      BY <1>1, <2>3, <3>1, <3>2 DEF IInv, SlotsOK
  <2> QED
    BY <2>1, <2>2, <2>3 DEF SlotsOK
<1>21. LateRecords = FALSE => HistoryOK'
  <2> SUFFICES ASSUME LateRecords = FALSE PROVE HistoryOK'
    OBVIOUS
  <2>1. \A m \in Loops : loops[m].nfts \subseteq Nfts /\ loops'[m].nfts \subseteq loops[m].nfts
    BY <1>1, Typing DEF LoopType
  <2>2. \A j \in Nfts : j \notin {k, o} /\ Off(j) => Off(j)'
    BY <1>10 DEF Off
  <2>3. ASSUME NEW m \in Loops, NEW j \in loops'[m].nfts
        PROVE  Off(j)' \/ \E n \in Loops : Present(n)' /\ loops'[n].key = j
    <3>1. j \in loops[m].nfts /\ j \in Nfts
      BY <2>1, <2>3
    <3>2. CASE j \in {k, o}
      BY <1>1, <1>11, <2>3, <3>1, <3>2 DEF Off
    <3>3. CASE j \notin {k, o}
      <4>1. \A n \in Loops : Present(n) /\ loops[n].key = j => n # l
        BY <3>3
      <4> QED
        BY <1>1, <1>7, <2>2, <3>1, <3>3, <4>1 DEF IInv, HistoryOK
    <3> QED
      BY <3>2, <3>3
  <2>4. \A i, m \in Loops : i # m /\ Fresh(m)' /\ loops'[m].key \in loops'[i].nfts =>
          loops'[m].byHand /\ loops'[m].prev # "running"
    BY <1>1, <1>6, <1>7, <2>1 DEF IInv, HistoryOK
  <2> QED
    BY <2>3, <2>4 DEF HistoryOK
<1> QED
  BY <1>13, <1>14, <1>15, <1>16, <1>17, <1>18, <1>19, <1>20, <1>21, <1>m DEF IInv

LEMMA DroppedFacts ==
    ASSUME IInv, NEW l \in Loops, entries' = Dropped(l)
    PROVE  /\ \A j \in Nfts : entries'[j] = IF entries[j] = l THEN None ELSE entries[j]
           /\ entries' \in [Nfts -> Loops \cup {None}]
BY Typing DEF Dropped

\* What a failed start leaves of the settings.
LEMMA RolledBackFacts ==
    ASSUME IInv, NEW l \in Loops, loops[l].key \in Nfts, loops[l].orig \in Nfts
    PROVE  /\ RolledBack(l) \in [Nfts -> Slots]
           /\ \A j \in Nfts : j \notin {loops[l].key, loops[l].orig} => RolledBack(l)[j] = mem[j]
           /\ loops[l].orig # loops[l].key =>
                 RolledBack(l)[loops[l].orig] \in {"absent", mem[loops[l].orig]}
           /\ loops[l].orig # loops[l].key =>
                 RolledBack(l)[loops[l].key] \in {mem[loops[l].key], loops[l].prev}
           /\ loops[l].orig = loops[l].key =>
                 RolledBack(l)[loops[l].key] \in {"absent", loops[l].prev}
           /\ loops[l].prev = "running" /\ mem[loops[l].key] = "running" =>
                 RolledBack(l)[loops[l].key] = "running"
<1>1. mem \in [Nfts -> Slots] /\ loops[l].prev \in Slots /\ "absent" \in Slots
  BY Typing DEF LoopType, Slots
<1>2. CASE loops[l].prev = "absent"
  BY <1>1, <1>2 DEF RolledBack
<1>3. CASE loops[l].prev # "absent"
  BY <1>1, <1>3 DEF RolledBack, SetStatus
<1> QED
  BY <1>2, <1>3


\* What is left of a loop nobody asked to stop.
LEMMA OverFacts ==
    ASSUME IInv, NEW l \in Loops, Present(l), NEW x, x = Over(l)
    PROVE  /\ x \in LoopType /\ x.pc \in {"none", "over"} /\ (x.pc = "none" => x = NoLoop)
           /\ ~x.handle /\ ~x.byHand /\ (x.pc = "over" => x.key \in Nfts) /\ x.nfts = {}
<1>1. /\ NoLoop \in LoopType /\ NoLoop.pc = "none" /\ ~NoLoop.handle /\ ~NoLoop.byHand
      /\ NoLoop.nfts = {} /\ "over" \in Steps
  BY NoLoopType DEF Steps
<1>2. loops[l].key \in Nfts
  BY Typing DEF IInv, LoopOK
<1>3. CASE LateRecords = FALSE
  BY <1>1, <1>3 DEF Over
<1>4. CASE LateRecords # FALSE
  <2>1. x = [NoLoop EXCEPT !.pc = "over", !.key = loops[l].key]
    BY <1>4, RegistryAssumption DEF Over
  <2> QED
    BY <1>1, <1>2, <2>1 DEF LoopType
<1> QED
  BY <1>3, <1>4

LEMMA StartFailsKeeps ==
    ASSUME IInv, NEW l \in Loops, StartFails(l) PROVE IInv'
<1> DEFINE k == loops[l].key
<1>1. /\ loops[l].pc \in {"signer", "detect"}
      /\ loops' = [loops EXCEPT ![l] = NoLoop] /\ entries' = Dropped(l)
      /\ UNCHANGED <<chain, disk, app, asks>>
  BY DEF StartFails
<1>2. /\ Present(l) /\ Fresh(l) /\ k \in Minted /\ k \in Nfts
      /\ loops[l].byHand => ByHand(l) /\ loops[l].orig = k
  BY <1>1, Typing DEF IInv, LoopOK, Present, Fresh, ByHand
<1>3. /\ NoLoop \in LoopType /\ NoLoop.pc = "none" /\ ~NoLoop.handle
      /\ ~NoLoop.byHand /\ NoLoop.nfts \subseteq loops[l].nfts /\ NoLoop.nfts = {}
  BY NoLoopType
<1>4. mem \in [Nfts -> Slots] /\ disk \in [Nfts -> Slots] /\ None \in Pools \cup {None}
  BY Typing
<1>5. LateRecords = FALSE => \A m \in Loops : m # l /\ k \in loops[m].nfts =>
         loops[l].byHand /\ loops[l].prev # "running"
  BY <1>2 DEF IInv, HistoryOK
<1>6. CASE loops[l].byHand
  <2>1. /\ mem' = RolledBack(l) /\ running' = [running EXCEPT ![k] = None]
        /\ claims' = [claims EXCEPT ![k] = None]
    BY <1>2, <1>6 DEF StartFails
  <2>2. /\ mem' \in [Nfts -> Slots] /\ mem'[k] \in {"absent", loops[l].prev}
        /\ \A j \in Nfts : j # k => mem'[j] = mem[j]
        /\ loops[l].prev = "running" /\ mem[k] = "running" => mem'[k] = "running"
    BY <1>2, <1>6, <2>1, RolledBackFacts
  <2>3. LateRecords = FALSE /\ loops[l].prev # "running" => mem'[k] # "running" /\ disk[k] # "running"
    BY <1>1, <1>2, <1>6, <2>2 DEF IInv, SlotsOK
  <2>4. LateRecords = FALSE /\ disk[k] = "running" => mem'[k] = "running"
    BY <1>2, <2>2, <2>3 DEF IInv, SlotsOK
  <2>5. app.phase = "up"
    BY <1>6 DEF IInv, PhaseOK
  <2>6. /\ running' \in [Nfts -> Pools \cup {None}] /\ claims' \in [Nfts -> Pools \cup {None}]
        /\ \A j \in Nfts : j # k => running'[j] = running[j]
        /\ \A j \in Nfts : claims'[j] = IF j = k THEN None ELSE claims[j]
    BY <1>2, <2>1, Typing
  <2> HIDE DEF k
  <2>7. PICK o : o = IF loops[l].byHand THEN loops[l].orig ELSE k
    OBVIOUS
  <2>8. o = k
    BY <1>2, <1>6, <2>7
  <2>9. k = loops[l].key
    BY DEF k
  <2>10. EndOf(l, NoLoop, k, o)
    BY <1>1, <1>2, <1>3, <1>4, <1>5, <1>6, <2>2, <2>3, <2>4, <2>5, <2>6, <2>7, <2>8, <2>9,
       DroppedFacts DEF EndOf
  <2> QED
    BY <2>10, LoopLeaves
<1>7. CASE ~loops[l].byHand
  <2>1. UNCHANGED <<mem, running, claims>>
    BY <1>7 DEF StartFails
  <2>2. LateRecords = FALSE =>
          /\ \A j \in Nfts : disk[j] = "running" => mem[j] = "running"
          /\ app.phase # "up" => mem = disk
    BY DEF IInv, SlotsOK
  <2> HIDE DEF k
  <2>3. k = loops[l].key /\ k = IF loops[l].byHand THEN loops[l].orig ELSE k
    BY <1>7 DEF k
  <2>4. EndOf(l, NoLoop, k, k)
    BY <1>1, <1>2, <1>3, <1>4, <1>5, <1>7, <2>1, <2>2, <2>3, Typing, DroppedFacts DEF EndOf
  <2> QED
    BY <2>4, LoopLeaves
<1> QED
  BY <1>6, <1>7

LEMMA StartDisownedKeeps ==
    ASSUME IInv, NEW l \in Loops, StartDisowned(l) PROVE IInv'
<1> DEFINE k == loops[l].key
<1>x. PICK x : x = Over(l)
  OBVIOUS
<1>1. /\ loops[l].pc \in Polling \ {"minted"} /\ ~loops[l].handle /\ ~Recorded(l)
      /\ loops' = [loops EXCEPT ![l] = x]
      /\ running' = [j \in Nfts |->
             IF j = k \/ (loops[l].byHand /\ j = loops[l].orig) THEN None ELSE running[j]]
      /\ UNCHANGED <<chain, disk, app, entries, asks>>
  BY <1>x DEF StartDisowned
<1>2. Present(l) /\ Fresh(l) /\ k \in Minted /\ k \in Nfts /\ loops[l].pc # "signer"
  BY <1>1, Typing DEF IInv, LoopOK, Present, Fresh, Polling
<1>3. /\ x \in LoopType /\ x.pc \in {"none", "over"} /\ (x.pc = "none" => x = NoLoop)
      /\ ~x.handle /\ ~x.byHand /\ (x.pc = "over" => x.key \in Nfts)
      /\ x.nfts \subseteq loops[l].nfts /\ x.nfts = {}
  BY <1>2, <1>x, OverFacts
<1>4. mem \in [Nfts -> Slots] /\ disk \in [Nfts -> Slots] /\ None \in Pools \cup {None}
      /\ entries \in [Nfts -> Loops \cup {None}]
  BY Typing
<1>5. LateRecords = FALSE => \A m \in Loops : m # l /\ k \in loops[m].nfts =>
         loops[l].byHand /\ loops[l].prev # "running"
  BY <1>2 DEF IInv, HistoryOK
<1>6. \A j \in Nfts : entries[j] # l
  BY <1>1 DEF Recorded
<1>7. LateRecords = FALSE => mem[k] \in {"absent", "stopped"} /\ disk[k] # "running"
  BY <1>2, <1>6 DEF Disowned, IInv, SlotsOK
<1>8. \A j \in Nfts : entries'[j] = IF entries[j] = l THEN None ELSE entries[j]
  BY <1>1, <1>6
<1>9. PICK o : o = IF loops[l].byHand THEN loops[l].orig ELSE k
  OBVIOUS
<1>10. o \in Nfts
  BY <1>2, <1>9, Typing DEF IInv, LoopOK, ByHand
<1>11. /\ running' \in [Nfts -> Pools \cup {None}]
       /\ \A j \in Nfts : j \notin {k, o} => running'[j] = running[j]
  BY <1>1, <1>9, Typing
<1>12. LateRecords = FALSE => \A j \in Nfts : disk[j] = "running" => mem[j] = "running"
  BY DEF IInv, SlotsOK
<1>13. CASE loops[l].byHand
  <2>1. mem' = RolledBack(l) /\ claims' = [claims EXCEPT ![o] = None] /\ o = loops[l].orig
    BY <1>9, <1>13 DEF StartDisowned
  <2>2. /\ mem' \in [Nfts -> Slots]
        /\ \A j \in Nfts : j \notin {k, o} => mem'[j] = mem[j]
        /\ o # k => mem'[o] \in {"absent", mem[o]} /\ mem'[k] \in {mem[k], loops[l].prev}
        /\ o = k => mem'[k] \in {"absent", loops[l].prev}
    BY <1>2, <1>10, <2>1, RolledBackFacts
  <2>3. LateRecords = FALSE /\ o # k => mem[o] # "running" /\ disk[o] # "running"
    BY <1>2, <1>13, <2>1 DEF ByHand, IInv, SlotsOK
  <2>4. LateRecords = FALSE => \A j \in {k, o} : disk[j] # "running"
    BY <1>7, <2>3
  <2>5. LateRecords = FALSE =>
          \A j \in {k, o} : (\E m \in Loops : m # l /\ j \in loops[m].nfts) => mem'[j] # "running"
    <3> SUFFICES ASSUME LateRecords = FALSE
                 PROVE  \A j \in {k, o} :
                          (\E m \in Loops : m # l /\ j \in loops[m].nfts) => mem'[j] # "running"
      OBVIOUS
    <3>1. o # k => mem'[o] # "running"
      BY <2>2, <2>3
    <3>2. loops[l].prev # "running" => mem'[k] # "running"
      BY <1>7, <2>2
    <3> QED
      BY <1>5, <3>1, <3>2
  <2>6. app.phase = "up"
    BY <1>13 DEF IInv, PhaseOK
  <2>7. /\ claims' \in [Nfts -> Pools \cup {None}]
        /\ \A j \in Nfts : claims'[j] = IF j = o THEN None ELSE claims[j]
    BY <1>10, <2>1, Typing
  <2> HIDE DEF k
  <2>8. k = loops[l].key
    BY DEF k
  <2>9. EndOf(l, x, k, o)
    BY <1>1, <1>2, <1>3, <1>4, <1>8, <1>9, <1>11, <1>13, <2>1, <2>2, <2>4, <2>5, <2>6, <2>7, <2>8
       DEF EndOf
  <2> QED
    BY <2>9, LoopLeaves
<1>14. CASE ~loops[l].byHand
  <2>1. UNCHANGED <<mem, claims>> /\ o = k
    BY <1>9, <1>14 DEF StartDisowned
  <2>2. LateRecords = FALSE => (app.phase # "up" => mem = disk)
    BY DEF IInv, SlotsOK
  <2> HIDE DEF k
  <2>3. k = loops[l].key
    BY DEF k
  <2>4. EndOf(l, x, k, k)
    BY <1>1, <1>2, <1>3, <1>4, <1>5, <1>8, <1>9, <1>11, <1>12, <1>14, <2>1, <2>2, <2>3, Typing
       DEF EndOf
  <2> QED
    BY <2>4, LoopLeaves
<1> QED
  BY <1>13, <1>14

\* Taking a position off saves the list without it.
LEMMA TakenOffFacts ==
    ASSUME IInv, NEW k \in Nfts, TakenOff(k)
    PROVE  /\ mem' \in [Nfts -> Slots] /\ disk' \in [Nfts -> Slots]
           /\ LateRecords = FALSE => disk' = mem'
           /\ mem'[k] \in {"absent", "stopped"}
           /\ mem'[k] # "absent" => mem[k] # "absent"
           /\ \A j \in Nfts : j # k => mem'[j] = mem[j]
           /\ \A j \in Nfts : disk'[j] \in {mem'[j], disk[j]}
           /\ running' \in [Nfts -> Pools \cup {None}]
           /\ \A j \in Nfts : j # k => running'[j] = running[j]
<1> DEFINE off == OffList(mem, {k})
<1>1. mem \in [Nfts -> Slots] /\ disk \in [Nfts -> Slots]
  BY Typing
<1>2. /\ off \in [Nfts -> Slots] /\ off[k] \in {"absent", "stopped"}
      /\ off[k] # "absent" => mem[k] # "absent"
      /\ mem[k] = "running" => off[k] = "stopped"
      /\ \A j \in Nfts : j # k => off[j] = mem[j]
  BY <1>1 DEF OffList, SetStatus, Slots
<1> HIDE DEF off
<1>3. LateRecords = FALSE => Saved(off, disk) = off
  BY <1>1, <1>2, SavedAll DEF IInv, SlotsOK
<1>4. /\ mem' = off /\ disk' \in [Nfts -> Slots]
      /\ LateRecords = FALSE => disk' = off
      /\ \A j \in Nfts : disk'[j] \in {off[j], disk[j]}
  BY <1>1, <1>2, <1>3, SavedEach DEF TakenOff, Write, off
<1>5. /\ running' \in [Nfts -> Pools \cup {None}]
      /\ \A j \in Nfts : j # k => running'[j] = running[j]
  BY Typing DEF TakenOff
<1> QED
  BY <1>2, <1>4, <1>5

\* A loop whose start has ended ends, and its position comes off the list.
LEMMA HandleLeaves ==
    ASSUME IInv, NEW l \in Loops, Present(l), loops[l].handle,
           NEW x \in LoopType, loops' = [loops EXCEPT ![l] = x],
           x.pc \in {"none", "over"}, x.pc = "none" => x = NoLoop, ~x.handle, ~x.byHand,
           x.pc = "over" => x.key \in Nfts,
           x.nfts \subseteq loops[l].nfts,
           entries' = Dropped(l), TakenOff(loops[l].key), UNCHANGED <<chain, app, claims, asks>>
    PROVE  IInv'
<1>1. PICK k \in Nfts : k = loops[l].key
  BY Typing DEF IInv, LoopOK
<1>2. ~loops[l].byHand /\ k = IF loops[l].byHand THEN loops[l].orig ELSE k
  BY DEF IInv, LoopOK
<1>3. /\ mem' \in [Nfts -> Slots] /\ disk' \in [Nfts -> Slots]
      /\ LateRecords = FALSE => disk' = mem'
      /\ mem'[k] \in {"absent", "stopped"}
      /\ \A j \in Nfts : j # k => mem'[j] = mem[j] /\ disk'[j] \in {mem[j], disk[j]}
      /\ running' \in [Nfts -> Pools \cup {None}]
      /\ \A j \in Nfts : j # k => running'[j] = running[j]
  BY <1>1, TakenOffFacts
<1>4. /\ claims' \in [Nfts -> Pools \cup {None}] /\ disk' \in [Nfts -> Slots]
      /\ \A j \in Nfts : claims'[j] = claims[j]
  BY <1>3, Typing
<1>5. LateRecords = FALSE => (app.phase # "up" => mem' = disk')
  BY <1>3
<1>6. EndOf(l, x, k, k)
  BY <1>1, <1>2, <1>3, <1>4, <1>5, DroppedFacts DEF EndOf
<1> QED
  BY <1>6, LoopLeaves

LEMMA StopEndsKeeps ==
    ASSUME IInv, NEW l \in Loops, StopEnds(l) PROVE IInv'
<1> DEFINE x == [NoLoop EXCEPT !.pc = "over", !.key = loops[l].key, !.leaving = TRUE,
                               !.nfts = loops[l].nfts]
<1>1. /\ loops[l].pc = "halted" /\ entries' = Dropped(l) /\ TakenOff(loops[l].key)
      /\ loops' = [loops EXCEPT ![l] = x] /\ UNCHANGED <<chain, app, claims, asks>>
  BY DEF StopEnds
<1>2. Present(l) /\ loops[l].handle /\ loops[l] \in LoopType
  BY <1>1, Typing DEF IInv, LoopOK, Present
<1>3. "over" \in Steps /\ NoLoop \in LoopType /\ ~NoLoop.handle /\ ~NoLoop.byHand
  BY NoLoopType DEF Steps
<1>4. x \in LoopType
  BY <1>2, <1>3 DEF LoopType
<1>5. x.pc = "over" /\ x.key \in Nfts /\ x.nfts = loops[l].nfts /\ ~x.handle /\ ~x.byHand
  BY <1>2, <1>3, Typing DEF LoopType, IInv, LoopOK
<1> HIDE DEF x
<1> QED
  BY <1>1, <1>2, <1>4, <1>5, HandleLeaves

\* A step that takes off a position no loop runs, whether one is starting it or not.
LEMMA TakenAway ==
    ASSUME IInv, NEW k \in Nfts, TakenOff(k), loops' \in [Loops -> LoopType],
           \A m \in Loops : Present(m) /\ loops[m].key = k => ~loops[m].handle,
           \A m \in Loops :
               /\ loops'[m].key = loops[m].key /\ loops'[m].orig = loops[m].orig
               /\ loops'[m].byHand = loops[m].byHand /\ loops'[m].prev = loops[m].prev
               /\ loops'[m].handle = loops[m].handle /\ loops'[m].leaving = loops[m].leaving
               /\ loops'[m].next = loops[m].next /\ loops'[m].nfts = loops[m].nfts,
           \A m \in Loops : loops'[m] = loops[m] \/
               (/\ loops[m].key = k /\ ~loops[m].handle /\ loops[m].pc = "poll"
                /\ loops'[m].pc = "polled" /\ loops'[m].stopped),
           entries' = [entries EXCEPT ![k] = None], UNCHANGED <<chain, app, claims, asks>>
    PROVE  IInv'
<1>1. /\ mem' \in [Nfts -> Slots] /\ disk' \in [Nfts -> Slots]
      /\ LateRecords = FALSE => disk' = mem'
      /\ mem'[k] \in {"absent", "stopped"}
      /\ mem'[k] # "absent" => mem[k] # "absent"
      /\ \A j \in Nfts : j # k => mem'[j] = mem[j]
      /\ \A j \in Nfts : disk'[j] \in {mem'[j], disk[j]}
      /\ running' \in [Nfts -> Pools \cup {None}]
      /\ \A j \in Nfts : j # k => running'[j] = running[j]
  BY TakenOffFacts
<1>2. /\ entries' \in [Nfts -> Loops \cup {None}] /\ entries'[k] = None
      /\ \A j \in Nfts : j # k => entries'[j] = entries[j]
  BY Typing
<1>3. Minted' = Minted /\ Minted \subseteq Nfts
  BY Typing DEF Minted
<1>4. \A m \in Loops :
         /\ loops'[m].pc = loops[m].pc \/ (loops[m].pc = "poll" /\ loops'[m].pc = "polled")
         /\ loops'[m].stopped = loops[m].stopped \/ ~loops[m].handle
  OBVIOUS
<1>5. \A m \in Loops : (Present(m)' <=> Present(m)) /\ (ByHand(m)' <=> ByHand(m))
         /\ (Fresh(m)' <=> Fresh(m)) /\ (Holds(m)' <=> Holds(m)) /\ PoolOf(m)' = PoolOf(m)
         /\ (Polls(m)' => Polls(m))
  BY <1>4 DEF Present, ByHand, Fresh, Holds, Polls, Polling, PoolOf
<1>6. \A m \in Loops : (Fresh(m) \/ Holds(m) \/ ByHand(m) \/ Polls(m)) => Present(m)
  BY DEF Fresh, Holds, ByHand, Polls, Polling, Present
<1>7. \A m \in Loops : Present(m) => loops[m].key \in Nfts
  BY <1>3 DEF IInv, LoopOK
<1>8. \A m \in Loops : ByHand(m) => loops[m].orig \in Nfts
  BY <1>3 DEF IInv, LoopOK
<1> HIDE DEF Minted
<1>9. TypeOK'
  BY <1>1, <1>2 DEF IInv, TypeOK, LoopType
<1>10. PhaseOK'
  BY <1>1, <1>3, <1>5, NoLoopType DEF IInv, PhaseOK
<1>11. \A m \in Loops : LoopOK(m)'
  <2> SUFFICES ASSUME NEW m \in Loops PROVE LoopOK(m)'
    OBVIOUS
  <2>1. LoopOK(m) /\ (ByHand(m) => Present(m))
    BY DEF IInv, ByHand
  <2>2. CASE loops'[m] = loops[m]
    <3>1. \A j \in Nfts : entries'[j] = m => entries[j] = m
      BY <1>2, Typing
    <3>2. Present(m)' /\ loops'[m].stopped /\ ~loops'[m].handle =>
            loops'[m].pc = "polled" /\ entries'[loops'[m].key] # m
      BY <1>5, <1>7, <2>1, <2>2, <3>1 DEF LoopOK
    <3> QED
      BY <1>3, <1>5, <2>1, <2>2, <3>2 DEF LoopOK
  <2>3. CASE /\ loops[m].key = k /\ ~loops[m].handle /\ loops[m].pc = "poll"
             /\ loops'[m].pc = "polled" /\ loops'[m].stopped
    BY <1>2, <1>3, <1>5, <2>1, <2>3, Typing DEF LoopOK
  <2> QED
    BY <2>2, <2>3
<1>12. KeysOK'
  BY <1>5 DEF IInv, KeysOK
<1>13. TablesOK'
  <2>1. ASSUME NEW j \in Nfts, entries'[j] # None
        PROVE  loops'[entries'[j]].pc \notin {"none", "over", "signer"} /\ loops'[entries'[j]].key = j
    <3>1. j # k /\ entries'[j] = entries[j] /\ entries[j] \in Loops
      BY <1>2, <2>1, Typing
    <3>2. PICK e \in Loops : e = entries[j] /\ e # None
      BY <2>1, <3>1
    <3>3. Present(e) /\ loops[e].key = j /\ loops[e].pc # "signer"
      BY <3>2 DEF IInv, TablesOK
    <3>4. loops'[e].pc \notin {"none", "over", "signer"} /\ loops'[e].key = j
      BY <1>4, <3>3 DEF Present
    <3> QED
      BY <3>1, <3>2, <3>4
  <2>2. \A m \in Loops :
          /\ Present(m)' /\ loops'[m].handle => entries'[loops'[m].key] = m
          /\ Polls(m)' /\ entries'[loops'[m].key] = m => running'[loops'[m].key] = PoolOf(m)'
          /\ ByHand(m)' => claims'[loops'[m].orig] = PoolOf(m)'
    <3>1. \A j \in Nfts, m \in Loops : entries'[j] = m => j # k /\ entries[j] = m
      BY <1>2, Typing
    <3>2. \A m \in Loops : Present(m) /\ loops[m].handle =>
            loops[m].key # k /\ entries[loops[m].key] = m
      BY DEF IInv, TablesOK
    <3> QED
      BY <1>1, <1>2, <1>5, <1>6, <1>7, <3>1, <3>2 DEF IInv, TablesOK
  <2>3. \A j \in Nfts : claims'[j] # None => j \in Minted'
    BY <1>3 DEF IInv, TablesOK
  <2> QED
    BY <2>1, <2>2, <2>3, Zenon DEF TablesOK, Present
<1>14. AsksOK'
  BY <1>2, <1>3 DEF IInv, AsksOK
<1>15. MintOK'
  <2>1. \A m, n \in Loops : {loops'[m].pc, loops'[n].pc} \subseteq {"moving", "minted"} => m = n
    BY <1>4 DEF IInv, MintOK
  <2>2. ASSUME NEW m \in Loops, loops'[m].pc = "minted"
        PROVE  loops[m].pc = "minted" /\ loops'[m].next = loops[m].next /\ loops[m].next \in Nfts
    BY <1>3, <1>4, <2>2 DEF IInv, MintOK
  <2> QED
    BY <1>1, <1>2, <1>3, <1>5, <2>1, <2>2 DEF IInv, MintOK
<1>m. MintedOK'
  BY <1>1, <1>3 DEF IInv, MintedOK
<1>16. LateRecords = FALSE => SlotsOK'
  <2> SUFFICES ASSUME LateRecords = FALSE PROVE SlotsOK'
    OBVIOUS
  <2>1. /\ app'.phase # "up" => mem' = disk'
        /\ \A j \in Nfts : disk'[j] = "running" => mem'[j] = "running"
        /\ \A j \in Nfts : mem[j] # "running" => mem'[j] # "running"
    BY <1>1, <1>3 DEF IInv, SlotsOK
  <2>2. ASSUME NEW m \in Loops
        PROVE  /\ Present(m)' /\ ~loops'[m].byHand /\ entries'[loops'[m].key] = m =>
                     mem'[loops'[m].key] = "running" /\ disk'[loops'[m].key] = "running"
               /\ Disowned(m)' =>
                     mem'[loops'[m].key] \in {"absent", "stopped"} /\ disk'[loops'[m].key] # "running"
    <3>1. CASE loops[m].key = k
      BY <1>1, <1>2, <3>1, Typing
    <3>2. CASE loops[m].key # k
      BY <1>1, <1>2, <1>4, <1>5, <1>6, <1>7, <3>2 DEF IInv, SlotsOK, Disowned
    <3> QED
      BY <3>1, <3>2
  <2>3. \A m \in Loops : loops'[m].pc \in {"signer", "detect"} => loops[m].pc \in {"signer", "detect"}
    BY <1>4
  <2>4. ASSUME NEW m \in Loops, ByHand(m)',
               \/ loops'[m].pc \in {"signer", "detect"} /\ loops'[m].prev # "running"
               \/ loops'[m].key # loops'[m].orig
        PROVE  mem'[loops'[m].orig] # "running" /\ disk'[loops'[m].orig] # "running"
    BY <1>1, <1>5, <1>8, <2>1, <2>3, <2>4 DEF IInv, SlotsOK
  <2> QED
    BY <2>1, <2>2, <2>4 DEF SlotsOK
<1>17. LateRecords = FALSE => HistoryOK'
  <2> SUFFICES ASSUME LateRecords = FALSE PROVE HistoryOK'
    OBVIOUS
  <2>1. \A j \in Nfts : Off(j) => Off(j)'
    BY <1>1, <1>2 DEF Off
  <2>2. \A m \in Loops : loops[m].nfts \subseteq Nfts
    BY Typing DEF LoopType
  <2> QED
    BY <1>5, <2>1, <2>2 DEF IInv, HistoryOK
<1> QED
  BY <1>9, <1>10, <1>11, <1>12, <1>13, <1>14, <1>15, <1>16, <1>17, <1>m DEF IInv

LEMMA StopManagingEarlyKeeps ==
    ASSUME IInv, NEW k \in Nfts, StopManagingEarly(k) PROVE IInv'
<1>1. /\ entries[k] = None \/ ~loops[entries[k]].handle
      /\ entries' = [entries EXCEPT ![k] = None] /\ TakenOff(k)
      /\ UNCHANGED <<chain, app, loops, claims, asks>>
  BY DEF StopManagingEarly
<1>2. \A m \in Loops : Present(m) /\ loops[m].key = k => ~loops[m].handle
  <2>1. \A m \in Loops : Present(m) /\ loops[m].handle => entries[loops[m].key] = m
    BY DEF IInv, TablesOK
  <2> QED
    BY <1>1, <2>1, RegistryAssumption
<1> QED
  BY <1>1, <1>2, Typing, TakenAway

LEMMA RetireKeeps ==
    ASSUME IInv, NEW l \in Loops, Retire(l) PROVE IInv'
<1>1. PICK k : k = loops[l].key
  OBVIOUS
<1>2. /\ loops[l].pc \in {"poll", "idle"} /\ TakenOff(k)
      /\ loops' = [loops EXCEPT ![l] = IF @.handle THEN Over(l)
                                       ELSE [@ EXCEPT !.pc = "polled", !.stopped = TRUE]]
      /\ entries' = [entries EXCEPT ![k] = None]
      /\ UNCHANGED <<chain, app, claims, asks>>
  BY <1>1 DEF Retire
<1>3. Present(l) /\ k \in Nfts /\ loops \in [Loops -> LoopType] /\ loops[l] \in LoopType
  BY <1>1, <1>2, Typing DEF IInv, LoopOK, Present
<1>4. CASE loops[l].handle
  <2>1. entries[k] = l
    BY <1>1, <1>3, <1>4 DEF IInv, TablesOK
  <2>2. \A j \in Nfts : entries[j] = l => j = k
    BY <1>1, Records, RegistryAssumption
  <2>3. entries' = Dropped(l)
    BY <1>2, <2>1, <2>2, Typing DEF Dropped
  <2>4. PICK x : x = Over(l)
    OBVIOUS
  <2>5. loops' = [loops EXCEPT ![l] = x]
    BY <1>2, <1>4, <2>4
  <2>6. /\ x \in LoopType /\ x.pc \in {"none", "over"} /\ (x.pc = "none" => x = NoLoop)
        /\ ~x.handle /\ ~x.byHand /\ (x.pc = "over" => x.key \in Nfts)
        /\ x.nfts \subseteq loops[l].nfts
    BY <1>3, <2>4, OverFacts
  <2> QED
    BY <1>1, <1>2, <1>3, <1>4, <2>3, <2>5, <2>6, HandleLeaves
<1>5. CASE ~loops[l].handle
  <2>1. loops' = [loops EXCEPT ![l] = [loops[l] EXCEPT !.pc = "polled", !.stopped = TRUE]]
    BY <1>2, <1>5
  <2>2. loops[l].pc = "poll"
    BY <1>2, <1>3, <1>5 DEF IInv, LoopOK
  <2>3. "polled" \in Steps
    BY DEF Steps, Polling
  <2>4. PICK x : x = [loops[l] EXCEPT !.pc = "polled", !.stopped = TRUE]
    OBVIOUS
  <2>5. /\ x \in LoopType /\ x.pc = "polled" /\ x.stopped
        /\ x.key = loops[l].key /\ x.orig = loops[l].orig
        /\ x.byHand = loops[l].byHand /\ x.prev = loops[l].prev
        /\ x.handle = loops[l].handle /\ x.leaving = loops[l].leaving
        /\ x.next = loops[l].next /\ x.nfts = loops[l].nfts
    BY <1>3, <2>3, <2>4 DEF LoopType
  <2>6. /\ loops' \in [Loops -> LoopType] /\ loops'[l] = x
        /\ \A m \in Loops : m # l => loops'[m] = loops[m]
    BY <2>1, <2>4, <2>5, OneLoop
  <2>7. \A m \in Loops : Present(m) /\ loops[m].key = k => ~loops[m].handle
    BY <1>1, <1>3, <1>5 DEF IInv, KeysOK
  <2>8. \A m \in Loops :
          /\ loops'[m].key = loops[m].key /\ loops'[m].orig = loops[m].orig
          /\ loops'[m].byHand = loops[m].byHand /\ loops'[m].prev = loops[m].prev
          /\ loops'[m].handle = loops[m].handle /\ loops'[m].leaving = loops[m].leaving
          /\ loops'[m].next = loops[m].next /\ loops'[m].nfts = loops[m].nfts
    BY <2>5, <2>6
  <2>9. \A m \in Loops : loops'[m] = loops[m] \/
          (/\ loops[m].key = k /\ ~loops[m].handle /\ loops[m].pc = "poll"
           /\ loops'[m].pc = "polled" /\ loops'[m].stopped)
    BY <1>1, <1>5, <2>2, <2>5, <2>6
  <2> QED
    BY <1>2, <1>3, <2>6, <2>7, <2>8, <2>9, TakenAway
<1> QED
  BY <1>4, <1>5

\* A step that stops loops whose start has ended, and drops what they hold of the pool rule.
LEMMA Halts ==
    ASSUME IInv, loops' \in [Loops -> LoopType],
           \A m \in Loops :
               /\ loops'[m].key = loops[m].key /\ loops'[m].orig = loops[m].orig
               /\ loops'[m].byHand = loops[m].byHand /\ loops'[m].prev = loops[m].prev
               /\ loops'[m].handle = loops[m].handle
               /\ loops'[m].next = loops[m].next /\ loops'[m].nfts = loops[m].nfts,
           \A m \in Loops : loops'[m] = loops[m] \/
               (/\ Present(m) /\ loops[m].handle /\ loops'[m].stopped
                /\ \/ loops[m].pc = "idle" /\ loops'[m].pc = "halted"
                   \/ loops[m].pc # "idle" /\ loops'[m].pc = loops[m].pc),
           running' \in [Nfts -> Pools \cup {None}],
           \A m \in Loops : Present(m) /\ ~loops'[m].stopped =>
               running'[loops[m].key] = running[loops[m].key],
           app' \in [phase : {app.phase}, stopping : BOOLEAN, todo : {app.todo}],
           UNCHANGED <<chain, mem, disk, entries, claims, asks>>
    PROVE  IInv'
<1>1. app'.phase = app.phase /\ app'.todo = app.todo
  OBVIOUS
<1>2. Minted' = Minted /\ Minted \subseteq Nfts
  BY Typing DEF Minted
<1>3. \A m \in Loops :
         /\ loops'[m].pc = loops[m].pc \/ (loops[m].pc = "idle" /\ loops'[m].pc = "halted")
         /\ loops[m].stopped => loops'[m].stopped
  OBVIOUS
<1>4. \A m \in Loops : (Present(m)' <=> Present(m)) /\ (ByHand(m)' <=> ByHand(m))
         /\ (Fresh(m)' <=> Fresh(m)) /\ (Holds(m)' => Holds(m)) /\ PoolOf(m)' = PoolOf(m)
         /\ (Polls(m)' => Polls(m) /\ ~loops'[m].stopped)
  BY <1>3 DEF Present, ByHand, Fresh, Holds, Polls, Polling, PoolOf
<1>5. \A m \in Loops : (Fresh(m) \/ Holds(m) \/ ByHand(m) \/ Polls(m)) => Present(m)
  BY DEF Fresh, Holds, ByHand, Polls, Polling, Present
<1> HIDE DEF Minted
<1>6. TypeOK'
  <2>1. app' \in [phase : {"locked", "listed", "startup", "up"}, stopping : BOOLEAN,
                  todo : SUBSET Nfts]
    BY AppType
  <2> QED
    BY <2>1 DEF IInv, TypeOK, LoopType
<1>7. PhaseOK'
  BY <1>1, <1>2, <1>4, NoLoopType DEF IInv, PhaseOK
<1>8. \A m \in Loops : LoopOK(m)'
  <2> SUFFICES ASSUME NEW m \in Loops PROVE LoopOK(m)'
    OBVIOUS
  <2>1. LoopOK(m) /\ (ByHand(m) => Present(m))
    BY DEF IInv, ByHand
  <2>2. CASE loops'[m] = loops[m]
    BY <1>2, <1>4, <2>1, <2>2 DEF LoopOK
  <2>3. CASE /\ Present(m) /\ loops[m].handle /\ loops'[m].stopped
             /\ \/ loops[m].pc = "idle" /\ loops'[m].pc = "halted"
                \/ loops[m].pc # "idle" /\ loops'[m].pc = loops[m].pc
    <3>1. /\ Present(m)' /\ ~ByHand(m)' /\ loops'[m].handle /\ ~loops'[m].byHand
          /\ loops[m].pc \notin {"signer", "detect", "none", "over"}
      BY <1>4, <2>1, <2>3 DEF LoopOK, ByHand, Present
    <3>2. loops'[m].pc \notin {"signer", "detect", "none", "over", "idle"}
      BY <2>3, <3>1
    <3>3. loops'[m].key \in Minted' /\ loops'[m].key \in loops'[m].nfts
          /\ loops'[m].nfts \subseteq Minted'
      BY <1>2, <2>1, <2>3 DEF LoopOK
    <3> QED
      BY <2>3, <3>1, <3>2, <3>3 DEF LoopOK
  <2> QED
    BY <2>2, <2>3
<1>9. KeysOK'
  BY <1>4 DEF IInv, KeysOK
<1>10. TablesOK'
  <2>1. ASSUME NEW j \in Nfts, entries'[j] # None
        PROVE  loops'[entries'[j]].pc \notin {"none", "over", "signer"} /\ loops'[entries'[j]].key = j
    <3>1. PICK e \in Loops : e = entries[j] /\ e # None /\ e = entries'[j]
      BY <2>1, Typing
    <3>2. Present(e) /\ loops[e].key = j /\ loops[e].pc # "signer"
      BY <3>1 DEF IInv, TablesOK
    <3>3. loops'[e].pc \notin {"none", "over", "signer"} /\ loops'[e].key = j
      BY <1>3, <3>2 DEF Present
    <3> QED
      BY <3>1, <3>3
  <2>2. \A m \in Loops :
          /\ Present(m)' /\ loops'[m].handle => entries'[loops'[m].key] = m
          /\ Polls(m)' /\ entries'[loops'[m].key] = m => running'[loops'[m].key] = PoolOf(m)'
          /\ ByHand(m)' => claims'[loops'[m].orig] = PoolOf(m)'
    BY <1>4, <1>5 DEF IInv, TablesOK
  <2>3. \A j \in Nfts : claims'[j] # None => j \in Minted'
    BY <1>2 DEF IInv, TablesOK
  <2> QED
    BY <2>1, <2>2, <2>3, Zenon DEF TablesOK, Present
<1>11. AsksOK'
  BY <1>2 DEF IInv, AsksOK
<1>12. MintOK'
  <2>1. \A m, n \in Loops : {loops'[m].pc, loops'[n].pc} \subseteq {"moving", "minted"} => m = n
    BY <1>3 DEF IInv, MintOK
  <2>2. \A m \in Loops : loops'[m].pc = "minted" => loops[m].pc = "minted"
    BY <1>3
  <2> QED
    BY <1>1, <1>2, <1>4, <2>1, <2>2 DEF IInv, MintOK
<1>m. MintedOK'
  BY <1>2 DEF IInv, MintedOK
<1>13. LateRecords = FALSE => SlotsOK'
  <2> SUFFICES ASSUME LateRecords = FALSE PROVE SlotsOK'
    OBVIOUS
  <2>1. \A m \in Loops : (loops'[m].pc \in {"signer", "detect"} <=> loops[m].pc \in {"signer", "detect"})
          /\ (loops'[m].pc = "signer" <=> loops[m].pc = "signer")
    BY <1>3
  <2>2. \A m \in Loops : Disowned(m)' => Disowned(m)
    BY <1>4, <2>1 DEF Disowned
  <2> QED
    BY <1>1, <1>4, <2>1, <2>2 DEF IInv, SlotsOK
<1>14. LateRecords = FALSE => HistoryOK'
  BY <1>4 DEF IInv, HistoryOK, Off
<1> QED
  BY <1>6, <1>7, <1>8, <1>9, <1>10, <1>11, <1>12, <1>13, <1>14, <1>m DEF IInv

LEMMA StopManagingKeeps ==
    ASSUME IInv, NEW k \in Nfts, StopManaging(k) PROVE IInv'
<1>1. PICK l : l = entries[k]
  OBVIOUS
<1>2. /\ l # None /\ loops[l].handle
      /\ loops' = [loops EXCEPT ![l].stopped = TRUE, ![l].leaving = TRUE,
                                ![l].pc = IF loops[l].pc = "idle" THEN "halted" ELSE loops[l].pc]
      /\ running' = [running EXCEPT ![k] = None]
      /\ UNCHANGED <<chain, mem, disk, app, entries, claims, asks>>
  BY <1>1 DEF StopManaging
<1>3. l \in Loops /\ Present(l) /\ loops[l].key = k
  BY <1>1, <1>2, Records
<1>4. loops \in [Loops -> LoopType] /\ loops[l] \in LoopType
  BY <1>3, Typing
<1>5. PICK to : /\ to = IF loops[l].pc = "idle" THEN "halted" ELSE loops[l].pc
                /\ to \in Steps
  BY <1>4 DEF LoopType, Steps
<1>6. loops' = [loops EXCEPT ![l].stopped = TRUE, ![l].leaving = TRUE, ![l].pc = to]
  BY <1>2, <1>5
<1>7. /\ loops' \in [Loops -> LoopType] /\ loops'[l].pc = to /\ loops'[l].stopped
      /\ \A m \in Loops : m # l => loops'[m] = loops[m]
      /\ \A m \in Loops :
            /\ loops'[m].key = loops[m].key /\ loops'[m].orig = loops[m].orig
            /\ loops'[m].byHand = loops[m].byHand /\ loops'[m].prev = loops[m].prev
            /\ loops'[m].handle = loops[m].handle
            /\ loops'[m].next = loops[m].next /\ loops'[m].nfts = loops[m].nfts
  BY <1>3, <1>4, <1>5, <1>6 DEF LoopType
<1>8. /\ running' \in [Nfts -> Pools \cup {None}]
      /\ \A j \in Nfts : j # k => running'[j] = running[j]
  BY <1>2, Typing
<1>9. \A m \in Loops : Present(m) /\ ~loops'[m].stopped =>
         running'[loops[m].key] = running[loops[m].key]
  BY <1>3, <1>7, <1>8, Typing DEF IInv, KeysOK, LoopOK
<1>10. app' \in [phase : {app.phase}, stopping : BOOLEAN, todo : {app.todo}]
  BY <1>2, AppType
<1>11. \A m \in Loops : loops'[m] = loops[m] \/
          (/\ Present(m) /\ loops[m].handle /\ loops'[m].stopped
           /\ \/ loops[m].pc = "idle" /\ loops'[m].pc = "halted"
              \/ loops[m].pc # "idle" /\ loops'[m].pc = loops[m].pc)
  BY <1>2, <1>3, <1>5, <1>7
<1> QED
  BY <1>2, <1>7, <1>8, <1>9, <1>10, <1>11, Halts

LEMMA StopAppKeeps == ASSUME IInv, StopApp PROVE IInv'
<1> DEFINE Stops(l) == loops[l].handle /\ loops[l].pc # "over"
           Halted(l) == [loops[l] EXCEPT !.stopped = TRUE,
                            !.pc = IF loops[l].pc = "idle" THEN "halted" ELSE loops[l].pc]
<1>1. /\ app' = [app EXCEPT !.stopping = TRUE]
      /\ loops' = [l \in Loops |-> IF Stops(l) THEN Halted(l) ELSE loops[l]]
      /\ running' = [k \in Nfts |-> IF \E l \in Loops : Stops(l) /\ loops[l].key = k
                                    THEN None ELSE running[k]]
      /\ UNCHANGED <<chain, mem, disk, entries, claims, asks>>
  BY DEF StopApp
<1>2. loops \in [Loops -> LoopType] /\ \A l \in Loops : loops[l] \in LoopType
  BY Typing
<1>3. \A l \in Loops : Stops(l) => Present(l)
  BY NoLoopType DEF IInv, LoopOK, Present
<1>4. \A l \in Loops :
         LET to == IF loops[l].pc = "idle" THEN "halted" ELSE loops[l].pc IN
         /\ Halted(l) \in LoopType /\ Halted(l).pc = to /\ Halted(l).stopped
         /\ Halted(l).key = loops[l].key /\ Halted(l).orig = loops[l].orig
         /\ Halted(l).byHand = loops[l].byHand /\ Halted(l).prev = loops[l].prev
         /\ Halted(l).handle = loops[l].handle
         /\ Halted(l).next = loops[l].next /\ Halted(l).nfts = loops[l].nfts
  <2> SUFFICES ASSUME NEW l \in Loops
               PROVE  LET to == IF loops[l].pc = "idle" THEN "halted" ELSE loops[l].pc IN
                      /\ Halted(l) \in LoopType /\ Halted(l).pc = to /\ Halted(l).stopped
                      /\ Halted(l).key = loops[l].key /\ Halted(l).orig = loops[l].orig
                      /\ Halted(l).byHand = loops[l].byHand /\ Halted(l).prev = loops[l].prev
                      /\ Halted(l).handle = loops[l].handle
                      /\ Halted(l).next = loops[l].next /\ Halted(l).nfts = loops[l].nfts
    OBVIOUS
  <2>1. PICK to : /\ to = IF loops[l].pc = "idle" THEN "halted" ELSE loops[l].pc
                  /\ to \in Steps
    BY <1>2 DEF LoopType, Steps
  <2>2. Halted(l) = [loops[l] EXCEPT !.stopped = TRUE, !.pc = to]
    BY <2>1
  <2> HIDE DEF Halted
  <2>3. loops[l] \in LoopType
    BY <1>2
  <2> QED
    BY <2>1, <2>2, <2>3 DEF LoopType
<1>5. \A l \in Loops : loops'[l] = IF Stops(l) THEN Halted(l) ELSE loops[l]
  BY <1>1
<1>6. \A m \in Loops : loops'[m] = loops[m] \/
         (/\ Present(m) /\ loops[m].handle /\ loops'[m].stopped
          /\ \/ loops[m].pc = "idle" /\ loops'[m].pc = "halted"
             \/ loops[m].pc # "idle" /\ loops'[m].pc = loops[m].pc)
  <2> HIDE DEF Halted
  <2> QED
    BY <1>3, <1>4, <1>5
<1>7. \A m \in Loops :
         /\ loops'[m].key = loops[m].key /\ loops'[m].orig = loops[m].orig
         /\ loops'[m].byHand = loops[m].byHand /\ loops'[m].prev = loops[m].prev
         /\ loops'[m].handle = loops[m].handle
         /\ loops'[m].next = loops[m].next /\ loops'[m].nfts = loops[m].nfts
  <2> HIDE DEF Halted, Stops
  <2> QED
    BY <1>4, <1>5
<1>8. loops' \in [Loops -> LoopType]
  <2> HIDE DEF Halted, Stops
  <2> QED
    BY <1>1, <1>2, <1>4
<1>9. running' \in [Nfts -> Pools \cup {None}]
  BY <1>1, Typing
<1>10. \A m \in Loops : Present(m) /\ ~loops'[m].stopped =>
          running'[loops[m].key] = running[loops[m].key]
  <2> SUFFICES ASSUME NEW m \in Loops, Present(m), ~loops'[m].stopped
               PROVE  running'[loops[m].key] = running[loops[m].key]
    OBVIOUS
  <2>1. ~Stops(m)
    <3> HIDE DEF Halted, Stops
    <3> QED
      BY <1>4, <1>5
  <2>2. \A l \in Loops : Stops(l) => loops[l].key # loops[m].key
    BY <1>3, <2>1 DEF IInv, KeysOK
  <2>3. loops[m].key \in Nfts
    BY Typing DEF IInv, LoopOK
  <2> HIDE DEF Stops
  <2> QED
    BY <1>1, <2>2, <2>3
<1>11. app' \in [phase : {app.phase}, stopping : BOOLEAN, todo : {app.todo}]
  BY <1>1, AppType
<1> HIDE DEF Halted, Stops
<1> QED
  BY <1>1, <1>6, <1>7, <1>8, <1>9, <1>10, <1>11, Halts

LEMMA StartEndsKeeps ==
    ASSUME IInv, NEW l \in Loops, StartEnds(l) PROVE IInv'
<1>1. PICK k : k = loops[l].key
  OBVIOUS
<1>2. PICK to : to = IF app.stopping THEN "halted" ELSE "idle"
  OBVIOUS
<1>3. /\ loops[l].pc \in Polling \ {"minted"} /\ ~loops[l].handle /\ Recorded(l)
      /\ loops' = [loops EXCEPT ![l].pc = to, ![l].handle = TRUE, ![l].stopped = app.stopping,
                                ![l].byHand = FALSE, ![l].orig = None, ![l].prev = "absent"]
      /\ running' = IF app.stopping THEN [running EXCEPT ![k] = None] ELSE running
      /\ UNCHANGED <<chain, app, entries, asks>>
  BY <1>1, <1>2 DEF StartEnds
<1>4. /\ Present(l) /\ k \in Minted /\ k \in Nfts /\ k \in loops[l].nfts
      /\ app.stopping \in BOOLEAN
  BY <1>1, <1>3, Typing, AppType DEF IInv, LoopOK, Present, Polling
<1>5. entries[k] = l /\ ~loops[l].stopped
  <2>1. entries[k] = l
    BY <1>1, <1>3, Records, RegistryAssumption DEF Recorded
  <2> QED
    BY <1>1, <1>3, <1>4, <2>1 DEF IInv, LoopOK
<1>6. to \in Steps /\ "absent" \in Slots /\ loops \in [Loops -> LoopType]
  BY <1>2, Typing DEF Steps, Slots
<1>7. /\ loops' \in [Loops -> LoopType]
      /\ loops'[l].pc = to /\ loops'[l].handle /\ loops'[l].stopped = app.stopping
      /\ ~loops'[l].byHand /\ loops'[l].key = k /\ loops'[l].nfts = loops[l].nfts
      /\ loops'[l].leaving = loops[l].leaving
      /\ \A m \in Loops : m # l => loops'[m] = loops[m]
  <2>1. /\ loops'[l].pc = to /\ loops'[l].handle /\ loops'[l].stopped = app.stopping
        /\ ~loops'[l].byHand /\ loops'[l].key = k /\ loops'[l].nfts = loops[l].nfts
        /\ loops'[l].leaving = loops[l].leaving
    BY <1>1, <1>3, <1>6 DEF LoopType
  <2>2. \A m \in Loops : m # l => loops'[m] = loops[m]
    BY <1>3, <1>6
  <2>3. loops' \in [Loops -> LoopType]
    BY <1>3, <1>4, <1>6 DEF LoopType
  <2> QED
    BY <2>1, <2>2, <2>3
<1>8. /\ running' \in [Nfts -> Pools \cup {None}]
      /\ \A j \in Nfts : j # k => running'[j] = running[j]
      /\ ~app.stopping => running' = running
  BY <1>3, <1>4, Typing
<1>9. /\ mem' \in [Nfts -> Slots] /\ disk' \in [Nfts -> Slots]
      /\ LateRecords = FALSE => mem'[k] = "running" /\ disk'[k] = "running"
      /\ \A j \in Nfts : j # k => mem'[j] = mem[j] /\ disk'[j] \in {mem[j], disk[j]}
      /\ claims' \in [Nfts -> Pools \cup {None}]
      /\ \A j \in Nfts : claims'[j] = IF loops[l].byHand /\ j = loops[l].orig
                                      THEN None ELSE claims[j]
      /\ LateRecords = FALSE => (app.phase # "up" => mem' = disk')
  <2>1. CASE loops[l].byHand
    <3>1. PICK slots : slots = [mem EXCEPT ![k] = "running"]
      OBVIOUS
    <3>2. mem' = slots /\ disk' = Saved(slots, disk)
          /\ claims' = [claims EXCEPT ![loops[l].orig] = None]
      BY <1>1, <2>1, <3>1 DEF StartEnds, Write
    <3>3. /\ slots \in [Nfts -> Slots] /\ slots[k] = "running"
          /\ \A j \in Nfts : j # k => slots[j] = mem[j]
      BY <1>4, <3>1, Typing DEF Slots
    <3>4. /\ LateRecords = FALSE => Saved(slots, disk) = slots
          /\ Saved(slots, disk) \in [Nfts -> Slots]
          /\ \A j \in Nfts : Saved(slots, disk)[j] \in {slots[j], disk[j]}
      <4>1. disk \in [Nfts -> Slots]
        BY Typing
      <4>2. LateRecords = FALSE => \A j \in Nfts : disk[j] = "running" => slots[j] = "running"
        BY <3>3 DEF IInv, SlotsOK
      <4> QED
        BY <3>3, <4>1, <4>2, SavedAll, SavedEach
    <3>5. app.phase = "up"
      BY <2>1 DEF IInv, PhaseOK
    <3>6. claims' \in [Nfts -> Pools \cup {None}]
      BY <3>2, Typing
    <3>7. \A j \in Nfts : claims'[j] = IF j = loops[l].orig THEN None ELSE claims[j]
      BY <3>2, Typing
    <3> QED
      BY <2>1, <3>2, <3>3, <3>4, <3>5, <3>6, <3>7
  <2>2. CASE ~loops[l].byHand
    <3>1. UNCHANGED <<mem, disk, claims>>
      BY <2>2 DEF StartEnds
    <3>2. LateRecords = FALSE => mem[k] = "running" /\ disk[k] = "running"
      BY <1>1, <1>4, <1>5, <2>2 DEF IInv, SlotsOK
    <3>3. LateRecords = FALSE => (app.phase # "up" => mem = disk)
      BY DEF IInv, SlotsOK
    <3> QED
      BY <2>2, <3>1, <3>2, <3>3, Typing
  <2> QED
    BY <2>1, <2>2
<1>10. Minted' = Minted /\ Minted \subseteq Nfts
  BY <1>3, Typing DEF Minted
<1>11. \A m \in Loops : m # l /\ Present(m) => loops[m].key # k /\ loops[m].key \in Nfts
  BY <1>1, <1>4, Typing DEF IInv, KeysOK, LoopOK
<1>12. ASSUME NEW m \in Loops, m # l, ByHand(m)
       PROVE  /\ loops[m].orig \in Nfts /\ loops[m].orig # k
              /\ claims'[loops[m].orig] = PoolOf(m)
  <2>1. Present(m) /\ loops[m].byHand /\ loops[m].orig \in Nfts /\ loops[m].orig # k
    BY <1>1, <1>4, <1>10, <1>12 DEF ByHand, IInv, KeysOK, LoopOK
  <2>2. claims[loops[m].orig] = PoolOf(m)
    BY <1>12 DEF IInv, TablesOK
  <2>3. ASSUME loops[l].byHand, loops[m].orig = loops[l].orig PROVE FALSE
    <3>1. claims[loops[m].orig] = PoolOf(l)
      BY <1>4, <2>3 DEF IInv, TablesOK, ByHand
    <3>2. Holds(l) /\ Holds(m)
      BY <1>3, <1>4, <2>1 DEF Holds, IInv, LoopOK, ByHand
    <3> QED
      BY <1>12, <2>2, <3>1, <3>2 DEF IInv, KeysOK
  <2> QED
    BY <1>9, <2>1, <2>2, <2>3
<1>13. /\ Present(l)' /\ ~ByHand(l)' /\ ~Fresh(l)' /\ ~Disowned(l)'
       /\ (Polls(l)' => Polls(l) /\ ~app.stopping) /\ Holds(l) /\ PoolOf(l)' = PoolOf(l)
  <2>1. Present(l)' /\ ~ByHand(l)' /\ ~Fresh(l)' /\ ~Disowned(l)'
    BY <1>2, <1>7 DEF Present, ByHand, Fresh, Disowned
  <2>2. Polls(l)' => Polls(l) /\ ~app.stopping
    BY <1>3, <1>5, <1>7 DEF Polls
  <2>3. Holds(l) /\ PoolOf(l)' = PoolOf(l)
    BY <1>1, <1>3, <1>4, <1>7 DEF Holds, PoolOf
  <2> QED
    BY <2>1, <2>2, <2>3
<1>14. \A m \in Loops : m # l =>
          /\ (Present(m)' <=> Present(m)) /\ (ByHand(m)' <=> ByHand(m))
          /\ (Fresh(m)' <=> Fresh(m)) /\ (Holds(m)' <=> Holds(m))
          /\ (Polls(m)' <=> Polls(m)) /\ (Disowned(m)' <=> Disowned(m))
          /\ PoolOf(m)' = PoolOf(m)
  BY <1>3, <1>7 DEF Present, ByHand, Fresh, Holds, Polls, Disowned, PoolOf
<1>15. \A m \in Loops : (Fresh(m) \/ Holds(m) \/ ByHand(m) \/ Polls(m)) => Present(m)
  BY DEF Fresh, Holds, ByHand, Polls, Polling, Present
<1>16. app.phase \in {"startup", "up"}
  BY <1>4, NoLoopType, AppType DEF IInv, PhaseOK, Present
<1> HIDE DEF Minted
<1>17. TypeOK'
  BY <1>3, <1>7, <1>8, <1>9 DEF IInv, TypeOK, LoopType
<1>18. PhaseOK'
  <2>1. app.phase # "up" => \A j \in Nfts : claims'[j] = None
    BY <1>9, Typing DEF IInv, PhaseOK
  <2>2. app.phase # "up" => \A m \in Loops : ~loops'[m].byHand
    BY <1>7 DEF IInv, PhaseOK
  <2>3. app.phase = "up" => \A m \in Loops : Fresh(m)' => loops'[m].byHand
    BY <1>7, <1>13, <1>14 DEF IInv, PhaseOK
  <2>4. app.phase = "startup" =>
          /\ \A h, j \in app.todo : chain.pool[h] = chain.pool[j] => h = j
          /\ \A m \in Loops, j \in app.todo : Present(m)' => PoolOf(m)' # chain.pool[j]
    BY <1>4, <1>13, <1>14 DEF IInv, PhaseOK
  <2>5. /\ app.todo \subseteq Minted
        /\ app.phase # "up" => \A r \in Requests : asks[r] = None
    BY DEF IInv, PhaseOK
  <2>6. app' = app /\ chain' = chain /\ asks' = asks
    BY <1>3
  <2>7. app'.phase \notin {"locked", "listed"}
    BY <1>16, <2>6
  <2> QED
    BY <1>10, <2>1, <2>2, <2>3, <2>4, <2>5, <2>6, <2>7 DEF PhaseOK
<1>19. \A m \in Loops : LoopOK(m)'
  <2> SUFFICES ASSUME NEW m \in Loops PROVE LoopOK(m)'
    OBVIOUS
  <2>1. LoopOK(m)
    BY DEF IInv
  <2>2. CASE m = l
    <3>1. loops[l].leaving = FALSE
      BY <1>3, <1>4, Typing DEF IInv, LoopOK, LoopType
    <3> QED
      BY <1>2, <1>4, <1>7, <1>10, <1>13, <2>1, <2>2, <3>1 DEF LoopOK
  <2>3. CASE m # l
    BY <1>3, <1>7, <1>10, <1>14, <2>1, <2>3 DEF LoopOK
  <2> QED
    BY <2>2, <2>3
<1>20. KeysOK'
  <2>1. \A m, n \in Loops : m # n /\ Present(m)' /\ Present(n)' =>
          /\ loops'[m].key # loops'[n].key
          /\ loops'[m].byHand => loops'[n].key # loops'[m].orig
    BY <1>1, <1>4, <1>7, <1>14 DEF IInv, KeysOK
  <2>2. \A m, n \in Loops : Holds(m)' /\ Holds(n)' /\ PoolOf(m)' = PoolOf(n)' => m = n
    BY <1>13, <1>14 DEF IInv, KeysOK
  <2> QED
    BY <2>1, <2>2 DEF KeysOK
<1>21. TablesOK'
  <2>1. ASSUME NEW j \in Nfts, entries'[j] # None
        PROVE  loops'[entries'[j]].pc \notin {"none", "over", "signer"} /\ loops'[entries'[j]].key = j
    <3>1. PICK e \in Loops : e = entries[j] /\ e # None /\ e = entries'[j]
      BY <1>3, <2>1, Typing
    <3>2. Present(e) /\ loops[e].key = j /\ loops[e].pc # "signer"
      BY <3>1 DEF IInv, TablesOK
    <3>3. loops'[e].pc \notin {"none", "over", "signer"} /\ loops'[e].key = j
      BY <1>1, <1>2, <1>7, <3>2 DEF Present
    <3> QED
      BY <3>1, <3>3
  <2>2. ASSUME NEW m \in Loops
        PROVE  /\ Present(m)' /\ loops'[m].handle => entries'[loops'[m].key] = m
               /\ Polls(m)' /\ entries'[loops'[m].key] = m => running'[loops'[m].key] = PoolOf(m)'
               /\ ByHand(m)' => claims'[loops'[m].orig] = PoolOf(m)'
    <3>1. CASE m = l
      BY <1>1, <1>3, <1>5, <1>7, <1>8, <1>13, <3>1 DEF IInv, TablesOK
    <3>2. CASE m # l
      BY <1>3, <1>7, <1>8, <1>11, <1>12, <1>14, <1>15, <3>2 DEF IInv, TablesOK
    <3> QED
      BY <3>1, <3>2
  <2>3. \A j \in Nfts : claims'[j] # None => j \in Minted'
    BY <1>9, <1>10 DEF IInv, TablesOK
  <2> QED
    BY <2>1, <2>2, <2>3, Zenon DEF TablesOK, Present
<1>22. AsksOK'
  BY <1>3, <1>9, <1>10 DEF IInv, AsksOK
<1>23. MintOK'
  <2>1. \A m, n \in Loops : {loops'[m].pc, loops'[n].pc} \subseteq {"moving", "minted"} => m = n
    BY <1>2, <1>7 DEF IInv, MintOK
  <2>2. ASSUME NEW m \in Loops, loops'[m].pc = "minted"
        PROVE  /\ m # l /\ loops[m].pc = "minted" /\ loops'[m].next = loops[m].next
               /\ loops[m].next # k /\ loops[m].next \in Nfts
    BY <1>2, <1>4, <1>7, <1>10, <2>2 DEF IInv, MintOK
  <2>3. \A m, j \in Loops : loops'[m].pc = "minted" =>
          loops[m].next \notin loops'[j].nfts /\ (ByHand(j)' => loops'[j].orig # loops[m].next)
    BY <1>7, <1>13, <1>14, <2>2 DEF IInv, MintOK
  <2>4. ASSUME NEW m \in Loops, loops'[m].pc = "minted"
        PROVE  LET n == loops'[m].next IN
               /\ n \in Minted' /\ chain'.pool[n] = PoolOf(m)' /\ n \notin app'.todo
               /\ entries'[n] = None /\ claims'[n] = None
               /\ mem'[n] = "absent" /\ disk'[n] = "absent"
               /\ \A r \in Requests : asks'[r] # n
    <3>1. PICK n \in Nfts : n = loops[m].next /\ n # k /\ n = loops'[m].next
      BY <2>2, <2>4
    <3>2. /\ n \in Minted /\ chain.pool[n] = PoolOf(m) /\ n \notin app.todo
          /\ entries[n] = None /\ claims[n] = None
          /\ mem[n] = "absent" /\ disk[n] = "absent"
          /\ \A r \in Requests : asks[r] # n
      BY <2>2, <2>4, <3>1 DEF IInv, MintOK
    <3>3. claims'[n] = None /\ mem'[n] = "absent" /\ disk'[n] = "absent"
      BY <1>9, <3>1, <3>2
    <3>4. PoolOf(m)' = PoolOf(m)
      BY <1>14, <2>2, <2>4
    <3>5. chain' = chain /\ app' = app /\ entries' = entries /\ asks' = asks
      BY <1>3
    <3>6. /\ n \in Minted' /\ chain'.pool[n] = PoolOf(m)' /\ n \notin app'.todo
          /\ entries'[n] = None /\ \A r \in Requests : asks'[r] # n
      BY <1>10, <3>2, <3>4, <3>5
    <3> QED
      BY <3>1, <3>3, <3>6
  <2> QED
    BY <2>1, <2>2, <2>3, <2>4 DEF MintOK
<1>m. MintedOK'
  BY <1>4, <1>9, <1>10 DEF IInv, MintedOK
<1>24. LateRecords = FALSE => SlotsOK'
  <2> SUFFICES ASSUME LateRecords = FALSE PROVE SlotsOK'
    OBVIOUS
  <2>1. /\ app'.phase # "up" => mem' = disk'
        /\ \A j \in Nfts : disk'[j] = "running" => mem'[j] = "running"
    BY <1>3, <1>9 DEF IInv, SlotsOK
  <2>2. ASSUME NEW m \in Loops
        PROVE  /\ Present(m)' /\ ~loops'[m].byHand /\ entries'[loops'[m].key] = m =>
                     mem'[loops'[m].key] = "running" /\ disk'[loops'[m].key] = "running"
               /\ Disowned(m)' =>
                     mem'[loops'[m].key] \in {"absent", "stopped"} /\ disk'[loops'[m].key] # "running"
    <3>1. CASE m = l
      BY <1>7, <1>9, <1>13, <3>1
    <3>2. CASE m # l
      <4>1. Disowned(m) => Present(m)
        BY DEF Disowned, Fresh
      <4> QED
        BY <1>3, <1>7, <1>9, <1>11, <1>14, <3>2, <4>1 DEF IInv, SlotsOK
    <3> QED
      BY <3>1, <3>2
  <2>3. ASSUME NEW m \in Loops, ByHand(m)',
               \/ loops'[m].pc \in {"signer", "detect"} /\ loops'[m].prev # "running"
               \/ loops'[m].key # loops'[m].orig
        PROVE  mem'[loops'[m].orig] # "running" /\ disk'[loops'[m].orig] # "running"
    <3>1. m # l /\ ByHand(m) /\ loops'[m] = loops[m]
      BY <1>7, <1>13, <1>14, <2>3
    <3>2. loops[m].orig # k /\ loops[m].orig \in Nfts
      BY <1>12, <3>1
    <3>3. mem[loops[m].orig] # "running" /\ disk[loops[m].orig] # "running"
      BY <2>3, <3>1 DEF IInv, SlotsOK
    <3> QED
      BY <1>9, <3>1, <3>2, <3>3
  <2> QED
    BY <2>1, <2>2, <2>3 DEF SlotsOK
<1>25. LateRecords = FALSE => HistoryOK'
  <2> SUFFICES ASSUME LateRecords = FALSE PROVE HistoryOK'
    OBVIOUS
  <2>1. \A m \in Loops : loops[m].nfts \subseteq Nfts
    BY Typing DEF LoopType
  <2>2. \A j \in Nfts : Off(j) => Off(j)' \/ j = k
    BY <1>3, <1>9 DEF Off
  <2>3. \A m \in Loops : Present(m) => Present(m)' /\ loops'[m].key = loops[m].key
    BY <1>1, <1>7, <1>13, <1>14
  <2>4. \A m \in Loops : loops'[m].nfts = loops[m].nfts
    BY <1>7
  <2>5. \A i, m \in Loops : i # m /\ Fresh(m)' /\ loops'[m].key \in loops'[i].nfts =>
          loops'[m].byHand /\ loops'[m].prev # "running"
    BY <1>7, <1>13, <1>14, <2>4 DEF IInv, HistoryOK
  <2>6. \A m \in Loops : \A j \in loops'[m].nfts :
          Off(j)' \/ \E n \in Loops : Present(n)' /\ loops'[n].key = j
    BY <1>1, <1>4, <2>1, <2>2, <2>3, <2>4 DEF IInv, HistoryOK
  <2> QED
    BY <2>5, <2>6 DEF HistoryOK
<1> QED
  BY <1>17, <1>18, <1>19, <1>20, <1>21, <1>22, <1>23, <1>24, <1>25, <1>m DEF IInv

\* What a launch holds before anything has started keeps the invariant by what the file holds.
LEMMA LaunchedOK ==
    ASSUME chain \in [pool : [Nfts -> Pools \cup {None}], open : SUBSET Nfts],
           mem \in [Nfts -> Slots], disk = mem,
           \A k \in Nfts : mem[k] # "absent" => k \in Minted,
           app = [phase |-> "locked", stopping |-> FALSE, todo |-> {}], Launched
    PROVE  IInv
<1>1. /\ loops = [l \in Loops |-> NoLoop] /\ entries = [k \in Nfts |-> None]
      /\ running = [k \in Nfts |-> None] /\ claims = [k \in Nfts |-> None]
      /\ asks = [r \in Requests |-> None]
  BY DEF Launched
<1>2. app.phase = "locked" /\ app.stopping = FALSE /\ app.todo = {}
  OBVIOUS
<1>3. loops \in [Loops -> LoopType] /\ \A l \in Loops : loops[l] = NoLoop
  BY <1>1, NoLoopType
<1>4. \A l \in Loops : /\ loops[l].pc = "none" /\ ~Present(l) /\ ~ByHand(l) /\ ~Fresh(l)
                       /\ ~Holds(l) /\ ~Polls(l) /\ ~Disowned(l) /\ loops[l].nfts = {}
                       /\ ~loops[l].byHand
  BY <1>3, NoLoopType DEF Present, ByHand, Fresh, Holds, Polls, Polling, Disowned
<1>5. TypeOK
  BY <1>1, <1>3 DEF TypeOK, LoopType
<1>6. PhaseOK
  BY <1>1, <1>2, <1>3, <1>4 DEF PhaseOK
<1>7. (\A l \in Loops : LoopOK(l)) /\ KeysOK
  BY <1>3, <1>4 DEF LoopOK, KeysOK
<1>8. TablesOK /\ AsksOK
  BY <1>1, <1>4 DEF TablesOK, AsksOK
<1>9. MintOK /\ MintedOK /\ SlotsOK /\ HistoryOK
  BY <1>4 DEF MintOK, MintedOK, SlotsOK, HistoryOK
<1> QED
  BY <1>5, <1>6, <1>7, <1>8, <1>9 DEF IInv

LEMMA InvInit == Init => IInv
<1> SUFFICES ASSUME Init PROVE IInv
  OBVIOUS
<1>1. PICK pool \in [Nfts \ Later -> Pools], open \in SUBSET (Nfts \ Later) :
        chain = [pool |-> [k \in Nfts |-> IF k \in Later THEN None ELSE pool[k]],
                 open |-> open]
  BY DEF Init
<1>2. chain \in [pool : [Nfts -> Pools \cup {None}], open : SUBSET Nfts]
  BY <1>1
<1>3. \A k \in Nfts : k \notin Later => chain.pool[k] # None
  BY <1>1, RegistryAssumption
<1>4. \A k \in Nfts : mem[k] # "absent" => k \in Minted
  BY <1>3 DEF Init, Minted
<1> QED
  BY <1>2, <1>4, LaunchedOK DEF Init

LEMMA RelaunchKeeps == ASSUME IInv, Relaunch PROVE IInv'
<1>1. /\ mem' = disk /\ UNCHANGED <<chain, disk>>
      /\ app' = [phase |-> "locked", stopping |-> FALSE, todo |-> {}]
      /\ loops' = [l \in Loops |-> NoLoop] /\ entries' = [k \in Nfts |-> None]
      /\ running' = [k \in Nfts |-> None] /\ claims' = [k \in Nfts |-> None]
      /\ asks' = [r \in Requests |-> None]
  BY DEF Relaunch
<1>2. app'.phase = "locked" /\ app'.stopping = FALSE /\ app'.todo = {}
  BY <1>1
<1>3. loops' \in [Loops -> LoopType] /\ \A l \in Loops : loops'[l] = NoLoop
  BY <1>1, NoLoopType
<1>4. \A l \in Loops : /\ loops'[l].pc = "none" /\ ~Present(l)' /\ ~ByHand(l)' /\ ~Fresh(l)'
                       /\ ~Holds(l)' /\ ~Polls(l)' /\ ~Disowned(l)' /\ loops'[l].nfts = {}
                       /\ ~loops'[l].byHand
  BY <1>3, NoLoopType DEF Present, ByHand, Fresh, Holds, Polls, Polling, Disowned
<1>5. \A k \in Nfts : disk[k] # "absent" => k \in Minted'
  BY <1>1 DEF IInv, MintedOK, Minted
<1>6. TypeOK'
  BY <1>1, <1>3 DEF IInv, TypeOK, LoopType
<1>7. PhaseOK'
  BY <1>1, <1>2, <1>3, <1>4 DEF PhaseOK
<1>8. (\A l \in Loops : LoopOK(l)') /\ KeysOK'
  BY <1>3, <1>4 DEF LoopOK, KeysOK
<1>9. TablesOK' /\ AsksOK'
  BY <1>1, <1>4 DEF TablesOK, AsksOK
<1>10. MintOK' /\ MintedOK' /\ SlotsOK' /\ HistoryOK'
  BY <1>1, <1>4, <1>5 DEF MintOK, MintedOK, SlotsOK, HistoryOK
<1> QED
  BY <1>6, <1>7, <1>8, <1>9, <1>10 DEF IInv

LEMMA StutterKeeps == ASSUME IInv, UNCHANGED vars PROVE IInv'
<1>1. app' \in [phase : {"locked", "listed", "startup", "up"}, stopping : BOOLEAN,
                todo : SUBSET Nfts]
  BY AppType DEF vars
<1>2. PhaseOK'
  BY DEF IInv, PhaseOK, Present, Fresh, PoolOf, Minted, vars
<1>3. \A l \in Loops : loops[l].pc # "minted" \/ loops[l].next \notin app'.todo
  BY DEF IInv, MintOK, vars
<1>4. app'.phase # "up" => app.phase # "up"
  BY DEF vars
<1> QED
  BY <1>1, <1>2, <1>3, <1>4, PhaseTurns DEF vars

-----------------------------------------------------------------------------
(* The types of the tables need no assumption. *)

\* What a loop's fields are when a step may write a table under them.
Keyed(r) ==
    /\ r \in LoopType
    /\ r.pc # "none" => r.key \in Nfts
    /\ r.byHand => r.orig \in Nfts
    /\ r.pc = "minted" => r.next \in Nfts

TInv == TypeOK /\ \A l \in Loops : Keyed(loops[l])

AppSet == [phase : {"locked", "listed", "startup", "up"}, stopping : BOOLEAN, todo : SUBSET Nfts]

LEMMA KeyedLoop ==
    ASSUME TInv, NEW l \in Loops, NEW r, Keyed(r), loops' = [loops EXCEPT ![l] = r]
    PROVE  loops' \in [Loops -> LoopType] /\ \A m \in Loops : Keyed(loops'[m])
BY Typed DEF TInv, Keyed

\* A step that leaves the loops alone.
LEMMA LoopsStay ==
    ASSUME TInv, UNCHANGED loops
    PROVE  loops' \in [Loops -> LoopType] /\ \A m \in Loops : Keyed(loops'[m])
BY Typed DEF TInv

LEMMA TypesKept ==
    ASSUME chain' \in [pool : [Nfts -> Pools \cup {None}], open : SUBSET Nfts],
           mem' \in [Nfts -> Slots], disk' \in [Nfts -> Slots], app' \in AppSet,
           loops' \in [Loops -> LoopType], \A m \in Loops : Keyed(loops'[m]),
           entries' \in [Nfts -> Loops \cup {None}],
           running' \in [Nfts -> Pools \cup {None}], claims' \in [Nfts -> Pools \cup {None}],
           asks' \in [Requests -> Nfts \cup {None}]
    PROVE  TInv'
BY DEF TInv, TypeOK, LoopType, AppSet

\* What the code makes of the settings is settings.
LEMMA SlotsTyped ==
    ASSUME NEW slots \in [Nfts -> Slots], NEW k \in Nfts, NEW n \in Nfts, NEW st \in Slots, NEW keys
    PROVE  /\ SetStatus(slots, keys, st) \in [Nfts -> Slots]
           /\ OffList(slots, keys) \in [Nfts -> Slots]
           /\ Persisted(slots, k) \in [Nfts -> Slots]
           /\ Rekeyed(slots, k, n) \in [Nfts -> Slots]
           /\ [slots EXCEPT ![k] = st] \in [Nfts -> Slots]
BY DEF SetStatus, OffList, Persisted, Rekeyed, Slots

LEMMA Written ==
    ASSUME TInv, NEW slots \in [Nfts -> Slots], Write(slots)
    PROVE  mem' \in [Nfts -> Slots] /\ disk' \in [Nfts -> Slots]
BY Typed, SavedEach DEF TInv, Write

LEMMA TakenOffTyped ==
    ASSUME TInv, NEW k \in Nfts, TakenOff(k)
    PROVE  /\ mem' \in [Nfts -> Slots] /\ disk' \in [Nfts -> Slots]
           /\ running' \in [Nfts -> Pools \cup {None}]
<1>1. "stopped" \in Slots /\ mem \in [Nfts -> Slots] /\ running \in [Nfts -> Pools \cup {None}]
  BY Typed DEF TInv, Slots
<1>2. OffList(mem, {k}) \in [Nfts -> Slots]
  BY <1>1, SlotsTyped
<1> QED
  BY <1>1, <1>2, Written DEF TakenOff

LEMMA StartUpTyped ==
    ASSUME TInv, Unlock \/ ChoosePositions \/ StartUpEnds \/ \E k \in Nfts : NextToStart(k)
    PROVE  TInv'
<1>1. /\ TypeOK /\ app \in AppSet
      /\ chain \in [pool : [Nfts -> Pools \cup {None}], open : SUBSET Nfts]
  BY DEF TInv, TypeOK, AppSet
<1>2. CASE Unlock
  <2>1. app' \in AppSet
    BY <1>1, <1>2 DEF Unlock, AppSet, ListedIn
  <2> QED
    BY <1>1, <1>2, <2>1, Typed, LoopsStay, TypesKept DEF Unlock
<1>3. CASE ChoosePositions
  <2>1. PICK keys, todo \in SUBSET Nfts :
          /\ Write(OffList(mem, keys)) /\ app' = [app EXCEPT !.phase = "startup", !.todo = todo]
    BY <1>1, <1>3 DEF ChoosePositions, AppSet
  <2>2. app' \in AppSet
    BY <1>1, <2>1 DEF AppSet
  <2>3. OffList(mem, keys) \in [Nfts -> Slots]
    BY <1>1, Typed DEF OffList, SetStatus, Slots
  <2>4. mem' \in [Nfts -> Slots] /\ disk' \in [Nfts -> Slots]
    BY <2>1, <2>3, Written
  <2> QED
    BY <1>1, <1>3, <2>2, <2>4, Typed, LoopsStay, TypesKept DEF ChoosePositions
<1>4. CASE StartUpEnds
  <2>1. app' \in AppSet
    BY <1>1, <1>4 DEF StartUpEnds, AppSet
  <2> QED
    BY <1>1, <1>4, <2>1, Typed, LoopsStay, TypesKept DEF StartUpEnds
<1>5. ASSUME NEW k \in Nfts, NextToStart(k) PROVE TInv'
  <2>1. app' \in AppSet /\ UNCHANGED <<chain, mem, disk, claims, asks>>
    BY <1>1, <1>5 DEF NextToStart, AppSet
  <2>2. CASE UNCHANGED <<loops, entries, running>>
    BY <1>1, <2>1, <2>2, Typed, LoopsStay, TypesKept
  <2>3. CASE /\ \E l \in Free : /\ loops' = [loops EXCEPT ![l] = Loop(k, FALSE, "running")]
                                /\ entries' = [entries EXCEPT ![k] = l]
             /\ running' = [running EXCEPT ![k] = None]
    <3>1. PICK l \in Free : /\ loops' = [loops EXCEPT ![l] = Loop(k, FALSE, "running")]
                            /\ entries' = [entries EXCEPT ![k] = l]
      BY <2>3
    <3>2. PICK x : x = Loop(k, FALSE, "running")
      OBVIOUS
    <3>3. l \in Loops /\ loops' = [loops EXCEPT ![l] = x]
      BY <3>1, <3>2 DEF Free
    <3>4. Keyed(x)
      BY <3>2, ListedStarts DEF Keyed
    <3>5. loops' \in [Loops -> LoopType] /\ \A m \in Loops : Keyed(loops'[m])
      BY <3>3, <3>4, KeyedLoop
    <3>6. entries' \in [Nfts -> Loops \cup {None}] /\ running' \in [Nfts -> Pools \cup {None}]
      BY <1>1, <2>3, <3>1, <3>3, Typed
    <3> QED
      BY <1>1, <2>1, <3>5, <3>6, Typed, TypesKept
  <2> QED
    BY <1>5, <2>2, <2>3 DEF NextToStart
<1> QED
  BY <1>2, <1>3, <1>4, <1>5

LEMMA ManageTyped ==
    ASSUME TInv, NEW r \in Requests,
           \/ \E k \in Nfts : ManageAsked(r, k)
           \/ ManageRefused(r)
           \/ \E l \in Loops : ManagePasses(r, l)
    PROVE  TInv'
<1>1. /\ TypeOK /\ app \in AppSet
      /\ chain \in [pool : [Nfts -> Pools \cup {None}], open : SUBSET Nfts]
  BY DEF TInv, TypeOK, AppSet
<1>2. ASSUME NEW k \in Nfts, ManageAsked(r, k) PROVE TInv'
  BY <1>1, <1>2, Typed, LoopsStay, TypesKept DEF ManageAsked
<1>3. CASE ManageRefused(r)
  BY <1>1, <1>3, Typed, LoopsStay, TypesKept DEF ManageRefused
<1>4. ASSUME NEW l \in Loops, ManagePasses(r, l) PROVE TInv'
  <2>1. PICK k \in Nfts : k = asks[r]
    BY <1>1, <1>4, Typed DEF ManagePasses
  <2>2. PICK status \in Slots : status = mem[k]
    BY <1>1, Typed
  <2>3. /\ asks' = [asks EXCEPT ![r] = None] /\ claims' = [claims EXCEPT ![k] = chain.pool[k]]
        /\ mem' = IF mem[k] = "absent" THEN [mem EXCEPT ![k] = "none"] ELSE mem
        /\ running' = [running EXCEPT ![k] = None]
        /\ loops' = [loops EXCEPT ![l] = ByHandLoop(k, status)]
        /\ UNCHANGED <<chain, disk, app, entries>>
    BY <1>4, <2>1, <2>2 DEF ManagePasses, ByHandLoop
  <2>4. PICK x : x = ByHandLoop(k, status)
    OBVIOUS
  <2>5. Keyed(x)
    BY <2>4, ManagedStarts DEF Keyed
  <2>6. loops' \in [Loops -> LoopType] /\ \A m \in Loops : Keyed(loops'[m])
    BY <2>3, <2>4, <2>5, KeyedLoop
  <2>7. /\ mem' \in [Nfts -> Slots] /\ asks' \in [Requests -> Nfts \cup {None}]
        /\ claims' \in [Nfts -> Pools \cup {None}] /\ running' \in [Nfts -> Pools \cup {None}]
    BY <1>1, <2>3, Typed DEF Slots
  <2> QED
    BY <1>1, <2>3, <2>6, <2>7, Typed, TypesKept
<1> QED
  BY <1>2, <1>3, <1>4

\* A step that moves one loop on, its key with it or not.
LEMMA Moved ==
    ASSUME TInv, NEW l \in Loops, loops[l].pc # "none",
           NEW to \in Steps, to # "minted",
           loops' = [loops EXCEPT ![l].pc = to]
    PROVE  loops' \in [Loops -> LoopType] /\ \A m \in Loops : Keyed(loops'[m])
<1>1. /\ loops \in [Loops -> LoopType] /\ loops[l] \in LoopType /\ loops[l].key \in Nfts
      /\ loops[l].byHand => loops[l].orig \in Nfts
  BY Typed DEF TInv, Keyed
<1>2. PICK x : x = [loops[l] EXCEPT !.pc = to]
  OBVIOUS
<1>3. Keyed(x)
  BY <1>1, <1>2 DEF Keyed, LoopType
<1> QED
  BY <1>1, <1>2, <1>3, KeyedLoop

LEMMA NoLoopKeyed == Keyed(NoLoop)
BY NoLoopType DEF Keyed

LEMMA OverKeyed ==
    ASSUME NEW l \in Loops, loops[l].key \in Nfts PROVE Keyed(Over(l))
<1>1. "over" \in Steps
  BY DEF Steps
<1>2. PICK x : x = [NoLoop EXCEPT !.pc = "over", !.key = loops[l].key]
  OBVIOUS
<1>3. Keyed(x)
  BY <1>1, <1>2, NoLoopType DEF Keyed, LoopType
<1> QED
  BY <1>2, <1>3, NoLoopKeyed DEF Over

\* What a failed start leaves of the settings is settings.
LEMMA RolledBackTyped ==
    ASSUME TInv, NEW l \in Loops, loops[l].orig \in Nfts PROVE RolledBack(l) \in [Nfts -> Slots]
<1>1. mem \in [Nfts -> Slots] /\ loops[l].prev \in Slots /\ "absent" \in Slots
  BY Typed DEF TInv, LoopType, Slots
<1> QED
  BY <1>1 DEF RolledBack, SetStatus

LEMMA StartTyped == ASSUME TInv, NEW l \in Loops, StartStep(l) PROVE TInv'
<1>1. /\ TypeOK /\ app \in AppSet /\ app.stopping \in BOOLEAN
      /\ chain \in [pool : [Nfts -> Pools \cup {None}], open : SUBSET Nfts]
  BY DEF TInv, TypeOK, AppSet
<1>2. /\ loops[l] \in LoopType /\ Keyed(loops[l])
      /\ loops[l].pc # "none" => loops[l].key \in Nfts
      /\ loops[l].byHand => loops[l].orig \in Nfts
  BY <1>1, Typed DEF TInv, Keyed
<1>3. CASE Register(l)
  <2>1. PICK k \in Nfts : k = loops[l].key
    BY <1>2, <1>3 DEF Register
  <2>2. UNCHANGED <<chain, app, running, asks>> /\ loops[l].pc = "signer"
    BY <1>3 DEF Register
  <2>3. CASE /\ entries' = [entries EXCEPT ![k] = l]
             /\ loops' = [loops EXCEPT ![l].pc = "detect"]
             /\ UNCHANGED <<mem, disk, claims>>
    <3>1. "detect" \in Steps
      BY DEF Steps
    <3>2. loops' \in [Loops -> LoopType] /\ \A m \in Loops : Keyed(loops'[m])
      BY <2>2, <2>3, <3>1, Moved
    <3>3. entries' \in [Nfts -> Loops \cup {None}]
      BY <1>1, <2>3, Typed
    <3> QED
      BY <1>1, <2>2, <2>3, <3>2, <3>3, Typed, TypesKept
  <2>4. CASE /\ loops' = [loops EXCEPT ![l] = NoLoop] /\ claims' = [claims EXCEPT ![k] = None]
             /\ Write([mem EXCEPT ![k] = "running"]) /\ UNCHANGED entries
    <3>1. "running" \in Slots /\ mem \in [Nfts -> Slots]
      BY <1>1, Typed DEF Slots
    <3>2. mem' \in [Nfts -> Slots] /\ disk' \in [Nfts -> Slots]
      BY <2>4, <3>1, SlotsTyped, Written
    <3>3. loops' \in [Loops -> LoopType] /\ \A m \in Loops : Keyed(loops'[m])
      BY <2>4, NoLoopKeyed, KeyedLoop
    <3>4. claims' \in [Nfts -> Pools \cup {None}]
      BY <1>1, <2>4, Typed
    <3> QED
      BY <1>1, <2>2, <2>4, <3>2, <3>3, <3>4, Typed, TypesKept
  <2> QED
    BY <1>3, <2>1, <2>3, <2>4 DEF Register
<1>4. CASE Detect(l)
  <2>1. PICK k \in Nfts : k = loops[l].key
    BY <1>2, <1>4 DEF Detect
  <2>2. /\ loops[l].pc = "detect" /\ loops' = [loops EXCEPT ![l].pc = "poll"]
        /\ running' = [running EXCEPT ![k] = chain.pool[k]]
        /\ UNCHANGED <<chain, mem, disk, app, entries, claims, asks>>
    BY <1>4, <2>1 DEF Detect
  <2>3. "poll" \in Steps
    BY DEF Steps, Polling
  <2>4. loops' \in [Loops -> LoopType] /\ \A m \in Loops : Keyed(loops'[m])
    BY <2>2, <2>3, Moved
  <2>5. running' \in [Nfts -> Pools \cup {None}]
    BY <1>1, <2>2, Typed
  <2> QED
    BY <1>1, <2>2, <2>4, <2>5, Typed, TypesKept
<1>5. CASE StartFails(l)
  <2>1. /\ loops' = [loops EXCEPT ![l] = NoLoop] /\ entries' = Dropped(l)
        /\ UNCHANGED <<chain, disk, app, asks>>
    BY <1>5 DEF StartFails
  <2>2. loops' \in [Loops -> LoopType] /\ \A m \in Loops : Keyed(loops'[m])
    BY <2>1, NoLoopKeyed, KeyedLoop
  <2>3. entries' \in [Nfts -> Loops \cup {None}]
    BY <1>1, <2>1, Typed DEF Dropped
  <2>4. CASE loops[l].byHand
    <3>1. PICK o \in Nfts : o = loops[l].orig
      BY <1>2, <2>4
    <3>2. /\ mem' = RolledBack(l) /\ running' = [running EXCEPT ![o] = None]
          /\ claims' = [claims EXCEPT ![o] = None]
      BY <1>5, <2>4, <3>1 DEF StartFails
    <3>3. /\ mem' \in [Nfts -> Slots] /\ running' \in [Nfts -> Pools \cup {None}]
          /\ claims' \in [Nfts -> Pools \cup {None}]
      BY <1>1, <3>1, <3>2, RolledBackTyped, Typed
    <3> QED
      BY <1>1, <2>1, <2>2, <2>3, <3>3, Typed, TypesKept
  <2>5. CASE UNCHANGED <<mem, running, claims>>
    BY <1>1, <2>1, <2>2, <2>3, <2>5, Typed, TypesKept
  <2> QED
    BY <1>5, <2>4, <2>5 DEF StartFails
<1>6. CASE StartEnds(l)
  <2>1. PICK k \in Nfts : k = loops[l].key
    BY <1>2, <1>6 DEF StartEnds, Polling
  <2>2. PICK to \in Steps : to = IF app.stopping THEN "halted" ELSE "idle"
    BY DEF Steps
  <2>3. PICK x : x = [loops[l] EXCEPT !.pc = to, !.handle = TRUE, !.stopped = app.stopping,
                                      !.byHand = FALSE, !.orig = None, !.prev = "absent"]
    OBVIOUS
  <2>4. loops' = [loops EXCEPT ![l] = x] /\ UNCHANGED <<chain, app, entries, asks>>
    BY <1>6, <2>2, <2>3 DEF StartEnds
  <2>5. Keyed(x)
    BY <1>1, <1>2, <2>1, <2>2, <2>3 DEF Keyed, LoopType, Slots
  <2>6. loops' \in [Loops -> LoopType] /\ \A m \in Loops : Keyed(loops'[m])
    BY <2>4, <2>5, KeyedLoop
  <2>7. running' \in [Nfts -> Pools \cup {None}]
    <3>1. running' = IF app.stopping THEN [running EXCEPT ![k] = None] ELSE running
      BY <1>6, <2>1 DEF StartEnds
    <3> QED
      BY <1>1, <3>1, Typed
  <2>8. CASE loops[l].byHand
    <3>1. /\ Write([mem EXCEPT ![k] = "running"])
          /\ claims' = [claims EXCEPT ![loops[l].orig] = None]
      BY <1>6, <2>1, <2>8 DEF StartEnds
    <3>2. "running" \in Slots /\ mem \in [Nfts -> Slots]
      BY <1>1, Typed DEF Slots
    <3>3. mem' \in [Nfts -> Slots] /\ disk' \in [Nfts -> Slots]
      BY <3>1, <3>2, SlotsTyped, Written
    <3>4. claims' \in [Nfts -> Pools \cup {None}]
      BY <1>1, <3>1, Typed
    <3> QED
      BY <1>1, <2>4, <2>6, <2>7, <3>3, <3>4, Typed, TypesKept
  <2>9. CASE UNCHANGED <<mem, disk, claims>>
    BY <1>1, <2>4, <2>6, <2>7, <2>9, Typed, TypesKept
  <2> QED
    BY <1>6, <2>8, <2>9 DEF StartEnds
<1>7. CASE StartDisowned(l)
  <2>1. loops[l].key \in Nfts
    BY <1>2, <1>7 DEF StartDisowned, Polling
  <2>2. PICK x : x = Over(l)
    OBVIOUS
  <2>3. /\ loops' = [loops EXCEPT ![l] = x] /\ UNCHANGED <<chain, disk, app, entries, asks>>
        /\ running' = [k \in Nfts |->
               IF k = loops[l].key \/ (loops[l].byHand /\ k = loops[l].orig)
               THEN None ELSE running[k]]
    BY <1>7, <2>2 DEF StartDisowned
  <2>4. loops' \in [Loops -> LoopType] /\ \A m \in Loops : Keyed(loops'[m])
    BY <2>1, <2>2, <2>3, OverKeyed, KeyedLoop
  <2>5. running' \in [Nfts -> Pools \cup {None}]
    BY <1>1, <2>3, Typed
  <2>6. CASE loops[l].byHand
    <3>1. mem' = RolledBack(l) /\ claims' = [claims EXCEPT ![loops[l].orig] = None]
      BY <1>7, <2>6 DEF StartDisowned
    <3>2. mem' \in [Nfts -> Slots] /\ claims' \in [Nfts -> Pools \cup {None}]
      BY <1>1, <1>2, <2>6, <3>1, RolledBackTyped, Typed
    <3> QED
      BY <1>1, <2>3, <2>4, <2>5, <3>2, Typed, TypesKept
  <2>7. CASE UNCHANGED <<mem, claims>>
    BY <1>1, <2>3, <2>4, <2>5, <2>7, Typed, TypesKept
  <2> QED
    BY <1>7, <2>6, <2>7 DEF StartDisowned
<1> QED
  BY <1>3, <1>4, <1>5, <1>6, <1>7 DEF StartStep

LEMMA PollTyped == ASSUME TInv, NEW l \in Loops, PollStep(l) PROVE TInv'
<1>1. /\ TypeOK /\ app \in AppSet
      /\ chain \in [pool : [Nfts -> Pools \cup {None}], open : SUBSET Nfts]
  BY DEF TInv, TypeOK, AppSet
<1>2. /\ loops[l] \in LoopType /\ Keyed(loops[l])
      /\ loops[l].pc # "none" => loops[l].key \in Nfts
      /\ loops[l].byHand => loops[l].orig \in Nfts
  BY <1>1, Typed DEF TInv, Keyed
<1>3. CASE PollBegins(l) \/ MoveBegins(l) \/ MoveFails(l) \/ PollEnds(l)
  <2>1. PICK to \in {"poll", "moving", "polled", "halted", "idle"} :
          loops[l].pc # "none" /\ loops' = [loops EXCEPT ![l].pc = to]
    BY <1>3 DEF PollBegins, MoveBegins, MoveFails, PollEnds
  <2>2. to \in Steps /\ to # "minted"
    BY DEF Steps, Polling
  <2>3. loops' \in [Loops -> LoopType] /\ \A m \in Loops : Keyed(loops'[m])
    BY <2>1, <2>2, Moved
  <2>4. UNCHANGED <<mem, disk, app, entries, running, claims, asks>>
    BY <1>3 DEF PollBegins, MoveBegins, MoveFails, PollEnds
  <2>5. chain' \in [pool : [Nfts -> Pools \cup {None}], open : SUBSET Nfts]
    BY <1>1, <1>3 DEF PollBegins, MoveBegins, MoveFails, PollEnds
  <2> QED
    BY <1>1, <2>3, <2>4, <2>5, Typed, TypesKept
<1>4. CASE MoveMints(l)
  <2>1. PICK n \in Nfts :
          /\ chain' = [pool |-> [chain.pool EXCEPT ![n] = chain.pool[loops[l].key]],
                       open |-> (chain.open \ {loops[l].key}) \cup {n}]
          /\ loops' = [loops EXCEPT ![l].pc = "minted", ![l].next = n]
    BY <1>4 DEF MoveMints
  <2>2. loops[l].key \in Nfts /\ UNCHANGED <<mem, disk, app, entries, running, claims, asks>>
    BY <1>2, <1>4 DEF MoveMints
  <2>3. PICK x : x = [loops[l] EXCEPT !.pc = "minted", !.next = n]
    OBVIOUS
  <2>4. Keyed(x)
    BY <1>2, <2>2, <2>3 DEF Keyed, LoopType, Steps, Polling
  <2>5. loops' \in [Loops -> LoopType] /\ \A m \in Loops : Keyed(loops'[m])
    BY <2>1, <2>3, <2>4, KeyedLoop
  <2>6. chain' \in [pool : [Nfts -> Pools \cup {None}], open : SUBSET Nfts]
    BY <1>1, <2>1, <2>2, Typed
  <2> QED
    BY <1>1, <2>2, <2>5, <2>6, Typed, TypesKept
<1>5. CASE MoveRecorded(l)
  <2>1. loops[l].pc = "minted"
    BY <1>5 DEF MoveRecorded
  <2>2. PICK old \in Nfts, new \in Nfts : old = loops[l].key /\ new = loops[l].next
    BY <1>2, <2>1 DEF Keyed
  <2>3. PICK first, then : first = Persisted(mem, old) /\ then = Rekeyed(first, old, new)
    OBVIOUS
  <2>4. /\ mem' = then
        /\ disk' = Saved(then, IF mem[old] = "absent" THEN disk ELSE Saved(first, disk))
        /\ entries' = EntriesRekeyed(old, new)
        /\ running' = [running EXCEPT ![new] = running[old], ![old] = None]
        /\ loops' = [loops EXCEPT ![l].pc = "polled", ![l].key = new,
                                  ![l].next = None, ![l].nfts = @ \cup {new}]
        /\ UNCHANGED <<chain, app, claims, asks>>
    BY <1>5, <2>2, <2>3 DEF MoveRecorded
  <2>5. first \in [Nfts -> Slots] /\ then \in [Nfts -> Slots]
    <3>1. mem \in [Nfts -> Slots] /\ "running" \in Slots
      BY <1>1, Typed DEF Slots
    <3>2. first \in [Nfts -> Slots]
      BY <2>3, <3>1, SlotsTyped
    <3> QED
      BY <2>3, <3>1, <3>2, SlotsTyped
  <2>6. mem' \in [Nfts -> Slots] /\ disk' \in [Nfts -> Slots]
    <3>1. disk \in [Nfts -> Slots] /\ Saved(first, disk) \in [Nfts -> Slots]
      BY <1>1, <2>5, Typed, SavedEach
    <3>2. PICK file \in [Nfts -> Slots] :
            file = IF mem[old] = "absent" THEN disk ELSE Saved(first, disk)
      BY <3>1
    <3> QED
      BY <2>4, <2>5, <3>2, SavedEach
  <2>7. PICK x : x = [loops[l] EXCEPT !.pc = "polled", !.key = new, !.next = None,
                                      !.nfts = loops[l].nfts \cup {new}]
    OBVIOUS
  <2>8. Keyed(x)
    BY <1>2, <2>2, <2>7 DEF Keyed, LoopType, Steps, Polling
  <2>9. loops' \in [Loops -> LoopType] /\ \A m \in Loops : Keyed(loops'[m])
    BY <2>4, <2>7, <2>8, KeyedLoop
  <2>10. entries' \in [Nfts -> Loops \cup {None}] /\ running' \in [Nfts -> Pools \cup {None}]
    BY <1>1, <2>2, <2>4, Typed DEF EntriesRekeyed
  <2> QED
    BY <1>1, <2>4, <2>6, <2>9, <2>10, Typed, TypesKept
<1>6. CASE RecordSaved(l)
  <2>1. loops[l].pc # "none"
    BY <1>6 DEF RecordSaved, Polling
  <2>2. PICK k \in Nfts : k = loops[l].key
    BY <1>2, <2>1
  <2>3. Write(Persisted(mem, k)) /\ UNCHANGED <<chain, app, loops, entries, running, claims, asks>>
    BY <1>6, <2>2 DEF RecordSaved
  <2>4. mem \in [Nfts -> Slots] /\ "running" \in Slots
    BY <1>1, Typed DEF Slots
  <2>5. mem' \in [Nfts -> Slots] /\ disk' \in [Nfts -> Slots]
    BY <2>3, <2>4, SlotsTyped, Written
  <2> QED
    BY <1>1, <2>3, <2>5, Typed, LoopsStay, TypesKept
<1> QED
  BY <1>3, <1>4, <1>5, <1>6 DEF PollStep

LEMMA StopTyped ==
    ASSUME TInv,
           \/ StopApp \/ Relaunch
           \/ \E k \in Nfts : StopManagingEarly(k) \/ StopManaging(k)
           \/ \E l \in Loops : StopStep(l)
    PROVE  TInv'
<1>1. /\ TypeOK /\ app \in AppSet
      /\ chain \in [pool : [Nfts -> Pools \cup {None}], open : SUBSET Nfts]
  BY DEF TInv, TypeOK, AppSet
<1>2. \A l \in Loops : Keyed(loops[l]) /\ loops[l] \in LoopType
  BY DEF TInv, Keyed
<1>3. CASE StopApp
  <2>1. app' \in AppSet /\ UNCHANGED <<chain, mem, disk, entries, claims, asks>>
    BY <1>1, <1>3 DEF StopApp, AppSet
  <2>2. running' \in [Nfts -> Pools \cup {None}]
    BY <1>1, <1>3, Typed DEF StopApp
  <2>3. loops' = [l \in Loops |-> IF loops[l].handle /\ loops[l].pc # "over"
                   THEN [loops[l] EXCEPT !.stopped = TRUE,
                                         !.pc = IF loops[l].pc = "idle" THEN "halted"
                                                ELSE loops[l].pc]
                   ELSE loops[l]]
    BY <1>3 DEF StopApp
  <2>4. ASSUME NEW l \in Loops PROVE Keyed(loops'[l])
    <3>1. PICK to \in Steps : to = IF loops[l].pc = "idle" THEN "halted" ELSE loops[l].pc
      BY <1>2 DEF LoopType, Steps
    <3>2. PICK x : x = [loops[l] EXCEPT !.stopped = TRUE, !.pc = to]
      OBVIOUS
    <3>3. Keyed(x)
      BY <1>2, <3>1, <3>2 DEF Keyed, LoopType
    <3>4. loops'[l] \in {x, loops[l]}
      BY <2>3, <3>1, <3>2
    <3> QED
      BY <1>2, <3>3, <3>4
  <2>5. loops' \in [Loops -> LoopType]
    <3>1. \A l \in Loops : loops'[l] \in LoopType
      BY <2>4 DEF Keyed
    <3> QED
      BY <2>3, <3>1
  <2> QED
    BY <1>1, <2>1, <2>2, <2>4, <2>5, Typed, TypesKept
<1>4. CASE Relaunch
  <2>1. app' \in AppSet
    BY <1>4 DEF Relaunch, AppSet
  <2>2. loops' \in [Loops -> LoopType] /\ \A l \in Loops : Keyed(loops'[l])
    BY <1>4, NoLoopType, NoLoopKeyed DEF Relaunch
  <2> QED
    BY <1>1, <1>4, <2>1, <2>2, Typed, TypesKept DEF Relaunch
<1>5. ASSUME NEW k \in Nfts, StopManagingEarly(k) PROVE TInv'
  <2>1. /\ entries' = [entries EXCEPT ![k] = None] /\ TakenOff(k)
        /\ UNCHANGED <<chain, app, loops, claims, asks>>
    BY <1>5 DEF StopManagingEarly
  <2>2. entries' \in [Nfts -> Loops \cup {None}]
    BY <1>1, <2>1, Typed
  <2> QED
    BY <1>1, <2>1, <2>2, TakenOffTyped, Typed, LoopsStay, TypesKept
<1>6. ASSUME NEW k \in Nfts, StopManaging(k) PROVE TInv'
  <2>1. PICK l \in Loops : l = entries[k]
    BY <1>1, <1>6, Typed DEF StopManaging
  <2>2. PICK to \in Steps : to = IF loops[l].pc = "idle" THEN "halted" ELSE loops[l].pc
    BY <1>2 DEF LoopType, Steps
  <2>3. PICK x : x = [loops[l] EXCEPT !.stopped = TRUE, !.leaving = TRUE, !.pc = to]
    OBVIOUS
  <2>4. /\ loops' = [loops EXCEPT ![l] = x] /\ running' = [running EXCEPT ![k] = None]
        /\ UNCHANGED <<chain, mem, disk, app, entries, claims, asks>>
    BY <1>6, <2>1, <2>2, <2>3 DEF StopManaging
  <2>5. Keyed(x)
    BY <1>2, <2>2, <2>3 DEF Keyed, LoopType
  <2>6. loops' \in [Loops -> LoopType] /\ \A m \in Loops : Keyed(loops'[m])
    BY <2>4, <2>5, KeyedLoop
  <2>7. running' \in [Nfts -> Pools \cup {None}]
    BY <1>1, <2>4, Typed
  <2> QED
    BY <1>1, <2>4, <2>6, <2>7, Typed, TypesKept
<1>7. ASSUME NEW l \in Loops, StopEnds(l) PROVE TInv'
  <2>1. loops[l].key \in Nfts
    BY <1>2, <1>7 DEF StopEnds, Keyed
  <2>2. PICK x : x = [NoLoop EXCEPT !.pc = "over", !.key = loops[l].key, !.leaving = TRUE,
                                    !.nfts = loops[l].nfts]
    OBVIOUS
  <2>3. /\ loops' = [loops EXCEPT ![l] = x] /\ entries' = Dropped(l) /\ TakenOff(loops[l].key)
        /\ UNCHANGED <<chain, app, claims, asks>>
    BY <1>7, <2>2 DEF StopEnds
  <2>4. Keyed(x)
    BY <1>2, <2>1, <2>2, NoLoopType DEF Keyed, LoopType, Steps
  <2>5. loops' \in [Loops -> LoopType] /\ \A m \in Loops : Keyed(loops'[m])
    BY <2>3, <2>4, KeyedLoop
  <2>6. entries' \in [Nfts -> Loops \cup {None}]
    BY <1>1, <2>3, Typed DEF Dropped
  <2> QED
    BY <1>1, <2>1, <2>3, <2>5, <2>6, TakenOffTyped, Typed, TypesKept
<1>8. ASSUME NEW l \in Loops, Retire(l) PROVE TInv'
  <2>1. PICK k \in Nfts : k = loops[l].key
    BY <1>2, <1>8 DEF Retire, Keyed
  <2>2. PICK x : x = IF loops[l].handle THEN Over(l)
                     ELSE [loops[l] EXCEPT !.pc = "polled", !.stopped = TRUE]
    OBVIOUS
  <2>3. /\ loops' = [loops EXCEPT ![l] = x] /\ entries' = [entries EXCEPT ![k] = None]
        /\ TakenOff(k) /\ UNCHANGED <<chain, app, claims, asks>>
    BY <1>8, <2>1, <2>2 DEF Retire
  <2>4. Keyed(x)
    <3>1. CASE loops[l].handle
      BY <2>1, <2>2, <3>1, OverKeyed
    <3>2. CASE ~loops[l].handle
      BY <1>2, <2>1, <2>2, <3>2 DEF Keyed, LoopType, Steps, Polling
    <3> QED
      BY <3>1, <3>2
  <2>5. loops' \in [Loops -> LoopType] /\ \A m \in Loops : Keyed(loops'[m])
    BY <2>3, <2>4, KeyedLoop
  <2>6. entries' \in [Nfts -> Loops \cup {None}]
    BY <1>1, <2>3, Typed
  <2> QED
    BY <1>1, <2>3, <2>5, <2>6, TakenOffTyped, Typed, TypesKept
<1> QED
  BY <1>3, <1>4, <1>5, <1>6, <1>7, <1>8 DEF StopStep

LEMMA TypesInit == Init => TInv
<1> SUFFICES ASSUME Init PROVE TInv
  OBVIOUS
<1>1. PICK pool \in [Nfts \ Later -> Pools], open \in SUBSET (Nfts \ Later) :
        chain = [pool |-> [k \in Nfts |-> IF k \in Later THEN None ELSE pool[k]],
                 open |-> open]
  BY DEF Init
<1>2. chain \in [pool : [Nfts -> Pools \cup {None}], open : SUBSET Nfts]
  BY <1>1
<1>3. /\ loops = [l \in Loops |-> NoLoop] /\ entries = [k \in Nfts |-> None]
      /\ running = [k \in Nfts |-> None] /\ claims = [k \in Nfts |-> None]
      /\ asks = [r \in Requests |-> None]
      /\ mem \in [Nfts -> Slots] /\ disk = mem
      /\ app = [phase |-> "locked", stopping |-> FALSE, todo |-> {}]
  BY DEF Init, Launched
<1>4. loops \in [Loops -> LoopType] /\ \A l \in Loops : Keyed(loops[l])
  BY <1>3, NoLoopType, NoLoopKeyed
<1> QED
  BY <1>2, <1>3, <1>4 DEF TInv, TypeOK, LoopType

LEMMA TypesNext == TInv /\ [Next]_vars => TInv'
<1> SUFFICES ASSUME TInv, [Next]_vars PROVE TInv'
  OBVIOUS
<1>1. CASE UNCHANGED vars
  <2>1. /\ TypeOK /\ app' \in AppSet
        /\ chain' \in [pool : [Nfts -> Pools \cup {None}], open : SUBSET Nfts]
    BY <1>1 DEF TInv, TypeOK, AppSet, vars
  <2> QED
    BY <1>1, <2>1, Typed, LoopsStay, TypesKept DEF vars
<1>2. CASE Next
  BY <1>2, StartUpTyped, ManageTyped, StartTyped, PollTyped, StopTyped DEF Next
<1> QED
  BY <1>1, <1>2

\* The tables keep their types through every start, move, stop and relaunch, whatever requests
\* overlap and whatever a scan saves once its loop is over.
THEOREM TypeCorrect == Spec => []TypeOK
<1>1. TInv => TypeOK
  BY DEF TInv
<1> QED
  BY <1>1, TypesInit, TypesNext, PTL DEF Spec

-----------------------------------------------------------------------------
(* The invariant holds throughout, and what the loops owe follows from it. *)

LEMMA InvNext ==
    ASSUME IsFiniteSet(Nfts), Overtaken = FALSE
    PROVE  IInv /\ [Next]_vars => IInv'
<1> SUFFICES ASSUME IInv, [Next]_vars PROVE IInv'
  OBVIOUS
<1>1. CASE Unlock \/ ChoosePositions \/ StartUpEnds \/ StopApp \/ Relaunch
  BY <1>1, UnlockKeeps, ChoosePositionsKeeps, StartUpEndsKeeps, StopAppKeeps, RelaunchKeeps
<1>2. CASE \E k \in Nfts : NextToStart(k) \/ StopManagingEarly(k) \/ StopManaging(k)
  BY <1>2, NextToStartKeeps, StopManagingEarlyKeeps, StopManagingKeeps
<1>3. CASE \E r \in Requests : \/ \E k \in Nfts : ManageAsked(r, k)
                               \/ ManageRefused(r)
                               \/ \E l \in Loops : ManagePasses(r, l)
  BY <1>3, ManageAskedKeeps, ManageRefusedKeeps, ManagePassesKeeps
<1>4. CASE \E l \in Loops : StartStep(l)
  BY <1>4, RegisterKeeps, DetectKeeps, StartFailsKeeps, StartEndsKeeps, StartDisownedKeeps
     DEF StartStep
<1>5. CASE \E l \in Loops : PollStep(l)
  BY <1>5, PollBeginsKeeps, MoveBeginsKeeps, MoveFailsKeeps, MoveMintsKeeps, MoveRecordedKeeps,
     PollEndsKeeps, RecordSavedKeeps DEF PollStep
<1>6. CASE \E l \in Loops : StopStep(l)
  BY <1>6, StopEndsKeeps, RetireKeeps DEF StopStep
<1>7. CASE UNCHANGED vars
  BY <1>7, StutterKeeps
<1> QED
  BY <1>1, <1>2, <1>3, <1>4, <1>5, <1>6, <1>7 DEF Next

LEMMA OneLoopImplied == IInv => OneLoopPerPool
<1> SUFFICES ASSUME IInv, NEW l \in Loops, NEW m \in Loops, Active(l), Active(m),
                    chain.pool[loops[l].key] = chain.pool[loops[m].key]
             PROVE  l = m
  BY DEF OneLoopPerPool
<1>1. Holds(l) /\ Holds(m)
  BY DEF Active, Holds, Present, Polling
<1>2. PoolOf(l) = PoolOf(m)
  BY DEF PoolOf
<1> QED
  BY <1>1, <1>2 DEF IInv, KeysOK

LEMMA LiveImplied == LateRecords = FALSE /\ IInv => LiveIsListed
<1> SUFFICES ASSUME LateRecords = FALSE, IInv, NEW l \in Loops, Managed(l)
             PROVE  LET k == loops[l].key IN
                    /\ entries[k] = l
                    /\ mem[k] = "running" /\ disk[k] = "running"
                    /\ ~loops[l].stopped => running[k] = chain.pool[k]
  BY DEF LiveIsListed
<1>1. Present(l) /\ loops[l].handle
  BY NoLoopType DEF IInv, LoopOK, Managed, Present
<1>2. ~loops[l].byHand /\ entries[loops[l].key] = l
  BY <1>1 DEF IInv, LoopOK, TablesOK
<1>3. mem[loops[l].key] = "running" /\ disk[loops[l].key] = "running"
  BY <1>1, <1>2 DEF IInv, SlotsOK
<1>4. ASSUME ~loops[l].stopped PROVE running[loops[l].key] = PoolOf(l)
  <2>1. Polls(l)
    BY <1>1, <1>4, Typing DEF IInv, LoopOK, LoopType, Steps, Present, Polls
  <2> QED
    BY <1>2, <2>1 DEF IInv, TablesOK
<1> QED
  BY <1>2, <1>3, <1>4 DEF PoolOf

LEMMA StoppedImplied == LateRecords = FALSE /\ IInv => StoppedStaysOff
<1> SUFFICES ASSUME LateRecords = FALSE, IInv, NEW l \in Loops, loops[l].pc = "over", NEW k \in loops[l].nfts
             PROVE  \/ \E m \in Loops \ {l} : k \in loops[m].nfts
                    \/ mem[k] # "running" /\ disk[k] # "running" /\ entries[k] = None
  BY DEF StoppedStaysOff
<1>1. CASE Off(k)
  BY <1>1 DEF Off
<1>2. CASE \E m \in Loops : Present(m) /\ loops[m].key = k
  <2>1. PICK m \in Loops : Present(m) /\ loops[m].key = k
    BY <1>2
  <2>2. k \in loops[m].nfts /\ m # l
    BY <2>1 DEF IInv, LoopOK, Present
  <2> QED
    BY <2>1, <2>2
<1> QED
  BY <1>1, <1>2 DEF IInv, HistoryOK

LEMMA InvAlways ==
    ASSUME IsFiniteSet(Nfts), Overtaken = FALSE PROVE Spec => []IInv
<1>1. IInv /\ [Next]_vars => IInv'
  BY InvNext
<1> QED
  BY <1>1, InvInit, PTL DEF Spec

\* No two loops that may begin a move are ever in one pool: what findPoolConflict reads, the
\* states and the claims, covers every start and every change of key.
THEOREM OneLoopPerPoolCorrect ==
    ASSUME IsFiniteSet(Nfts), Overtaken = FALSE
    PROVE  Spec => []OneLoopPerPool
BY OneLoopImplied, InvAlways, PTL

\* A position that has started is recorded, saved and seen by the pool rule under the key it has
\* now, whatever moved its key and whatever other position was stopped or failed to start.
THEOREM LiveIsListedCorrect ==
    ASSUME IsFiniteSet(Nfts), Overtaken = FALSE, LateRecords = FALSE
    PROVE  Spec => []LiveIsListed
BY LiveImplied, InvAlways, PTL

\* After Stop Managing, no key the position has had is managed again except by another start.
THEOREM StoppedStaysOffCorrect ==
    ASSUME IsFiniteSet(Nfts), Overtaken = FALSE, LateRecords = FALSE
    PROVE  Spec => []StoppedStaysOff
BY StoppedImplied, InvAlways, PTL

===============================================================================
