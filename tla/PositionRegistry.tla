--------------------------- MODULE PositionRegistry ---------------------------
(*****************************************************************************)
(* Which positions the bot manages, and under which key.  Five tables say    *)
(* so, and a rebalance, which mints a new NFT, moves a position's key in     *)
(* four of them: the position manager's records (src/lib/position-manager.js)*)
(* the bot states, the claims of the starts under way (server-positions.js), *)
(* the settings in memory and bot-config.json (bot-config-v2.js).  The       *)
(* start-up reads that file back (server-auto-start.js); Manage, Stop        *)
(* Managing and a retire change it.                                          *)
(*                                                                           *)
(* One wallet on one chain, so an NFT stands for its composite key.  A step  *)
(* is what runs between two awaits.  A position's polls are cut down to what *)
(* moves its key: MoveControl has the rest of them.                          *)
(*****************************************************************************)
EXTENDS Naturals, FiniteSets

CONSTANTS
    Nfts,          \* the NFTs there are or will be
    Later,         \* those a rebalance has yet to mint
    Pools,
    None,          \* no NFT, no pool, no loop
    Loops,         \* the bot loops one launch may start
    Requests,      \* Manage requests that may be under way together
    Unreadable,    \* may the start-up's reads fail?
    Drains,        \* may a rebalance that fails have taken the liquidity?
    Overtaken,     \* may an NFT be managed while a Manage of it is in its gate?
    LateRecords    \* may a loop's scan still save records once the loop is over?

ASSUME RegistryAssumption ==
    /\ Later \subseteq Nfts
    /\ None \notin Nfts \cup Pools \cup Loops
    /\ {Unreadable, Drains, Overtaken, LateRecords} \subseteq BOOLEAN

VARIABLES
    chain,    \* each NFT's pool, and which NFTs are open
    mem,      \* diskConfig.positions: each slot's status
    disk,     \* the same in bot-config.json
    app,      \* app-phase, and what the start-up has left to start
    loops,    \* the bot loops
    entries,  \* _positions: the loop recorded under each key
    running,  \* _positionBotStates: the pool a state with running = true is in
    claims,   \* _starting: the pool each Manage under way has claimed
    asks      \* the NFT of each Manage request still in its gate

vars == <<chain, mem, disk, app, loops, entries, running, claims, asks>>

Minted == {k \in Nfts : chain.pool[k] # None}

\* "none" is a slot that holds settings and no status.
Slots == {"absent", "none", "stopped", "running"}

\* Where a loop is.  "signer": its Manage has passed the gate and waits for
\* the shared signer.  "detect": startBotLoop reads the position.  "poll" to
\* "polled": a poll, the first one while there is no handle.  "halted": a
\* stopped loop between polls.  "over": one whose position was removed.
Polling == {"poll", "moving", "minted", "polled"}
Steps   == {"none", "signer", "detect", "idle", "halted", "over"} \cup Polling

\* key: keyRef.current.  orig, prev, had: handleManage's key, _prevStatus and
\* _hadExistingConfig, while it starts.  stopped: _stopped.  leaving: a Stop Managing waits for
\* the poll to end.  nfts only records history: the keys the position has had.
NoLoop == [pc |-> "none", key |-> None, orig |-> None, byHand |-> FALSE,
           prev |-> "absent", handle |-> FALSE, stopped |-> FALSE,
           leaving |-> FALSE, next |-> None, nfts |-> {}]

Loop(k, hand, status) ==
    [NoLoop EXCEPT !.pc = IF hand THEN "signer" ELSE "detect", !.key = k,
                   !.orig = k, !.byHand = hand, !.prev = status, !.nfts = {k}]

\* What is left of a loop nobody asked to stop: its scan.
Over(l) == IF LateRecords
           THEN [NoLoop EXCEPT !.pc = "over", !.key = loops[l].key]
           ELSE NoLoop

-----------------------------------------------------------------------------
\* The settings.

ListedIn(slots) == {k \in Nfts : slots[k] = "running"}

\* A bug: an explicit stop counts as a position that vanished.
WouldLoseStopped(slots, file) ==
    /\ Cardinality(ListedIn(slots)) < Cardinality(ListedIn(file))
    /\ \E k \in ListedIn(file) : slots[k] # "running"

\* saveConfig's guard against positions that vanish unexplained; its other guard, of a
\* file with slots against settings with none at all, is left out.
WouldLose(slots, file) ==
    /\ Cardinality(ListedIn(slots)) < Cardinality(ListedIn(file))
    /\ \E k \in ListedIn(file) : slots[k] \in {"absent", "none"}

Saved(slots, file) == IF WouldLose(slots, file) THEN file ELSE slots

SetStatus(slots, keys, status) ==
    [k \in Nfts |-> IF k \in keys /\ slots[k] # "absent"
                    THEN status ELSE slots[k]]

\* removeManagedPosition, which leaves an absent slot absent.
OffList(slots, keys) == SetStatus(slots, keys, "stopped")

\* What _persistPositionConfig leaves: a slot never loses its status.
Persisted(slots, k) ==
    IF slots[k] = "none" THEN [slots EXCEPT ![k] = "running"] ELSE slots

\* migratePositionKey.
Rekeyed(slots, old, new) ==
    IF slots[old] = "absent" THEN slots
    ELSE [slots EXCEPT ![new] = slots[old], ![old] = "absent"]

Write(slots) == mem' = slots /\ disk' = Saved(slots, disk)

-----------------------------------------------------------------------------
\* The records and the states.

Recorded(l) == \E k \in Nfts : entries[k] = l
Dropped(l)  == [k \in Nfts |-> IF entries[k] = l THEN None ELSE entries[k]]

Starting(l) == loops[l].pc \in {"signer", "detect"} \cup Polling
                   /\ ~loops[l].handle

\* A bug: the record keeps its old key.
EntriesKept(old, new) == entries

\* migrateKey, which does nothing for a key with no record.
EntriesRekeyed(old, new) ==
    IF entries[old] = None THEN entries
    ELSE [entries EXCEPT ![new] = entries[old], ![old] = None]

Free == {l \in Loops : loops[l].pc = "none"}

-----------------------------------------------------------------------------
TypeOK ==
    /\ chain \in [pool : [Nfts -> Pools \cup {None}],
                  open : SUBSET Nfts]
    /\ mem \in [Nfts -> Slots]
    /\ disk \in [Nfts -> Slots]
    /\ app \in [phase : {"locked", "listed", "startup", "up"},
                stopping : BOOLEAN, todo : SUBSET Nfts]
    /\ loops \in [Loops ->
           [pc : Steps, key : Nfts \cup {None}, orig : Nfts \cup {None},
            byHand : BOOLEAN, prev : Slots, handle : BOOLEAN,
            stopped : BOOLEAN, leaving : BOOLEAN, next : Nfts \cup {None},
            nfts : SUBSET Nfts]]
    /\ entries \in [Nfts -> Loops \cup {None}]
    /\ running \in [Nfts -> Pools \cup {None}]
    /\ claims \in [Nfts -> Pools \cup {None}]
    /\ asks \in [Requests -> Nfts \cup {None}]

\* What a launch holds before anything has started.
Launched ==
    /\ loops = [l \in Loops |-> NoLoop]
    /\ entries = [k \in Nfts |-> None]
    /\ running = [k \in Nfts |-> None]
    /\ claims = [k \in Nfts |-> None]
    /\ asks = [r \in Requests |-> None]

\* A launch finds any list a history of launches may have left.
Init ==
    /\ \E pool \in [Nfts \ Later -> Pools], open \in SUBSET (Nfts \ Later) :
           chain = [pool |-> [k \in Nfts |-> IF k \in Later THEN None
                                             ELSE pool[k]],
                    open |-> open]
    /\ mem \in [Nfts -> Slots] /\ \A k \in Later : mem[k] = "absent"
    /\ disk = mem
    /\ app = [phase |-> "locked", stopping |-> FALSE, todo |-> {}]
    /\ Launched

-----------------------------------------------------------------------------
\* The start-up.

\* The wallet is unlocked: beginStartUp over the positions saved as managed.
Unlock ==
    /\ app.phase = "locked" /\ ~app.stopping
    /\ app' = [app EXCEPT !.phase = "listed", !.todo = ListedIn(mem)]
    /\ UNCHANGED <<chain, mem, disk, loops, entries, running, claims, asks>>

\* Of the positions whose owner and pool were read, each pool keeps one, an
\* open one if it has one (poolHoldersForStartUp).
Keeps(keepers, known) ==
    /\ \A k \in known : \E h \in keepers :
           /\ chain.pool[h] = chain.pool[k]
           /\ k \in chain.open => h \in chain.open
    /\ \A h, k \in keepers : chain.pool[h] = chain.pool[k] => h = k

\* _positionsToStart: an NFT that left the wallet, as any may have, comes off
\* the list, and so does every position whose pool another keeps.
ChoosePositions ==
    /\ app.phase = "listed"
    /\ \E known, gone, keepers \in SUBSET app.todo :
           /\ known \cap gone = {}
           /\ ~Unreadable => known \cup gone = app.todo
           /\ keepers \subseteq known /\ Keeps(keepers, known)
           /\ Write(OffList(mem, gone \cup (known \ keepers)))
           /\ app' = [app EXCEPT !.phase = "startup", !.todo = keepers]
    /\ UNCHANGED <<chain, loops, entries, running, claims, asks>>

\* The next position's turn, once the one before it has started: one a Stop
\* Managing took off the list meanwhile is passed over (_startListed).
NextToStart(k) ==
    /\ app.phase = "startup" /\ ~app.stopping /\ k \in app.todo
    /\ \A l \in Loops : ~Starting(l)
    /\ app' = [app EXCEPT !.todo = @ \ {k}]
    /\ \/ /\ mem[k] # "running"
          /\ UNCHANGED <<loops, entries, running>>
       \/ /\ mem[k] = "running"
          /\ \E l \in Free :
                 /\ loops' = [loops EXCEPT ![l] = Loop(k, FALSE, "running")]
                 /\ entries' = [entries EXCEPT ![k] = l]
          /\ running' = [running EXCEPT ![k] = None]
    /\ UNCHANGED <<chain, mem, disk, claims, asks>>

StartUpEnds ==
    /\ app.phase = "startup" /\ (app.todo = {} \/ app.stopping)
    /\ \A l \in Loops : ~Starting(l)
    /\ app' = [app EXCEPT !.phase = "up", !.todo = {}]
    /\ UNCHANGED <<chain, mem, disk, loops, entries, running, claims, asks>>

-----------------------------------------------------------------------------
\* Manage.

\* A request the server does not answer at once: nothing runs or starts
\* under its key yet.  Its gate then reads the position's pool.  Without
\* Overtaken, nothing will before the gate is through: the key of no other
\* request, nor of an NFT just minted whose key a rebalance is about to take.
ManageAsked(r, k) ==
    /\ app.phase = "up" /\ ~app.stopping
    /\ asks[r] = None /\ k \in Minted
    /\ entries[k] = None /\ claims[k] = None
    /\ Overtaken \/ /\ \A s \in Requests : asks[s] # k
                    /\ \A l \in Loops : loops[l].pc = "minted" => loops[l].next # k
    /\ asks' = [asks EXCEPT ![r] = k]
    /\ UNCHANGED <<chain, mem, disk, app, loops, entries, running, claims>>

\* A bug: the starts under way are not looked at.
ConflictRunning(k) == \E j \in Nfts \ {k} : chain.pool[k] = running[j]

\* findPoolConflict: a position other than k runs in k's pool, or starts.
Conflict(k) == \E j \in Nfts \ {k} :
    chain.pool[k] \in {running[j], claims[j]}

\* A closed NFT is not re-opened beside an open one the wallet scan knows of.
\* The pool may also be unreadable.
ManageRefused(r) ==
    /\ asks[r] # None
    /\ asks' = [asks EXCEPT ![r] = None]
    /\ UNCHANGED <<chain, mem, disk, app, loops, entries, running, claims>>

\* The claim is made in the same step as the check.
ManagePasses(r, l) ==
    LET k == asks[r] IN
    /\ k # None /\ ~Conflict(k)
    /\ l \in Free
    /\ asks' = [asks EXCEPT ![r] = None]
    /\ claims' = [claims EXCEPT ![k] = chain.pool[k]]
    /\ mem' = IF mem[k] = "absent" THEN [mem EXCEPT ![k] = "none"] ELSE mem
    /\ running' = [running EXCEPT ![k] = None]
    /\ loops' = [loops EXCEPT ![l] = Loop(k, TRUE, mem[k])]
    /\ UNCHANGED <<chain, disk, app, entries>>

\* startPosition records the position before its loop starts.  Had a start of
\* the same key recorded it first, this one does nothing and its Manage
\* answers that it started.
Register(l) ==
    LET k == loops[l].key IN
    /\ loops[l].pc = "signer" /\ ~app.stopping
    /\ \/ /\ entries[k] = None
          /\ entries' = [entries EXCEPT ![k] = l]
          /\ loops' = [loops EXCEPT ![l].pc = "detect"]
          /\ UNCHANGED <<mem, disk, claims>>
       \/ /\ entries[k] # None
          /\ loops' = [loops EXCEPT ![l] = NoLoop]
          /\ claims' = [claims EXCEPT ![k] = None]
          /\ Write([mem EXCEPT ![k] = "running"])
          /\ UNCHANGED entries
    /\ UNCHANGED <<chain, app, running, asks>>

\* startBotLoop knows its position, and its first poll begins.
Detect(l) ==
    /\ loops[l].pc = "detect"
    /\ loops' = [loops EXCEPT ![l].pc = "poll"]
    /\ running' = [running EXCEPT ![loops[l].key] = chain.pool[loops[l].key]]
    /\ UNCHANGED <<chain, mem, disk, app, entries, claims, asks>>

\* A bug: the slot is emptied rather than removed.
RolledBackEmpty(l) ==
    IF loops[l].prev = "absent"
    THEN [mem EXCEPT ![loops[l].orig] = None]
    ELSE SetStatus(mem, {loops[l].key}, loops[l].prev)

\* What the settings hold once a Manage's start has failed: a slot made for
\* it goes, another has the status it had.
RolledBack(l) ==
    IF loops[l].prev = "absent"
    THEN [mem EXCEPT ![loops[l].orig] = "absent"]
    ELSE SetStatus(mem, {loops[l].key}, loops[l].prev)

\* The signer or the detection fails, or the app is stopping.
StartFails(l) ==
    /\ loops[l].pc \in {"signer", "detect"}
    /\ loops' = [loops EXCEPT ![l] = NoLoop]
    /\ entries' = Dropped(l)
    /\ \/ /\ loops[l].byHand
          /\ mem' = RolledBack(l)
          /\ running' = [running EXCEPT ![loops[l].orig] = None]
          /\ claims' = [claims EXCEPT ![loops[l].orig] = None]
       \/ ~loops[l].byHand /\ UNCHANGED <<mem, running, claims>>
    /\ UNCHANGED <<chain, disk, app, asks>>

\* The first poll has ended, and the position is still recorded: the loop's
\* handle is kept, and a Manage saves the position under the key it has now.
StartEnds(l) ==
    LET now == loops[l].key IN
    /\ loops[l].pc \in Polling \ {"minted"} /\ ~loops[l].handle /\ Recorded(l)
    /\ loops' = [loops EXCEPT ![l].pc = IF app.stopping THEN "halted" ELSE "idle",
                              ![l].handle = TRUE, ![l].stopped = app.stopping,
                              ![l].byHand = FALSE, ![l].orig = None,
                              ![l].prev = "absent"]
    /\ running' = IF app.stopping THEN [running EXCEPT ![now] = None]
                  ELSE running
    /\ \/ /\ loops[l].byHand
          /\ Write([mem EXCEPT ![now] = "running"])
          /\ claims' = [claims EXCEPT ![loops[l].orig] = None]
       \/ ~loops[l].byHand /\ UNCHANGED <<mem, disk, claims>>
    /\ UNCHANGED <<chain, app, entries, asks>>

\* The position was removed during its first poll: the loop is stopped, and
\* the start fails.
StartDisowned(l) ==
    /\ loops[l].pc \in Polling \ {"minted"} /\ ~loops[l].handle /\ ~Recorded(l)
    /\ loops' = [loops EXCEPT ![l] = Over(l)]
    /\ running' = [k \in Nfts |->
           IF k = loops[l].key \/ (loops[l].byHand /\ k = loops[l].orig)
           THEN None ELSE running[k]]
    /\ \/ /\ loops[l].byHand
          /\ mem' = RolledBack(l)
          /\ claims' = [claims EXCEPT ![loops[l].orig] = None]
       \/ ~loops[l].byHand /\ UNCHANGED <<mem, claims>>
    /\ UNCHANGED <<chain, disk, app, entries, asks>>

-----------------------------------------------------------------------------
\* Polls, as far as they move the position's key.

PollBegins(l) ==
    /\ loops[l].pc = "idle" /\ ~loops[l].stopped
    /\ loops' = [loops EXCEPT ![l].pc = "poll"]
    /\ UNCHANGED <<chain, mem, disk, app, entries, running, claims, asks>>

\* A stopped loop begins no move, and one position moves at a time.
MoveBegins(l) ==
    /\ loops[l].pc = "poll" /\ ~loops[l].stopped /\ ~app.stopping
    /\ \A m \in Loops : loops[m].pc \notin {"moving", "minted"}
    /\ loops' = [loops EXCEPT ![l].pc = "moving"]
    /\ UNCHANGED <<chain, mem, disk, app, entries, running, claims, asks>>

\* The rebalance takes the old NFT's liquidity and may go no further.
MoveFails(l) ==
    /\ loops[l].pc = "moving"
    /\ loops' = [loops EXCEPT ![l].pc = "polled"]
    /\ \E drained \in {FALSE, Drains} :
           chain' = [chain EXCEPT !.open =
                       IF drained THEN @ \ {loops[l].key} ELSE @]
    /\ UNCHANGED <<mem, disk, app, entries, running, claims, asks>>

\* The mint is mined.
MoveMints(l) ==
    /\ loops[l].pc = "moving"
    /\ \E n \in Nfts \ Minted :
           /\ chain' = [pool |-> [chain.pool EXCEPT
                                    ![n] = chain.pool[loops[l].key]],
                        open |-> (chain.open \ {loops[l].key}) \cup {n}]
           /\ loops' = [loops EXCEPT ![l].pc = "minted", ![l].next = n]
    /\ UNCHANGED <<mem, disk, app, entries, running, claims, asks>>

\* updatePositionState with the new NFT's id: the slot is saved under the old
\* key, then moved and saved again, and the record and the state follow.
MoveRecorded(l) ==
    LET old   == loops[l].key
        new   == loops[l].next
        first == Persisted(mem, old)
        then  == Rekeyed(first, old, new)
    IN
    /\ loops[l].pc = "minted"
    /\ mem' = then
    /\ disk' = Saved(then, IF mem[old] = "absent" THEN disk ELSE Saved(first, disk))
    /\ entries' = EntriesRekeyed(old, new)
    /\ running' = [running EXCEPT ![new] = running[old], ![old] = None]
    /\ loops' = [loops EXCEPT ![l].pc = "polled", ![l].key = new,
                              ![l].next = None, ![l].nfts = @ \cup {new}]
    /\ UNCHANGED <<chain, app, claims, asks>>

PollEnds(l) ==
    /\ loops[l].pc \in {"poll", "polled"} /\ loops[l].handle
    /\ loops' = [loops EXCEPT ![l].pc = IF loops[l].stopped THEN "halted"
                                        ELSE "idle"]
    /\ UNCHANGED <<chain, mem, disk, app, entries, running, claims, asks>>

\* Any other update that saves a record: the HODL baseline, a compound, or a
\* scan, whose pass goes on after its loop was stopped.
RecordSaved(l) ==
    LET k == loops[l].key IN
    /\ loops[l].pc \in Polling \cup {"idle", "halted"}
          \cup (IF LateRecords THEN {"over"} ELSE {})
    /\ mem[k] # "absent"
    /\ Write(Persisted(mem, k))
    /\ UNCHANGED <<chain, app, loops, entries, running, claims, asks>>

-----------------------------------------------------------------------------
\* Stops.

\* What removeManagedPosition, the save and the deletion of the state leave.
TakenOff(k) ==
    /\ Write(OffList(mem, {k}))
    /\ running' = [running EXCEPT ![k] = None]

\* Stop Managing of a key with no loop to stop: one saved as managed but not
\* started, or one still starting, whose record goes at once.
StopManagingEarly(k) ==
    /\ \/ entries[k] = None /\ (mem[k] = "running" \/ claims[k] # None)
       \/ entries[k] # None /\ ~loops[entries[k]].handle
    /\ app.phase # "locked"
    /\ entries' = [entries EXCEPT ![k] = None]
    /\ TakenOff(k)
    /\ UNCHANGED <<chain, app, loops, claims, asks>>

\* Stop Managing of a running loop, which halts; the rest waits for the poll
\* under way.
StopManaging(k) ==
    LET l == entries[k] IN
    /\ l # None /\ loops[l].handle /\ ~loops[l].leaving
    /\ loops' = [loops EXCEPT ![l].stopped = TRUE, ![l].leaving = TRUE,
                              ![l].pc = IF @ = "idle" THEN "halted" ELSE @]
    /\ running' = [running EXCEPT ![k] = None]
    /\ UNCHANGED <<chain, mem, disk, app, entries, claims, asks>>

\* The poll has ended: the position comes off under the key it has by then.
StopEnds(l) ==
    /\ loops[l].pc = "halted" /\ loops[l].leaving
    /\ entries' = Dropped(l)
    /\ TakenOff(loops[l].key)
    /\ loops' = [loops EXCEPT ![l] =
           [NoLoop EXCEPT !.pc = "over", !.key = loops[l].key,
                          !.leaving = TRUE, !.nfts = loops[l].nfts]]
    /\ UNCHANGED <<chain, app, claims, asks>>

\* A closed position is retired at the end of a poll that made no move, or by
\* the timer of a failed re-open.
Retire(l) ==
    /\ loops[l].pc \in {"poll", "idle"} /\ ~loops[l].stopped
    /\ loops[l].key \notin chain.open
    /\ loops' = [loops EXCEPT ![l] =
           IF @.handle THEN Over(l)
           ELSE [@ EXCEPT !.pc = "polled", !.stopped = TRUE]]
    /\ entries' = [entries EXCEPT ![loops[l].key] = None]
    /\ TakenOff(loops[l].key)
    /\ UNCHANGED <<chain, app, claims, asks>>

\* A stop of the app for good: every loop with a handle halts (stopAll), and
\* the list stays as it is.
StopApp ==
    LET Stops(l) == loops[l].handle /\ loops[l].pc # "over" IN
    /\ ~app.stopping
    /\ app' = [app EXCEPT !.stopping = TRUE]
    /\ loops' = [l \in Loops |->
           IF Stops(l)
           THEN [loops[l] EXCEPT !.stopped = TRUE,
                                 !.pc = IF @ = "idle" THEN "halted" ELSE @]
           ELSE loops[l]]
    /\ running' = [k \in Nfts |->
           IF \E l \in Loops : Stops(l) /\ loops[l].key = k
           THEN None ELSE running[k]]
    /\ UNCHANGED <<chain, mem, disk, entries, claims, asks>>

\* The process ends, at any step, and is launched again: the settings are
\* what the file holds.
Relaunch ==
    /\ mem' = disk
    /\ app' = [phase |-> "locked", stopping |-> FALSE, todo |-> {}]
    /\ loops' = [l \in Loops |-> NoLoop]
    /\ entries' = [k \in Nfts |-> None]
    /\ running' = [k \in Nfts |-> None]
    /\ claims' = [k \in Nfts |-> None]
    /\ asks' = [r \in Requests |-> None]
    /\ UNCHANGED <<chain, disk>>

-----------------------------------------------------------------------------
StartStep(l) == Register(l) \/ Detect(l) \/ StartFails(l) \/ StartEnds(l)
                    \/ StartDisowned(l)
PollStep(l)  == PollBegins(l) \/ MoveBegins(l) \/ MoveFails(l) \/ MoveMints(l)
                    \/ MoveRecorded(l) \/ PollEnds(l) \/ RecordSaved(l)
StopStep(l)  == StopEnds(l) \/ Retire(l)

Next ==
    \/ Unlock \/ ChoosePositions \/ StartUpEnds \/ StopApp \/ Relaunch
    \/ \E k \in Nfts : NextToStart(k) \/ StopManagingEarly(k) \/ StopManaging(k)
    \/ \E r \in Requests :
           \/ \E k \in Nfts : ManageAsked(r, k)
           \/ ManageRefused(r)
           \/ \E l \in Loops : ManagePasses(r, l)
    \/ \E l \in Loops : StartStep(l) \/ PollStep(l) \/ StopStep(l)

Spec == Init /\ [][Next]_vars

-----------------------------------------------------------------------------
Active(l) == /\ loops[l].pc \in {"detect", "idle"} \cup Polling
             /\ ~loops[l].stopped

\* No two bot loops that may begin a move are in one pool: neither two Manage
\* requests, a start-up, a Stop Managing during a start nor a change of key
\* leaves two loops trading one pool (pool-already-managed.js).
OneLoopPerPool == \A l, m \in Loops :
    Active(l) /\ Active(m) /\ chain.pool[loops[l].key] = chain.pool[loops[m].key]
        => l = m

\* A position that has started, and that neither a Stop Managing nor a retire
\* ended, is reached under the key it has now, by a stop and by the pool
\* rule, and is saved under it, so that the next launch starts it again.
Managed(l) == loops[l].handle /\ ~loops[l].leaving /\ loops[l].pc # "over"

LiveIsListed == \A l \in Loops : Managed(l) =>
    LET k == loops[l].key IN
    /\ entries[k] = l
    /\ mem[k] = "running" /\ disk[k] = "running"
    /\ ~loops[l].stopped => running[k] = chain.pool[k]

\* Once a Stop Managing has been answered, no key the position has had is
\* recorded or saved as managed, except by another start of that key.
StoppedStaysOff == \A l \in Loops : loops[l].pc = "over" /\ loops[l].leaving =>
    \A k \in loops[l].nfts :
        \/ \E m \in Loops \ {l} : k \in loops[m].nfts
        \/ mem[k] # "running" /\ disk[k] # "running" /\ entries[k] = None
=============================================================================
