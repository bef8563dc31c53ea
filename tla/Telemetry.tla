------------------------------ MODULE Telemetry ------------------------------
(***************************************************************************)
(* The cached selection of one model inside one worker process: the        *)
(* coroutines of Telemetry.get, the background refreshes a cold start      *)
(* spawns, the per-model asyncio.Lock they queue on, the promotion of a    *)
(* new winner, the queued disk writes, and aclose (telemetry.py).          *)
(*                                                                         *)
(* Coroutines interleave only where the code awaits: at the lock, at the   *)
(* HTTP fetches, at the cold-start polls and at aclose's gathers.  Models  *)
(* share nothing but the event loop, so one of them is enough.  What the   *)
(* disk writes do is the subject of SharedCache; here they only finish.    *)
(***************************************************************************)
EXTENDS Integers, Sequences, FiniteSets

CONSTANTS
    Requests,       \* concurrent requests for the model
    Slugs,          \* provider slugs a selection can name
    NoSlug,         \* no winner (None)
    NoEntry,        \* no cache entry
    NoTask,         \* the lock is free
    Slots,          \* bound on the queued writes
    Stored,         \* entries for the model that the cache file can hold
    Regional,       \* whether the rule excludes regions
    PromotionPolls, \* promotion_polls
    PollInterval,   \* OR_POLL_INTERVAL_S
    ColdStartTimeout, \* OR_COLD_START_TIMEOUT_S
    MaxTime         \* bound on the clock

MaybeSlug == Slugs \cup {NoSlug}

Entry == [winner : MaybeSlug, candidate : MaybeSlug, streak : Nat, safe : SUBSET Slugs,
          fetched : Nat, stale : BOOLEAN]

\* Each request runs one get; a cold one spawns one background refresh.
Tasks == Requests \X {"get", "refresh"}
GetOf(r)     == <<r, "get">>
RefreshOf(r) == <<r, "refresh">>

ASSUME ConfigAssumption ==
    /\ NoSlug \notin Slugs
    /\ NoEntry \notin Entry
    /\ NoTask \notin Tasks
    /\ Stored \subseteq Entry
    /\ \A e \in Stored : e.winner \in e.safe \cup {NoSlug}
    /\ Regional \in BOOLEAN
    /\ PromotionPolls \in Nat \ {0}
    /\ PollInterval \in Nat \ {0}
    /\ ColdStartTimeout \in Nat
    /\ MaxTime \in Nat

VARIABLES
    now,     \* the clock
    entry,   \* _memory[model]
    loaded,  \* _disk_loaded
    pc,      \* where each coroutine is suspended
    holder,  \* the task that holds the model's lock, or has been handed it
    waiters, \* the lock's queue, in order of arrival
    flight,  \* what the refresh in flight read before its awaits
    since,   \* when each polling request began to wait, else 0
    writes,  \* the queued writes: a slot's snapshot of the entry
    drain,   \* the writes aclose is waiting for
    closing, \* how far aclose has come
    quiet,   \* history: no request was in flight when aclose began
    saved,   \* history: a write of the entry as it is now has run
    wins     \* history: the slugs the entry's last selections chose, newest first

vars == <<now, entry, loaded, pc, holder, waiters, flight, since, writes, drain, closing, quiet, saved, wins>>

memVars   == <<entry, loaded, saved, wins>>
lockVars  == <<holder, waiters>>
closeVars == <<drain, closing, quiet>>

-----------------------------------------------------------------------------
(* Promotion: _apply_promotion.                                            *)

Fresh(e, t) == e # NoEntry /\ ~e.stale /\ t - e.fetched < PollInterval

\* Mutant of Eligible: the incumbent need not be safe any more.
EligibleUnfiltered(prev, safe) == prev # NoEntry /\ prev.winner # NoSlug

\* The cached winner still passes the filters.
Eligible(prev, safe) == prev # NoEntry /\ prev.winner \in safe

\* Mutant of Streak: another candidate does not reset it.
StreakUnreset(prev, slug) == IF prev = NoEntry THEN 1 ELSE prev.streak + 1

\* Selections in a row that chose slug, this one included.
Streak(prev, slug) ==
    IF prev # NoEntry /\ prev.candidate = slug THEN prev.streak + 1 ELSE 1

\* The entry after a selection that chose slug among the safe ones.
Promoted(prev, slug, safe, start) ==
    LET streak  == Streak(prev, slug)
        promote == ~Eligible(prev, safe) \/ prev.winner = slug \/ streak >= PromotionPolls
    IN  [winner |-> IF promote THEN slug ELSE prev.winner, candidate |-> slug,
         streak |-> streak, safe |-> safe, fetched |-> start, stale |-> FALSE]

\* The entry that carries only the regions' evidence.
Evidence(start) ==
    [winner |-> NoSlug, candidate |-> NoSlug, streak |-> 0, safe |-> {},
     fetched |-> start, stale |-> FALSE]

NoWins == [i \in 1 .. PromotionPolls |-> NoSlug]
NoFlight == [prev |-> NoEntry, start |-> -1, wins |-> NoWins, loaded |-> FALSE]

-----------------------------------------------------------------------------
(* The first load of the cache file: _ensure_disk.                         *)

\* The selections that an entry another process stored stands for.
WinsOf(e) == [i \in 1 .. PromotionPolls |-> IF i <= e.streak THEN e.candidate ELSE NoSlug]

\* Nothing happens when the file is loaded already or its directory cannot be
\* made; else the file's entry, if it has one, replaces the one in memory, also
\* under a refresh in flight.  A process stores an entry after it began to fetch
\* it, and as stale only when its poll was due.  (get and _ensure_fresh both call
\* this without an await between: a second attempt adds nothing.)
EnsureDisk ==
    \/ UNCHANGED memVars
    \/ /\ ~loaded
       /\ loaded' = TRUE
       /\ \/ UNCHANGED <<entry, saved, wins>>
          \/ \E e \in Stored :
                /\ e.fetched <= now
                /\ e.stale => e.fetched + PollInterval <= now
                /\ entry' = e
                /\ saved' = TRUE
                /\ wins' = WinsOf(e)

-----------------------------------------------------------------------------
(* The lock and the write queue.                                           *)

\* Mutant of Release: the lock is freed, the first waiter is not told.
ReleaseUntold == holder' = NoTask /\ UNCHANGED waiters

\* Leave the lock to the first waiter.
Release ==
    IF waiters = <<>>
      THEN holder' = NoTask /\ UNCHANGED waiters
      ELSE holder' = Head(waiters) /\ waiters' = Tail(waiters)

\* _persist_soon queues the memory as it is now.
PersistSoon(e) ==
    /\ saved' = FALSE
    /\ \E s \in Slots \ DOMAIN writes :
          writes' = [x \in DOMAIN writes \cup {s} |-> IF x = s THEN e ELSE writes[x]]

\* The head of _refresh, up to its first await: it reads the memory.
StartFetch(t) ==
    /\ pc' = [pc EXCEPT ![t] = "fetching"]
    /\ flight' = [prev |-> entry', start |-> now, wins |-> wins', loaded |-> loaded']

\* Mutant of EnsureFresh: the lock is not waited for.
EnsureFreshUnlocked(t) ==
    /\ ~Fresh(entry', now)
    /\ holder' = t
    /\ StartFetch(t)
    /\ UNCHANGED waiters

\* The part of _ensure_fresh that runs without suspension after _ensure_disk,
\* from its first check: return, queue on the lock, or take it and fetch.
EnsureFresh(t) ==
    \/ /\ Fresh(entry', now)
       /\ pc' = [pc EXCEPT ![t] = "idle"]
       /\ UNCHANGED <<holder, waiters, flight>>
    \/ /\ ~Fresh(entry', now)
       /\ holder = NoTask
       /\ holder' = t
       /\ StartFetch(t)
       /\ UNCHANGED waiters
    \/ /\ ~Fresh(entry', now)
       /\ holder # NoTask
       /\ waiters' = Append(waiters, t)
       /\ pc' = [pc EXCEPT ![t] = "waiting"]
       /\ UNCHANGED <<holder, flight>>

-----------------------------------------------------------------------------

Init ==
    /\ now = 0
    /\ entry = NoEntry
    /\ loaded = FALSE
    /\ pc = [t \in Tasks |-> "idle"]
    /\ holder = NoTask
    /\ waiters = <<>>
    /\ flight = NoFlight
    /\ since = [r \in Requests |-> 0]
    /\ writes = <<>>
    /\ drain = {}
    /\ closing = "open"
    /\ quiet = FALSE
    /\ saved = TRUE
    /\ wins = NoWins

\* get with an entry: returned while it is fresh, else this request refreshes it
\* itself.
GetWarm(r) ==
    /\ closing = "open"
    /\ pc[GetOf(r)] = "idle"
    /\ EnsureDisk
    /\ entry' # NoEntry
    /\ EnsureFresh(GetOf(r))
    /\ UNCHANGED <<now, since, writes, closeVars>>

\* get without an entry: spawn a refresh and poll for its result.
GetCold(r) ==
    /\ closing = "open"
    /\ pc[GetOf(r)] = "idle"
    /\ pc[RefreshOf(r)] = "idle"
    /\ EnsureDisk
    /\ entry' = NoEntry
    /\ now + ColdStartTimeout <= MaxTime
    /\ pc' = [pc EXCEPT ![GetOf(r)] = "polling", ![RefreshOf(r)] = "spawned"]
    /\ since' = [since EXCEPT ![r] = now]
    /\ UNCHANGED <<now, lockVars, flight, writes, closeVars>>

\* The spawned task gets its first turn.
RefreshBegin(r) ==
    /\ pc[RefreshOf(r)] = "spawned"
    /\ EnsureDisk
    /\ EnsureFresh(RefreshOf(r))
    /\ UNCHANGED <<now, since, writes, closeVars>>

\* A poll of _wait_for_cache finds an entry that is not stale.
PollHit(r) ==
    /\ pc[GetOf(r)] = "polling"
    /\ entry # NoEntry
    /\ ~entry.stale
    /\ now - since[r] <= ColdStartTimeout
    /\ pc' = [pc EXCEPT ![GetOf(r)] = "idle"]
    /\ since' = [since EXCEPT ![r] = 0]
    /\ UNCHANGED <<now, lockVars, flight, writes, closeVars, memVars>>

\* The bounded wait ends with None; the refresh goes on.
PollTimeout(r) ==
    /\ pc[GetOf(r)] = "polling"
    /\ now - since[r] >= ColdStartTimeout
    /\ pc' = [pc EXCEPT ![GetOf(r)] = "idle"]
    /\ since' = [since EXCEPT ![r] = 0]
    /\ UNCHANGED <<now, lockVars, flight, writes, closeVars, memVars>>

\* Mutant of Wake: the entry is not checked again.
WakeUnchecked(t) ==
    /\ pc[t] = "waiting"
    /\ holder = t
    /\ UNCHANGED memVars
    /\ StartFetch(t)
    /\ UNCHANGED <<now, lockVars, since, writes, closeVars>>

\* The task that was handed the lock checks the entry again.
Wake(t) ==
    /\ pc[t] = "waiting"
    /\ holder = t
    /\ UNCHANGED memVars
    /\ \/ /\ Fresh(entry, now)
          /\ pc' = [pc EXCEPT ![t] = "idle"]
          /\ Release
          /\ UNCHANGED flight
       \/ /\ ~Fresh(entry, now)
          /\ StartFetch(t)
          /\ UNCHANGED lockVars
    /\ UNCHANGED <<now, since, writes, closeVars>>

FetchEnd(t) ==
    /\ pc[t] = "fetching"
    /\ pc' = [pc EXCEPT ![t] = "idle"]
    /\ flight' = NoFlight
    /\ Release
    /\ UNCHANGED <<now, loaded, since, closeVars>>

\* The fetches answer and the scorer chooses a winner among the safe slugs.
FetchSelects(t) ==
    /\ FetchEnd(t)
    /\ \E safe \in SUBSET Slugs : \E slug \in safe :
          /\ entry' = Promoted(flight.prev, slug, safe, flight.start)
          /\ PersistSoon(entry')
          /\ wins' = [i \in 1 .. PromotionPolls |-> IF i = 1 THEN slug ELSE flight.wins[i - 1]]

\* The fetches answer, every candidate is region-excluded: evidence only.
FetchEvidence(t) ==
    /\ FetchEnd(t)
    /\ Regional
    /\ entry' = Evidence(flight.start)
    /\ PersistSoon(entry')
    /\ UNCHANGED wins

\* Mutant of FetchFails: the stale entry is also made due at once.
FetchFailsExpiring(t) ==
    /\ FetchEnd(t)
    /\ IF flight.prev = NoEntry
         THEN UNCHANGED <<entry, writes, saved, wins>>
         ELSE /\ entry' = [flight.prev EXCEPT !.stale = TRUE, !.fetched = 0]
              /\ PersistSoon(entry')
              /\ wins' = flight.wins

\* A fetch raises, or the selection is empty: _stale_fallback.
FetchFails(t) ==
    /\ FetchEnd(t)
    /\ IF flight.prev = NoEntry
         THEN UNCHANGED <<entry, writes, saved, wins>>
         ELSE /\ entry' = [flight.prev EXCEPT !.stale = TRUE]
              /\ PersistSoon(entry')
              /\ wins' = flight.wins

\* Suspended tasks are cancelled: they leave the queue or the lock, and what
\* one of them had fetched is discarded.
LeaveQueue(ts) ==
    /\ flight' = IF \E t \in ts : pc[t] = "fetching" THEN NoFlight ELSE flight
    /\ LET rest == SelectSeq(waiters, LAMBDA u : u \notin ts)
       IN  IF holder \in ts
             THEN IF rest = <<>>
                    THEN holder' = NoTask /\ waiters' = <<>>
                    ELSE holder' = Head(rest) /\ waiters' = Tail(rest)
             ELSE UNCHANGED holder /\ waiters' = rest

\* The client of a request goes away while its get is suspended.
CancelGet(r) ==
    /\ pc[GetOf(r)] # "idle"
    /\ pc' = [pc EXCEPT ![GetOf(r)] = "idle"]
    /\ since' = [since EXCEPT ![r] = 0]
    /\ LeaveQueue({GetOf(r)})
    /\ UNCHANGED <<now, writes, closeVars, memVars>>

\* A persist thread finishes.
WriteDone(s) ==
    /\ s \in DOMAIN writes
    /\ saved' = (saved \/ writes[s] = entry)
    /\ writes' = [x \in DOMAIN writes \ {s} |-> writes[x]]
    /\ drain' = drain \ {s}
    /\ UNCHANGED <<now, entry, loaded, pc, lockVars, flight, since, closing, quiet, wins>>

\* Mutant of CloseCancel: the refreshes go on.
CloseWithoutCancel ==
    /\ closing = "open"
    /\ closing' = "cancelled"
    /\ quiet' = \A r \in Requests : pc[GetOf(r)] = "idle"
    /\ UNCHANGED <<now, pc, lockVars, flight, since, writes, drain, memVars>>

\* aclose cancels the background refreshes; the proxy takes no new requests.
CloseCancel ==
    /\ closing = "open"
    /\ closing' = "cancelled"
    /\ quiet' = \A r \in Requests : pc[GetOf(r)] = "idle"
    /\ pc' = [t \in Tasks |-> IF t[2] = "refresh" THEN "idle" ELSE pc[t]]
    /\ LeaveQueue({RefreshOf(r) : r \in Requests})
    /\ UNCHANGED <<now, since, writes, drain, memVars>>

\* It then waits for the writes that are queued at this instant.
CloseDrain ==
    /\ closing = "cancelled"
    /\ closing' = "draining"
    /\ drain' = DOMAIN writes
    /\ UNCHANGED <<now, pc, lockVars, flight, since, writes, quiet, memVars>>

\* They are done: the HTTP client is closed.
CloseDone ==
    /\ closing = "draining"
    /\ drain = {}
    /\ closing' = "closed"
    /\ UNCHANGED <<now, pc, lockVars, flight, since, writes, drain, quiet, memVars>>

Tick ==
    /\ now < MaxTime
    /\ now' = now + 1
    /\ UNCHANGED <<pc, lockVars, flight, since, writes, closeVars, memVars>>

TaskStep(t) == Wake(t) \/ FetchSelects(t) \/ FetchEvidence(t) \/ FetchFails(t)

Next ==
    \/ \E r \in Requests :
          \/ GetWarm(r) \/ GetCold(r) \/ RefreshBegin(r)
          \/ PollHit(r) \/ PollTimeout(r) \/ CancelGet(r)
    \/ \E t \in Tasks : TaskStep(t)
    \/ \E s \in Slots : WriteDone(s)
    \/ CloseCancel \/ CloseDrain \/ CloseDone
    \/ Tick

Spec == Init /\ [][Next]_vars

\* The event loop runs every task that is ready, an HTTP call ends within its
\* timeout, a poll's deadline passes, and the persist threads run.
Fairness ==
    /\ \A t \in Tasks : WF_vars(TaskStep(t))
    /\ \A r \in Requests : WF_vars(RefreshBegin(r)) /\ WF_vars(PollHit(r) \/ PollTimeout(r))
    /\ \A s \in Slots : WF_vars(WriteDone(s))
    /\ WF_vars(CloseDrain)
    /\ WF_vars(CloseDone)
    /\ WF_vars(Tick)

FairSpec == Spec /\ Fairness

-----------------------------------------------------------------------------
(* Properties.                                                             *)

TypeOK ==
    /\ now \in 0 .. MaxTime
    /\ entry \in Entry \cup {NoEntry}
    /\ loaded \in BOOLEAN
    /\ pc \in [Tasks -> {"idle", "spawned", "waiting", "fetching", "polling"}]
    /\ holder \in Tasks \cup {NoTask}
    /\ waiters \in Seq(Tasks)
    /\ flight \in [prev : Entry \cup {NoEntry}, start : -1 .. MaxTime,
                   wins : [1 .. PromotionPolls -> MaybeSlug], loaded : BOOLEAN]
    /\ since \in [Requests -> 0 .. MaxTime]
    /\ DOMAIN writes \subseteq Slots
    /\ \A s \in DOMAIN writes : writes[s] \in Entry
    /\ drain \subseteq DOMAIN writes
    /\ closing \in {"open", "cancelled", "draining", "closed"}
    /\ quiet \in BOOLEAN
    /\ saved \in BOOLEAN
    /\ wins \in [1 .. PromotionPolls -> MaybeSlug]

\* The file was loaded after the refresh in flight had read the memory, or is
\* being loaded in this step.
Overtaken == flight.loaded # loaded \/ loaded' # loaded

\* One refresh of the model is in flight at a time, and only a late first load
\* of the file can change the entry under it: else what _refresh read before its
\* awaits is still the entry when _apply_promotion counts the streak from it.
SingleFlight ==
    \A t \in Tasks : pc[t] = "fetching" =>
        /\ \A u \in Tasks : pc[u] = "fetching" => u = t
        /\ flight.prev = entry \/ flight.loaded # loaded

\* A provider that stops passing the hard filters drops out on the next poll:
\* a cached winner is one of its own entry's safe slugs (README: Telemetry
\* cache).
WinnerIsSafe ==
    entry # NoEntry => entry.winner \in entry.safe \cup {NoSlug}

\* Flap damping: while the cached winner still passes the filters, a new one
\* replaces it only after it won promotion_polls selections in a row, unless a
\* late load put it there under the refresh.
Damped ==
    [][/\ entry # NoEntry
       /\ ~Overtaken
       /\ entry.winner # NoSlug
       /\ entry'.winner # entry.winner
       /\ entry.winner \in entry'.safe
       => \A i \in 1 .. PromotionPolls : wins'[i] = entry'.winner]_vars

\* The upstream is polled for a selection at most once per poll interval,
\* however many requests, failures, cancellations and slow fetches interleave,
\* unless a late load put another entry under the refresh.
PollsAreSpaced ==
    [][entry # NoEntry /\ ~Overtaken /\ entry'.fetched # entry.fetched
       => entry'.fetched >= entry.fetched + PollInterval]_vars

\* aclose leaves no owned work behind: once it returns, with no request still
\* in flight when it began, no refresh runs, no write is queued, and the state
\* the process decided has been written.
ShutdownSaves ==
    closing = "closed" /\ quiet =>
        /\ \A t \in Tasks : pc[t] = "idle"
        /\ DOMAIN writes = {}
        /\ saved

\* Every request and every background refresh ends: no failure or
\* cancellation leaves the lock with a task that will never release it.
EveryTaskEnds ==
    \A t \in Tasks : pc[t] # "idle" ~> pc[t] = "idle"

-----------------------------------------------------------------------------
(* The inductive invariant.                                                *)

\* A streak counts the candidate's last wins.
Earned(e, won) ==
    e # NoEntry => \A i \in 1 .. PromotionPolls : i <= e.streak => won[i] = e.candidate

\* A cached winner is safe.
Safe(e) == e # NoEntry => e.winner \in e.safe \cup {NoSlug}

\* The fetching task holds the lock, read the entry as it still is unless the
\* file was loaded since, and began when its poll was due.
FlightsHoldTheLock ==
    \A t \in Tasks : pc[t] = "fetching" =>
        /\ holder = t
        /\ flight.loaded \in {FALSE, loaded}
        /\ flight.loaded = loaded => flight.prev = entry
        /\ flight.prev \in Entry \cup {NoEntry}
        /\ Safe(flight.prev)
        /\ Earned(flight.prev, flight.wins)
        /\ flight.start \in 0 .. now
        /\ flight.prev # NoEntry => flight.start >= flight.prev.fetched + PollInterval

\* Only a poll that was due can have failed.
StaleIsDue ==
    entry # NoEntry /\ entry.stale => now >= entry.fetched + PollInterval

IInv ==
    /\ now \in Nat
    /\ entry \in Entry \cup {NoEntry}
    /\ loaded \in BOOLEAN
    /\ DOMAIN pc = Tasks
    /\ FlightsHoldTheLock
    /\ StaleIsDue
    /\ WinnerIsSafe
    /\ Earned(entry, wins)
=============================================================================
