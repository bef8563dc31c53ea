-------------------------- MODULE TelemetryProofs --------------------------
(***************************************************************************)
(* Proofs about Telemetry: one refresh in flight, polls spaced by the poll *)
(* interval, a winner that is always safe, and flap damping.  The          *)
(* inductive invariant ties the fetching task to the lock and to the entry *)
(* it read, and the candidate's streak to the wins that earned it.         *)
(***************************************************************************)
EXTENDS Telemetry, TLAPS

\* The memory stays, or the file is loaded into it.
MemoryStep == UNCHANGED <<entry, loaded, wins>> \/ EnsureDisk

\* What the memory is after such a step: sound, and changed by a load only.
LEMMA MemoryAfter ==
    ASSUME IInv, MemoryStep, now' \in Nat, now' >= now
    PROVE  /\ entry' \in Entry \cup {NoEntry}
           /\ loaded' \in BOOLEAN
           /\ StaleIsDue'
           /\ Safe(entry)'
           /\ Earned(entry, wins)'
           /\ \/ UNCHANGED <<entry, loaded, wins>>
              \/ ~loaded /\ loaded'
<1>1. CASE UNCHANGED <<entry, wins>> /\ (loaded' = loaded \/ (~loaded /\ loaded'))
  <2>1. StaleIsDue'
    <3>1. CASE entry = NoEntry
      BY <1>1, <3>1 DEF StaleIsDue
    <3>2. CASE entry # NoEntry
      BY <1>1, <3>2, ConfigAssumption, SMT DEF IInv, StaleIsDue, Entry
    <3> QED BY <3>1, <3>2
  <2>2. Safe(entry)' /\ Earned(entry, wins)'
    BY <1>1 DEF IInv, Safe, Earned, WinnerIsSafe
  <2> QED BY <1>1, <2>1, <2>2 DEF IInv
<1>2. ASSUME ~loaded, loaded' = TRUE, NEW e \in Stored, e.fetched <= now,
             e.stale => e.fetched + PollInterval <= now, entry' = e, wins' = WinsOf(e)
      PROVE  /\ entry' \in Entry \cup {NoEntry}
             /\ StaleIsDue' /\ Safe(entry)' /\ Earned(entry, wins)'
  <2>1. e \in Entry /\ e.winner \in e.safe \cup {NoSlug}
    BY ConfigAssumption
  <2>2. StaleIsDue'
    BY <1>2, <2>1, ConfigAssumption, SMT DEF StaleIsDue, Entry, IInv
  <2>3. Earned(entry, wins)'
    BY <1>2, <2>1, SMT DEF Earned, WinsOf, Entry
  <2> QED BY <1>2, <2>1, <2>2, <2>3 DEF Safe
<1> QED BY <1>1, <1>2, Zenon DEF MemoryStep, EnsureDisk, memVars

\* When no task begins to fetch, a step that leaves the memory or loads the file
\* into it keeps the invariant.
LEMMA NoNewFetch ==
    ASSUME IInv, MemoryStep, now' \in Nat, now' >= now,
           DOMAIN pc' = Tasks,
           \A t \in Tasks : pc'[t] = "fetching" =>
               pc[t] = "fetching" /\ holder' = t /\ flight' = flight
    PROVE  IInv'
<1>1. /\ entry' \in Entry \cup {NoEntry} /\ loaded' \in BOOLEAN
      /\ StaleIsDue' /\ Safe(entry)' /\ Earned(entry, wins)'
      /\ UNCHANGED <<entry, loaded, wins>> \/ (~loaded /\ loaded')
  BY MemoryAfter
<1>2. FlightsHoldTheLock'
  <2> SUFFICES ASSUME NEW t \in Tasks, pc'[t] = "fetching"
               PROVE  /\ holder' = t
                      /\ flight'.loaded \in {FALSE, loaded'}
                      /\ flight'.loaded = loaded' => flight'.prev = entry'
                      /\ flight'.prev \in Entry \cup {NoEntry}
                      /\ Safe(flight.prev)'
                      /\ Earned(flight.prev, flight.wins)'
                      /\ flight'.start \in 0 .. now'
                      /\ flight'.prev # NoEntry =>
                            flight'.start >= flight'.prev.fetched + PollInterval
    BY DEF FlightsHoldTheLock
  <2>1. pc[t] = "fetching" /\ holder' = t /\ flight' = flight
    OBVIOUS
  <2>2. /\ flight.loaded \in {FALSE, loaded}
        /\ flight.loaded = loaded => flight.prev = entry
        /\ flight.prev \in Entry \cup {NoEntry}
        /\ Safe(flight.prev)
        /\ Earned(flight.prev, flight.wins)
        /\ flight.start \in 0 .. now
        /\ flight.prev # NoEntry => flight.start >= flight.prev.fetched + PollInterval
    BY <2>1 DEF IInv, FlightsHoldTheLock
  <2>3. Safe(flight.prev)' /\ Earned(flight.prev, flight.wins)'
    BY <2>1, <2>2 DEF Safe, Earned
  <2>4. flight'.start \in 0 .. now'
    BY <2>1, <2>2, SMT DEF IInv
  <2>5. flight'.loaded \in {FALSE, loaded'}
    BY <1>1, <2>1, <2>2 DEF IInv
  <2>6. flight'.loaded = loaded' => flight'.prev = entry'
    BY <1>1, <2>1, <2>2 DEF IInv
  <2> QED BY <2>1, <2>2, <2>3, <2>4, <2>5, <2>6
<1> QED BY <1>1, <1>2 DEF IInv, Safe, WinnerIsSafe

\* A task that begins to fetch holds the lock, and its poll is due.
LEMMA BeginFetch ==
    ASSUME IInv, MemoryStep, NEW t \in Tasks, StartFetch(t), ~Fresh(entry', now),
           holder' = t, holder \in {t, NoTask}, now' = now
    PROVE  IInv'
<1>0. /\ entry' \in Entry \cup {NoEntry} /\ loaded' \in BOOLEAN
      /\ StaleIsDue' /\ Safe(entry)' /\ Earned(entry, wins)'
      /\ now' \in Nat
  BY MemoryAfter, SMT DEF IInv
<1>1. \A u \in Tasks : pc[u] = "fetching" => u = t
  BY ConfigAssumption DEF IInv, FlightsHoldTheLock, ConfigAssumption
<1>2. \A u \in Tasks : pc'[u] = "fetching" => u = t
  BY <1>1 DEF StartFetch, IInv
<1>3. /\ flight'.prev = entry' /\ flight'.start = now'
      /\ flight'.wins = wins' /\ flight'.loaded = loaded'
  BY DEF StartFetch
<1>4. entry' # NoEntry => now' >= entry'.fetched + PollInterval
  BY <1>0, ConfigAssumption, SMT DEF StaleIsDue, Fresh, Entry, ConfigAssumption
<1>5. Safe(flight.prev)' /\ Earned(flight.prev, flight.wins)'
  BY <1>0, <1>3 DEF Safe, Earned
<1>6. flight'.start \in 0 .. now'
  BY <1>0, <1>3, SMT
<1>7. FlightsHoldTheLock'
  BY <1>0, <1>2, <1>3, <1>4, <1>5, <1>6 DEF FlightsHoldTheLock
<1>8. DOMAIN pc' = Tasks
  BY DEF StartFetch, IInv
<1> QED BY <1>0, <1>7, <1>8 DEF IInv, Safe, WinnerIsSafe

\* _ensure_fresh up to its first suspension keeps the invariant.
LEMMA EnsureFreshInv ==
    ASSUME IInv, NEW t \in Tasks, pc[t] # "fetching", EnsureDisk, EnsureFresh(t), now' = now
    PROVE  IInv'
<1>0. MemoryStep /\ now' \in Nat /\ now' >= now
  BY SMT DEF MemoryStep, IInv
<1>1. CASE pc' \in {[pc EXCEPT ![t] = "idle"], [pc EXCEPT ![t] = "waiting"]}
           /\ UNCHANGED <<holder, flight>>
  <2>1. DOMAIN pc' = Tasks /\ \A u \in Tasks : pc'[u] = "fetching" => pc[u] = "fetching"
    BY <1>1 DEF IInv
  <2>2. \A u \in Tasks : pc'[u] = "fetching" =>
            pc[u] = "fetching" /\ holder' = u /\ flight' = flight
    BY <1>1, <2>1 DEF IInv, FlightsHoldTheLock
  <2> QED BY <1>0, <2>1, <2>2, NoNewFetch
<1>2. CASE ~Fresh(entry', now) /\ holder = NoTask /\ holder' = t /\ StartFetch(t)
  BY <1>0, <1>2, BeginFetch
<1> QED BY <1>1, <1>2 DEF EnsureFresh

-----------------------------------------------------------------------------
(* The end of a fetch.                                                     *)

\* What the task that ends a fetch knows; afterwards nobody fetches.
LEMMA AtFetchEnd ==
    ASSUME IInv, NEW t \in Tasks, FetchEnd(t)
    PROVE  /\ ~Overtaken => flight.prev = entry
           /\ flight.prev \in Entry \cup {NoEntry}
           /\ Safe(flight.prev) /\ Earned(flight.prev, flight.wins)
           /\ flight.start \in Nat
           /\ flight.start <= now
           /\ flight.prev # NoEntry => flight.start >= flight.prev.fetched + PollInterval
           /\ FlightsHoldTheLock'
           /\ DOMAIN pc' = Tasks
           /\ loaded' \in BOOLEAN
           /\ now' = now /\ now \in Nat
<1>1. pc[t] = "fetching" /\ pc' = [pc EXCEPT ![t] = "idle"] /\ now' = now /\ loaded' = loaded
  BY DEF FetchEnd
<1>2. \A u \in Tasks : pc[u] = "fetching" => u = t
  BY <1>1 DEF IInv, FlightsHoldTheLock
<1>3. \A u \in Tasks : pc'[u] # "fetching"
  BY <1>1, <1>2 DEF IInv
<1>4. FlightsHoldTheLock' /\ DOMAIN pc' = Tasks
  BY <1>1, <1>3 DEF FlightsHoldTheLock, IInv
<1>5. /\ flight.loaded = loaded => flight.prev = entry
      /\ flight.prev \in Entry \cup {NoEntry}
      /\ Safe(flight.prev) /\ Earned(flight.prev, flight.wins)
      /\ flight.start \in 0 .. now
      /\ flight.prev # NoEntry => flight.start >= flight.prev.fetched + PollInterval
  BY <1>1 DEF IInv, FlightsHoldTheLock
<1> QED BY <1>1, <1>4, <1>5, SMT DEF IInv, Overtaken

\* What a selection of slug among safe makes of the entry prev.
Promotes(e, prev, slug, safe, start) ==
    /\ e \in Entry
    /\ e # NoEntry
    /\ e.winner \in e.safe
    /\ e.safe = safe
    /\ e.candidate = slug
    /\ e.fetched = start
    /\ ~e.stale
    /\ \/ e.streak = 1
       \/ prev # NoEntry /\ prev.candidate = slug /\ e.streak = prev.streak + 1
    /\ prev # NoEntry /\ prev.winner # NoSlug /\ e.winner # prev.winner
       /\ prev.winner \in safe
       => e.winner = slug /\ e.streak >= PromotionPolls

LEMMA PromotedFields ==
    ASSUME NEW prev \in Entry \cup {NoEntry}, NEW safe \in SUBSET Slugs,
           NEW slug \in safe, NEW start \in Nat
    PROVE  Promotes(Promoted(prev, slug, safe, start), prev, slug, safe, start)
<1> DEFINE e == Promoted(prev, slug, safe, start)
<1>1. e \in Entry
  BY ConfigAssumption, SMT DEF Promoted, Streak, Eligible, Entry, MaybeSlug, ConfigAssumption
<1>2. e # NoEntry
  BY <1>1, ConfigAssumption DEF ConfigAssumption
<1>3. /\ e.winner \in e.safe /\ e.safe = safe /\ e.candidate = slug
      /\ e.fetched = start /\ ~e.stale
  BY ConfigAssumption, SMT DEF Promoted, Streak, Eligible, Entry, MaybeSlug, ConfigAssumption
<1>4. \/ e.streak = 1
      \/ prev # NoEntry /\ prev.candidate = slug /\ e.streak = prev.streak + 1
  BY ConfigAssumption, SMT DEF Promoted, Streak, Eligible, Entry, MaybeSlug, ConfigAssumption
<1>5. prev # NoEntry /\ prev.winner # NoSlug /\ e.winner # prev.winner
      /\ prev.winner \in safe
      => e.winner = slug /\ e.streak >= PromotionPolls
  BY ConfigAssumption, SMT DEF Promoted, Streak, Eligible, Entry, MaybeSlug, ConfigAssumption
<1> QED BY <1>1, <1>2, <1>3, <1>4, <1>5 DEF Promotes

\* A selection keeps the invariant, and its effect is what the action
\* properties are about.
LEMMA SelectsStep ==
    ASSUME IInv, NEW t \in Tasks, FetchSelects(t)
    PROVE  /\ IInv'
           /\ ~Overtaken /\ entry # NoEntry => entry'.fetched >= entry.fetched + PollInterval
           /\ ~Overtaken /\ entry # NoEntry /\ entry.winner # NoSlug
              /\ entry'.winner # entry.winner /\ entry.winner \in entry'.safe
              => \A i \in 1 .. PromotionPolls : wins'[i] = entry'.winner
<1> DEFINE prev == flight.prev
<1>1. FetchEnd(t)
  BY DEF FetchSelects
<1>2. PICK safe \in SUBSET Slugs : \E slug \in safe :
          /\ entry' = Promoted(prev, slug, safe, flight.start)
          /\ wins' = [i \in 1 .. PromotionPolls |-> IF i = 1 THEN slug ELSE flight.wins[i - 1]]
  BY DEF FetchSelects
<1>3. PICK slug \in safe :
          /\ entry' = Promoted(prev, slug, safe, flight.start)
          /\ wins' = [i \in 1 .. PromotionPolls |-> IF i = 1 THEN slug ELSE flight.wins[i - 1]]
  BY <1>2
<1>4. /\ ~Overtaken => prev = entry
      /\ prev \in Entry \cup {NoEntry} /\ Earned(prev, flight.wins)
      /\ flight.start \in Nat /\ flight.start <= now
      /\ prev # NoEntry => flight.start >= prev.fetched + PollInterval
      /\ FlightsHoldTheLock' /\ DOMAIN pc' = Tasks /\ loaded' \in BOOLEAN
      /\ now' = now /\ now \in Nat
  BY <1>1, AtFetchEnd
<1> HIDE DEF prev
<1>5. /\ entry' \in Entry
      /\ entry' # NoEntry
      /\ entry'.winner \in entry'.safe
      /\ entry'.safe = safe
      /\ entry'.candidate = slug
      /\ entry'.fetched = flight.start
      /\ ~entry'.stale
      /\ \/ entry'.streak = 1
         \/ prev # NoEntry /\ prev.candidate = slug /\ entry'.streak = prev.streak + 1
      /\ prev # NoEntry /\ prev.winner # NoSlug /\ entry'.winner # prev.winner
         /\ prev.winner \in safe
         => entry'.winner = slug /\ entry'.streak >= PromotionPolls
  <2>1. Promotes(Promoted(prev, slug, safe, flight.start), prev, slug, safe, flight.start)
    BY <1>4, PromotedFields
  <2> QED BY <1>3, <2>1 DEF Promotes
<1>6. \A i \in 1 .. PromotionPolls : i <= entry'.streak => wins'[i] = slug
  <2> SUFFICES ASSUME NEW i \in 1 .. PromotionPolls, i <= entry'.streak, i # 1
               PROVE  flight.wins[i - 1] = slug
    BY <1>3
  <2>1. /\ prev # NoEntry /\ prev.candidate = slug
        /\ entry'.streak = prev.streak + 1
    BY <1>5
  <2>2. prev.streak \in Nat
    BY <1>4, <2>1 DEF Entry
  <2>3. i - 1 \in 1 .. PromotionPolls /\ i - 1 <= prev.streak
    BY <2>1, <2>2, ConfigAssumption, SMT DEF ConfigAssumption
  <2> QED BY <1>4, <2>1, <2>3 DEF Earned
<1>7. Earned(entry, wins)'
  BY <1>5, <1>6 DEF Earned
<1>8. IInv'
  BY <1>4, <1>5, <1>7 DEF IInv, StaleIsDue, WinnerIsSafe
<1>9. ASSUME prev = entry, entry # NoEntry, entry.winner # NoSlug,
             entry'.winner # entry.winner, entry.winner \in entry'.safe
      PROVE  \A i \in 1 .. PromotionPolls : wins'[i] = entry'.winner
  <2>1. entry'.winner = slug /\ entry'.streak >= PromotionPolls
    BY <1>5, <1>9
  <2>2. entry'.streak \in Nat
    BY <1>5 DEF Entry
  <2> QED BY <2>1, <2>2, <1>6, ConfigAssumption, SMT DEF ConfigAssumption
<1>10. ASSUME prev = entry, entry # NoEntry PROVE entry'.fetched >= entry.fetched + PollInterval
  BY <1>4, <1>5, <1>10
<1> QED BY <1>4, <1>8, <1>9, <1>10

\* An evidence-only poll has no winner and no streak.
LEMMA EvidenceStep ==
    ASSUME IInv, NEW t \in Tasks, FetchEvidence(t)
    PROVE  /\ IInv'
           /\ ~Overtaken /\ entry # NoEntry => entry'.fetched >= entry.fetched + PollInterval
           /\ entry'.safe = {}
<1>1. FetchEnd(t) /\ entry' = Evidence(flight.start) /\ wins' = wins
  BY DEF FetchEvidence
<1>2. /\ ~Overtaken => flight.prev = entry
      /\ flight.start \in Nat /\ flight.start <= now
      /\ flight.prev # NoEntry => flight.start >= flight.prev.fetched + PollInterval
      /\ FlightsHoldTheLock' /\ DOMAIN pc' = Tasks /\ loaded' \in BOOLEAN
      /\ now' = now /\ now \in Nat
  BY <1>1, AtFetchEnd
<1>3. /\ entry' \in Entry /\ entry'.winner = NoSlug /\ entry'.streak = 0
      /\ entry'.safe = {} /\ entry'.fetched = flight.start /\ ~entry'.stale
  BY <1>1, <1>2 DEF Evidence, Entry, MaybeSlug
<1>4. Earned(entry, wins)'
  BY <1>3, SMT DEF Earned
<1>5. IInv'
  BY <1>2, <1>3, <1>4 DEF IInv, StaleIsDue, WinnerIsSafe
<1> QED BY <1>2, <1>3, <1>5

\* A failed poll only marks stale the entry it began with.
LEMMA FailsStep ==
    ASSUME IInv, NEW t \in Tasks, FetchFails(t)
    PROVE  /\ IInv'
           /\ ~Overtaken /\ entry # NoEntry =>
                entry'.fetched = entry.fetched /\ entry'.winner = entry.winner
<1> DEFINE prev == flight.prev
<1>1. FetchEnd(t)
  BY DEF FetchFails
<1>2. /\ ~Overtaken => prev = entry
      /\ prev \in Entry \cup {NoEntry} /\ Safe(prev) /\ Earned(prev, flight.wins)
      /\ flight.start \in Nat /\ flight.start <= now
      /\ prev # NoEntry => flight.start >= prev.fetched + PollInterval
      /\ FlightsHoldTheLock' /\ DOMAIN pc' = Tasks /\ loaded' \in BOOLEAN
      /\ now' = now /\ now \in Nat
  BY <1>1, AtFetchEnd
<1>3. CASE prev = NoEntry
  <2>1. entry' = entry /\ wins' = wins
    BY <1>3 DEF FetchFails
  <2>2. StaleIsDue' /\ WinnerIsSafe' /\ Earned(entry, wins)'
    BY <1>2, <2>1 DEF IInv, StaleIsDue, WinnerIsSafe, Earned
  <2> QED BY <2>1, <2>2, <1>2, <1>3 DEF IInv
<1>4. CASE prev # NoEntry
  <2>1. entry' = [prev EXCEPT !.stale = TRUE] /\ wins' = flight.wins
    BY <1>4 DEF FetchFails
  <2> HIDE DEF prev
  <2>2. prev \in Entry
    BY <1>2, <1>4
  <2>3. /\ entry' \in Entry /\ entry'.winner = prev.winner /\ entry'.safe = prev.safe
        /\ entry'.fetched = prev.fetched /\ entry'.streak = prev.streak
        /\ entry'.candidate = prev.candidate
    BY <2>1, <2>2 DEF Entry
  <2>4. StaleIsDue'
    <3>1. now' >= entry'.fetched + PollInterval
      BY <1>2, <1>4, <2>2, <2>3, ConfigAssumption, SMT DEF Entry, ConfigAssumption
    <3> QED BY <3>1 DEF StaleIsDue
  <2>5. WinnerIsSafe' /\ Earned(entry, wins)'
    BY <1>2, <1>4, <2>1, <2>3 DEF Safe, WinnerIsSafe, Earned
  <2> QED BY <1>2, <2>3, <2>4, <2>5 DEF IInv
<1> QED BY <1>3, <1>4

-----------------------------------------------------------------------------
(* The invariant and the action properties, over every step.               *)

LEMMA InitInv == Init => IInv
<1> SUFFICES ASSUME Init PROVE IInv
  OBVIOUS
<1>1. \A t \in Tasks : pc[t] # "fetching"
  BY DEF Init
<1>2. DOMAIN pc = Tasks /\ entry = NoEntry /\ loaded \in BOOLEAN
  BY DEF Init
<1>3. now \in Nat
  BY SMT DEF Init
<1> QED BY <1>1, <1>2, <1>3 DEF IInv, FlightsHoldTheLock, StaleIsDue, WinnerIsSafe, Earned

\* The lock after tasks that were cancelled left it.
LEMMA CancelInv ==
    ASSUME IInv, NEW ts \in SUBSET Tasks, LeaveQueue(ts), UNCHANGED <<now, entry, loaded, wins>>,
           pc' = [u \in Tasks |-> IF u \in ts THEN "idle" ELSE pc[u]]
    PROVE  IInv'
<1>1. \A u \in Tasks : pc'[u] = "fetching" =>
          pc[u] = "fetching" /\ u \notin ts
  BY Zenon
<1>2. \A u, v \in Tasks : pc[u] = "fetching" /\ pc[v] = "fetching" => u = v /\ holder = u
  BY DEF IInv, FlightsHoldTheLock
<1>3. \A u \in Tasks : pc'[u] = "fetching" =>
          pc[u] = "fetching" /\ holder' = u /\ flight' = flight
  BY <1>1, <1>2 DEF LeaveQueue
<1>4. MemoryStep /\ now' \in Nat /\ now' >= now /\ DOMAIN pc' = Tasks
  BY SMT DEF MemoryStep, IInv
<1> QED BY <1>3, <1>4, NoNewFetch

\* Every step keeps the invariant, spaces the polls and damps the winner.
LEMMA EveryStep ==
    ASSUME IInv, [Next]_vars
    PROVE  /\ IInv'
           /\ entry # NoEntry /\ ~Overtaken /\ entry'.fetched # entry.fetched
              => entry'.fetched >= entry.fetched + PollInterval
           /\ entry # NoEntry /\ ~Overtaken /\ entry.winner # NoSlug
              /\ entry'.winner # entry.winner /\ entry.winner \in entry'.safe
              => \A i \in 1 .. PromotionPolls : wins'[i] = entry'.winner
<1> DEFINE Goal ==
        /\ IInv'
        /\ entry # NoEntry /\ ~Overtaken /\ entry'.fetched # entry.fetched
           => entry'.fetched >= entry.fetched + PollInterval
        /\ entry # NoEntry /\ ~Overtaken /\ entry.winner # NoSlug
           /\ entry'.winner # entry.winner /\ entry.winner \in entry'.safe
           => \A i \in 1 .. PromotionPolls : wins'[i] = entry'.winner
<1>q. ASSUME IInv', entry' = entry \/ Overtaken PROVE Goal
  BY <1>q
<1>e. ASSUME EnsureDisk PROVE entry' = entry \/ Overtaken
  BY <1>e DEF EnsureDisk, memVars, Overtaken, IInv
<1>1. ASSUME NEW r \in Requests, GetWarm(r) PROVE Goal
  <2>1. GetOf(r) \in Tasks /\ pc[GetOf(r)] # "fetching" /\ EnsureFresh(GetOf(r))
        /\ EnsureDisk /\ now' = now
    BY <1>1 DEF GetWarm, Tasks, GetOf
  <2> QED BY <2>1, EnsureFreshInv, <1>q, <1>e
<1>2. ASSUME NEW r \in Requests, RefreshBegin(r) PROVE Goal
  <2>1. RefreshOf(r) \in Tasks /\ pc[RefreshOf(r)] # "fetching" /\ EnsureFresh(RefreshOf(r))
        /\ EnsureDisk /\ now' = now
    BY <1>2 DEF RefreshBegin, Tasks, RefreshOf
  <2> QED BY <2>1, EnsureFreshInv, <1>q, <1>e
<1>3. ASSUME NEW r \in Requests, GetCold(r) \/ PollHit(r) \/ PollTimeout(r) PROVE Goal
  <2>1. UNCHANGED <<now, holder, flight>> /\ EnsureDisk
    BY <1>3 DEF GetCold, PollHit, PollTimeout, lockVars, EnsureDisk
  <2>2. DOMAIN pc' = Tasks /\ \A t \in Tasks : pc'[t] = "fetching" => pc[t] = "fetching"
    BY <1>3 DEF GetCold, PollHit, PollTimeout, IInv
  <2>3. \A t \in Tasks : pc'[t] = "fetching" =>
            pc[t] = "fetching" /\ holder' = t /\ flight' = flight
    BY <2>1, <2>2 DEF IInv, FlightsHoldTheLock
  <2>4. MemoryStep /\ now' \in Nat /\ now' >= now
    BY <2>1, SMT DEF MemoryStep, IInv
  <2>5. IInv'
    BY <2>2, <2>3, <2>4, NoNewFetch
  <2> QED BY <2>1, <2>5, <1>q, <1>e
<1>4. ASSUME NEW r \in Requests, CancelGet(r) PROVE Goal
  <2>1. pc' = [pc EXCEPT ![GetOf(r)] = "idle"] /\ LeaveQueue({GetOf(r)})
        /\ UNCHANGED <<now, entry, loaded, wins>>
    BY <1>4 DEF CancelGet, memVars
  <2>2. {GetOf(r)} \in SUBSET Tasks
    BY DEF GetOf, Tasks
  <2>3. pc' = [u \in Tasks |-> IF u \in {GetOf(r)} THEN "idle" ELSE pc[u]]
    BY <2>1, <2>2 DEF IInv
  <2>4. IInv'
    BY <2>1, <2>2, <2>3, CancelInv
  <2> QED BY <2>1, <2>4, <1>q
<1>5. ASSUME CloseCancel PROVE Goal
  <2> DEFINE ts == {RefreshOf(r) : r \in Requests}
  <2>1. LeaveQueue(ts) /\ UNCHANGED <<now, entry, loaded, wins>>
        /\ pc' = [u \in Tasks |-> IF u[2] = "refresh" THEN "idle" ELSE pc[u]]
    BY <1>5 DEF CloseCancel, memVars
  <2>2. ts \in SUBSET Tasks
    BY DEF RefreshOf, Tasks
  <2>3. \A u \in Tasks : u[2] = "refresh" <=> u \in ts
    BY DEF RefreshOf, Tasks
  <2>4. pc' = [u \in Tasks |-> IF u \in ts THEN "idle" ELSE pc[u]]
    BY <2>1, <2>3
  <2>5. IInv'
    <3> HIDE DEF ts
    <3> QED BY <2>1, <2>2, <2>4, CancelInv
  <2> QED BY <2>1, <2>5, <1>q
<1>6. ASSUME NEW t \in Tasks, Wake(t) PROVE Goal
  <2>1. UNCHANGED <<now, entry, loaded, wins>> /\ pc[t] = "waiting" /\ holder = t
    BY <1>6 DEF Wake, memVars
  <2>4. MemoryStep /\ now' \in Nat /\ now' >= now
    BY <2>1, SMT DEF MemoryStep, IInv
  <2>2. CASE pc' = [pc EXCEPT ![t] = "idle"]
    <3>1. \A u \in Tasks : pc'[u] # "fetching"
      BY <2>1, <2>2 DEF IInv, FlightsHoldTheLock
    <3>2. DOMAIN pc' = Tasks
      BY <2>2 DEF IInv
    <3>3. IInv'
      BY <2>4, <3>1, <3>2, NoNewFetch
    <3> QED BY <2>1, <3>3, <1>q
  <2>3. CASE ~Fresh(entry, now) /\ StartFetch(t) /\ holder' = holder
    <3>1. ~Fresh(entry', now)
      BY <2>1, <2>3
    <3>2. IInv'
      BY <2>1, <2>3, <2>4, <3>1, BeginFetch
    <3> QED BY <2>1, <3>2, <1>q
  <2> QED BY <1>6, <2>2, <2>3 DEF Wake, lockVars
<1>7. ASSUME NEW t \in Tasks, FetchSelects(t) PROVE Goal
  BY <1>7, SelectsStep
<1>8. ASSUME NEW t \in Tasks, FetchEvidence(t) PROVE Goal
  BY <1>8, EvidenceStep
<1>9. ASSUME NEW t \in Tasks, FetchFails(t) PROVE Goal
  BY <1>9, FailsStep
<1>10. CASE CloseDrain \/ CloseDone \/ (\E s \in Slots : WriteDone(s)) \/ Tick \/ UNCHANGED vars
  <2>1. UNCHANGED <<entry, loaded, pc, holder, flight, wins>> /\ (now' = now \/ now' = now + 1)
    BY <1>10 DEF CloseDrain, CloseDone, WriteDone, Tick, lockVars, memVars, vars
  <2>3. MemoryStep /\ now' \in Nat /\ now' >= now
    BY <2>1, SMT DEF MemoryStep, IInv
  <2>2. IInv'
    BY <2>1, <2>3, NoNewFetch DEF IInv, FlightsHoldTheLock
  <2> QED BY <2>1, <2>2, <1>q
<1> QED BY <1>1, <1>2, <1>3, <1>4, <1>5, <1>6, <1>7, <1>8, <1>9, <1>10 DEF Next, TaskStep

\* The inductive invariant holds in every reachable state.
THEOREM Invariance == Spec => []IInv
BY InitInv, EveryStep, PTL DEF Spec

\* One refresh of the model at a time, and the entry it read is still the
\* entry when its result is applied (telemetry.py: _ensure_fresh, _refresh).
THEOREM SingleFlightHolds == Spec => []SingleFlight
<1>1. IInv => SingleFlight
  BY DEF IInv, FlightsHoldTheLock, SingleFlight
<1> QED BY <1>1, Invariance, PTL

\* A cached winner is always one of its entry's safe slugs, whatever the
\* order of selections, failures and evidence-only polls (_apply_promotion).
THEOREM WinnerIsSafeHolds == Spec => []WinnerIsSafe
<1>1. IInv => WinnerIsSafe
  BY DEF IInv
<1> QED BY <1>1, Invariance, PTL

\* Successful polls start at least a poll interval apart (_ensure_fresh).
THEOREM PollsAreSpacedHolds == Spec => PollsAreSpaced
<1>1. IInv /\ [Next]_vars =>
          [entry # NoEntry /\ ~Overtaken /\ entry'.fetched # entry.fetched
           => entry'.fetched >= entry.fetched + PollInterval]_vars
  BY EveryStep
<1> QED BY <1>1, Invariance, PTL DEF Spec, PollsAreSpaced

\* A winner that still passes the filters is replaced only by a slug that won
\* the last promotion_polls selections (_apply_promotion).
THEOREM DampedHolds == Spec => Damped
<1>1. IInv /\ [Next]_vars =>
          [/\ entry # NoEntry
           /\ ~Overtaken
           /\ entry.winner # NoSlug
           /\ entry'.winner # entry.winner
           /\ entry.winner \in entry'.safe
           => \A i \in 1 .. PromotionPolls : wins'[i] = entry'.winner]_vars
  BY EveryStep
<1> QED BY <1>1, Invariance, PTL DEF Spec, Damped

-----------------------------------------------------------------------------
(* Shutdown.                                                               *)

\* The entry as it is now is written or queued; once aclose has begun with no
\* request in flight no task runs, and what it drains is all that is queued.
CloseInv ==
    /\ DOMAIN pc = Tasks
    /\ saved \/ \E s \in DOMAIN writes : writes[s] = entry
    /\ quiet /\ closing # "open" => \A t \in Tasks : pc[t] = "idle"
    /\ quiet /\ closing \in {"draining", "closed"} => DOMAIN writes \subseteq drain
    /\ closing = "closed" => drain = {}

LEMMA PersistSoonSaves ==
    ASSUME NEW e, PersistSoon(e)
    PROVE  \E s \in DOMAIN writes' : writes'[s] = e
  <1>1. PICK s \in Slots \ DOMAIN writes :
            writes' = [x \in DOMAIN writes \cup {s} |-> IF x = s THEN e ELSE writes[x]]
    BY DEF PersistSoon
  <1>2. s \in DOMAIN writes' /\ writes'[s] = e
    BY <1>1
  <1> QED
    BY <1>2

\* The end of a fetch queues what it decided, and runs before aclose only.
LEMMA FetchEndCloses ==
    ASSUME CloseInv, NEW t \in Tasks, FetchEnd(t),
           PersistSoon(entry') \/ UNCHANGED <<entry, writes, saved>>
    PROVE  CloseInv'
  <1>1. ~(quiet /\ closing # "open")
    BY DEF CloseInv, FetchEnd
  <1>2. UNCHANGED <<drain, closing, quiet>> /\ DOMAIN pc' = Tasks
    BY DEF FetchEnd, closeVars, CloseInv
  <1>3. saved' \/ \E s \in DOMAIN writes' : writes'[s] = entry'
    BY PersistSoonSaves DEF CloseInv
  <1> QED
    BY <1>1, <1>2, <1>3 DEF CloseInv

LEMMA CloseStep == CloseInv /\ [Next]_vars => CloseInv'
  <1> SUFFICES ASSUME CloseInv, [Next]_vars PROVE CloseInv'
    OBVIOUS
  <1> DEFINE Kept == /\ UNCHANGED <<writes, drain, closing, quiet>>
                     /\ UNCHANGED <<entry, saved>> \/ saved' = TRUE
  <1>1. ASSUME Kept, DOMAIN pc' = Tasks,
               \A t \in Tasks : pc'[t] # "idle" => closing = "open" \/ pc[t] # "idle"
        PROVE  CloseInv'
    BY <1>1 DEF CloseInv
  <1>d. ASSUME EnsureDisk
        PROVE  UNCHANGED <<entry, saved>> \/ saved' = TRUE
    BY <1>d DEF EnsureDisk, memVars
  <1>2. ASSUME NEW r \in Requests, GetWarm(r) \/ GetCold(r) PROVE CloseInv'
    <2>1. /\ UNCHANGED <<writes, drain, closing, quiet>> /\ DOMAIN pc' = Tasks
          /\ closing = "open"
          /\ UNCHANGED <<entry, saved>> \/ saved' = TRUE
      BY <1>2, <1>d DEF GetWarm, GetCold, EnsureFresh, StartFetch, closeVars, CloseInv
    <2> QED BY <1>1, <2>1
  <1>3. ASSUME NEW r \in Requests, RefreshBegin(r) PROVE CloseInv'
    <2>1. /\ UNCHANGED <<writes, drain, closing, quiet>> /\ DOMAIN pc' = Tasks
          /\ UNCHANGED <<entry, saved>> \/ saved' = TRUE
      BY <1>3, <1>d DEF RefreshBegin, EnsureFresh, StartFetch, closeVars, CloseInv
    <2>2. /\ RefreshOf(r) \in Tasks /\ pc[RefreshOf(r)] # "idle"
          /\ \A t \in Tasks : pc'[t] # "idle" => pc[t] # "idle"
      BY <1>3 DEF RefreshBegin, EnsureFresh, StartFetch, CloseInv, RefreshOf, Tasks
    <2> QED BY <1>1, <2>1, <2>2
  <1>4. ASSUME NEW r \in Requests, PollHit(r) \/ PollTimeout(r) \/ CancelGet(r) PROVE CloseInv'
    BY <1>1, <1>4 DEF PollHit, PollTimeout, CancelGet, closeVars, memVars, CloseInv
  <1>5. ASSUME NEW t \in Tasks, Wake(t) PROVE CloseInv'
    BY <1>1, <1>5 DEF Wake, StartFetch, closeVars, memVars, CloseInv
  <1>6. ASSUME NEW t \in Tasks, FetchSelects(t) \/ FetchEvidence(t) \/ FetchFails(t)
        PROVE  CloseInv'
    BY <1>6, FetchEndCloses DEF FetchSelects, FetchEvidence, FetchFails
  <1>7. ASSUME NEW s \in Slots, WriteDone(s) PROVE CloseInv'
    <2>1. /\ DOMAIN writes' = DOMAIN writes \ {s} /\ drain' = drain \ {s}
          /\ \A x \in DOMAIN writes \ {s} : writes'[x] = writes[x]
          /\ saved' = (saved \/ writes[s] = entry)
          /\ UNCHANGED <<entry, pc, closing, quiet>>
      BY <1>7 DEF WriteDone
    <2>2. saved' \/ \E x \in DOMAIN writes' : writes'[x] = entry'
      BY <2>1 DEF CloseInv
    <2> QED
      BY <2>1, <2>2 DEF CloseInv
  <1>8. CASE CloseCancel
    BY <1>8 DEF CloseCancel, CloseInv, memVars, Tasks, GetOf
  <1>9. CASE CloseDrain
    BY <1>9 DEF CloseDrain, CloseInv, memVars
  <1>10. CASE CloseDone
    BY <1>10 DEF CloseDone, CloseInv, memVars
  <1>11. CASE Tick \/ UNCHANGED vars
    BY <1>1, <1>11 DEF Tick, vars, closeVars, memVars, CloseInv
  <1> QED
    BY <1>2, <1>3, <1>4, <1>5, <1>6, <1>7, <1>8, <1>9, <1>10, <1>11 DEF Next, TaskStep

\* aclose leaves nothing behind: with no request in flight when it began, no
\* task runs, no write is queued and the last decision has been written,
\* however many writes were queued (aclose, _persist_soon).
THEOREM ShutdownSavesHolds == Spec => []ShutdownSaves
  <1>1. Init => CloseInv
    BY DEF Init, CloseInv
  <1>2. CloseInv => ShutdownSaves
    BY DEF CloseInv, ShutdownSaves
  <1> QED
    BY <1>1, <1>2, CloseStep, PTL DEF Spec
=============================================================================
