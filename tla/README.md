# A TLA+ development of litellm-plugin-openrouter-pareto

The plugin sits in a LiteLLM proxy and, for every managed model, pins a request
to one OpenRouter provider: the end of a *value walk* over the providers that
pass the rule's filters, less those that are rate limited, broken or not
permitted now. This directory holds TLA+ modules translated from
`src/src/litellm_plugin_openrouter_pareto/`, the TLC instances that check them,
and proofs checked by TLAPS. `PROJECT.json` maps every definition to the lines
it stands for.

Paths below are relative to that package unless they start with `src/`.

## 1. Inventory

### Components, state, operations

| component | state | operations | models |
|---|---|---|---|
| cooldown memory (`cooldown.py`) | `_hits`, `_input_capped`, `_broken` per (model, slug), one lock | `record`, `record_input_cap`, `record_broken`, `is_hot`, `is_input_capped`, `is_broken`, `is_skipped` | `Cooldown`, `CooldownPromise` |
| telemetry refresh (`telemetry.py`) | `_memory`, one `asyncio.Lock` per model, background tasks, persist tasks | `get`, `_spawn_refresh`, `_ensure_fresh`, `_refresh`, `_apply_promotion`, `_stale_fallback`, `aclose` | `Telemetry` |
| shared cache file (`telemetry.py`) | `cache.json`, `cache.lock`, `_disk_loaded`, `_allowed_providers` and its time | `_ensure_disk`, `_persist_soon`, `_persist`, `set_allowed_providers` | `SharedCache` |
| scorer (`scorer.py`) | none | `select_candidates`, `ranked_order` | `Selection`, `Scorer`, `ValueWalk`, `RankedOrder` |
| deployment filter (`plugin.py`) | the above, read | `async_filter_deployments` and what it calls | `Routing` |
| failure hooks (`plugin.py`) | writes the cooldown and the allowlist | `async_log_failure_event`, `async_post_call_failure_hook` and what they call | `Failures` |
| rule and client resolution (`plugin.py`, `config.py`) | `_rules`, `_telemetry`, `_cooldown`, three "resolved" flags | `_resolve_rules`, the four loaders | `Resolution` |
| rule configuration (`config.py`) | none | validation, `rule_fingerprint` | what a loader makes of a setting in `Resolution`, fingerprints in `SharedCache`; which values are valid is left out |
| wire models (`models.py`), decision and error logs | none | pure functions, one-line output | left out, but for the reasons and verdicts of a decision (`Routing`) |

### How they interact

- A request enters `async_filter_deployments`, awaits `Telemetry.get`, and from
  there to its answer runs without suspending: it reads the entry, the account
  allowlist and the cooldown as they are at that instant.
- `Telemetry.get` serves memory, refreshes in line when the entry is old, or
  spawns a refresh and polls for its result on a cold start. A refresh calls
  the scorer, applies promotion damping, replaces the entry and starts a
  thread that merges memory into the cache file.
- Failure callbacks of LiteLLM (event loop or worker threads) write the
  cooldown; a 404 that names the account's providers sets the allowlist, which
  is persisted too.
- Every request and every failure hook calls `_resolve_rules` first, which may
  raise, and may replace the rules, the telemetry client and the cooldown memory.
- Other worker processes share the cache file and nothing else.

### Where it is hard, and what correct means

- **Cooldown.** Callers read the clock before they take the lock, so bodies run
  out of clock order; reads delete; recording one key evicts others. Correct: a
  provider is hot exactly while enough recent 429s say so, a skip that is still
  due is never lost, every skip ends, memory does not grow without bound.
- **Telemetry.** Tasks queue, are cancelled while they hold or wait for the
  lock, time out as answers arrive; a late first load of the file replaces the
  entry under a refresh; shutdown races both refreshes and writes.
  Correct: one refresh at a time, spaced polls, a winner that is safe and
  damped, every task ends, a shutdown loses nothing.
- **Shared cache.** Threads and processes read-merge-write one file, can be
  dropped, delayed, reordered or die, under rules that change across restarts.
  A read that fails counts as an empty file. Correct: writes that can read the
  file move it forward only, an entry of another rule is neither used nor
  evicted, nothing decided is forgotten, a torn allowlist is repaired.
- **Scorer.** Divisions by telemetry values, a tier that hides members, several
  rows per slug, one endpoint that decides for an organisation. Correct: no
  zero denominator, no dominated pick, no early stop, a total ranking, region
  verdicts that agree.
- **Routing.** The entry, the allowlist, the cooldown and the region evidence
  are of different ages, and four skip kinds with two strengths combine on
  three paths. Correct: what is pinned is usable and verified, what is refused
  had to be, a soft skip never refuses, nothing widens an operator's pin.
- **Failures.** LiteLLM fires two hooks for a failed completion and one for a
  pass-through request, late, in any order or not at all, and the provider to
  blame must be found in what the request left behind. Correct: a failure
  counts once, against a provider that can have served it and in the right
  class, whether the pin, its copies or the deployment's id tell which; none that
  names its provider is lost.
- **Resolution.** Three configurations are resolved by one call that can raise
  between two of them, while the operator edits the settings. Correct: nothing
  is served half configured, a mistake raises until it is corrected, and what
  one request was served with serves the next.

`PROJECT.json` lists each hazard at its line with the properties that cover it.

## 2. Plan

Order of the work: (1) Cooldown and its promise; (2) SharedCache; (3) Telemetry;
(4) ValueWalk, RankedOrder; (5) Selection, Scorer; (6) Routing, over Selection;
(7) Resolution; (8) Failures, which composes Cooldown, its promise and
Resolution. All of them are written, checked and proved about (section 5). The abstract specification is `CooldownPromise`;
`CooldownRefinement` maps the memory to it, and `Failures` states it again of
the memory as the hooks and the routing use it.

    ValueWalk <- Selection <- Scorer, Routing
    ValueWalk <- RankedOrder
    CooldownPromise <- CooldownRefinement (extends Cooldown) <- Failures
    Resolution <- Failures

What could still follow: warn-once output, with the restore of `_warned` in
`_decision_region` and `_decline_region`; the permaslug cache of
`telemetry.py:381`.

## 3. The modules

### Cooldown

A method is two steps: `Begin` reads the clock, then the locked body (`Record`,
`Report`, `Read`) runs with that reading. Two threads' bodies can run in the
opposite order; `Lag` bounds the delay. A key's list is a set of hits numbered
in append order (`hits[k]`, the last element being the greatest number), and
`until` holds the two dictionaries of expiry instants, 0 where there is no
entry. `Record` prunes the key, appends and evicts every key whose *last* hit is
out of the window, as the code does. `is_hot` changes nothing and is the
operator `IsHot`. `log` and `promised` are history.

`CooldownPromise` is what a caller may rely on: failures inside the window, ends
of skips, no dictionaries. `CooldownRefinement` maps one to the other (aged hits
and unreaped expiries are invisible) and states `ImplementsPromise`.

### SharedCache

Worker processes with event loops and persist threads, one file. A handler is an
action (`EnsureDisk`, `RefreshDone`, `RefreshFailed`, `SetList` then `SetStamp`,
because a persist thread can read between the two stores of
`set_allowed_providers`). A thread's `_persist` is `Acquire` (lock and read),
`PickAllowlist` (reads the list), `Write` (reads the time, merges, prunes,
replaces, unlocks), or `Drop` at any point. `Restart` kills a worker between any
two steps and gives it new rules. An entry is its rule fingerprint, the start of
its fetch and its stale flag, which is all the merge looks at.

`Readings` are what `_load_stored` can return: the file, or an empty cache after
an `OSError`, text that is not the JSON of a cache, or another version. A thread
that reads empty so (`Blind`) merges with nothing and replaces the file all the
same. `EnsureDisk` takes two readings, one for the entries and one for the
allowlist, each of which can fail, and is not repeated; only a directory that
cannot be made leaves the load to a later call, which then replaces what a
refresh has put into memory since.

History variables: `found`, the pairs of an allowlist and its time that a worker
discovered or loaded; `replaced`, the entries a late load put aside; `lost`, the
workers to which nothing is promised, because a write of theirs was dropped,
their allowlist was replaced by the file's, or a write that could not read the
file undid what they had there. In a job, `misread` says that its reading failed.

`RefreshDone` is one action: its awaits, and a load of the file under a refresh
in flight, are the subject of `Telemetry`. Its start lies up to `FetchTime` in
the past.

### Telemetry

The coroutines of one model: `get` of each request (warm or cold) and the
refresh a cold one spawns. `pc` says at which await a task is suspended;
`holder` and `waiters` are the `asyncio.Lock`, which hands itself to its first
waiter. An action runs from one await to the next, so `EnsureFresh` returns,
queues, or takes the lock and starts the fetch. Before it, `GetWarm`, `GetCold`
and `RefreshBegin` run `EnsureDisk`: the first load of the file, which does
nothing, finds nothing, or replaces the entry by one of `Stored`, which another
process wrote. `flight` is what a fetch read before its awaits. A fetch ends with
a selection (`FetchSelects`, through `Promoted`), with evidence only
(`FetchEvidence`), or in failure (`FetchFails`). `CancelGet` cancels a request at any await;
`CloseCancel`, `CloseDrain` and `CloseDone` are `aclose`. `wins` is history: the
slugs that the entry's last selections chose (of an entry from the file, those
its streak stands for).

### ValueWalk, RankedOrder

`ValueWalk` has the walk's operators over integers (a tolerance in percent,
divisions multiplied out; what floating point rounds at an exact boundary is
left out). `RankedOrder` runs `ranked_order` one loop step at a time: `Screen`,
`Exclude`, then per round `Tier`, `Push`, `Visit`, `Take`. A tie between points
goes to the first in the tuple passed in, which is either; the operators, which
have to choose, take one of them, so `OrderIsRanking` compares the two where
nothing ties. `WellChosen` says what the choice of a point must not leave
behind.

### Selection, Scorer

`Selection` is `select_candidates`: region verdicts of endpoints and
organisations, filters, collapsing, the walk. Filters on quantization, context,
retention, uptime, sample size and finiteness are the Boolean `fit` of a row.
`Scorer` feeds it polls.

### Resolution

`Resolve` is one call of `_resolve_rules`: it does not suspend, so it is one
action that resolves as many of the three parts as it can (`RulesPass`,
`ClientPass`, `MemoryPass`) and raises if the last is false, keeping what it
resolved. A source is an attribute of `litellm_settings` over a variable of the
environment, each unset, empty, valid or invalid. `Configure` is the operator.
`client.for` is the rules a telemetry client was built for.

### Failures

`Fail` sends a request's failure to the hooks its path fires: both for a
completion, the post-call one for a pass-through. `Fire` takes a hook that is
owed, in any order; a hook that is never fired is a lost call. `HookReturns` is the
guard that keeps the post-call hook off completions, `HookStops` a hook whose
configuration raises, whose model is not managed or that is given no exception,
`HookLearns` the rest: the configuration resolved, the account's list kept, the
provider found (`SlugFromKwargs`, `SlugFromDeployment`, `SlugFromRequestData`,
over what `CallDetails` and `RequestData` say a request can leave behind: copies
of the pin OpenRouter was sent, which may be the client's own, and the id its
deployment goes by, which need not be in that pin), the failure classed (`Signal`),
and the clock read of the memory. `HookRecords` is the locked body, so that
hooks of two requests overtake each other there. `Route` is a routing decision
as far as it touches the same state: it resolves the configuration, and its
reads reap expired marks. Each request is a thread of `Cooldown`, the router is
one more. `heard` is history: when the hook that is to count a failure ran, also
if the guard sent it back; a hook that stops was not heard, and its failure is
lost.

### Routing

`FilterDeployments` is one decision, from the answer of `telemetry.get` to the
deployments handed back: `InjectWinner` and `WildcardFallback` in wildcard mode,
`Narrow` in pinned mode. `decision.wire` is what the copies let OpenRouter
choose from. Between decisions the entry is refreshed (by `Select` under the
allowlist of that moment, damped or not) or marked stale, the allowlist changes
and the three skip sets change in any order.

A deployment is the slugs `slugs_of` reads of it and whether it sends them: those
of a `provider.only` it sends, the one of its `model_info.id` it does not. `Wire`
is what it lets OpenRouter choose from as it is, anybody in the second case.
`PinWinner` rewrites all matching deployments, or, if each is known by the slug
alone, hands them back untouched, so that one known by its id only goes out
unpinned. `PassThrough` hands back the permitted ones as they are.

## 4. Runs

| run | instance | shows |
|---|---|---|
| `cooldown` | 2 keys, 2 threads, `Lag` 1, window 2, threshold 2, 4 hits, clock to 7 | the window is exact up to the lag, no live hit is evicted, no re-recorded skip is reaped, skips end |
| `failures` | 2 requests, 2 providers and a third in lists, their ids, 2 account lists, 4 settings, client injected or not, window 1, threshold 2, clock to 2 | failures count once, against who was pinned or, without one pin, goes by the deployment's id, in their class; none that names its provider is lost; nothing half configured; the memory keeps its promise |
| `resolution_stranded` | nothing injected, every source unset, valid or invalid | violation, see 7 |
| `cache_entries` | 2 workers, 1 model, 2 rules, 2 writes pending, failed reads, one late load, retention 1, clock to 3 | the file moves forward, nothing is forgotten, rules do not mix |
| `cache_allowlist` | 2 workers, 2 lists, 1 model, 2 slots, failed reads, clock to 2 | a stored list survives; a torn pair heals |
| `cache_clobber` | 2 workers, 2 lists, 1 slot, clock to 3 | violation, see 7 |
| `telemetry` | 2 requests, 2 slugs, 2 entries the file can hold, region rule, damping 2, 1 write slot, clock to 2 | single flight, safe and damped winners, spaced polls, shutdown; under fairness every task ends |
| `order` | 3 slugs, 5 prices, 4 speeds (zeroes, a pair within 1%), tolerances 0 and 60, up to 4 points | the ranking properties; the loops and the operators agree |
| `scorer` | 3 slugs of 2 organisations, 3 rows, 6 geographies, ban, ceiling, allowlist | region verdicts, collapsing |
| `routing` | 3 slugs, 7 polls, both modes, 3 policies, 4 deployments, strict, ban | the routing properties |
| `routing_broken`, `routing_damped` | as above, one mode each | violations, see 7 |

Why the bounds are enough:

- *Cooldown.* Window and threshold of 2 with 4 hits let a list hold live and
  aged hits at once, and one key's record evict another; the clock passes
  several windows. The constraint `MCApart` explores either the 429s of both
  keys or the skips of one: they live in different dictionaries and share
  nothing but the lock, and the proofs cover their mixture.
- *Failures.* Two requests are what a threshold of two takes, and what
  counting one twice would reach. `MCFailureSet` has, for a 429, every pin (none,
  empty, one provider, two) with every id of a deployment, on a completion and a
  pass-through; for a 400, a body that says both and one that says "broken" only,
  with one provider pinned on every path, or two on a completion; and the
  account's 404. The third provider occurs only beside another in a list, so it
  is what tells a list from a pin. `Alike` lets two requests fail with the same status: 429s,
  400s and the account's list are stored apart. `OneBefore` lets one request at
  most fail before the configuration is resolved, at time 0. `ReadsThatReap`
  leaves out reads of what is not there, which change nothing. The view drops
  the settings once a call was served and all requests have failed, when
  nothing reads them any more. `Lag` is 0, at which `MemoryKeepsItsPromise`
  holds.
- *SharedCache.* Two writers make every read-merge-write race; a third adds
  none. `MCFewPending` keeps two writes pending in all, of one worker or of two
  (one after a loss), and lets one worker at most be promised nothing (were it
  both, there would be nothing to check) and one load the file after it
  refreshed. `MCRoles` adds that
  one worker refreshes at a time and that no write is lost: after a loss the
  pair of the allowlist is promised nothing, and the proofs cover two workers
  that refresh. `FetchTime` 0 makes a fetch start when it ends; slow fetches are
  in the proofs. Retention 1 in `cache_entries` against a clock to 3 makes
  pruning happen at and after the boundary.
- *Telemetry.* Two requests give four tasks, three of which can queue on one
  holder. Two slugs and a damping of two show held, promoted and reset streaks,
  and three polls fit in the clock. `MCStored` is an entry one win short of its
  candidate's promotion, as fetched or stale. One write slot lets a write be overtaken by
  a shutdown; any number of them is in the proof of `ShutdownSaves`.
- *RankedOrder.* Four points over three slugs give duplicates and tiers of
  three; the walk advances twice.
- *Routing.* Two endpoints of one organisation and one of another suffice for
  base and endpoint bans, siblings and verdicts; the polls make each of them
  win, vanish, lose its region or stay unverified. Of the four deployments one
  sends its slug, one sends two, one is known by its id only and one by nothing.

The inductive invariant of `Telemetry` is checked too; those of `Cooldown` and
`SharedCache` hold on these instances as well, and being proved are not listed
in their runs.

Deadlock checking is off everywhere: bounded clocks, closed clients, finished
rankings and requests that have all failed really stop.

### Fairness

`EveryTaskEnds` assumes weak fairness of: every task that is ready (asyncio
runs its ready queue in order), an HTTP call's end (the client has timeouts), a
poll's hit or deadline (`asyncio.timeout` around a fixed sleep), the persist
threads, `aclose`'s own steps and the clock. Nothing is assumed of requests,
cancellations or shutdown. The counter-check is in the mutants: if a cancelled
task leaves the lock as it was, the property fails.

## 5. Proofs

Every theorem holds for any sets of keys, threads, workers, models, requests and
slugs, and any bounds, under the `ASSUME`s of the module (types of the
constants; the "none" values are not data). TLC evaluates these on every run.

- **CooldownProofs.** `IInv` adds to the type: pending calls are at most `Lag`
  old; append order follows the clock up to `Lag`; stored hits are logged, every
  stored list has a last element, and a hit in the window less `Lag` is stored;
  a stored expiry trails the promised one by at most `Lag` while it matters. The
  append-order conjunct is what makes eviction by the *last* hit safe: if the
  last one is out of the window, no earlier one is in it by more than `Lag`.
  From it follow `HotOnlyWhenDue`, `HotWhenDue`, `SkipHonoured`, `SkipBounded`
  and `StoredKeysAreRecent` (of `_hits` only: the two dictionaries of marks have
  no eviction but the reads that reap).
- **CooldownProofs, the refinement.** With `Lag = 0`, every step of `Cooldown` is a
  step of `CooldownPromise` or a stutter. With a positive lag it is not: a late
  body appends a hit that is already old, and eviction by such a last hit can
  drop one the promise still counts, which is why the properties above carry
  `Lag`.
- **SharedCacheProofs.** `IInv` is `TypeOK`, `OwnRule`, `MergeIsAtomic`,
  `NothingForgotten` and that pending writes carry entries of their worker's
  rule and a clock reading that has passed (without which a restart or a prune
  could not be handled). `FileMovesForward` and `AllowlistSurvives` follow from
  it: only `Write` touches the file, what it read is still there unless its
  reading failed, and `NotBefore` is a total order on the states of a key. The
  exceptions are part of the statements: a `Blind` thread's write in the first,
  one that has also picked no list in the second; and `NothingForgotten`, which
  covers what a late load replaced in memory too, says nothing of the workers
  such a write undid, which `WriteEffect` shows to be all it can hurt. `AllowlistPairHeals` needs `PairInv`:
  between its calls a worker knows a pair that was discovered or loaded, a list
  that a thread picked before it changed is followed by a write still queued, and
  a torn pair in the file by a write of a worker that knows a list. All three
  hold only while nothing is lost.
- **TelemetryProofs.** `IInv` says that the fetching task holds the lock, that
  the entry it read is still the entry unless the file was loaded since, that its
  poll was due, that only a due entry is stale, and that the streak counts the
  candidate's last wins and the winner is safe, of the entry (`Earned`, `Safe`)
  and of the one a refresh has read. `MemoryAfter` is where a load of the file
  is dealt with, for all actions that begin with one.
  `SingleFlight`, `WinnerIsSafe`, `PollsAreSpaced` and `Damped` follow. The
  lock's mutual exclusion needs nothing of the queue's contents. For
  `ShutdownSaves`, `CloseInv` says that the entry as it is is written or queued,
  and that once `aclose` has begun, what it drains is all that is queued.
- **RankedOrderProofs.** `IInv` follows the loops, for every set of points and
  every tolerance: what screening keeps, what the rounds have taken and left,
  that the tiers are `Tiered`, that the frontier `Climbs`, and that the walk
  `Stands` on a point it visited and has turned down every faster one. The three
  loop invariants are those of `ValueWalkProofs`, where one step of each loop is
  shown to keep them. All six properties of the run are what is left of it when
  a walk ends; the 1% of `Undominated`, `NoBetterBuy` and `BestValue` is the
  width of the tier a point can be hidden in.
- **RankedOrderProofs, the order.** `Following` says that the loops stand where
  the folds of `ValueWalk` stand: what is left to tier are the last points of
  the sorted sequence, the tiers are the fold of those before them, likewise
  the frontier over the tiers and the walk over the frontier, and the order so
  far, followed by the ranking of what is left, is the ranking of what was
  offered. It is kept step by step with one link of the chains of
  `ValueWalkProofs`, and gives `OrderIsRanking` when nothing is left. So what is
  proved of `Rankings` and used in `Routing` is about the code's loops.
- **ScorerProofs.** The selection stays what `Select` made of the rows
  (`Judged`). `OnlyVerified` and `VerdictsPartition` are then set algebra over
  the verdicts; `FastestAdmitted` rests on a finite set of rows having one that
  no other is better than, by well-founded induction over its subsets.
  `WinnerIsWellChosen` is about the value, where the run's properties are about
  the rows: the points are usable, so the winner is the slug of one that
  `TerminalChoosesWell` speaks of.
- **FailuresProofs, the configuration.** The invariant says of each part what its resolution
  used: one that is not resolved is still the default, a resolved one goes back
  to settings that some call has seen. `NoSilentDefaults` and `ServedAlike`
  follow.
- **FailuresProofs, the hooks.** Every step of `Failures` is a step of `Cooldown` and a
  step of `Resolution`, or leaves them alone, so their theorems are cited for
  the composition through `INSTANCE` (`MemoryKeepsItsPromise`, for `Lag = 0`;
  `NoSilentDefaults`; `ServedAlike`). `DueInv` adds whose failures the memory
  holds: each mark and pending call belongs to a request of its own that was
  heard once, and each hit through an injective choice of requests, which is
  what makes the cardinality in `HotIsEarned` count requests and not hooks.
  `FailuresTell` needs the converse, that every failure heard that names its
  provider is in the memory or underway, and is proved for `Lag = 0`, since
  with a lag an eviction may lose a hit as above.

- **ValueWalkProofs.** The walk's operators are folds and a recursive function
  over the subsets of a finite set. Strict inclusion is well founded on them,
  so such functions exist and are unique (`Recursive`), and a fold is the end of
  a chain of accumulators over the prefixes of its sequence (`TierSteps`,
  `FrontierSteps`, `WalkSteps`), one step of the loop to a link. It follows that
  tiers and frontier are made of the points given, that a walk ends on one of
  them (`TerminalIn`), and that peeling ends off one after another ranks every
  slug once (`RankingsComplete`). Tiers lie above each other and cover the points
  added to them (`Tiered`), the frontier climbs and covers the tiers it was made
  of (`Climbs`), the walk has turned down every faster frontier point
  (`Stands`); every link keeps these, and at the end of the three chains they
  give `TerminalChoosesWell`: up to the tier's 1%, no point dominates the end of
  a walk or is a better buy at a price within reach, and at tolerance 0 none is
  of better value. `RankingsChooseWell` has the same of every place of a ranking,
  among the points not ranked before it.
- **RoutingProofs.** A decision is taken in one step from a state in which
  `Inputs` holds: an entry's points are rows the poll offered under the rule, its
  winner is the slug of one of them. The proof says what each path of
  `FilterDeployments` puts on the wire (`Right`), which takes from the walk that
  its order ranks the points and nothing else, and derives the run's properties
  (`Sound`) from that and from the policy of the decision. `Permitted` and
  `Authorised` say what may be on a deployment's wire, with the exception for one
  that goes out as it is without `provider.only` (`Wires`). For
  `PinnedIsWellChosen`: the first of a ranking that is wanted for another reason
  (no input cap, a deployment that authorises it) comes after points that are
  not wanted only, so that it is well chosen among the wanted ones. It needs the
  assumption that rows which pass the filters have a positive price and
  throughput, which is what `_to_candidate` keeps.

Only model-checked: `EveryTaskEnds` (liveness under fairness is out of the
prover's reach). The types of the lock's queue in `Telemetry` are left unproved.

## 6. Mutants

Operators whose comment begins with "Mutant of" are plausible faults of the
definition that follows them (a missing re-check after a lock is granted, a
merge where the last writer wins, eviction by the first hit). No specification
uses them. `PROJECT.json` pairs one with each property; put in the place of
the definition it names, it makes that property fail in its run.

## 7. Where the code and its text disagree

Each of these is a violation run:

1. `cache_clobber`: the comment at `telemetry.py:308` says the newer of the two
   allowlists by `fetched_at` is kept; line 311 keeps the worker's own whenever
   it has one, so a worker that knows an older list overwrites a newer one.
2. `routing_broken`: `src/README.md:305` says a broken provider is never tried;
   `_narrow` reaches back (`plugin.py:908`) for a winner the walk dropped and
   checks the allowlist and `exclude_providers` only.
3. `routing_damped`: `_ordered_candidates` says the cached winner goes first;
   it walks the entry's points again, which finds the challenger that promotion
   damping is holding back. Damping so affects `entry.winner`, not the routing.

4. `resolution_stranded`: the comment at `plugin.py:190` says that with no new
   rules and no telemetry or allowlist settings the client of `__init__` is
   correct. If the call that loaded the rules raised in these settings, and they
   are then removed, the next call finds `rules_changed` false and keeps the
   default client, which was built for `DEFAULT_RULES` and has no answer for any
   configured model.

Noticed while modelling, with no run of their own:

- A read of the file that fails counts as an empty file (`telemetry.py:201-215`),
  and `_persist` replaces the file with what it merged into that: the entries of
  other workers and rules are dropped, and so is the account's allowlist by a
  worker that has none (`telemetry.py:303-324`). `FileMovesForward`,
  `AllowlistSurvives` and `NothingForgotten` state this exception.
- `_ensure_disk` marks the load done after such a read too (`telemetry.py:194-196`):
  the worker never reads the file for its memory again.
- A first load of the file that succeeds late, after its directory could not be
  made before, overwrites an allowlist that was discovered since
  (`telemetry.py:240`), and an entry that was refreshed since, also under a
  refresh in flight (`telemetry.py:194`). The refresh then ends with an entry of
  the streak it had read: `Damped`, `PollsAreSpaced` and `SingleFlight` except a
  refresh that was overtaken so.
- The comment at `telemetry.py:546-547` speaks of triggers that share one
  refresh; after a failed refresh each queued trigger runs one of its own, since
  a failure leaves nothing fresh (lines 520-526).
- In pinned mode an excluded provider can stay on the wire when deployments are
  passed through (`plugin.py:901`, `924`; `src/README.md:323-326`).
- A completion whose pin names several providers, none of which can be told to
  have served, is charged to the deployment's `model_info.id`
  (`plugin.py:263-287`), also when the client sent the pin and the id is not in
  it, although the docstring of `_slugs_from_params` says that the id is
  consulted only when `provider.only` is absent entirely. `Blamable` states the
  exception: it allows the id's provider then, which cannot have served.
- A log hook that is given no exception (`plugin.py:988-990`) loses its failure,
  as the post-call hook has left it to it.
- An unpinned failure whose deployment has a generated id is recorded under
  that id (`Hash`), which no routing decision looks at, and is not warned of.
- A streamed pass-through failure reaches the hook without its body, so a
  streamed 404 never teaches the allowlist; requests in flight at the expiry of
  a list fail too. `src/README.md:461` speaks of at most one failed request per
  TTL period.
- Two 404s that name different lists and whose hooks run in the opposite order
  leave the older list, stamped fresh.
- A worker that loads a torn pair of an allowlist and its time before the
  repairing write can write it again afterwards (`telemetry.py:311`).
- A hook that runs while the configuration raises loses its failure.
- A deployment that names its provider by `model_info.id` only counts as pinned
  in `_pin_winner` (`plugin.py:936`), although its docstring speaks of deployments
  that are already pinned, and goes out as it is, without `only`: OpenRouter may
  serve the request from any provider, one of an excluded region included. The
  same holds where deployments are passed through (`plugin.py:901`, `924`).
  `RegionHonoured` and `NeverWidened` state the exception: of such a deployment
  they hold the provider its id names against the region policy, and that
  nothing was added to what it sends.
- A decline because everything is hot can carry a region verdict
  (`plugin.py:505` against `decision_log.py:56-58`).
- Restoring `_warned` after a verdict is recomputed (`plugin.py:614`, `715`)
  forgets a warning given meanwhile, so it repeats.

## 8. Not modelled

- HTTP fetching and parsing (`_fetch_endpoints`, `_fetch_stats`, the permaslug
  cache): a fetch is its outcome.
- Validation and normalization of configuration values, JSON encoding, file
  modes, logging and wording; the regular expressions of the 400 signatures.
- Warn-once output: nothing a decision or a record depends on reads it. The
  error log, the wire models and the package's exports have no control of
  their own.
- Entries without points and rules with an empty slug, which no writer produces.
- The mutual consistency of several models: they share the event loop, the
  allowlist and the file, and nothing else; `SharedCache` has a set of models.

## Running

    tlc -workers 2 -config MCCooldown.cfg MCCooldown
    tlapm CooldownProofs.tla
