----------------------------- MODULE SharedCache -----------------------------
(***************************************************************************)
(* The telemetry cache as the worker processes of the proxy share it: the  *)
(* in-memory entries of every worker, the writes their persist threads     *)
(* have in flight, and the one cache file they merge into (telemetry.py).  *)
(*                                                                         *)
(* A worker's event loop runs one handler at a time; its persist threads   *)
(* and the other processes interleave with it, and between the two stores  *)
(* of set_allowed_providers.  An entry is abstracted to what the merge     *)
(* looks at: the rule fingerprint it was computed under, the instant its   *)
(* fetch started, and whether a later refresh failed (stale).              *)
(***************************************************************************)
EXTENDS Integers

CONSTANTS
    Workers,     \* worker processes
    Models,      \* configured models
    Fps,         \* rule fingerprints
    Lists,       \* allowed-provider lists a 404 can reveal
    NoEntry,     \* no cache entry
    NoList,      \* allowlist unknown (None)
    NoJob,       \* no write in this slot
    Slots,       \* bound on a worker's pending writes
    PollInterval,\* OR_POLL_INTERVAL_S
    Retention,   \* OR_DISK_RETENTION_S
    FetchTime,   \* bound on the duration of a refresh
    MaxTime      \* bound on the clock

Entry == [fp : Fps, fetched : Nat, stale : BOOLEAN]

ASSUME ConfigAssumption ==
    /\ PollInterval \in Nat
    /\ Retention \in Nat
    /\ FetchTime \in Nat
    /\ MaxTime \in Nat
    /\ NoEntry \notin Entry
    /\ NoList \notin Lists

MaybeEntry == Entry \cup {NoEntry}
MaybeList  == Lists \cup {NoList}
Keys       == Models \X Fps          \* _disk_key: model and rule fingerprint
Memory     == [Models -> MaybeEntry]
Allowlist  == [list : MaybeList, at : Nat]
File       == [entries : [Keys -> MaybeEntry], allow : Allowlist]

\* A call of _persist: its arguments, and how far its thread has come.
Job ==
    [step : {"queued", "locked", "listed"},
     snap : Memory,       \* the memory when _persist_soon was called
     now  : Nat,          \* the clock when _persist_soon was called
     seen : File,         \* what _load_stored returned under the lock
     misread : BOOLEAN,   \* history: it was not what the file holds
     allow : MaybeList]   \* the allowlist chosen, before its timestamp is read

ASSUME JobAssumption == NoJob \notin Job

VARIABLES
    now,      \* the wall clock
    rule,     \* rule[w][m]: fingerprint of the rule worker w has for model m
    memory,   \* _memory
    loaded,   \* _disk_loaded
    own,      \* _allowed_providers and _allowed_providers_fetched_at
    setting,  \* the list set_allowed_providers has stored without its timestamp
    jobs,     \* calls of _persist in flight, per worker and slot
    file,     \* cache.json
    lock,     \* cache.lock: the workers holding it (at most one)
    replaced, \* history: the entries that loading the file replaced in memory
    lost,     \* history: workers that dropped a write, died before one, lost their
              \* allowlist to the one of the file, or an entry or the allowlist of
              \* the file to a write that could not read it
    found     \* history: the allowlists discovered, or loaded, with their timestamps

vars == <<now, rule, memory, loaded, own, setting, jobs, file, lock, replaced, lost, found>>

-----------------------------------------------------------------------------

Unknown == [list |-> NoList, at |-> 0]
EmptyMemory == [m \in Models |-> NoEntry]
EmptyFile == [entries |-> [k \in Keys |-> NoEntry], allow |-> Unknown]

Fresh(e, t) == e # NoEntry /\ ~e.stale /\ t - e.fetched < PollInterval

\* Whether incoming is a later state than stored.
Supersedes(incoming, stored) ==
    IF incoming.fetched # stored.fetched
      THEN incoming.fetched > stored.fetched
      ELSE incoming.stale /\ ~stored.stale

\* e is at least as late a state of its key as d.
NotBefore(e, d) == e = d \/ Supersedes(e, d)

Retained(e, t) == e.fetched >= t - Retention

\* An allowlist in the file counts only with its timestamp.
Stamped(a) == a.list # NoList /\ a.at > 0

\* What _load_stored returns: the file, or an empty cache when it cannot be
\* read, is not the JSON of a cache, or is one of another version.
Readings == {file, EmptyFile}

\* Mutant of MergeEntry: the last writer wins.
MergeLastWriter(prev, mine) == IF mine # NoEntry THEN mine ELSE prev

\* The entry of a key after a snapshot was merged into what the file had.
MergeEntry(prev, mine) ==
    IF mine # NoEntry /\ (prev = NoEntry \/ Supersedes(mine, prev)) THEN mine ELSE prev

PruneStale(e, t) == IF e # NoEntry /\ Retained(e, t) THEN e ELSE NoEntry

\* Mutant of Mine: the fingerprint is not part of the key.
MineUnderAnyRule(w, snap, k) == snap[k[1]]

\* What worker w's snapshot holds for a disk key (nothing under another rule).
Mine(w, snap, k) == IF rule[w][k[1]] = k[2] THEN snap[k[1]] ELSE NoEntry

Merged(w, j) ==
    [k \in Keys |-> PruneStale(MergeEntry(j.seen.entries[k], Mine(w, j.snap, k)), j.now)]

\* Mutant of PersistSoon: the memory before the change.
PersistBefore(w, mem) ==
    \E s \in Slots :
        /\ jobs[w][s] = NoJob
        /\ jobs' = [jobs EXCEPT ![w][s] =
                       [step |-> "queued", snap |-> memory[w], now |-> now,
                        seen |-> EmptyFile, misread |-> FALSE, allow |-> NoList]]

\* _persist_soon: a thread gets the memory and the clock of this instant.
PersistSoon(w, mem) ==
    \E s \in Slots :
        /\ jobs[w][s] = NoJob
        /\ jobs' = [jobs EXCEPT ![w][s] =
                       [step |-> "queued", snap |-> mem, now |-> now,
                        seen |-> EmptyFile, misread |-> FALSE, allow |-> NoList]]

\* No handler of the event loop runs inside set_allowed_providers.
LoopFree(w) == setting[w] = NoList

-----------------------------------------------------------------------------

Init ==
    /\ now = 1
    /\ rule \in [Workers -> [Models -> Fps]]
    /\ memory = [w \in Workers |-> EmptyMemory]
    /\ loaded = [w \in Workers |-> FALSE]
    /\ own = [w \in Workers |-> Unknown]
    /\ setting = [w \in Workers |-> NoList]
    /\ jobs = [w \in Workers |-> [s \in Slots |-> NoJob]]
    /\ file = EmptyFile
    /\ lock = {}
    /\ replaced = [w \in Workers |-> EmptyMemory]
    /\ lost = {}
    /\ found = {}

\* _ensure_disk when the cache directory is usable: entries under this
\* worker's rules replace what is in memory.  The entries and the allowlist are
\* two readings (of one state of the file), each of which can fail: the file is
\* not read again.  A failing mkdir changes nothing, so a worker may refresh
\* before it has loaded.
EnsureDisk(w) ==
    \E entries \in {f.entries : f \in Readings}, allow \in {f.allow : f \in Readings} :
        LET disk(m) == entries[<<m, rule[w][m]>>]
            mem == memory[w]
        IN
        /\ LoopFree(w)
        /\ ~loaded[w]
        /\ loaded' = [loaded EXCEPT ![w] = TRUE]
        /\ memory' = [memory EXCEPT ![w] =
              [m \in Models |-> IF disk(m) = NoEntry THEN mem[m] ELSE disk(m)]]
        /\ replaced' = [replaced EXCEPT ![w] =
              [m \in Models |-> IF disk(m) \in {NoEntry, mem[m]} THEN NoEntry ELSE mem[m]]]
        /\ own' = IF Stamped(allow) THEN [own EXCEPT ![w] = allow] ELSE own
        /\ lost' = IF own[w] \notin {Unknown, own'[w]} THEN lost \cup {w} ELSE lost
        /\ found' = IF Stamped(allow) THEN found \cup {allow} ELSE found
        /\ UNCHANGED <<now, rule, setting, jobs, file, lock>>

\* A refresh that started at an instant when the entry was due succeeds.  (Its
\* awaits are the subject of Telemetry; a first load of the file that succeeds
\* while a refresh is in flight is left out.)
RefreshDone(w, m) ==
    \E start \in (now - FetchTime) .. now :
        LET e == memory[w][m]
            new == [memory[w] EXCEPT ![m] = [fp |-> rule[w][m], fetched |-> start, stale |-> FALSE]]
        IN  /\ LoopFree(w)
            /\ start >= 1
            /\ ~Fresh(e, start)
            /\ e # NoEntry => start >= e.fetched
            /\ memory' = [memory EXCEPT ![w] = new]
            /\ PersistSoon(w, new)
            /\ UNCHANGED <<now, rule, loaded, own, setting, file, lock, replaced, lost, found>>

\* A refresh fails or selects nothing: _stale_fallback.
RefreshFailed(w, m) ==
    LET e == memory[w][m]
        new == [memory[w] EXCEPT ![m] = [e EXCEPT !.stale = TRUE]]
    IN  /\ LoopFree(w)
        /\ e # NoEntry
        /\ ~Fresh(e, now)
        /\ memory' = [memory EXCEPT ![w] = new]
        /\ PersistSoon(w, new)
        /\ UNCHANGED <<now, rule, loaded, own, setting, file, lock, replaced, lost, found>>

\* set_allowed_providers, first store: a 404 named the allowed providers.  A
\* pass-through 404 gets here before any request has loaded the file.
SetList(w, list) ==
    /\ LoopFree(w)
    /\ \E s \in Slots : jobs[w][s] = NoJob
    /\ own' = [own EXCEPT ![w].list = list]
    /\ setting' = [setting EXCEPT ![w] = list]
    /\ UNCHANGED <<now, rule, memory, loaded, jobs, file, lock, replaced, lost, found>>

\* Mutant of SetStamp: the write is forgotten.
SetStampOnly(w) ==
    /\ ~LoopFree(w)
    /\ own' = [own EXCEPT ![w].at = now]
    /\ found' = found \cup {[list |-> setting[w], at |-> now]}
    /\ setting' = [setting EXCEPT ![w] = NoList]
    /\ UNCHANGED <<now, rule, memory, loaded, jobs, file, lock, replaced, lost>>

\* set_allowed_providers, second store and the write it asks for.
SetStamp(w) ==
    /\ ~LoopFree(w)
    /\ own' = [own EXCEPT ![w].at = now]
    /\ found' = found \cup {[list |-> setting[w], at |-> now]}
    /\ setting' = [setting EXCEPT ![w] = NoList]
    /\ PersistSoon(w, memory[w])
    /\ UNCHANGED <<now, rule, memory, loaded, file, lock, replaced, lost>>

-----------------------------------------------------------------------------
(* The persist threads.                                                    *)

\* Mutant of Acquire: the file is read without waiting for the lock.
AcquireUnlocked(w, s) ==
    /\ jobs[w][s] # NoJob
    /\ jobs[w][s].step = "queued"
    /\ lock' = {w}
    /\ \E seen \in Readings :
          jobs' = [jobs EXCEPT ![w][s].step = "locked", ![w][s].seen = seen,
                               ![w][s].misread = (seen # file)]
    /\ UNCHANGED <<now, rule, memory, loaded, own, setting, file, replaced, lost, found>>

\* The thread takes the file lock and reads the file, or fails to.
Acquire(w, s) ==
    /\ jobs[w][s] # NoJob
    /\ jobs[w][s].step = "queued"
    /\ lock = {}
    /\ lock' = {w}
    /\ \E seen \in Readings :
          jobs' = [jobs EXCEPT ![w][s].step = "locked", ![w][s].seen = seen,
                               ![w][s].misread = (seen # file)]
    /\ UNCHANGED <<now, rule, memory, loaded, own, setting, file, replaced, lost, found>>

\* It picks its process's allowlist, if any, else the one the file had.
PickAllowlist(w, s) ==
    /\ jobs[w][s] # NoJob
    /\ jobs[w][s].step = "locked"
    /\ jobs' = [jobs EXCEPT ![w][s].step = "listed", ![w][s].allow = own[w].list]
    /\ UNCHANGED <<now, rule, memory, loaded, own, setting, file, lock, replaced, lost, found>>

\* Mutant of ChosenAllowlist: the file's list is not looked at.
OwnAllowlist(w, j) == IF j.allow # NoList THEN [list |-> j.allow, at |-> own[w].at] ELSE Unknown

\* The list it picked with the timestamp read now, else the file's.
ChosenAllowlist(w, j) ==
    IF j.allow # NoList THEN [list |-> j.allow, at |-> own[w].at]
    ELSE IF Stamped(j.seen.allow) THEN j.seen.allow
    ELSE Unknown

\* The new file drops or sets back an entry under a rule of worker v, or drops
\* the allowlist.
Undone(v) ==
    \/ \E m \in Models :
          LET d == file.entries[<<m, rule[v][m]>>]
              e == file'.entries[<<m, rule[v][m]>>]
          IN  d # NoEntry /\ (e = NoEntry \/ ~NotBefore(e, d))
    \/ Stamped(file.allow) /\ file'.allow.list = NoList

\* It reads the timestamp of its allowlist, replaces the file and unlocks: also
\* when it could not read what the file had.
Write(w, s) ==
    LET j == jobs[w][s]
    IN  /\ j # NoJob
        /\ j.step = "listed"
        /\ file' = [entries |-> Merged(w, j), allow |-> ChosenAllowlist(w, j)]
        /\ jobs' = [jobs EXCEPT ![w][s] = NoJob]
        /\ lock' = {}
        /\ lost' = IF j.misread THEN lost \cup {v \in Workers : Undone(v)} ELSE lost
        /\ UNCHANGED <<now, rule, memory, loaded, own, setting, replaced, found>>

\* The lock is not released in time, or the directory or the file fails
\* before os.replace: the write is dropped with a warning.
Drop(w, s) ==
    /\ jobs[w][s] # NoJob
    /\ jobs' = [jobs EXCEPT ![w][s] = NoJob]
    /\ lock' = IF jobs[w][s].step = "queued" THEN lock ELSE {}
    /\ lost' = lost \cup {w}
    /\ UNCHANGED <<now, rule, memory, loaded, own, setting, file, replaced, found>>

\* The process dies between any two steps, the file lock with it, and comes
\* back with the rules the operator has configured since.
Restart(w) ==
    /\ rule' \in {r \in [Workers -> [Models -> Fps]] : \A v \in Workers \ {w} : r[v] = rule[v]}
    /\ memory' = [memory EXCEPT ![w] = EmptyMemory]
    /\ loaded' = [loaded EXCEPT ![w] = FALSE]
    /\ own' = [own EXCEPT ![w] = Unknown]
    /\ setting' = [setting EXCEPT ![w] = NoList]
    /\ jobs' = [jobs EXCEPT ![w] = [s \in Slots |-> NoJob]]
    /\ lock' = lock \ {w}
    /\ replaced' = [replaced EXCEPT ![w] = EmptyMemory]
    /\ lost' = IF LoopFree(w) /\ jobs[w] = [s \in Slots |-> NoJob] THEN lost ELSE lost \cup {w}
    /\ UNCHANGED <<now, file, found>>

Tick ==
    /\ now < MaxTime
    /\ now' = now + 1
    /\ UNCHANGED <<rule, memory, loaded, own, setting, jobs, file, lock, replaced, lost, found>>

Next ==
    \/ \E w \in Workers :
          \/ EnsureDisk(w)
          \/ \E m \in Models : RefreshDone(w, m) \/ RefreshFailed(w, m)
          \/ \E list \in Lists : SetList(w, list)
          \/ SetStamp(w)
          \/ \E s \in Slots : Acquire(w, s) \/ PickAllowlist(w, s) \/ Write(w, s) \/ Drop(w, s)
          \/ Restart(w)
    \/ Tick

Spec == Init /\ [][Next]_vars

-----------------------------------------------------------------------------
(* Properties.                                                             *)

\* The state has the shape the client, its threads and the file have.
TypeOK ==
    /\ now \in Nat
    /\ rule \in [Workers -> [Models -> Fps]]
    /\ memory \in [Workers -> Memory]
    /\ loaded \in [Workers -> BOOLEAN]
    /\ own \in [Workers -> Allowlist]
    /\ setting \in [Workers -> MaybeList]
    /\ jobs \in [Workers -> [Slots -> Job \cup {NoJob}]]
    /\ file \in File
    /\ lock \in SUBSET Workers
    /\ replaced \in [Workers -> Memory]
    /\ lost \in SUBSET Workers
    /\ found \in SUBSET [list : Lists, at : Nat]

\* A worker serves, writes and inherits only entries computed under its own
\* rule: policies that share a file never see each other's selection, however
\* rules change across restarts.
OwnRule ==
    /\ \A k \in Keys : file.entries[k] # NoEntry => file.entries[k].fp = k[2]
    /\ \A w \in Workers, m \in Models :
          memory[w][m] # NoEntry => memory[w][m].fp = rule[w][m]

\* A thread inside the read-merge-write holds the lock alone and what it read
\* is still what the file holds, unless the reading failed, so no concurrent
\* write can be lost.
MergeIsAtomic ==
    \A w \in Workers, s \in Slots :
        jobs[w][s] # NoJob /\ jobs[w][s].step # "queued" =>
            /\ lock = {w}
            /\ jobs[w][s].seen = IF jobs[w][s].misread THEN EmptyFile ELSE file
            /\ \A v \in Workers, r \in Slots :
                  jobs[v][r] # NoJob /\ jobs[v][r].step # "queued" => v = w /\ r = s

\* The thread holds the lock and could not read the file.
Blind(w, s) == jobs[w][s] # NoJob /\ jobs[w][s].step # "queued" /\ jobs[w][s].misread

\* The file never moves back to an earlier fetch, and never from a failed
\* refresh back to the success before it, whatever the order in which the
\* threads of all workers write; an entry disappears only once no one has
\* refreshed it for the retention window.  The one exception is a thread that
\* could not read the file: it replaces the file all the same.
FileMovesForward ==
    [][(\A w \in Workers, s \in Slots : ~Blind(w, s)) =>
        \A k \in Keys :
          LET d == file.entries[k]
              e == file'.entries[k]
          IN  d # NoEntry => IF e = NoEntry THEN now > d.fetched + Retention
                                            ELSE NotBefore(e, d)]_file

\* State e of worker w's entry for m is on disk, or overtaken there by a later
\* one, or in a write still pending, or old enough to be pruned.
Kept(w, m, e) ==
    LET d == file.entries[<<m, rule[w][m]>>]
    IN  \/ d # NoEntry /\ NotBefore(d, e)
        \/ \E s \in Slots : jobs[w][s] # NoJob /\ jobs[w][s].snap[m] = e
        \/ now > e.fetched + Retention

\* Nothing a worker decided is forgotten: neither what it serves from memory nor
\* what a late first load of the file replaced there is lost from the disk,
\* unless a write of its was dropped, or a write that could not read the file
\* undid it.
NothingForgotten ==
    \A w \in Workers \ lost, m \in Models :
        \A e \in {memory[w][m], replaced[w][m]} \ {NoEntry} : Kept(w, m, e)

\* No write drops an allowlist that is in the file with its timestamp: a worker
\* that has discovered none preserves it, whatever its writes interleave with,
\* unless it could not read it and had none when it chose what to write.
AllowlistSurvives ==
    [][Stamped(file.allow) =>
          \/ file'.allow.list # NoList
          \/ \E w \in Workers, s \in Slots :
                Blind(w, s) /\ jobs[w][s].step = "listed" /\ jobs[w][s].allow = NoList]_file

\* Once an allowlist was discovered, the list and the timestamp in the file are
\* a pair that one worker discovered or loaded, except while a write is still to
\* come: threads that read the pair between its two stores, or drop a list that
\* has no timestamp yet, are always followed by a repairing write.  (A worker
\* that loads a torn pair before its repair can write it again afterwards.)
AllowlistPairHeals ==
    \/ found = {} /\ file.allow = Unknown
    \/ file.allow \in found
    \/ lost # {}
    \/ \E w \in Workers : setting[w] # NoList \/ \E s \in Slots : jobs[w][s] # NoJob

\* The comment of _persist: of the process's own allowlist and the file's,
\* whichever is newer by fetched_at is kept.
AllowlistMovesForward == [][file'.allow.at >= file.allow.at]_file

-----------------------------------------------------------------------------
(* The inductive invariant the proofs rest on.                             *)

\* A pending write carries entries of its worker's rules and a clock reading
\* that has passed.
JobsOwnRule ==
    \A w \in Workers, s \in Slots : jobs[w][s] # NoJob =>
        /\ jobs[w][s].now <= now
        /\ \A m \in Models :
              jobs[w][s].snap[m] # NoEntry => jobs[w][s].snap[m].fp = rule[w][m]

\* Rules, locks, pending writes and the file fit together at every step.
IInv == TypeOK /\ OwnRule /\ MergeIsAtomic /\ JobsOwnRule /\ NothingForgotten
=============================================================================
