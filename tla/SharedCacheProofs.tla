-------------------------- MODULE SharedCacheProofs --------------------------
(***************************************************************************)
(* The safety of the shared cache file for every number of workers,        *)
(* models, rules and pending writes, and every poll and retention time.    *)
(***************************************************************************)
EXTENDS SharedCache, TLAPS

-----------------------------------------------------------------------------
(* The order in which entries of one key supersede each other.             *)

\* A later state was fetched no earlier.
LEMMA NotBeforeFetched ==
    ASSUME NEW e \in Entry, NEW d \in Entry, NotBefore(e, d)
    PROVE  e.fetched >= d.fetched
  BY DEF NotBefore, Supersedes, Entry

\* Of two states of one key, one is not before the other.
LEMMA NotBeforeTotal ==
    ASSUME NEW e \in Entry, NEW d \in Entry, e.fp = d.fp, ~Supersedes(e, d)
    PROVE  NotBefore(d, e)
  BY DEF NotBefore, Supersedes, Entry

\* The order is transitive.
LEMMA NotBeforeTransitive ==
    ASSUME NEW e \in Entry, NEW d \in Entry, NEW c \in Entry,
           NotBefore(e, d), NotBefore(d, c)
    PROVE  NotBefore(e, c)
  BY DEF NotBefore, Supersedes, Entry

\* What a merge leaves of a key: the prune drops only aged entries, and what
\* stays is no earlier than the file's entry and than the snapshot's.
LEMMA MergeAndPrune ==
    ASSUME NEW prev \in MaybeEntry, NEW mine \in MaybeEntry, NEW t \in Nat, NEW f \in Fps,
           prev # NoEntry => prev.fp = f,
           mine # NoEntry => mine.fp = f
    PROVE  LET e == PruneStale(MergeEntry(prev, mine), t)
           IN  /\ e \in MaybeEntry
               /\ e # NoEntry => e.fp = f
               /\ prev # NoEntry => IF e = NoEntry THEN t > prev.fetched + Retention
                                                   ELSE NotBefore(e, prev)
               /\ mine # NoEntry => IF e = NoEntry THEN t > mine.fetched + Retention
                                                   ELSE NotBefore(e, mine)
  <1> DEFINE m == MergeEntry(prev, mine)
             e == PruneStale(m, t)
  <1>1. m \in {prev, mine} /\ (m = NoEntry => prev = NoEntry /\ mine = NoEntry)
    BY DEF MergeEntry
  <1>2. m # NoEntry => m \in Entry /\ m.fp = f
    BY <1>1 DEF MaybeEntry
  <1>3. prev # NoEntry => NotBefore(m, prev)
    BY DEF MergeEntry, NotBefore
  <1>4. mine # NoEntry => NotBefore(m, mine)
    BY NotBeforeTotal DEF MergeEntry, NotBefore, MaybeEntry
  <1> HIDE DEF m
  <1>5. e \in {m, NoEntry}
    BY DEF PruneStale
  <1>6. e = NoEntry /\ m # NoEntry => t > m.fetched + Retention
    BY <1>2, ConfigAssumption DEF PruneStale, Retained, Entry
  <1>7. ASSUME NEW d \in {prev, mine}, d # NoEntry
        PROVE  IF e = NoEntry THEN t > d.fetched + Retention ELSE NotBefore(e, d)
    <2>1. m # NoEntry /\ m \in Entry /\ d \in Entry /\ NotBefore(m, d)
      BY <1>1, <1>2, <1>3, <1>4, <1>7 DEF MaybeEntry
    <2>2. CASE e = m
      BY <2>1, <2>2
    <2>3. CASE e = NoEntry
      <3>1. m.fetched >= d.fetched /\ m.fetched \in Nat /\ d.fetched \in Nat
        BY <2>1, NotBeforeFetched DEF Entry
      <3> QED
        BY <1>6, <2>1, <2>3, <3>1, ConfigAssumption
    <2> QED
      BY <1>5, <2>2, <2>3
  <1> HIDE DEF e
  <1>8. e \in MaybeEntry /\ (e # NoEntry => e.fp = f)
    BY <1>1, <1>2, <1>5 DEF MaybeEntry
  <1> QED
    BY <1>7, <1>8 DEF e, m

-----------------------------------------------------------------------------
(* The event loop's actions.                                               *)

\* Saved(w, m): what NothingForgotten says of one worker and one model.
Saved(w, m) == \A e \in {memory[w][m], replaced[w][m]} \ {NoEntry} : Kept(w, m, e)

\* NothingForgotten is Saved for every worker that lost nothing.
LEMMA SavedEverywhere == NothingForgotten <=> \A w \in Workers \ lost, m \in Models : Saved(w, m)
  BY DEF NothingForgotten, Saved

\* Dropping nothing of a worker's and leaving the file alone keeps a state.
LEMMA KeptStable ==
    ASSUME TypeOK, NEW w \in Workers, NEW m \in Models, NEW e \in Entry, Kept(w, m, e),
           rule'[w] = rule[w], file' = file, now' \in Nat, now' >= now,
           \A s \in Slots : jobs[w][s] # NoJob =>
              jobs'[w][s] # NoJob /\ jobs'[w][s].snap = jobs[w][s].snap
    PROVE  Kept(w, m, e)'
  <1> DEFINE d == file.entries[<<m, rule[w][m]>>]
  <1> SUFFICES \/ d # NoEntry /\ NotBefore(d, e)
               \/ \E s \in Slots : jobs'[w][s] # NoJob /\ jobs'[w][s].snap[m] = e
               \/ now' > e.fetched + Retention
    BY DEF Kept, NotBefore, Supersedes
  <1>1. e.fetched \in Nat /\ now \in Nat
    BY DEF TypeOK, Entry
  <1>2. CASE d # NoEntry /\ NotBefore(d, e)
    BY <1>2
  <1>3. CASE \E s \in Slots : jobs[w][s] # NoJob /\ jobs[w][s].snap[m] = e
    BY <1>3
  <1>4. CASE now > e.fetched + Retention
    BY <1>1, <1>4, ConfigAssumption
  <1> QED
    BY <1>2, <1>3, <1>4 DEF Kept

\* What a worker serves and what its load replaced are entries.
LEMMA EntriesInMemory ==
    ASSUME TypeOK, NEW w \in Workers, NEW m \in Models,
           NEW e \in {memory[w][m], replaced[w][m]} \ {NoEntry}
    PROVE  e \in Entry
  BY DEF TypeOK, Memory, MaybeEntry

\* Dropping nothing of a worker's and leaving the file alone forgets nothing.
LEMMA SavedStable ==
    ASSUME TypeOK, NEW w \in Workers, NEW m \in Models, Saved(w, m),
           memory'[w] = memory[w], replaced'[w] = replaced[w], rule'[w] = rule[w], file' = file,
           now' \in Nat, now' >= now,
           \A s \in Slots : jobs[w][s] # NoJob =>
              jobs'[w][s] # NoJob /\ jobs'[w][s].snap = jobs[w][s].snap
    PROVE  Saved(w, m)'
  <1> SUFFICES ASSUME NEW e \in {memory[w][m], replaced[w][m]} \ {NoEntry} PROVE Kept(w, m, e)'
    BY DEF Saved
  <1>1. Kept(w, m, e) /\ e \in Entry
    BY EntriesInMemory DEF Saved
  <1> QED
    BY <1>1, KeptStable

\* What _persist_soon queues, and that it disturbs no other write.
LEMMA PersistSoonEffect ==
    ASSUME TypeOK, MergeIsAtomic, NEW w \in Workers, NEW mem \in Memory, PersistSoon(w, mem),
           file' = file, lock' = lock
    PROVE  /\ jobs' \in [Workers -> [Slots -> Job \cup {NoJob}]]
           /\ MergeIsAtomic'
           /\ \A v \in Workers, r \in Slots : jobs[v][r] # NoJob => jobs'[v][r] = jobs[v][r]
           /\ \E s \in Slots : jobs'[w][s] # NoJob /\ jobs'[w][s].snap = mem
           /\ \A v \in Workers, r \in Slots :
                jobs'[v][r] = jobs[v][r] \/ (v = w /\ jobs'[v][r].snap = mem /\ jobs'[v][r].now = now)
  <1> DEFINE new == [step |-> "queued", snap |-> mem, now |-> now,
                     seen |-> EmptyFile, misread |-> FALSE, allow |-> NoList]
  <1>1. PICK s \in Slots : jobs[w][s] = NoJob /\ jobs' = [jobs EXCEPT ![w][s] = new]
    BY DEF PersistSoon
  <1>2. EmptyFile \in File
    BY DEF EmptyFile, File, MaybeEntry, Allowlist, MaybeList, Unknown
  <1>3. new \in Job
    BY <1>2 DEF Job, TypeOK, MaybeList
  <1>4. new # NoJob
    BY <1>3, JobAssumption
  <1>5. \A v \in Workers, r \in Slots :
            jobs'[v][r] = IF v = w /\ r = s THEN new ELSE jobs[v][r]
    BY <1>1 DEF TypeOK
  <1>6. new.step = "queued" /\ new.snap = mem /\ new.now = now
    OBVIOUS
  <1>7. jobs' \in [Workers -> [Slots -> Job \cup {NoJob}]]
    BY <1>1, <1>3 DEF TypeOK
  <1> HIDE DEF new
  <1>8. MergeIsAtomic'
    BY <1>5, <1>6 DEF MergeIsAtomic
  <1> QED
    BY <1>1, <1>4, <1>5, <1>6, <1>7, <1>8

\* A step that stores a new memory of one worker and queues its snapshot
\* preserves the invariant.
LEMMA StoreAndPersist ==
    ASSUME IInv, NEW w \in Workers, NEW mem \in Memory,
           \A m \in Models : mem[m] # NoEntry => mem[m].fp = rule[w][m],
           memory' = [memory EXCEPT ![w] = mem], PersistSoon(w, mem),
           own' \in [Workers -> Allowlist], setting' \in [Workers -> MaybeList],
           found' \in SUBSET [list : Lists, at : Nat],
           UNCHANGED <<now, rule, loaded, file, lock, replaced, lost>>
    PROVE  IInv'
  <1> USE DEF IInv
  <1>1. /\ jobs' \in [Workers -> [Slots -> Job \cup {NoJob}]]
        /\ MergeIsAtomic'
        /\ \A v \in Workers, r \in Slots : jobs[v][r] # NoJob => jobs'[v][r] = jobs[v][r]
        /\ \E s \in Slots : jobs'[w][s] # NoJob /\ jobs'[w][s].snap = mem
        /\ \A v \in Workers, r \in Slots :
              jobs'[v][r] = jobs[v][r] \/ (v = w /\ jobs'[v][r].snap = mem /\ jobs'[v][r].now = now)
    BY PersistSoonEffect
  <1>2. memory' \in [Workers -> Memory] /\ memory'[w] = mem
        /\ \A v \in Workers : v # w => memory'[v] = memory[v]
    BY DEF TypeOK
  <1>3. TypeOK'
    BY <1>1, <1>2 DEF TypeOK
  <1>4. OwnRule'
    BY <1>2 DEF OwnRule
  <1>5. JobsOwnRule'
    <2> SUFFICES ASSUME NEW v \in Workers, NEW s \in Slots, jobs'[v][s] # NoJob
                 PROVE  /\ jobs'[v][s].now <= now
                        /\ \A m \in Models : jobs'[v][s].snap[m] # NoEntry =>
                              jobs'[v][s].snap[m].fp = rule[v][m]
      BY DEF JobsOwnRule
    <2>1. CASE jobs'[v][s] = jobs[v][s]
      BY <2>1 DEF JobsOwnRule
    <2>2. CASE v = w /\ jobs'[v][s].snap = mem /\ jobs'[v][s].now = now
      BY <2>2 DEF TypeOK
    <2> QED
      BY <1>1, <2>1, <2>2
  <1>6. NothingForgotten'
    <2> SUFFICES ASSUME NEW v \in Workers \ lost, NEW m \in Models
                 PROVE  Saved(v, m)'
      BY DEF NothingForgotten, Saved
    <2>0. Saved(v, m)
      BY SavedEverywhere
    <2>1. CASE v = w
      <3> SUFFICES ASSUME NEW e \in {mem[m], replaced[w][m]} \ {NoEntry} PROVE Kept(w, m, e)'
        BY <1>2, <2>1 DEF Saved
      <3>1. CASE e = mem[m]
        BY <1>1, <3>1 DEF Kept
      <3>2. CASE e = replaced[w][m]
        <4>1. Kept(w, m, e) /\ e \in Entry
          BY <2>0, <2>1, <3>2, EntriesInMemory DEF Saved
        <4>2. \A s \in Slots : jobs[w][s] # NoJob =>
                  jobs'[w][s] # NoJob /\ jobs'[w][s].snap = jobs[w][s].snap
          BY <1>1
        <4>3. now' \in Nat /\ now' >= now /\ rule'[w] = rule[w] /\ file' = file
          BY DEF TypeOK
        <4> QED
          BY <4>1, <4>2, <4>3, KeptStable
      <3> QED
        BY <3>1, <3>2
    <2>2. CASE v # w
      <3>1. Saved(v, m)
        BY <2>0
      <3>2. \A s \in Slots : jobs[v][s] # NoJob =>
                jobs'[v][s] # NoJob /\ jobs'[v][s].snap = jobs[v][s].snap
        BY <1>1
      <3>3. memory'[v] = memory[v] /\ replaced'[v] = replaced[v] /\ now \in Nat /\ now' \in Nat /\ now' >= now
        BY <1>2, <2>2 DEF TypeOK
      <3> QED
        BY <3>1, <3>2, <3>3, SavedStable
    <2> QED
      BY <2>1, <2>2
  <1> QED
    BY <1>1, <1>3, <1>4, <1>5, <1>6

\* A completed refresh preserves the invariant.
LEMMA RefreshDoneIInv ==
    ASSUME IInv, NEW w \in Workers, NEW m \in Models, RefreshDone(w, m) PROVE IInv'
  <1> USE DEF IInv
  <1>1. PICK start \in (now - FetchTime) .. now :
            /\ start >= 1
            /\ LET new == [memory[w] EXCEPT ![m] =
                             [fp |-> rule[w][m], fetched |-> start, stale |-> FALSE]]
               IN  memory' = [memory EXCEPT ![w] = new] /\ PersistSoon(w, new)
            /\ UNCHANGED <<now, rule, loaded, own, setting, file, lock, replaced, lost, found>>
    BY DEF RefreshDone
  <1> DEFINE e   == [fp |-> rule[w][m], fetched |-> start, stale |-> FALSE]
             new == [memory[w] EXCEPT ![m] = e]
  <1>2. start \in Nat
    BY <1>1, ConfigAssumption DEF TypeOK
  <1>3. e \in Entry
    BY <1>2 DEF Entry, TypeOK
  <1>4. new \in Memory
    BY <1>3 DEF Memory, MaybeEntry, TypeOK
  <1>5. \A n \in Models : new[n] # NoEntry => new[n].fp = rule[w][n]
    BY DEF OwnRule, TypeOK, Memory
  <1> HIDE DEF new
  <1>6. memory' = [memory EXCEPT ![w] = new] /\ PersistSoon(w, new)
    BY <1>1 DEF new
  <1> QED
    BY <1>1, <1>4, <1>5, <1>6, StoreAndPersist DEF TypeOK

\* A failed refresh preserves the invariant.
LEMMA RefreshFailedIInv ==
    ASSUME IInv, NEW w \in Workers, NEW m \in Models, RefreshFailed(w, m) PROVE IInv'
  <1> USE DEF IInv
  <1> DEFINE e   == [memory[w][m] EXCEPT !.stale = TRUE]
             new == [memory[w] EXCEPT ![m] = e]
  <1>1. /\ memory[w][m] # NoEntry
        /\ memory' = [memory EXCEPT ![w] = new] /\ PersistSoon(w, new)
        /\ UNCHANGED <<now, rule, loaded, own, setting, file, lock, replaced, lost, found>>
    BY DEF RefreshFailed
  <1>2. e \in Entry /\ e.fp = memory[w][m].fp
    <2>1. memory[w][m] \in Entry
      BY <1>1 DEF TypeOK, Memory, MaybeEntry
    <2> QED
      BY <2>1 DEF Entry
  <1>3. new \in Memory
    BY <1>2 DEF Memory, MaybeEntry, TypeOK
  <1>4. \A n \in Models : new[n] # NoEntry => new[n].fp = rule[w][n]
    BY <1>1, <1>2 DEF OwnRule, TypeOK, Memory
  <1> QED
    BY <1>1, <1>3, <1>4, StoreAndPersist DEF TypeOK

\* Discovering an allowlist preserves the invariant: the second store.
LEMMA SetStampIInv == ASSUME IInv, NEW w \in Workers, SetStamp(w) PROVE IInv'
  <1> USE DEF IInv
  <1>1. /\ setting[w] # NoList
        /\ own' = [own EXCEPT ![w].at = now]
        /\ found' = found \cup {[list |-> setting[w], at |-> now]}
        /\ setting' = [setting EXCEPT ![w] = NoList]
        /\ PersistSoon(w, memory[w])
        /\ UNCHANGED <<now, rule, memory, loaded, file, lock, replaced, lost>>
    BY DEF SetStamp, LoopFree
  <1>2. own' \in [Workers -> Allowlist]
    BY <1>1 DEF TypeOK, Allowlist
  <1>3. found' \in SUBSET [list : Lists, at : Nat]
    BY <1>1 DEF TypeOK, MaybeList
  <1>4. setting' \in [Workers -> MaybeList]
    BY <1>1 DEF TypeOK, MaybeList
  <1>5. memory[w] \in Memory /\ memory' = [memory EXCEPT ![w] = memory[w]]
    BY <1>1 DEF TypeOK
  <1>6. \A n \in Models : memory[w][n] # NoEntry => memory[w][n].fp = rule[w][n]
    BY DEF OwnRule
  <1> QED
    BY <1>1, <1>2, <1>3, <1>4, <1>5, <1>6, StoreAndPersist

\* Its first store preserves the invariant.
LEMMA SetListIInv ==
    ASSUME IInv, NEW w \in Workers, NEW list \in Lists, SetList(w, list) PROVE IInv'
  <1> USE DEF IInv
  <1>1. /\ own' = [own EXCEPT ![w].list = list]
        /\ setting' = [setting EXCEPT ![w] = list]
        /\ UNCHANGED <<now, rule, memory, loaded, jobs, file, lock, replaced, lost, found>>
    BY DEF SetList
  <1>2. TypeOK'
    BY <1>1 DEF TypeOK, Allowlist, MaybeList
  <1>3. OwnRule' /\ MergeIsAtomic' /\ JobsOwnRule' /\ NothingForgotten'
    <2>1. OwnRule'
      BY <1>1 DEF OwnRule
    <2>2. MergeIsAtomic'
      BY <1>1 DEF MergeIsAtomic
    <2>3. JobsOwnRule'
      BY <1>1 DEF JobsOwnRule
    <2>4. NothingForgotten'
      BY <1>1, SMTT(30) DEF NothingForgotten, Kept, NotBefore, Supersedes
    <2> QED
      BY <2>1, <2>2, <2>3, <2>4
  <1> QED
    BY <1>2, <1>3

\* Loading the file preserves the invariant: the disk key carries the rule.
LEMMA EnsureDiskIInv == ASSUME IInv, NEW w \in Workers, EnsureDisk(w) PROVE IInv'
  <1> USE DEF IInv
  <1>0. PICK entries \in {f.entries : f \in Readings}, allow \in {f.allow : f \in Readings} :
          LET disk(m) == entries[<<m, rule[w][m]>>]
              mem == memory[w]
          IN  /\ loaded' = [loaded EXCEPT ![w] = TRUE]
              /\ memory' = [memory EXCEPT ![w] =
                    [m \in Models |-> IF disk(m) = NoEntry THEN mem[m] ELSE disk(m)]]
              /\ replaced' = [replaced EXCEPT ![w] =
                    [m \in Models |-> IF disk(m) \in {NoEntry, mem[m]} THEN NoEntry ELSE mem[m]]]
              /\ own' = IF Stamped(allow) THEN [own EXCEPT ![w] = allow] ELSE own
              /\ lost' = IF own[w] \notin {Unknown, own'[w]} THEN lost \cup {w} ELSE lost
              /\ found' = IF Stamped(allow) THEN found \cup {allow} ELSE found
              /\ UNCHANGED <<now, rule, setting, jobs, file, lock>>
    BY DEF EnsureDisk
  <1> DEFINE disk(m) == entries[<<m, rule[w][m]>>]
             mem == [m \in Models |-> IF disk(m) = NoEntry THEN memory[w][m] ELSE disk(m)]
             old == [m \in Models |-> IF disk(m) \in {NoEntry, memory[w][m]} THEN NoEntry
                                      ELSE memory[w][m]]
  <1>1. /\ loaded' = [loaded EXCEPT ![w] = TRUE]
        /\ memory' = [memory EXCEPT ![w] = mem]
        /\ replaced' = [replaced EXCEPT ![w] = old]
        /\ own' \in {own, [own EXCEPT ![w] = allow]}
        /\ lost' \in {lost, lost \cup {w}}
        /\ found' = IF Stamped(allow) THEN found \cup {allow} ELSE found
        /\ UNCHANGED <<now, rule, setting, jobs, file, lock>>
    BY <1>0
  <1>2. \A m \in Models : /\ <<m, rule[w][m]>> \in Keys /\ disk(m) \in MaybeEntry
                          /\ disk(m) # NoEntry => /\ disk(m).fp = rule[w][m]
                                                  /\ disk(m) = file.entries[<<m, rule[w][m]>>]
    <2>1. \A m \in Models : <<m, rule[w][m]>> \in Keys
      BY DEF Keys, TypeOK
    <2>2. entries \in {file.entries, [k \in Keys |-> NoEntry]}
      BY DEF Readings, EmptyFile
    <2> QED
      BY <2>1, <2>2 DEF Keys, TypeOK, File, OwnRule, MaybeEntry
  <1>3. mem \in Memory /\ old \in Memory
    BY <1>2 DEF Memory, TypeOK, MaybeEntry
  <1>4. TypeOK'
    <2>1. allow \in Allowlist
      BY DEF Readings, EmptyFile, TypeOK, File, Unknown, Allowlist, MaybeList
    <2>2. found' \in SUBSET [list : Lists, at : Nat]
      BY <1>1, <2>1 DEF TypeOK, Allowlist, MaybeList, Stamped
    <2> HIDE DEF mem, old
    <2> QED
      BY <1>1, <1>3, <2>1, <2>2 DEF TypeOK
  <1>5. /\ memory'[w] = mem /\ \A v \in Workers : v # w => memory'[v] = memory[v]
        /\ replaced'[w] = old /\ \A v \in Workers : v # w => replaced'[v] = replaced[v]
    BY <1>1 DEF TypeOK
  <1>6. OwnRule'
    <2>1. \A k \in Keys : file'.entries[k] # NoEntry => file'.entries[k].fp = k[2]
      BY <1>1 DEF OwnRule
    <2>2. \A m \in Models : mem[m] # NoEntry => mem[m].fp = rule[w][m]
      BY <1>2 DEF OwnRule
    <2>3. \A v \in Workers, m \in Models :
              memory'[v][m] # NoEntry => memory'[v][m].fp = rule[v][m]
      <3> HIDE DEF mem
      <3> QED
        BY <1>5, <2>2 DEF OwnRule
    <2> QED
      BY <1>1, <2>1, <2>3 DEF OwnRule
  <1>7. MergeIsAtomic' /\ JobsOwnRule'
    BY <1>1 DEF MergeIsAtomic, JobsOwnRule
  <1>8. NothingForgotten'
    <2> SUFFICES ASSUME NEW v \in Workers \ lost, NEW m \in Models PROVE Saved(v, m)'
      BY <1>1 DEF NothingForgotten, Saved
    <2>1. Saved(v, m)
      BY SavedEverywhere
    <2>2. now' \in Nat /\ now' >= now /\ rule'[v] = rule[v] /\ file' = file
          /\ \A s \in Slots : jobs[v][s] # NoJob =>
                jobs'[v][s] # NoJob /\ jobs'[v][s].snap = jobs[v][s].snap
      BY <1>1 DEF TypeOK
    <2>3. CASE v # w
      BY <1>5, <2>1, <2>2, <2>3, SavedStable
    <2>4. CASE v = w
      <3>1. ASSUME NEW e \in {memory[w][m]} \ {NoEntry} PROVE Kept(w, m, e)'
        <4>1. Kept(w, m, e) /\ e \in Entry
          BY <2>1, <2>4, EntriesInMemory DEF Saved
        <4> QED
          BY <2>2, <2>4, <4>1, KeptStable
      <3>2. ASSUME NEW e, e = disk(m), e # NoEntry PROVE Kept(w, m, e)'
        BY <1>1, <1>2, <3>2 DEF Kept, NotBefore
      <3>3. mem[m] \in {memory[w][m], disk(m)} /\ old[m] \in {memory[w][m], NoEntry}
            /\ (disk(m) = NoEntry => mem[m] = memory[w][m])
        OBVIOUS
      <3> HIDE DEF mem, old, disk
      <3>4. ASSUME NEW e, e \in {memory'[w][m], replaced'[w][m]}, e # NoEntry
            PROVE  e = memory[w][m] \/ (e = disk(m) /\ disk(m) # NoEntry)
        BY <1>5, <3>3, <3>4
      <3>5. Saved(w, m)'
        <4> SUFFICES ASSUME NEW e \in {memory'[w][m], replaced'[w][m]} \ {NoEntry}
                     PROVE  Kept(w, m, e)'
          BY DEF Saved
        <4> QED
          BY <3>1, <3>2, <3>4
      <3> QED
        BY <2>4, <3>5
    <2> QED
      BY <2>3, <2>4
  <1> QED
    BY <1>4, <1>6, <1>7, <1>8

-----------------------------------------------------------------------------
(* The persist threads, the death of a process and the clock.              *)

\* What taking the lock leaves alone.
LEMMA AcquireEffect ==
    ASSUME NEW w \in Workers, NEW s \in Slots, Acquire(w, s)
    PROVE  /\ jobs[w][s] # NoJob /\ jobs[w][s].step = "queued" /\ lock = {} /\ lock' = {w}
           /\ UNCHANGED <<now, rule, memory, loaded, own, setting, file, replaced, lost, found>>
  BY Zenon DEF Acquire

\* Taking the lock and reading the file preserves the invariant.
LEMMA AcquireIInv ==
    ASSUME IInv, NEW w \in Workers, NEW s \in Slots, Acquire(w, s) PROVE IInv'
  <1> USE DEF IInv
  <1>0. PICK seen \in Readings :
            jobs' = [jobs EXCEPT ![w][s].step = "locked", ![w][s].seen = seen,
                                 ![w][s].misread = (seen # file)]
    BY DEF Acquire
  <1> DEFINE new == [jobs[w][s] EXCEPT !.step = "locked", !.seen = seen, !.misread = (seen # file)]
  <1>a. jobs' = [jobs EXCEPT ![w][s] = new]
    BY <1>0 DEF TypeOK
  <1>b. /\ jobs[w][s] # NoJob /\ jobs[w][s].step = "queued" /\ lock = {} /\ lock' = {w}
        /\ UNCHANGED <<now, rule, memory, loaded, own, setting, file, replaced, lost, found>>
    BY AcquireEffect
  <1> HIDE DEF new
  <1>1. /\ jobs[w][s] # NoJob /\ jobs[w][s].step = "queued" /\ lock = {} /\ lock' = {w}
        /\ jobs' = [jobs EXCEPT ![w][s] = new]
        /\ UNCHANGED <<now, rule, memory, loaded, own, setting, file, replaced, lost, found>>
    BY <1>a, <1>b
  <1> USE DEF new
  <1>2. jobs[w][s] \in Job
    BY <1>1 DEF TypeOK
  <1>3. new \in Job /\ new.snap = jobs[w][s].snap /\ new.now = jobs[w][s].now
        /\ new.step = "locked" /\ new.seen = IF new.misread THEN EmptyFile ELSE file
    <2>1. seen \in File
      BY DEF Readings, EmptyFile, TypeOK, File, Unknown, Allowlist, MaybeList, MaybeEntry
    <2> QED
      BY <1>2, <2>1 DEF Job, Readings
  <1>4. new # NoJob
    BY <1>3, JobAssumption
  <1> HIDE DEF new
  <1>5. \A v \in Workers, r \in Slots :
            jobs'[v][r] = IF v = w /\ r = s THEN new ELSE jobs[v][r]
    BY <1>1 DEF TypeOK
  <1>6. TypeOK'
    BY <1>1, <1>3 DEF TypeOK
  <1>7. OwnRule' /\ JobsOwnRule'
    BY <1>1, <1>3, <1>5 DEF OwnRule, JobsOwnRule
  <1>8. MergeIsAtomic'
    BY <1>1, <1>3, <1>5 DEF MergeIsAtomic
  <1>9. NothingForgotten'
    <2>1. \A v \in Workers, r \in Slots : jobs[v][r] # NoJob =>
              jobs'[v][r] # NoJob /\ jobs'[v][r].snap = jobs[v][r].snap
      BY <1>3, <1>4, <1>5
    <2> QED
      BY <1>1, <2>1 DEF NothingForgotten, Kept, NotBefore, Supersedes
  <1> QED
    BY <1>6, <1>7, <1>8, <1>9

\* Choosing the allowlist preserves the invariant.
LEMMA PickAllowlistIInv ==
    ASSUME IInv, NEW w \in Workers, NEW s \in Slots, PickAllowlist(w, s) PROVE IInv'
  <1> USE DEF IInv
  <1> DEFINE new == [jobs[w][s] EXCEPT !.step = "listed", !.allow = own[w].list]
  <1>1. /\ jobs[w][s] # NoJob /\ jobs[w][s].step = "locked"
        /\ jobs' = [jobs EXCEPT ![w][s] = new]
        /\ UNCHANGED <<now, rule, memory, loaded, own, setting, file, lock, replaced, lost, found>>
    BY DEF PickAllowlist
  <1>2. jobs[w][s] \in Job /\ own[w].list \in MaybeList
    BY <1>1 DEF TypeOK, Allowlist
  <1>3. new \in Job /\ new.snap = jobs[w][s].snap /\ new.now = jobs[w][s].now
        /\ new.step = "listed" /\ new.seen = jobs[w][s].seen /\ new.misread = jobs[w][s].misread
    BY <1>2 DEF Job
  <1>4. new # NoJob
    BY <1>3, JobAssumption
  <1> HIDE DEF new
  <1>5. \A v \in Workers, r \in Slots :
            jobs'[v][r] = IF v = w /\ r = s THEN new ELSE jobs[v][r]
    BY <1>1 DEF TypeOK
  <1>6. TypeOK'
    BY <1>1, <1>3 DEF TypeOK
  <1>7. OwnRule' /\ JobsOwnRule'
    BY <1>1, <1>3, <1>5 DEF OwnRule, JobsOwnRule
  <1>8. MergeIsAtomic'
    BY <1>1, <1>3, <1>5 DEF MergeIsAtomic
  <1>9. NothingForgotten'
    <2>1. \A v \in Workers, r \in Slots : jobs[v][r] # NoJob =>
              jobs'[v][r] # NoJob /\ jobs'[v][r].snap = jobs[v][r].snap
      BY <1>3, <1>4, <1>5
    <2> QED
      BY <1>1, <2>1 DEF NothingForgotten, Kept, NotBefore, Supersedes
  <1> QED
    BY <1>6, <1>7, <1>8, <1>9

\* What a write leaves of every key: the merge of the file as it was.
LEMMA WriteEffect ==
    ASSUME IInv, NEW w \in Workers, NEW s \in Slots, Write(w, s)
    PROVE  LET j == jobs[w][s]
           IN  /\ j \in Job /\ j.seen = (IF j.misread THEN EmptyFile ELSE file)
               /\ j.now <= now /\ j.now \in Nat
               /\ file' \in File
               /\ \A v \in Workers, r \in Slots :
                    jobs'[v][r] = IF v = w /\ r = s THEN NoJob ELSE jobs[v][r]
               /\ \A k \in Keys :
                    LET d == file.entries[k]
                        e == file'.entries[k]
                        mine == Mine(w, j.snap, k)
                    IN  /\ d \in MaybeEntry /\ e \in MaybeEntry
                        /\ e # NoEntry => e.fp = k[2]
                        /\ ~j.misread /\ d # NoEntry =>
                              IF e = NoEntry THEN j.now > d.fetched + Retention
                                             ELSE NotBefore(e, d)
                        /\ mine # NoEntry => IF e = NoEntry THEN j.now > mine.fetched + Retention
                                                            ELSE NotBefore(e, mine)
  <1> USE DEF IInv
  <1> DEFINE j == jobs[w][s]
  <1>1. /\ j # NoJob /\ j.step = "listed"
        /\ file' = [entries |-> Merged(w, j), allow |-> ChosenAllowlist(w, j)]
        /\ jobs' = [jobs EXCEPT ![w][s] = NoJob]
    BY DEF Write
  <1>2. j \in Job
    BY <1>1 DEF TypeOK
  <1>3. j.seen = IF j.misread THEN EmptyFile ELSE file
    BY <1>1 DEF MergeIsAtomic
  <1>4. j.now \in Nat /\ j.now <= now
    BY <1>1, <1>2 DEF JobsOwnRule, Job
  <1>5. ASSUME NEW k \in Keys
        PROVE  LET d == file.entries[k]
                   e == file'.entries[k]
                   mine == Mine(w, j.snap, k)
               IN  /\ d \in MaybeEntry /\ e \in MaybeEntry
                   /\ e # NoEntry => e.fp = k[2]
                   /\ ~j.misread /\ d # NoEntry =>
                         IF e = NoEntry THEN j.now > d.fetched + Retention
                                        ELSE NotBefore(e, d)
                   /\ mine # NoEntry => IF e = NoEntry THEN j.now > mine.fetched + Retention
                                                       ELSE NotBefore(e, mine)
    <2> DEFINE d == file.entries[k]
               prev == j.seen.entries[k]
               mine == Mine(w, j.snap, k)
    <2>1. k[1] \in Models /\ k[2] \in Fps
      BY DEF Keys
    <2>2. d \in MaybeEntry /\ (d # NoEntry => d.fp = k[2])
      BY DEF TypeOK, File, OwnRule
    <2>3. j.snap[k[1]] \in MaybeEntry
          /\ (j.snap[k[1]] # NoEntry => j.snap[k[1]].fp = rule[w][k[1]])
      BY <1>1, <1>2, <2>1 DEF Job, Memory, JobsOwnRule
    <2>4. mine \in MaybeEntry /\ (mine # NoEntry => mine.fp = k[2])
      BY <2>3 DEF Mine, MaybeEntry
    <2>5. prev \in {d, NoEntry} /\ (~j.misread => prev = d)
      BY <1>3 DEF EmptyFile
    <2>6. file'.entries[k] = PruneStale(MergeEntry(prev, mine), j.now)
      BY <1>1 DEF Merged
    <2> HIDE DEF d, mine, prev
    <2>7. prev \in MaybeEntry /\ (prev # NoEntry => prev.fp = k[2])
      BY <2>2, <2>5 DEF MaybeEntry
    <2>8. /\ file'.entries[k] \in MaybeEntry
          /\ file'.entries[k] # NoEntry => file'.entries[k].fp = k[2]
          /\ prev # NoEntry => IF file'.entries[k] = NoEntry THEN j.now > prev.fetched + Retention
                                                             ELSE NotBefore(file'.entries[k], prev)
          /\ mine # NoEntry => IF file'.entries[k] = NoEntry THEN j.now > mine.fetched + Retention
                                                             ELSE NotBefore(file'.entries[k], mine)
      <3> DEFINE f == file'.entries[k]
                 t == j.now
      <3>1. t \in Nat /\ k[2] \in Fps /\ f = PruneStale(MergeEntry(prev, mine), t)
        BY <1>4, <2>1, <2>6
      <3> HIDE DEF f, t
      <3>2. /\ f \in MaybeEntry
            /\ f # NoEntry => f.fp = k[2]
            /\ prev # NoEntry => IF f = NoEntry THEN t > prev.fetched + Retention
                                                ELSE NotBefore(f, prev)
            /\ mine # NoEntry => IF f = NoEntry THEN t > mine.fetched + Retention
                                                ELSE NotBefore(f, mine)
        BY <2>4, <2>7, <3>1, MergeAndPrune
      <3> QED
        BY <3>2 DEF f, t
    <2> QED
      BY <2>2, <2>5, <2>8 DEF d, mine
  <1>6. file' \in File
    <2>1. Merged(w, j) \in [Keys -> MaybeEntry]
      <3>1. \A k \in Keys : Merged(w, j)[k] \in MaybeEntry
        BY <1>1, <1>5
      <3> QED
        BY <3>1 DEF Merged
    <2>2. file'.allow \in Allowlist
      BY <1>1, <1>2 DEF TypeOK, Allowlist, File, Job, Unknown, MaybeList, ChosenAllowlist
    <2> QED
      BY <1>1, <2>1, <2>2 DEF File
  <1>7. \A v \in Workers, r \in Slots :
            jobs'[v][r] = IF v = w /\ r = s THEN NoJob ELSE jobs[v][r]
    BY <1>1 DEF TypeOK
  <1> QED
    BY <1>2, <1>3, <1>4, <1>5, <1>6, <1>7

\* Replacing the file preserves the invariant.
LEMMA WriteIInv == ASSUME IInv, NEW w \in Workers, NEW s \in Slots, Write(w, s) PROVE IInv'
  <1> USE DEF IInv
  <1> DEFINE j == jobs[w][s]
  <1>1. /\ j # NoJob /\ j.step = "listed" /\ lock' = {}
        /\ jobs' = [jobs EXCEPT ![w][s] = NoJob]
        /\ lost' = IF j.misread THEN lost \cup {v \in Workers : Undone(v)} ELSE lost
        /\ UNCHANGED <<now, rule, memory, loaded, own, setting, replaced, found>>
    BY DEF Write
  <1>2. /\ j \in Job /\ j.now <= now /\ j.now \in Nat /\ file' \in File
        /\ \A v \in Workers, r \in Slots :
              jobs'[v][r] = IF v = w /\ r = s THEN NoJob ELSE jobs[v][r]
    BY WriteEffect
  <1>3. TypeOK'
    <2>1. lost' \in SUBSET Workers
      BY <1>1 DEF TypeOK
    <2> QED
      BY <1>1, <1>2, <2>1 DEF TypeOK
  <1>4. OwnRule'
    <2>1. \A k \in Keys : file'.entries[k] # NoEntry => file'.entries[k].fp = k[2]
      BY WriteEffect
    <2> QED
      BY <1>1, <2>1 DEF OwnRule
  <1>5. MergeIsAtomic'
    <2>1. \A v \in Workers, r \in Slots : jobs'[v][r] # NoJob => jobs'[v][r].step = "queued"
      BY <1>1, <1>2 DEF MergeIsAtomic
    <2> QED
      BY <2>1 DEF MergeIsAtomic
  <1>6. JobsOwnRule'
    BY <1>1, <1>2 DEF JobsOwnRule
  <1>7. NothingForgotten'
    <2> SUFFICES ASSUME NEW v \in Workers, v \notin lost', NEW m \in Models,
                        NEW e \in {memory[v][m], replaced[v][m]} \ {NoEntry}
                 PROVE  LET f == file'.entries[<<m, rule[v][m]>>]
                        IN  \/ f # NoEntry /\ NotBefore(f, e)
                            \/ \E r \in Slots : jobs'[v][r] # NoJob /\ jobs'[v][r].snap[m] = e
                            \/ now > e.fetched + Retention
      BY <1>1, SMTT(30) DEF NothingForgotten, Kept, NotBefore, Supersedes
    <2> DEFINE k == <<m, rule[v][m]>>
               d == file.entries[k]
               f == file'.entries[k]
               mine == Mine(w, j.snap, k)
    <2>1. k \in Keys /\ k[1] = m /\ k[2] = rule[v][m]
      BY DEF Keys, TypeOK
    <2>2. e \in Entry /\ v \in Workers \ lost
      BY <1>1, EntriesInMemory
    <2>3. /\ d \in MaybeEntry /\ f \in MaybeEntry
          /\ ~j.misread /\ d # NoEntry =>
                IF f = NoEntry THEN j.now > d.fetched + Retention ELSE NotBefore(f, d)
          /\ mine # NoEntry => IF f = NoEntry THEN j.now > mine.fetched + Retention
                                              ELSE NotBefore(f, mine)
      BY <2>1, WriteEffect
    <2>10. j.misread /\ d # NoEntry => f # NoEntry /\ NotBefore(f, d)
      <3>1. j.misread => ~Undone(v)
        BY <1>1
      <3> QED
        BY <3>1 DEF Undone
    <2>4. \/ d # NoEntry /\ NotBefore(d, e)
          \/ \E r \in Slots : jobs[v][r] # NoJob /\ jobs[v][r].snap[m] = e
          \/ now > e.fetched + Retention
      BY <2>2 DEF NothingForgotten, Kept
    <2>5. e.fetched \in Nat /\ now \in Nat
      BY <2>2 DEF Entry, TypeOK
    <2>6. (f # NoEntry => f \in Entry) /\ (d # NoEntry => d \in Entry)
      BY <2>3 DEF MaybeEntry
    <2>7. v = w => mine = j.snap[m]
      BY <2>1 DEF Mine
    <2> HIDE DEF d, f, mine, k
    <2>8. CASE d # NoEntry /\ NotBefore(d, e)
      <3>1. d.fetched \in Nat /\ d.fetched >= e.fetched
        BY <2>2, <2>6, <2>8, NotBeforeFetched DEF Entry
      <3>2. f = NoEntry => now > e.fetched + Retention
        BY <1>2, <2>3, <2>5, <2>8, <2>10, <3>1, ConfigAssumption
      <3>3. f # NoEntry => NotBefore(f, e)
        BY <2>2, <2>3, <2>6, <2>8, <2>10, NotBeforeTransitive
      <3> QED
        BY <3>2, <3>3 DEF f, k
    <2>9. ASSUME NEW r \in Slots, jobs[v][r] # NoJob, jobs[v][r].snap[m] = e
          PROVE  \/ f # NoEntry /\ NotBefore(f, e)
                 \/ \E q \in Slots : jobs'[v][q] # NoJob /\ jobs'[v][q].snap[m] = e
                 \/ now > e.fetched + Retention
      <3>1. CASE v = w /\ r = s
        <4>1. mine = e /\ mine # NoEntry
          BY <2>7, <2>9, <3>1
        <4> QED
          BY <1>2, <2>3, <2>5, <4>1, ConfigAssumption
      <3>2. CASE ~(v = w /\ r = s)
        BY <1>2, <2>9, <3>2
      <3> QED
        BY <3>1, <3>2
    <2> QED
      BY <2>4, <2>8, <2>9 DEF f, k
  <1> QED
    BY <1>3, <1>4, <1>5, <1>6, <1>7

\* Dropping a write preserves the invariant: the worker counts as having lost.
LEMMA DropIInv == ASSUME IInv, NEW w \in Workers, NEW s \in Slots, Drop(w, s) PROVE IInv'
  <1> USE DEF IInv
  <1>1. /\ jobs[w][s] # NoJob
        /\ jobs' = [jobs EXCEPT ![w][s] = NoJob]
        /\ lock' = IF jobs[w][s].step = "queued" THEN lock ELSE {}
        /\ lost' = lost \cup {w}
        /\ UNCHANGED <<now, rule, memory, loaded, own, setting, file, replaced, found>>
    BY DEF Drop
  <1>2. \A v \in Workers, r \in Slots :
            jobs'[v][r] = IF v = w /\ r = s THEN NoJob ELSE jobs[v][r]
    BY <1>1 DEF TypeOK
  <1>3. TypeOK'
    BY <1>1 DEF TypeOK
  <1>4. OwnRule' /\ JobsOwnRule'
    BY <1>1, <1>2 DEF OwnRule, JobsOwnRule
  <1>5. MergeIsAtomic'
    BY <1>1, <1>2 DEF MergeIsAtomic
  <1>6. NothingForgotten'
    <2>1. \A v \in Workers \ lost', r \in Slots : v \in Workers \ lost /\ jobs'[v][r] = jobs[v][r]
      BY <1>1, <1>2
    <2> QED
      BY <1>1, <2>1 DEF NothingForgotten, Kept, NotBefore, Supersedes
  <1> QED
    BY <1>3, <1>4, <1>5, <1>6

\* The death of a process, and its return under other rules, preserves the
\* invariant: its memory is empty and the operating system frees the lock.
LEMMA RestartIInv == ASSUME IInv, NEW w \in Workers, Restart(w) PROVE IInv'
  <1> USE DEF IInv
  <1>1. /\ rule' \in [Workers -> [Models -> Fps]]
        /\ \A v \in Workers \ {w} : rule'[v] = rule[v]
        /\ memory' = [memory EXCEPT ![w] = EmptyMemory]
        /\ loaded' = [loaded EXCEPT ![w] = FALSE]
        /\ own' = [own EXCEPT ![w] = Unknown]
        /\ setting' = [setting EXCEPT ![w] = NoList]
        /\ jobs' = [jobs EXCEPT ![w] = [s \in Slots |-> NoJob]]
        /\ lock' = lock \ {w}
        /\ replaced' = [replaced EXCEPT ![w] = EmptyMemory]
        /\ lost' \in {lost, lost \cup {w}}
        /\ UNCHANGED <<now, file, found>>
    BY DEF Restart
  <1>2. EmptyMemory \in Memory /\ \A m \in Models : EmptyMemory[m] = NoEntry
    BY DEF EmptyMemory, Memory, MaybeEntry
  <1>3. \A v \in Workers : /\ memory'[v] = IF v = w THEN EmptyMemory ELSE memory[v]
                           /\ replaced'[v] = IF v = w THEN EmptyMemory ELSE replaced[v]
                           /\ v # w => jobs'[v] = jobs[v]
                           /\ v = w => \A s \in Slots : jobs'[v][s] = NoJob
    BY <1>1 DEF TypeOK
  <1>4. TypeOK'
    <2>1. own' \in [Workers -> Allowlist] /\ setting' \in [Workers -> MaybeList]
      BY <1>1 DEF TypeOK, Unknown, Allowlist, MaybeList
    <2> QED
      BY <1>1, <1>2, <2>1 DEF TypeOK
  <1>5. OwnRule' /\ JobsOwnRule'
    BY <1>1, <1>2, <1>3, SMTT(30) DEF OwnRule, JobsOwnRule
  <1>6. MergeIsAtomic'
    BY <1>1, <1>3 DEF MergeIsAtomic
  <1>7. NothingForgotten'
    <2> SUFFICES ASSUME NEW v \in Workers \ lost, NEW m \in Models PROVE Saved(v, m)'
      BY <1>1 DEF NothingForgotten, Saved
    <2>1. CASE v = w
      BY <1>2, <1>3, <2>1 DEF Saved
    <2>2. CASE v # w
      <3>1. Saved(v, m)
        BY SavedEverywhere
      <3>2. /\ memory'[v] = memory[v] /\ replaced'[v] = replaced[v]
            /\ rule'[v] = rule[v] /\ jobs'[v] = jobs[v]
            /\ now \in Nat /\ now' = now /\ file' = file
        BY <1>1, <1>3, <2>2 DEF TypeOK
      <3> QED
        BY <3>1, <3>2, SavedStable
    <2> QED
      BY <2>1, <2>2
  <1> QED
    BY <1>4, <1>5, <1>6, <1>7

\* The passing of time preserves the invariant.
LEMMA TickIInv == IInv /\ Tick => IInv'
  <1> SUFFICES ASSUME IInv, Tick PROVE IInv'
    OBVIOUS
  <1> USE DEF IInv
  <1>1. /\ now \in Nat /\ now' = now + 1
        /\ UNCHANGED <<rule, memory, loaded, own, setting, jobs, file, lock, replaced, lost, found>>
    BY DEF Tick, TypeOK
  <1>2. TypeOK' /\ OwnRule' /\ MergeIsAtomic'
    BY <1>1 DEF TypeOK, OwnRule, MergeIsAtomic
  <1>3. JobsOwnRule'
    <2>1. \A w \in Workers, s \in Slots : jobs[w][s] # NoJob => jobs[w][s].now \in Nat
      BY DEF TypeOK, Job
    <2> QED
      BY <1>1, <2>1 DEF JobsOwnRule
  <1>4. NothingForgotten'
    <2> SUFFICES ASSUME NEW w \in Workers \ lost, NEW m \in Models PROVE Saved(w, m)'
      BY <1>1 DEF NothingForgotten, Saved
    <2>1. Saved(w, m)
      BY SavedEverywhere
    <2> QED
      BY <1>1, <2>1, SavedStable
  <1> QED
    BY <1>2, <1>3, <1>4

-----------------------------------------------------------------------------
(* The theorems.                                                           *)

\* Fresh processes and an empty file satisfy the invariant.
LEMMA InitIInv == Init => IInv
  <1> SUFFICES ASSUME Init PROVE IInv
    OBVIOUS
  <1>1. TypeOK
    BY DEF Init, TypeOK, EmptyMemory, Memory, MaybeEntry, Unknown, Allowlist, MaybeList,
           EmptyFile, File
  <1>2. OwnRule /\ MergeIsAtomic /\ JobsOwnRule /\ NothingForgotten
    BY DEF Init, OwnRule, MergeIsAtomic, JobsOwnRule, NothingForgotten, EmptyMemory, EmptyFile
  <1> QED
    BY <1>1, <1>2 DEF IInv

\* The invariant holds in every reachable state of the workers and the file.
THEOREM Invariance == Spec => []IInv
  <1>1. IInv /\ [Next]_vars => IInv'
    <2> SUFFICES ASSUME IInv, [Next]_vars PROVE IInv'
      OBVIOUS
    <2>1. ASSUME NEW w \in Workers, EnsureDisk(w) PROVE IInv'
      BY <2>1, EnsureDiskIInv
    <2>2. ASSUME NEW w \in Workers, NEW m \in Models, RefreshDone(w, m) PROVE IInv'
      BY <2>2, RefreshDoneIInv
    <2>3. ASSUME NEW w \in Workers, NEW m \in Models, RefreshFailed(w, m) PROVE IInv'
      BY <2>3, RefreshFailedIInv
    <2>4. ASSUME NEW w \in Workers, NEW list \in Lists, SetList(w, list) PROVE IInv'
      BY <2>4, SetListIInv
    <2>5. ASSUME NEW w \in Workers, SetStamp(w) PROVE IInv'
      BY <2>5, SetStampIInv
    <2>6. ASSUME NEW w \in Workers, NEW s \in Slots, Acquire(w, s) PROVE IInv'
      BY <2>6, AcquireIInv
    <2>7. ASSUME NEW w \in Workers, NEW s \in Slots, PickAllowlist(w, s) PROVE IInv'
      BY <2>7, PickAllowlistIInv
    <2>8. ASSUME NEW w \in Workers, NEW s \in Slots, Write(w, s) PROVE IInv'
      BY <2>8, WriteIInv
    <2>9. ASSUME NEW w \in Workers, NEW s \in Slots, Drop(w, s) PROVE IInv'
      BY <2>9, DropIInv
    <2>10. ASSUME NEW w \in Workers, Restart(w) PROVE IInv'
      BY <2>10, RestartIInv
    <2>11. CASE Tick
      BY <2>11, TickIInv
    <2>12. CASE UNCHANGED vars
      BY <2>12 DEF vars, IInv, TypeOK, OwnRule, MergeIsAtomic, JobsOwnRule, NothingForgotten,
                   Kept, NotBefore, Supersedes
    <2> QED
      BY <2>1, <2>2, <2>3, <2>4, <2>5, <2>6, <2>7, <2>8, <2>9, <2>10, <2>11, <2>12 DEF Next
  <1> QED
    BY InitIInv, <1>1, PTL DEF Spec

\* The client, its threads and the file keep their shape.
THEOREM TypeCorrect == Spec => []TypeOK
  <1>1. IInv => TypeOK
    BY DEF IInv
  <1> QED
    BY Invariance, <1>1, PTL

\* No worker ever serves or inherits an entry computed under another rule.
THEOREM OwnRuleHolds == Spec => []OwnRule
  <1>1. IInv => OwnRule
    BY DEF IInv
  <1> QED
    BY Invariance, <1>1, PTL

\* The read-merge-write of a thread is atomic for the other threads.
THEOREM MergeIsAtomicHolds == Spec => []MergeIsAtomic
  <1>1. IInv => MergeIsAtomic
    BY DEF IInv
  <1> QED
    BY Invariance, <1>1, PTL

\* What a worker decided reaches the file unless a write was dropped.
THEOREM NothingForgottenHolds == Spec => []NothingForgotten
  <1>1. IInv => NothingForgotten
    BY DEF IInv
  <1> QED
    BY Invariance, <1>1, PTL

\* Only a write touches the file.
LEMMA OnlyWriteTouchesFile ==
    [Next]_vars /\ file' # file => \E w \in Workers, s \in Slots : Write(w, s)
  <1> SUFFICES ASSUME [Next]_vars, file' # file
               PROVE  \E w \in Workers, s \in Slots : Write(w, s)
    OBVIOUS
  <1>1. \A w \in Workers : /\ EnsureDisk(w) => file' = file
                           /\ SetStamp(w) => file' = file
                           /\ Restart(w) => file' = file
    BY DEF EnsureDisk, SetStamp, Restart
  <1>2. \A w \in Workers, m \in Models : RefreshDone(w, m) \/ RefreshFailed(w, m) => file' = file
    BY DEF RefreshDone, RefreshFailed
  <1>3. \A w \in Workers, list \in Lists : SetList(w, list) => file' = file
    BY DEF SetList
  <1>4. \A w \in Workers, s \in Slots :
            Acquire(w, s) \/ PickAllowlist(w, s) \/ Drop(w, s) => file' = file
    BY AcquireEffect DEF PickAllowlist, Drop
  <1>5. Tick \/ UNCHANGED vars => file' = file
    BY DEF Tick, vars
  <1> QED
    BY <1>1, <1>2, <1>3, <1>4, <1>5 DEF Next

\* No write moves an entry of the file back, or prunes one still in use.
THEOREM FileMovesForwardHolds == Spec => FileMovesForward
  <1> DEFINE Forward == (\A w \in Workers, s \in Slots : ~Blind(w, s)) =>
                \A k \in Keys :
                  LET d == file.entries[k]
                      e == file'.entries[k]
                  IN  d # NoEntry => IF e = NoEntry THEN now > d.fetched + Retention
                                                    ELSE NotBefore(e, d)
  <1>1. IInv /\ [Next]_vars => [Forward]_file
    <2> SUFFICES ASSUME IInv, [Next]_vars, file' # file,
                        \A w \in Workers, s \in Slots : ~Blind(w, s),
                        NEW k \in Keys, file.entries[k] # NoEntry
                 PROVE  IF file'.entries[k] = NoEntry
                          THEN now > file.entries[k].fetched + Retention
                          ELSE NotBefore(file'.entries[k], file.entries[k])
      OBVIOUS
    <2>1. PICK w \in Workers, s \in Slots : Write(w, s)
      BY OnlyWriteTouchesFile
    <2>2. ~jobs[w][s].misread
      BY <2>1 DEF Blind, Write
    <2>3. /\ jobs[w][s].now <= now /\ jobs[w][s].now \in Nat
          /\ file.entries[k] \in MaybeEntry
          /\ IF file'.entries[k] = NoEntry
               THEN jobs[w][s].now > file.entries[k].fetched + Retention
               ELSE NotBefore(file'.entries[k], file.entries[k])
      BY <2>1, <2>2, WriteEffect
    <2>4. file.entries[k].fetched \in Nat /\ now \in Nat
      BY <2>3 DEF MaybeEntry, Entry, IInv, TypeOK
    <2> QED
      BY <2>3, <2>4, ConfigAssumption
  <1> QED
    BY Invariance, <1>1, PTL DEF Spec, FileMovesForward

\* What a write makes of an allowlist that is in the file with its timestamp.
LEMMA WriteKeepsList ==
    ASSUME IInv, NEW w \in Workers, NEW s \in Slots, Write(w, s), Stamped(file.allow)
    PROVE  \/ file'.allow.list # NoList
           \/ Blind(w, s) /\ jobs[w][s].step = "listed" /\ jobs[w][s].allow = NoList
  <1>1. jobs[w][s].seen = IF jobs[w][s].misread THEN EmptyFile ELSE file
    BY WriteEffect
  <1>2. /\ jobs[w][s] # NoJob /\ jobs[w][s].step = "listed"
        /\ file'.allow = ChosenAllowlist(w, jobs[w][s])
    BY DEF Write
  <1> QED
    BY <1>1, <1>2 DEF Stamped, ChosenAllowlist, Blind

\* An allowlist that is in the file with its timestamp survives every write
\* that could read it.
THEOREM AllowlistSurvivesHolds == Spec => AllowlistSurvives
  <1> DEFINE Survives == Stamped(file.allow) =>
                \/ file'.allow.list # NoList
                \/ \E w \in Workers, s \in Slots :
                      Blind(w, s) /\ jobs[w][s].step = "listed" /\ jobs[w][s].allow = NoList
  <1>1. IInv /\ [Next]_vars => [Survives]_file
    <2> SUFFICES ASSUME IInv, [Next]_vars, file' # file, Stamped(file.allow)
                 PROVE  \/ file'.allow.list # NoList
                        \/ \E w \in Workers, s \in Slots :
                              Blind(w, s) /\ jobs[w][s].step = "listed" /\ jobs[w][s].allow = NoList
      OBVIOUS
    <2>1. PICK w \in Workers, s \in Slots : Write(w, s)
      BY OnlyWriteTouchesFile
    <2> QED
      BY <2>1, WriteKeepsList
  <1> QED
    BY Invariance, <1>1, PTL DEF Spec, AllowlistSurvives

-----------------------------------------------------------------------------
(* The allowlist and its timestamp.                                        *)

\* Worker w has still to write the allowlist it knows.
WillWriteList(w) ==
    \/ setting[w] # NoList
    \/ /\ own[w].list # NoList
       /\ \E s \in Slots :
             /\ jobs[w][s] # NoJob
             /\ jobs[w][s].step = "listed" => jobs[w][s].allow = own[w].list

\* A worker between its calls knows a pair that was discovered or loaded.
PairsKnown ==
    \A w \in Workers : IF setting[w] = NoList THEN own[w] \in found \cup {Unknown}
                                              ELSE own[w].list = setting[w]

\* A list that a thread picked too early is followed by a write still queued.
PicksFollowed ==
    \A w \in Workers, s \in Slots :
        jobs[w][s] # NoJob /\ jobs[w][s].step = "listed" /\ jobs[w][s].allow # NoList =>
            /\ own[w].list # NoList
            /\ \/ setting[w] # NoList
               \/ jobs[w][s].allow = own[w].list
               \/ \E r \in Slots : jobs[w][r] # NoJob /\ jobs[w][r].step = "queued"

\* A torn pair in the file is followed by some worker's write.
FilePaired ==
    \/ file.allow \in found
    \/ found = {} /\ file.allow = Unknown
    \/ \E w \in Workers : WillWriteList(w)

\* The three hold together while no write is lost.
PairInv ==
    /\ now >= 1
    /\ \A a \in found : Stamped(a)
    /\ lost = {} => PairsKnown /\ PicksFollowed /\ FilePaired

\* What a step leaves in being of a worker that has still to write.
LEMMA StillWillWrite ==
    ASSUME IInv, NEW w \in Workers, WillWriteList(w),
           setting'[w] = setting[w], own'[w] = own[w],
           \A s \in Slots : jobs[w][s] # NoJob => jobs'[w][s] = jobs[w][s]
    PROVE  WillWriteList(w)'
  BY DEF WillWriteList

\* What _persist_soon queues is a write that has picked nothing yet.
LEMMA QueuedEffect ==
    ASSUME IInv, NEW w \in Workers, NEW mem \in Memory, PersistSoon(w, mem)
    PROVE  /\ \A v \in Workers, r \in Slots :
                 /\ jobs[v][r] # NoJob => jobs'[v][r] = jobs[v][r]
                 /\ jobs'[v][r] = jobs[v][r] \/ (jobs'[v][r] # NoJob /\ jobs'[v][r].step = "queued")
           /\ \E r \in Slots : jobs'[w][r] # NoJob /\ jobs'[w][r].step = "queued"
  <1> DEFINE new == [step |-> "queued", snap |-> mem, now |-> now,
                     seen |-> EmptyFile, misread |-> FALSE, allow |-> NoList]
  <1>1. PICK s \in Slots : jobs[w][s] = NoJob /\ jobs' = [jobs EXCEPT ![w][s] = new]
    BY DEF PersistSoon
  <1>2. EmptyFile \in File
    BY DEF EmptyFile, File, MaybeEntry, Allowlist, MaybeList, Unknown
  <1>3. new \in Job /\ new.step = "queued"
    BY <1>2 DEF Job, IInv, TypeOK, MaybeList
  <1>4. new # NoJob
    BY <1>3, JobAssumption
  <1>5. \A v \in Workers, r \in Slots :
            jobs'[v][r] = IF v = w /\ r = s THEN new ELSE jobs[v][r]
    BY <1>1 DEF IInv, TypeOK
  <1> HIDE DEF new
  <1> QED
    BY <1>1, <1>3, <1>4, <1>5

\* A refresh queues a write of some memory and leaves the pairs alone.
LEMMA RefreshQueues ==
    ASSUME IInv, NEW w \in Workers, NEW m \in Models,
           RefreshDone(w, m) \/ RefreshFailed(w, m)
    PROVE  /\ \E mem \in Memory : PersistSoon(w, mem)
           /\ UNCHANGED <<now, own, setting, file, lock, replaced, lost, found>>
  <1> USE DEF IInv
  <1>1. CASE RefreshDone(w, m)
    <2>1. PICK start \in (now - FetchTime) .. now :
              /\ start >= 1
              /\ PersistSoon(w, [memory[w] EXCEPT ![m] =
                                   [fp |-> rule[w][m], fetched |-> start, stale |-> FALSE]])
              /\ UNCHANGED <<now, rule, loaded, own, setting, file, lock, replaced, lost, found>>
      BY <1>1 DEF RefreshDone
    <2>2. [fp |-> rule[w][m], fetched |-> start, stale |-> FALSE] \in Entry
      BY <2>1, ConfigAssumption DEF TypeOK, Entry
    <2>3. [memory[w] EXCEPT ![m] =
             [fp |-> rule[w][m], fetched |-> start, stale |-> FALSE]] \in Memory
      BY <2>2 DEF Memory, MaybeEntry, TypeOK
    <2> QED
      BY <2>1, <2>3
  <1>2. CASE RefreshFailed(w, m)
    <2> DEFINE e   == [memory[w][m] EXCEPT !.stale = TRUE]
               new == [memory[w] EXCEPT ![m] = e]
    <2>1. /\ memory[w][m] # NoEntry
          /\ PersistSoon(w, new)
          /\ UNCHANGED <<now, rule, loaded, own, setting, file, lock, replaced, lost, found>>
      BY <1>2 DEF RefreshFailed
    <2>2. memory[w][m] \in Entry
      BY <2>1 DEF TypeOK, Memory, MaybeEntry
    <2>3. e \in Entry
      BY <2>2 DEF Entry
    <2>4. new \in Memory
      BY <2>3 DEF Memory, MaybeEntry, TypeOK
    <2> QED
      BY <2>1, <2>4
  <1> QED
    BY <1>1, <1>2

LEMMA RefreshKeepsPairs ==
    ASSUME IInv, PairInv, NEW w \in Workers, NEW m \in Models,
           RefreshDone(w, m) \/ RefreshFailed(w, m)
    PROVE  PairInv'
  <1>1. /\ \E mem \in Memory : PersistSoon(w, mem)
        /\ UNCHANGED <<now, own, setting, file, lock, replaced, lost, found>>
    BY RefreshQueues
  <1>2. \A v \in Workers, r \in Slots :
           /\ jobs[v][r] # NoJob => jobs'[v][r] = jobs[v][r]
           /\ jobs'[v][r] = jobs[v][r] \/ (jobs'[v][r] # NoJob /\ jobs'[v][r].step = "queued")
    BY <1>1, QueuedEffect
  <1>3. \A v \in Workers : WillWriteList(v) => WillWriteList(v)'
    BY <1>1, <1>2, StillWillWrite
  <1>4. PairsKnown => PairsKnown'
    BY <1>1 DEF PairsKnown
  <1>5. PicksFollowed => PicksFollowed'
    BY <1>1, <1>2 DEF PicksFollowed
  <1>6. FilePaired => FilePaired'
    BY <1>1, <1>3 DEF FilePaired
  <1> QED
    BY <1>1, <1>4, <1>5, <1>6 DEF PairInv

\* The first store of a discovery: a write is sure to follow.
LEMMA SetListKeepsPairs ==
    ASSUME IInv, PairInv, NEW w \in Workers, NEW list \in Lists, SetList(w, list)
    PROVE  PairInv'
  <1>1. /\ own' = [own EXCEPT ![w].list = list]
        /\ setting' = [setting EXCEPT ![w] = list]
        /\ UNCHANGED <<now, jobs, file, lock, lost, found>>
    BY DEF SetList
  <1>2. /\ setting'[w] = list /\ own'[w].list = list /\ list # NoList
        /\ \A v \in Workers : v # w => setting'[v] = setting[v] /\ own'[v] = own[v]
    BY <1>1, ConfigAssumption DEF IInv, TypeOK, Allowlist
  <1>3. PairsKnown => PairsKnown'
    BY <1>1, <1>2 DEF PairsKnown
  <1>4. PicksFollowed => PicksFollowed'
    BY <1>1, <1>2 DEF PicksFollowed
  <1>5. FilePaired'
    BY <1>2 DEF FilePaired, WillWriteList
  <1> QED
    BY <1>1, <1>3, <1>4, <1>5 DEF PairInv

\* The second store: the pair is whole, and its write is queued.
LEMMA SetStampKeepsPairs ==
    ASSUME IInv, PairInv, NEW w \in Workers, SetStamp(w) PROVE PairInv'
  <1> DEFINE pair == [list |-> setting[w], at |-> now]
  <1>1. /\ setting[w] # NoList
        /\ own' = [own EXCEPT ![w].at = now]
        /\ found' = found \cup {pair}
        /\ setting' = [setting EXCEPT ![w] = NoList]
        /\ PersistSoon(w, memory[w])
        /\ UNCHANGED <<now, file, lock, lost>>
    BY DEF SetStamp, LoopFree
  <1>2. memory[w] \in Memory
    BY DEF IInv, TypeOK
  <1>3. /\ \A v \in Workers, r \in Slots :
              /\ jobs[v][r] # NoJob => jobs'[v][r] = jobs[v][r]
              /\ jobs'[v][r] = jobs[v][r] \/ (jobs'[v][r] # NoJob /\ jobs'[v][r].step = "queued")
        /\ \E r \in Slots : jobs'[w][r] # NoJob /\ jobs'[w][r].step = "queued"
    BY <1>1, <1>2, QueuedEffect
  <1>4. /\ setting'[w] = NoList
        /\ \A v \in Workers : v # w => setting'[v] = setting[v] /\ own'[v] = own[v]
        /\ own'[w].list = own[w].list /\ own'[w].at = now
        /\ own'[w] \in Allowlist
    BY <1>1 DEF IInv, TypeOK, Allowlist, MaybeList
  <1>5. Stamped(pair)
    BY <1>1 DEF Stamped, PairInv, IInv, TypeOK
  <1>6. ASSUME PairsKnown, PicksFollowed PROVE PairsKnown' /\ PicksFollowed' /\ FilePaired'
    <2>1. own[w].list = setting[w]
      BY <1>1, <1>6 DEF PairsKnown
    <2>2. own'[w] = pair
      BY <1>4, <2>1 DEF Allowlist
    <2>3. PairsKnown'
      BY <1>1, <1>4, <1>6, <2>2 DEF PairsKnown
    <2>4. own'[w].list # NoList
      BY <1>1, <1>4, <2>1
    <2>5. PicksFollowed'
      BY <1>3, <1>4, <1>6, <2>4 DEF PicksFollowed
    <2>6. WillWriteList(w)'
      BY <1>3, <2>4 DEF WillWriteList
    <2> QED
      BY <2>3, <2>5, <2>6 DEF FilePaired
  <1> QED
    BY <1>1, <1>5, <1>6 DEF PairInv

\* Loading the file: the pair in it becomes known.
LEMMA EnsureDiskKeepsPairs ==
    ASSUME IInv, PairInv, NEW w \in Workers, EnsureDisk(w) PROVE PairInv'
  <1>0. PICK allow \in {f.allow : f \in Readings} :
           /\ setting[w] = NoList
           /\ own' = IF Stamped(allow) THEN [own EXCEPT ![w] = allow] ELSE own
           /\ lost' = IF own[w] \notin {Unknown, own'[w]} THEN lost \cup {w} ELSE lost
           /\ found' = IF Stamped(allow) THEN found \cup {allow} ELSE found
           /\ UNCHANGED <<now, setting, jobs, file, lock>>
    BY DEF EnsureDisk, LoopFree
  <1>1. /\ setting[w] = NoList
        /\ own' = IF Stamped(allow) THEN [own EXCEPT ![w] = allow] ELSE own
        /\ lost' = IF own[w] \notin {Unknown, own'[w]} THEN lost \cup {w} ELSE lost
        /\ found' = IF Stamped(allow) THEN found \cup {allow} ELSE found
        /\ UNCHANGED <<now, setting, jobs, file, lock>>
    BY <1>0
  <1>2. /\ \A v \in Workers : v # w => own'[v] = own[v]
        /\ own'[w] = IF Stamped(allow) THEN allow ELSE own[w]
        /\ Stamped(allow) => allow = file.allow
    BY <1>1 DEF IInv, TypeOK, Readings, EmptyFile, Unknown, Stamped
  <1>3. ASSUME lost' = {}, PairsKnown, PicksFollowed, FilePaired
        PROVE  PairsKnown' /\ PicksFollowed' /\ FilePaired'
    <2>1. own[w] \in {Unknown, own'[w]}
      BY <1>1, <1>3
    <2>2. PairsKnown'
      BY <1>1, <1>2, <1>3 DEF PairsKnown
    <2>3. own[w].list # NoList => own'[w] = own[w]
      BY <2>1 DEF Unknown
    <2>4. PicksFollowed'
      <3> SUFFICES ASSUME NEW v \in Workers, NEW s \in Slots, jobs[v][s] # NoJob,
                          jobs[v][s].step = "listed", jobs[v][s].allow # NoList
                   PROVE  /\ own'[v].list # NoList
                          /\ \/ setting[v] # NoList
                             \/ jobs[v][s].allow = own'[v].list
                             \/ \E r \in Slots : jobs[v][r] # NoJob /\ jobs[v][r].step = "queued"
        BY <1>1 DEF PicksFollowed
      <3>1. /\ own[v].list # NoList
            /\ \/ setting[v] # NoList
               \/ jobs[v][s].allow = own[v].list
               \/ \E r \in Slots : jobs[v][r] # NoJob /\ jobs[v][r].step = "queued"
        BY <1>3 DEF PicksFollowed
      <3>2. own'[v] = own[v]
        BY <1>2, <2>3, <3>1
      <3> QED
        BY <3>1, <3>2
    <2>5. FilePaired'
      <3>1. CASE Stamped(allow)
        BY <1>1, <1>2, <3>1 DEF FilePaired
      <3>2. CASE ~Stamped(allow)
        <4>1. own' = own /\ found' = found
          BY <1>1, <3>2
        <4>2. \A v \in Workers : WillWriteList(v) => WillWriteList(v)'
          BY <1>1, <4>1 DEF WillWriteList
        <4> QED
          BY <1>1, <1>3, <4>1, <4>2 DEF FilePaired
      <3> QED
        BY <3>1, <3>2
    <2> QED
      BY <2>2, <2>4, <2>5
  <1>4. lost' = {} => lost = {}
    BY <1>1
  <1> QED
    BY <1>1, <1>3, <1>4 DEF PairInv

\* Taking the lock: no thread can have picked a list before.
LEMMA AcquireKeepsPairs ==
    ASSUME IInv, PairInv, NEW w \in Workers, NEW s \in Slots, Acquire(w, s) PROVE PairInv'
  <1>0. PICK seen \in Readings :
            jobs' = [jobs EXCEPT ![w][s].step = "locked", ![w][s].seen = seen,
                                 ![w][s].misread = (seen # file)]
    BY DEF Acquire
  <1> DEFINE new == [jobs[w][s] EXCEPT !.step = "locked", !.seen = seen, !.misread = (seen # file)]
  <1>a. jobs' = [jobs EXCEPT ![w][s] = new]
    BY <1>0 DEF IInv, TypeOK
  <1>b. /\ jobs[w][s] # NoJob /\ jobs[w][s].step = "queued" /\ lock = {}
        /\ UNCHANGED <<now, own, setting, file, lost, found>>
    BY AcquireEffect
  <1> HIDE DEF new
  <1>1. /\ jobs[w][s] # NoJob /\ jobs[w][s].step = "queued" /\ lock = {}
        /\ jobs' = [jobs EXCEPT ![w][s] = new]
        /\ UNCHANGED <<now, own, setting, file, lost, found>>
    BY <1>a, <1>b
  <1> USE DEF new
  <1>2. new \in Job /\ new.step = "locked"
    <2>1. jobs[w][s] \in Job
      BY <1>1 DEF IInv, TypeOK
    <2>2. seen \in File
      BY DEF IInv, TypeOK, Readings, EmptyFile, File, Unknown, Allowlist, MaybeList, MaybeEntry
    <2> QED
      BY <2>1, <2>2 DEF Job
  <1>3. new # NoJob
    BY <1>2, JobAssumption
  <1> HIDE DEF new
  <1>4. \A v \in Workers, r \in Slots :
            jobs'[v][r] = IF v = w /\ r = s THEN new ELSE jobs[v][r]
    BY <1>1 DEF IInv, TypeOK
  <1>5. \A v \in Workers, r \in Slots : jobs[v][r] # NoJob => jobs[v][r].step = "queued"
    BY <1>1 DEF IInv, MergeIsAtomic
  <1>6. \A v \in Workers, r \in Slots : jobs'[v][r] # NoJob => jobs'[v][r].step # "listed"
    BY <1>2, <1>4, <1>5
  <1>7. PicksFollowed'
    BY <1>6 DEF PicksFollowed
  <1>8. \A v \in Workers : WillWriteList(v) => WillWriteList(v)'
    BY <1>1, <1>3, <1>4, <1>6 DEF WillWriteList
  <1>9. FilePaired => FilePaired'
    BY <1>1, <1>8 DEF FilePaired
  <1> QED
    BY <1>1, <1>7, <1>9 DEF PairInv, PairsKnown

\* Picking the list: it is the one the worker knows now.
LEMMA PickKeepsPairs ==
    ASSUME IInv, PairInv, NEW w \in Workers, NEW s \in Slots, PickAllowlist(w, s)
    PROVE  PairInv'
  <1> DEFINE new == [jobs[w][s] EXCEPT !.step = "listed", !.allow = own[w].list]
  <1>1. /\ jobs[w][s] # NoJob /\ jobs[w][s].step = "locked"
        /\ jobs' = [jobs EXCEPT ![w][s] = new]
        /\ UNCHANGED <<now, own, setting, file, lost, found>>
    BY DEF PickAllowlist
  <1>2. new \in Job /\ new.allow = own[w].list
    <2>1. jobs[w][s] \in Job /\ own[w].list \in MaybeList
      BY <1>1 DEF IInv, TypeOK, Allowlist
    <2> QED
      BY <2>1 DEF Job
  <1>3. new # NoJob
    BY <1>2, JobAssumption
  <1> HIDE DEF new
  <1>4. \A v \in Workers, r \in Slots :
            jobs'[v][r] = IF v = w /\ r = s THEN new ELSE jobs[v][r]
    BY <1>1 DEF IInv, TypeOK
  <1>5. \A v \in Workers, r \in Slots :
            v # w \/ r # s => (jobs[v][r] # NoJob => jobs[v][r].step = "queued")
    BY <1>1 DEF IInv, MergeIsAtomic
  <1>6. PicksFollowed'
    BY <1>1, <1>2, <1>4, <1>5 DEF PicksFollowed
  <1>7. \A v \in Workers : WillWriteList(v) => WillWriteList(v)'
    BY <1>1, <1>2, <1>3, <1>4 DEF WillWriteList
  <1>8. FilePaired => FilePaired'
    BY <1>1, <1>7 DEF FilePaired
  <1> QED
    BY <1>1, <1>6, <1>8 DEF PairInv, PairsKnown

\* Replacing the file: the pair written is whole, or a write is to follow.
LEMMA WriteKeepsPairs ==
    ASSUME IInv, PairInv, NEW w \in Workers, NEW s \in Slots, Write(w, s) PROVE PairInv'
  <1> DEFINE j == jobs[w][s]
  <1>1. /\ j # NoJob /\ j.step = "listed"
        /\ file'.allow = ChosenAllowlist(w, j)
        /\ lost' = IF j.misread THEN lost \cup {v \in Workers : Undone(v)} ELSE lost
        /\ UNCHANGED <<now, own, setting, found>>
    BY DEF Write
  <1>2. /\ j.seen = IF j.misread THEN EmptyFile ELSE file
        /\ \A v \in Workers, r \in Slots :
              jobs'[v][r] = IF v = w /\ r = s THEN NoJob ELSE jobs[v][r]
    BY WriteEffect
  <1>3. \A v \in Workers, r \in Slots : jobs'[v][r] # NoJob => jobs'[v][r].step = "queued"
    BY <1>1, <1>2 DEF IInv, MergeIsAtomic
  <1>4. PicksFollowed'
    BY <1>3 DEF PicksFollowed
  <1>5. ASSUME lost' = {}, PairsKnown, PicksFollowed, FilePaired PROVE FilePaired'
    <2>1. CASE j.allow # NoList
      <3>1. /\ own[w].list # NoList
            /\ \/ setting[w] # NoList
               \/ j.allow = own[w].list
               \/ \E r \in Slots : jobs[w][r] # NoJob /\ jobs[w][r].step = "queued"
        BY <1>1, <1>5, <2>1 DEF PicksFollowed
      <3>2. CASE setting[w] # NoList
        BY <1>1, <3>2 DEF FilePaired, WillWriteList
      <3>3. CASE \E r \in Slots : jobs[w][r] # NoJob /\ jobs[w][r].step = "queued"
        <4>1. PICK r \in Slots : jobs[w][r] # NoJob /\ jobs[w][r].step = "queued"
          BY <3>3
        <4>2. jobs'[w][r] = jobs[w][r]
          BY <1>1, <1>2, <4>1
        <4>3. WillWriteList(w)'
          BY <1>1, <3>1, <4>1, <4>2 DEF WillWriteList
        <4> QED
          BY <4>3 DEF FilePaired
      <3>4. CASE setting[w] = NoList /\ j.allow = own[w].list
        <4>1. own[w] \in found
          BY <1>5, <2>1, <3>4 DEF PairsKnown, Unknown
        <4>2. own[w] = [list |-> own[w].list, at |-> own[w].at]
          BY DEF IInv, TypeOK, Allowlist
        <4>3. file'.allow = own[w]
          BY <1>1, <2>1, <3>4, <4>2 DEF ChosenAllowlist
        <4> QED
          BY <1>1, <4>1, <4>3 DEF FilePaired
      <3> QED
        BY <3>1, <3>2, <3>3, <3>4
    <2>2. CASE j.allow = NoList
      <3>0. CASE j.misread /\ Stamped(file.allow)
        <4>1. file'.allow.list = NoList
          BY <1>1, <1>2, <2>2, <3>0 DEF ChosenAllowlist, EmptyFile, Unknown, Stamped
        <4>2. Undone(w)
          BY <3>0, <4>1 DEF Undone
        <4> QED
          BY <1>1, <1>5, <3>0, <4>2
      <3>1. ~(j.misread /\ Stamped(file.allow)) =>
               file'.allow = IF Stamped(file.allow) THEN file.allow ELSE Unknown
        BY <1>1, <1>2, <2>2 DEF ChosenAllowlist, EmptyFile, Unknown, Stamped
      <3>2. CASE file.allow \in found /\ ~(j.misread /\ Stamped(file.allow))
        BY <1>1, <3>1, <3>2 DEF PairInv, FilePaired
      <3>3. CASE found = {} /\ file.allow = Unknown
        BY <1>1, <3>1, <3>3 DEF FilePaired, Unknown, Stamped
      <3>4. CASE \E v \in Workers : WillWriteList(v)
        <4>1. PICK v \in Workers : WillWriteList(v)
          BY <3>4
        <4>2. WillWriteList(v)'
          BY <1>1, <1>2, <2>2, <4>1 DEF WillWriteList
        <4> QED
          BY <4>2 DEF FilePaired
      <3> QED
        BY <1>5, <3>0, <3>2, <3>3, <3>4 DEF FilePaired
    <2> QED
      BY <2>1, <2>2
  <1>6. lost' = {} => lost = {}
    BY <1>1
  <1> QED
    BY <1>1, <1>4, <1>5, <1>6 DEF PairInv, PairsKnown

\* A dropped write takes the promise with it.
LEMMA DropKeepsPairs ==
    ASSUME IInv, PairInv, NEW w \in Workers, NEW s \in Slots, Drop(w, s) PROVE PairInv'
  BY DEF Drop, PairInv

\* The death of a process that had nothing to write changes no pair.
LEMMA RestartKeepsPairs ==
    ASSUME IInv, PairInv, NEW w \in Workers, Restart(w) PROVE PairInv'
  <1>1. /\ own' = [own EXCEPT ![w] = Unknown]
        /\ setting' = [setting EXCEPT ![w] = NoList]
        /\ jobs' = [jobs EXCEPT ![w] = [s \in Slots |-> NoJob]]
        /\ lost' = IF LoopFree(w) /\ jobs[w] = [s \in Slots |-> NoJob] THEN lost ELSE lost \cup {w}
        /\ UNCHANGED <<now, file, found>>
    BY DEF Restart
  <1>2. /\ own'[w] = Unknown /\ setting'[w] = NoList
        /\ \A s \in Slots : jobs'[w][s] = NoJob
        /\ \A v \in Workers : v # w => /\ own'[v] = own[v]
                                       /\ setting'[v] = setting[v]
                                       /\ jobs'[v] = jobs[v]
    BY <1>1 DEF IInv, TypeOK
  <1>3. ASSUME lost' = {}, PairsKnown, PicksFollowed, FilePaired
        PROVE  PairsKnown' /\ PicksFollowed' /\ FilePaired'
    <2>1. setting[w] = NoList /\ jobs[w] = [s \in Slots |-> NoJob]
      BY <1>1, <1>3 DEF LoopFree
    <2>2. \A s \in Slots : jobs[w][s] = NoJob
      BY <2>1
    <2>3. PairsKnown'
      BY <1>1, <1>2, <1>3 DEF PairsKnown
    <2>4. PicksFollowed'
      BY <1>2, <1>3 DEF PicksFollowed
    <2>5. \A v \in Workers : WillWriteList(v) => v # w
      BY <2>1, <2>2 DEF WillWriteList
    <2>6. \A v \in Workers : WillWriteList(v) => WillWriteList(v)'
      BY <1>2, <2>5 DEF WillWriteList
    <2> QED
      BY <1>1, <1>3, <2>3, <2>4, <2>6 DEF FilePaired
  <1>4. lost' = {} => lost = {}
    BY <1>1
  <1> QED
    BY <1>1, <1>3, <1>4 DEF PairInv

\* The clock does not touch the pairs.
LEMMA TickKeepsPairs == ASSUME IInv, PairInv, Tick PROVE PairInv'
  <1>1. now' = now + 1 /\ UNCHANGED <<own, setting, jobs, file, lock, lost, found>>
    BY DEF Tick
  <1>2. now' >= 1
    BY <1>1 DEF PairInv, IInv, TypeOK
  <1>3. (PairsKnown => PairsKnown') /\ (PicksFollowed => PicksFollowed')
    BY <1>1 DEF PairsKnown, PicksFollowed
  <1>4. FilePaired => FilePaired'
    BY <1>1 DEF FilePaired, WillWriteList
  <1> QED
    BY <1>1, <1>2, <1>3, <1>4 DEF PairInv

\* A list and a timestamp that do not belong together never stay in the file
\* with no write to come, as long as no write is lost.
THEOREM AllowlistPairHealsHolds == Spec => []AllowlistPairHeals
  <1>1. Init => PairInv
    <2> SUFFICES ASSUME Init PROVE PairInv
      OBVIOUS
    <2>1. now = 1 /\ found = {} /\ file.allow = Unknown
      BY DEF Init, EmptyFile
    <2>2. PairsKnown /\ PicksFollowed /\ FilePaired
      BY <2>1 DEF Init, PairsKnown, PicksFollowed, FilePaired
    <2> QED
      BY <2>1, <2>2 DEF PairInv
  <1>2. IInv /\ PairInv /\ [Next]_vars => PairInv'
    <2> SUFFICES ASSUME IInv, PairInv, [Next]_vars PROVE PairInv'
      OBVIOUS
    <2>1. ASSUME NEW w \in Workers, EnsureDisk(w) PROVE PairInv'
      BY <2>1, EnsureDiskKeepsPairs
    <2>2. ASSUME NEW w \in Workers, NEW m \in Models, RefreshDone(w, m) \/ RefreshFailed(w, m)
          PROVE  PairInv'
      BY <2>2, RefreshKeepsPairs
    <2>3. ASSUME NEW w \in Workers, NEW list \in Lists, SetList(w, list) PROVE PairInv'
      BY <2>3, SetListKeepsPairs
    <2>4. ASSUME NEW w \in Workers, SetStamp(w) PROVE PairInv'
      BY <2>4, SetStampKeepsPairs
    <2>5. ASSUME NEW w \in Workers, NEW s \in Slots, Acquire(w, s) PROVE PairInv'
      BY <2>5, AcquireKeepsPairs
    <2>6. ASSUME NEW w \in Workers, NEW s \in Slots, PickAllowlist(w, s) PROVE PairInv'
      BY <2>6, PickKeepsPairs
    <2>7. ASSUME NEW w \in Workers, NEW s \in Slots, Write(w, s) PROVE PairInv'
      BY <2>7, WriteKeepsPairs
    <2>8. ASSUME NEW w \in Workers, NEW s \in Slots, Drop(w, s) PROVE PairInv'
      BY <2>8, DropKeepsPairs
    <2>9. ASSUME NEW w \in Workers, Restart(w) PROVE PairInv'
      BY <2>9, RestartKeepsPairs
    <2>10. CASE Tick
      BY <2>10, TickKeepsPairs
    <2>11. CASE UNCHANGED vars
      BY <2>11 DEF vars, PairInv, PairsKnown, PicksFollowed, FilePaired, WillWriteList
    <2> QED
      BY <2>1, <2>2, <2>3, <2>4, <2>5, <2>6, <2>7, <2>8, <2>9, <2>10, <2>11 DEF Next
  <1>3. PairInv => AllowlistPairHeals
    BY DEF PairInv, FilePaired, WillWriteList, AllowlistPairHeals
  <1> QED
    BY Invariance, <1>1, <1>2, <1>3, PTL DEF Spec
=============================================================================
