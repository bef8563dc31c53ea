---------------------------- MODULE MCSharedCache ----------------------------
(* Small instances of SharedCache for TLC. *)
EXTENDS SharedCache, FiniteSets, TLC

\* Workers, slots, rules and allowlists are interchangeable.
MCSymmetry == Permutations(Workers) \cup Permutations(Slots) \cup Permutations(Fps) \cup Permutations(Lists)

\* A worker refreshed while its loads of the file failed.
MCLateLoad(w) == (memory[w] # EmptyMemory /\ ~loaded[w]) \/ replaced[w] # EmptyMemory

\* Two writes are pending at a time, of one worker or of two, and one at a time
\* after a loss; one worker keeps all of its writes, and one can load the file
\* early.
MCFewPending ==
    /\ Cardinality({<<w, s>> \in Workers \X Slots : jobs[w][s] # NoJob})
          <= (IF lost = {} THEN 2 ELSE 1)
    /\ lost # Workers
    /\ \A v, w \in Workers : MCLateLoad(v) /\ MCLateLoad(w) => v = w

\* One worker refreshes at a time, and no write is lost.
MCRoles ==
    /\ MCFewPending
    /\ lost = {}
    /\ \A v, w \in Workers : memory[v] # EmptyMemory /\ memory[w] # EmptyMemory => v = w
=============================================================================
