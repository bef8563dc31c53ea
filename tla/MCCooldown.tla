----------------------------- MODULE MCCooldown -----------------------------
(* A small instance of Cooldown for TLC. *)
EXTENDS Cooldown, TLC

\* Every rule asks for the same broken TTL, longer than the input caps'.
MCBrokenTtl == [k \in Keys |-> 3]

MCSymmetry == Permutations(Keys) \cup Permutations(Threads)

MCSkipping(k) ==
    \/ \E st \in Stores : promised[st][k] # 0
    \/ \E t \in Threads : call[t] # Idle /\ call[t].key = k /\ call[t].op # "record"

MCCounting ==
    recorded > 0 \/ \E t \in Threads : call[t] # Idle /\ call[t].op = "record"

\* The 429s of both keys, or the skips of one: the two share no dictionary.
MCApart ==
    \/ \A k \in Keys : ~MCSkipping(k)
    \/ ~MCCounting /\ \A j, k \in Keys : MCSkipping(j) /\ MCSkipping(k) => j = k
=============================================================================
