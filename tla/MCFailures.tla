------------------------------ MODULE MCFailures ------------------------------
(***************************************************************************)
(* An instance of Failures for TLC: two requests that fail, on two         *)
(* providers and in lists with a third, under settings of which some raise.*)
(***************************************************************************)
EXTENDS Failures, TLC

CONSTANT Other  \* a provider that is named in lists of several only

\* No pin, an empty list, one provider, or one of several.
MCWires ==
    {NoPin} \cup
    [only : {TRUE}, slugs : {{}} \cup {{k} : k \in Slugs \ {Other}}
                                \cup {{k, Other} : k \in Slugs \ {Other}}]

MCBrokenTtl == [k \in Keys |-> 2]

\* Nothing is injected, or the client.
MCInjections == {[p \in {"rules", "client", "memory"} |-> p = "client" /\ c] : c \in BOOLEAN}

Unset ==
    [src \in {"rules", "telemetry", "allowlist", "cooldown"} |-> [attr |-> "none", env |-> "none"]]

MCSettings ==
    {Unset,
     [Unset EXCEPT !["rules"].env = "invalid"],
     [Unset EXCEPT !["rules"].attr = "valid", !["cooldown"].attr = "invalid"],
     [Unset EXCEPT !["telemetry"].attr = "valid"]}

\* The model is managed by the configured rules only.
MCRuleOf ==
    [o \in {"default", "explicit", "configured"} |->
        [managed |-> o = "configured", input_cap |-> TRUE, broken |-> o = "configured"]]

Say(status, says, list) == [status |-> status, says |-> says, list |-> list]

\* The ids of a deployment, which only a completion leaves behind.
Ids(path) == IF path = "completion" THEN Keys \ {Other} ELSE {Hash}

FailWith(path, wires, ids, answers) == [path : {path}, wire : wires, id : ids, answer : answers]

\* A 429 with any pin (streamed, with one provider's), a 400 with one provider's, or
\* with a list on a completion, and a 404 about the account.
MCFailureSet ==
    LET single == {w \in MCWires : Cardinality(w.slugs) = 1}
        lists  == {w \in MCWires : Cardinality(w.slugs) > 1}
        broken == Say(400, {"broken"}, NoList)
        both   == Say(400, {"input_cap", "broken"}, NoList)
    IN  UNION {FailWith(path, MCWires, Ids(path), {Say(429, {}, NoList)}) :
                    path \in Paths \ {"streaming"}}
        \cup FailWith("completion", lists, Ids("completion"), {broken})
        \cup UNION {FailWith(path, single, {Hash}, {broken, both}) : path \in Paths}
        \cup FailWith("streaming", single, {Hash}, {Say(429, {}, NoList)})
        \cup [path : Paths, wire : {NoPin}, id : {Hash},
              answer : {Say(404, {"broken"}, list) : list \in Lists}]

\* A read of a store that has no entry changes nothing and is left out.
ReadsThatReap ==
    call'[Router] \notin {call[Router], Memory!Idle} =>
        \E st \in Memory!Stores : /\ call'[Router].op = Memory!ReadOp[st]
                                  /\ until[st][call'[Router].key] # 0

Failed == {r \in Requests : failed[r] # NotYet}

\* Before the configuration is resolved one request fails, at time 0.
OneBefore == served \/ (now = 0 /\ Cardinality(Failed) <= 1)

\* The requests fail alike: 429s and 400s are stored apart.
Alike == \A r, s \in Failed : failed[r].answer.status = failed[s].answer.status

\* Once requests are served and have failed, what the configuration was resolved
\* from is nobody's input any more, the rules and the memory apart.
MCView ==
    <<failureVars, memoryVars, rules, served,
      IF served /\ Failed = Requests THEN <<>> ELSE configVars>>

MCSymmetry == Permutations(Requests) \cup Permutations(Slugs \ {Other})
=============================================================================
