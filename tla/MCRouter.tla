------------------------------ MODULE MCRouter ------------------------------
(* A provider of the file with two models and two keys, one from the       *)
(* environment, which adds a provider of its own and another of the same   *)
(* name; a chain of three targets, and a profile without fallback.         *)
EXTENDS Router, TLC

CONSTANTS c1, c2, s1, s2

MCClients == {c1, c2}
MCSessions == {s1, s2}
MCFileProviders ==
    <<[name |-> "openai", models |-> <<"m1", "m2">>,
       accounts |-> << <<"env:K1", "k2">> >>]>>
MCEnv ==
    [anthropic |-> [model |-> "m0", keys |-> << >>],
     openai |-> [model |-> "m1", keys |-> <<"k4">>],
     genai |-> [model |-> "m3", keys |-> <<"k3">>]]
MCEnvKeys == [k \in {"env:K1"} |-> "k1"]
MCFileProfiles ==
    [default |-> [targets |-> <<{"m1"}, {"m2"}, {"m3"}>>, mode |-> "",
                  fallback |-> ""],
     other |-> [targets |-> <<{"m3"}>>, mode |-> "balanced", fallback |-> "no"]]
Interchangeable == Permutations({c1, c2}) \cup Permutations({s1, s2})
=============================================================================
