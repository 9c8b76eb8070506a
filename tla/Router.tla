------------------------------- MODULE Router -------------------------------
(***************************************************************************)
(* The provider router (internal/api/router): one Router with its health   *)
(* registry, the sticky state it keeps for each session, and the           *)
(* StickyClients that retry, change key and fall back to another model.    *)
(* Clients run at the same time; several may serve one session, and other  *)
(* parts of the program switch the profile of the one router.              *)
(*                                                                         *)
(* The configuration is the one of the file with the providers of the      *)
(* environment behind it.  A slot is a way to reach a model: the indices   *)
(* of a provider, a model, an account and a key, in the order of the loops *)
(* of findCandidates and nextKeyLocked.                                    *)
(***************************************************************************)
EXTENDS Integers, Sequences

CONSTANTS
    Clients,     \* StickyClients
    Sessions,    \* session IDs
    FileProviders,\* of the file: sequence of [name, models, accounts]
    Env,         \* provider of the environment -> [model, keys]
    FileProfiles,\* name -> [targets, mode, fallback]; a target is a set of models
    EnvKeys,     \* keys written as env:NAME -> the value of the variable
    MaxRetries,  \* StickyClient.maxRetries
    MaxFailures, \* HealthRegistry.maxFailures
    MaxCalls     \* bound: SendMessage calls of a client

ASSUME RouterAssumption ==
    /\ MaxRetries \in Nat /\ MaxFailures \in Nat \ {0} /\ MaxCalls \in Nat
    /\ FileProviders \in Seq([name : STRING, models : Seq(STRING), accounts : Seq(Seq(STRING))])
    /\ Env \in [{"anthropic", "openai", "genai"} -> [model : STRING, keys : Seq(STRING)]]
    /\ FileProfiles \in [DOMAIN FileProfiles ->
                           [targets : Seq(SUBSET STRING), mode : STRING, fallback : STRING]]

-----------------------------------------------------------------------------
(* The configuration: Init of router.go, config.go, environment.go.        *)

\* SynthesizeConfigFromEnv and mergeEnvProviders: a provider that has a key in
\* the environment is added, unless the file has one of its name.
FromEnv(n) == [name |-> n, models |-> <<Env[n].model>>, accounts |-> <<Env[n].keys>>]
Added(n) ==
    IF Env[n].keys = << >> \/ \E i \in DOMAIN FileProviders : FileProviders[i].name = n
    THEN << >> ELSE <<FromEnv(n)>>

\* The file's, then those of the environment by their priority.
Providers == FileProviders \o Added("anthropic") \o Added("openai") \o Added("genai")

\* applyDefaults: the omitted fields of a profile.
Defaulted(p) ==
    [targets |-> p.targets, sticky |-> p.mode \in {"", "sticky"},
     fallback |-> p.fallback # "no"]
Profiles == [n \in DOMAIN FileProfiles |-> Defaulted(FileProfiles[n])]
DefaultProfile == "default"

\* ResolveKeys.
Resolved(k) == IF k \in DOMAIN EnvKeys THEN EnvKeys[k] ELSE k

\* A slot is <<provider, model, account, key>>, with a key that is not empty.
Walk(i) ==
    LET p == Providers[i] IN
    {<<i, m, a, k>> : m \in DOMAIN p.models,
                      a \in DOMAIN p.accounts,
                      k \in UNION {DOMAIN p.accounts[b] : b \in DOMAIN p.accounts}}
KeyAt(e) ==
    LET keys == Providers[e[1]].accounts[e[3]]
    IN  IF e[4] \in DOMAIN keys THEN Resolved(keys[e[4]]) ELSE ""
Slots == {e \in UNION {Walk(i) : i \in DOMAIN Providers} : KeyAt(e) # ""}
Model(e) == Providers[e[1]].models[e[2]]

None == << >>      \* no endpoint

\* The first of a set of slots in the order of the loops.
Before(e, f) ==
    \E n \in 1..4 : e[n] < f[n] /\ \A k \in 1..(n - 1) : e[k] = f[k]
First(S) == CHOOSE e \in S : \A f \in S \ {e} : Before(e, f)
Least(S) == CHOOSE n \in S : \A k \in S : n <= k

VARIABLES
    profileName,  \* Router.profileName
    session,  \* Router.sessions
    failures, \* HealthRegistry.failures
    cooling,  \* slots whose cooldown has not expired
    serves,   \* client -> its session
    client    \* the StickyClients, with the call each is making

routerVars == <<profileName, session, failures, cooling, serves, client>>

\* SessionState.  `under' is ActiveEndpoint.Profile.  History: `moved', the
\* profile was switched while the session was in use; `behind', a fallback
\* went past a target without candidates, which TargetIndex does not show.
Unbound == [endpoint |-> None, under |-> DefaultProfile, target |-> 0, key |-> 0,
            moved |-> FALSE, behind |-> FALSE]
Bound(s) == session[s].endpoint # None

\* A StickyClient.  `built': s.client is not nil.
Fresh == [pc |-> "idle", endpoint |-> None, built |-> FALSE, attempt |-> 0,
          calls |-> 0]

RouterInit ==
    /\ profileName = DefaultProfile
    /\ session = [s \in Sessions |-> Unbound]
    /\ failures = [i \in Slots |-> 0]
    /\ cooling = {}
    /\ serves \in [Clients -> Sessions]
    /\ client = [c \in Clients |-> Fresh]

-----------------------------------------------------------------------------
(* HealthRegistry.                                                         *)

IsHealthy(i) == i \notin cooling /\ failures[i] < MaxFailures

\* Counts from the limit on are not told apart.
RecordFailure(i) ==
    LET n == IF failures[i] < MaxFailures THEN failures[i] + 1 ELSE MaxFailures
    IN  /\ failures' = [failures EXCEPT ![i] = n]
        /\ cooling' = IF n = MaxFailures THEN cooling \cup {i} ELSE cooling

RecordSuccess(i) ==
    /\ failures' = [failures EXCEPT ![i] = 0]
    /\ cooling' = cooling \ {i}

HealthStays == UNCHANGED <<failures, cooling>>

-----------------------------------------------------------------------------
(* Router: what it may select.                                             *)

Chain == Profiles[profileName].targets

\* The same if a target were taken for an entry of any profile.
MatchesAny(k, i) == \E p \in DOMAIN Profiles : \E t \in DOMAIN Profiles[p].targets :
                        Model(i) \in Profiles[p].targets[t]

\* findCandidates; no target at this index matches every model.
Matches(k, i) == k >= Len(Chain) \/ Model(i) \in Chain[k + 1]
Candidates(k) == {i \in Slots : Matches(k, i) /\ IsHealthy(i)}

\* nextKeyLocked looks no further than one key behind KeyIndex.
NextKeys(st, i) ==
    {j \in Slots :
        /\ j[1] = i[1] /\ Model(j) = Model(i)
        /\ KeyAt(j) # KeyAt(i)
        /\ j[4] - 1 <= st.key + 1
        /\ IsHealthy(j)}

\* nextTargetLocked: the targets behind TargetIndex that have a candidate.
Further(st) == {k \in (st.target + 1)..(Len(Chain) - 1) : Candidates(k) # {}}

\* The same if TargetIndex stayed where it is.
FallBackInPlace(s) ==
    [session[s] EXCEPT !.endpoint = First(Candidates(Least(Further(session[s])))),
                       !.under = profileName, !.key = 0]

\* The first candidate of the first of them; TargetIndex moves by one.
FallBack(s) ==
    [session[s] EXCEPT !.endpoint = First(Candidates(Least(Further(session[s])))),
                       !.under = profileName, !.target = @ + 1, !.key = 0,
                       !.behind = @ \/ Least(Further(session[s])) > session[s].target + 1]
CanFallBack(s) == Profiles[profileName].fallback /\ Further(session[s]) # {}

-----------------------------------------------------------------------------
(* StickyClient.                                                           *)

ClientAt(c, place) == client[c].pc = place
ClientBecomes(c, r) == client' = [client EXCEPT ![c] = r]
Return(c) == ClientBecomes(c, [client[c] EXCEPT !.pc = "idle", !.attempt = 0])

\* The next attempt of the loop with endpoint e, or its end.
Again(c, e) ==
    LET r == [client[c] EXCEPT !.endpoint = e, !.built = @ /\ e = client[c].endpoint]
    IN  IF r.attempt < MaxRetries
        THEN ClientBecomes(c, [r EXCEPT !.pc = "send", !.attempt = @ + 1])
        ELSE ClientBecomes(c, [r EXCEPT !.pc = "idle", !.attempt = 0])
Retry(c) == Again(c, client[c].endpoint)

\* SelectEndpoint: the sticky endpoint, whatever its health, or any candidate
\* of the session's target (the counter is shared by all sessions); an error
\* when the file has profiles but not the one in force at the start.
Known == profileName \in DOMAIN Profiles
Sticks(s) == Bound(s) /\ Profiles[profileName].sticky
Selectable(s) ==
    IF Sticks(s) THEN {session[s].endpoint} ELSE Candidates(session[s].target)
Select(s, e) ==
    /\ Known
    /\ e \in Selectable(s)
    /\ session' = IF Sticks(s) THEN session
                  ELSE [session EXCEPT ![s].endpoint = e, ![s].under = profileName]

\* An endpoint is selected for the first call of a client only.
Begins(c, r) ==
    /\ ClientAt(c, "idle") /\ client[c].calls < MaxCalls
    /\ \/ /\ client[c].endpoint # None
          /\ ClientBecomes(c, [r EXCEPT !.calls = @ + 1])
          /\ UNCHANGED session
       \/ /\ client[c].endpoint = None
          /\ \E e \in Slots :
                /\ Select(serves[c], e)
                /\ ClientBecomes(c, [r EXCEPT !.calls = @ + 1, !.endpoint = e])
    /\ HealthStays /\ UNCHANGED <<profileName, serves>>

SendMessage(c) == Begins(c, [client[c] EXCEPT !.pc = "send"])

\* The streaming call leaves retries and errors to its caller.
SendMessageStream(c) == Begins(c, [client[c] EXCEPT !.built = TRUE])

RouterStays == UNCHANGED <<profileName, session, serves>>

\* ensureClient may fail; the endpoint stays.
NoClient(c) ==
    /\ ClientAt(c, "send") /\ ~client[c].built
    /\ Return(c)
    /\ HealthStays /\ RouterStays

Built(c) == [client[c] EXCEPT !.built = TRUE]

Succeed(c) ==
    /\ ClientAt(c, "send")
    /\ ClientBecomes(c, [Built(c) EXCEPT !.pc = "idle", !.attempt = 0])
    /\ RecordSuccess(client[c].endpoint)
    /\ RouterStays

\* Context exhausted, content filter, auth, permission, another 4xx, a permanent
\* error; or the context ends during a backoff.
FailFast(c) ==
    /\ ClientAt(c, "send")
    /\ ClientBecomes(c, [Built(c) EXCEPT !.pc = "idle", !.attempt = 0])
    /\ HealthStays /\ RouterStays

\* Rate limits, overload, server errors, timeouts: backoff, same key and model.
Transient(c) ==
    /\ ClientAt(c, "send")
    /\ ClientBecomes(c, IF client[c].attempt < MaxRetries
                  THEN [Built(c) EXCEPT !.attempt = @ + 1]
                  ELSE [Built(c) EXCEPT !.pc = "idle", !.attempt = 0])
    /\ HealthStays /\ RouterStays

\* An error of no category: at once again, each time counted as a failure (one
\* with a status of 429 or 5xx backs off and is counted at the last attempt).
Unknown(c) ==
    /\ ClientAt(c, "send")
    /\ ClientBecomes(c, IF client[c].attempt < MaxRetries
                  THEN [Built(c) EXCEPT !.attempt = @ + 1]
                  ELSE [Built(c) EXCEPT !.pc = "idle", !.attempt = 0])
    /\ RecordFailure(client[c].endpoint)
    /\ RouterStays

\* Quota or payment: the failure is recorded, then another key is asked for.
Quota(c) ==
    /\ ClientAt(c, "send")
    /\ ClientBecomes(c, [Built(c) EXCEPT !.pc = "key"])
    /\ RecordFailure(client[c].endpoint)
    /\ RouterStays

ModelNotFound(c) ==
    /\ ClientAt(c, "send")
    /\ ClientBecomes(c, [Built(c) EXCEPT !.pc = "target"])
    /\ RecordFailure(client[c].endpoint)
    /\ RouterStays

\* The same if the client kept its key when the session gets another.
NextEndpointUntold(c) ==
    /\ ClientAt(c, "key")
    /\ LET s == serves[c]
           keys == NextKeys(session[s], client[c].endpoint)
       IN  /\ Bound(s) /\ keys # {}
           /\ session' = [session EXCEPT ![s].endpoint = First(keys),
                                         ![s].under = profileName, ![s].key = @ + 1]
           /\ Retry(c)
    /\ HealthStays /\ UNCHANGED <<profileName, serves>>

\* NextEndpoint and tryNextKey: a target that it moved the session to is used
\* by the client only if it has the same model.
NextEndpoint(c) ==
    /\ ClientAt(c, "key")
    /\ LET s == serves[c]
           e == client[c].endpoint
           keys == NextKeys(session[s], e)
       IN  \/ /\ Bound(s) /\ keys # {}
              /\ session' = [session EXCEPT ![s].endpoint = First(keys),
                                            ![s].under = profileName,
                                            ![s].key = @ + 1]
              /\ Again(c, First(keys))
           \/ /\ Bound(s) /\ keys = {} /\ CanFallBack(s)
              /\ session' = [session EXCEPT ![s] = FallBack(s)]
              /\ IF Model(FallBack(s).endpoint) = Model(e)
                 THEN Again(c, FallBack(s).endpoint) ELSE Return(c)
           \/ /\ ~Bound(s) \/ (keys = {} /\ ~CanFallBack(s))
              /\ Return(c)
              /\ UNCHANGED session
    /\ HealthStays /\ UNCHANGED <<profileName, serves>>

TryNextTarget(c) ==
    /\ ClientAt(c, "target")
    /\ LET s == serves[c]
       IN  \/ /\ Bound(s) /\ CanFallBack(s)
              /\ session' = [session EXCEPT ![s] = FallBack(s)]
              /\ Again(c, FallBack(s).endpoint)
           \/ /\ ~(Bound(s) /\ CanFallBack(s))
              /\ Return(c)
              /\ UNCHANGED session
    /\ HealthStays /\ UNCHANGED <<profileName, serves>>

-----------------------------------------------------------------------------
(* What happens around the clients.                                        *)

CooldownOver(i) ==
    /\ i \in cooling
    /\ cooling' = cooling \ {i}
    /\ UNCHANGED <<profileName, session, failures, serves, client>>

\* A subagent with a profile of its own.
InUse(s) == Bound(s) \/ \E c \in Clients : serves[c] = s /\ client[c].endpoint # None
SetProfile(p) ==
    /\ p # profileName
    /\ profileName' = p
    /\ session' = [s \in Sessions |->
                     [session[s] EXCEPT !.moved = @ \/ InUse(s)]]
    /\ HealthStays /\ UNCHANGED <<serves, client>>

\* ClearSticky: the session is forgotten, a client keeps what it holds.
ClearSticky(s) ==
    /\ Bound(s)
    /\ session' = [session EXCEPT ![s] = [Unbound EXCEPT !.moved = session[s].moved]]
    /\ HealthStays /\ UNCHANGED <<profileName, serves, client>>

Call(c) == SendMessage(c) \/ SendMessageStream(c) \/ NoClient(c) \/ Succeed(c)
             \/ FailFast(c) \/ Transient(c) \/ Unknown(c)
Failover(c) == Quota(c) \/ ModelNotFound(c) \/ NextEndpoint(c) \/ TryNextTarget(c)

RouterNext ==
    \/ \E c \in Clients : Call(c) \/ Failover(c)
    \/ \E i \in Slots : CooldownOver(i)
    \/ \E p \in DOMAIN Profiles : SetProfile(p)
    \/ \E s \in Sessions : ClearSticky(s)

RouterSpec == RouterInit /\ [][RouterNext]_routerVars

-----------------------------------------------------------------------------
(* Properties.                                                             *)

Alone(c) == \A d \in Clients : serves[d] = serves[c] => d = c

\* The client of a session and the router agree on its endpoint, but for one
\* case: the router has moved the session to a target with another model and
\* the client, which asked for a key, has dropped the answer (sticky.go,
\* tryNextKey).  The session is then on a model that nobody calls.
Agreement ==
    \A c \in Clients :
        LET e == client[c].endpoint
            held == session[serves[c]].endpoint
        IN  (Alone(c) /\ e # None /\ held # None /\ e # held)
                => Model(e) # Model(held)

\* A session is on a model that a target of the profile names, as long as the
\* profile is not switched while the session is in use: a switch leaves the
\* old TargetIndex and the old model in force under the new profile's name.
OfProfile ==
    \A s \in Sessions :
        LET chain == Profiles[session[s].under].targets
        IN  (Bound(s) /\ ~session[s].moved /\ chain # << >>)
                => \E k \in DOMAIN chain : Model(session[s].endpoint) \in chain[k]

Disjoint(chain) == \A j, k \in DOMAIN chain : j # k => chain[j] \cap chain[k] = {}

\* A model that is not there is left: the fallback never sends the client to
\* the model that just failed, when no two targets name the same.  It does
\* after a target was skipped, for TargetIndex then points before the target
\* in use and the search finds it again (router.go, nextTargetLocked).
FallbackMoves ==
    [][\A c \in Clients :
          LET s == session[serves[c]] IN
          (/\ ClientAt(c, "target") /\ client'[c].pc = "send" /\ Alone(c)
           /\ ~s.moved /\ ~s.behind /\ Disjoint(Chain))
            => Model(client'[c].endpoint) # Model(client[c].endpoint)]_routerVars
=============================================================================
