----------------------------- MODULE McpClient -----------------------------
(***************************************************************************)
(* The MCP client (internal/mcp): the registry of servers, one connection  *)
(* to each over the pipes of a process (stdio) or over HTTP, the requests  *)
(* of the tools, and the cache of resource lists.                          *)
(*                                                                         *)
(* A caller is a goroutine of the tool executor or one server's share of   *)
(* list_mcp_resources; Main is the goroutine that connects, discovers and  *)
(* shuts down.  Requests are told apart by the order in which they are     *)
(* made.  Lines without effect on the client (log messages, progress, what *)
(* does not parse) are left out.  The servers are not the program's: they  *)
(* answer when and as they like, twice, or not at all.                     *)
(***************************************************************************)
EXTENDS Integers, Sequences, FiniteSets

CONSTANTS
    Stdio, Http,   \* servers, by their transport
    Oauth,         \* servers of Http with a token endpoint
    Callers,
    Main,
    Asks,          \* caller -> bound: operations it makes, of "call" (of one
                   \* server), "resources", "templates" (of all servers)
    MaxCalls,      \* bound: calls of the tools
    MaxPages,      \* bound: pages of a resource list; other lists have one
    MaxSurprises   \* bound: what the servers do unasked, in all: a list that
                   \* changes, a session forgotten, an answer sent twice, a
                   \* token refused, a stream ended, silence; before the
                   \* tools run they only refuse tokens and go silent

ASSUME McpAssumption ==
    /\ Stdio \cap Http = {} /\ Oauth \subseteq Http
    /\ Main \notin Callers
    /\ MaxCalls \in Nat /\ MaxPages \in Nat \ {0} /\ MaxSurprises \in Nat

Servers == Stdio \cup Http
Goroutines == Callers \cup {Main}
Nobody == "nobody"

VARIABLES
    stage,   \* of the program
    conn,    \* Client.proc or Client.transport: new, up, down
    mu,      \* Client.mu: who holds it
    call,    \* what a goroutine is doing
    runs,    \* request -> executions by its server; its length is jsonID
    calls,   \* calls of the tools so far
    slots,   \* Client.respChans: id -> the responses in the channel
    stuck,   \* the response its reader cannot put, while it holds muResp
    session, \* HTTPTransport.sessionID, 0 for none
    listens, \* HTTP servers whose BackgroundListen reads
    gen,     \* cacheGen
    cache,   \* server -> [gen, version] of ListMcpResourcesTool
    asked,   \* requests that a server has not answered
    out,     \* lines on their way from a server
    silent,  \* servers that are slow, hang, or are dead
    live,    \* the session an HTTP server knows
    version, \* of a server's resource list
    told,    \* the version the client was told of last
    twice,   \* stdio servers that sent an answer twice
    surprises, \* of the servers so far
    answered \* history: requests whose result was returned

server == <<asked, out, silent, live, version, twice, surprises>>
lists  == <<gen, cache, told>>
pipe   == <<slots, stuck>>
web    == <<session, listens>>
vars   == <<stage, conn, mu, call, runs, calls, pipe, web, lists, server, answered>>
made   == Len(runs)

\* What a goroutine does: `of' is the request it waits for, `kept' the one
\* that waits while a session is opened for it, `try' counts its posts, `with'
\* is their session, `first' the version of the first page of a list, `left'
\* the servers still to visit.
NoReply == [status |-> "none", version |-> 0, session |-> 0]
Idle == [pc |-> "idle", op |-> "none", srv |-> Nobody, of |-> 0, id |-> 0,
         kept |-> 0, try |-> 0, with |-> 0, again |-> FALSE, auth |-> FALSE,
         reply |-> NoReply, page |-> 0, first |-> 0, gen |-> 0, left |-> {}]
NoEntry == [gen |-> -1, version |-> 0]

Init ==
    /\ stage = "connect"
    /\ conn = [s \in Servers |-> "new"]
    /\ mu = [s \in Servers |-> Nobody]
    /\ call = [c \in Goroutines |-> Idle]
    /\ runs = << >> /\ calls = 0
    /\ slots = [s \in Stdio |-> << >>]
    /\ stuck = [s \in Stdio |-> << >>]
    /\ session = [s \in Http |-> 0]
    /\ listens = {}
    /\ gen = 0
    /\ cache = [s \in Servers |-> NoEntry]
    /\ asked = [s \in Servers |-> {}]
    /\ out = [s \in Servers |-> << >>]
    /\ silent = {}
    /\ live = [s \in Http |-> 1]
    /\ version = [s \in Servers |-> 1]
    /\ told = [s \in Servers |-> 1]
    /\ twice = {} /\ surprises = 0
    /\ answered = {}

-----------------------------------------------------------------------------
(* The end of a request and of a call.                                     *)

Surprise == surprises < MaxSurprises /\ surprises' = surprises + 1
SurpriseTools == stage \in {"run", "exit"} /\ Surprise

At(c, place) == stage # "gone" /\ call[c].pc = place
Becomes(c, r) == call' = [call EXCEPT ![c] = r]
Unlock(c) == mu' = [mu EXCEPT ![call[c].srv] = Nobody]

\* The request is over.
Bare(r) == [r EXCEPT !.of = 0, !.id = 0, !.kept = 0, !.try = 0, !.with = 0,
                     !.again = FALSE, !.auth = FALSE, !.reply = NoReply]

\* GetTools, GetPrompts, GetResourceTemplates: the clients one after another,
\* with a context that nobody cancels and clientsMu held.
Visits == {"tools", "templates"}
Visit(r, s) == [Bare(r) EXCEPT !.pc = "lock", !.srv = s, !.left = @ \ {s}, !.page = 0]

\* Where a goroutine goes when it is done with a server.
Done(c) ==
    LET r == call[c] IN
    IF r.op \in Visits /\ r.left # {}
    THEN /\ \E s \in r.left : Becomes(c, Visit(r, s))
         /\ UNCHANGED stage
    ELSE /\ Becomes(c, Idle)
         /\ stage' = IF r.op = "tools" THEN "run" ELSE stage

\* An answer with another page to fetch, or the last.
Paged(r) == r.op = "resources" /\ r.page + 1 < MaxPages
Answered(c) ==
    LET r == call[c]
        first == IF r.page = 0 THEN r.reply.version ELSE r.first
    IN  \/ /\ Paged(r)
           /\ Becomes(c, [Bare(r) EXCEPT !.pc = "ask", !.page = @ + 1, !.first = first])
           /\ UNCHANGED <<mu, stage>>
        \/ /\ r.op = "resources"
           /\ Becomes(c, [Bare(r) EXCEPT !.pc = "store", !.first = first])
           /\ Unlock(c) /\ UNCHANGED stage
        \/ /\ r.op # "resources"
           /\ Unlock(c) /\ Done(c)

\* An error of Connect ends the program, before ShutdownAll is deferred.
Failed(c) ==
    /\ Unlock(c)
    /\ IF call[c].op = "initialize"
       THEN Becomes(c, Idle) /\ stage' = "gone"
       ELSE Done(c)

-----------------------------------------------------------------------------
(* The operations.                                                         *)

Begin(c, r) ==
    /\ stage = "run" /\ At(c, "idle") /\ calls < MaxCalls /\ r.op \in Asks[c]
    /\ Becomes(c, r) /\ calls' = calls + 1
    /\ UNCHANGED <<stage, conn, mu, runs, pipe, web, lists, server, answered>>

\* One request of one server: a call of one of its tools, a resource, a prompt.
Single(c, s) == Begin(c, [Idle EXCEPT !.pc = "lock", !.op = "call", !.srv = s])
CallTool(c, s) == Single(c, s)
ReadResource(c, s) == Single(c, s)
GetPrompt(c, s) == Single(c, s)

\* The client has these too; no tool of the program calls them yet.
SubscribeResource(c, s) == Single(c, s)
UnsubscribeResource(c, s) == Single(c, s)
ListTasks(c, s) == Single(c, s)
CreateTask(c, s) == Single(c, s)
GetTask(c, s) == Single(c, s)
CancelTask(c, s) == Single(c, s)

\* getResourcesWithCache when there is no entry, or it is of another generation
\* or older than its time to live.  A hit changes nothing: see Hit.
GetResources(c, s) ==
    Begin(c, [Idle EXCEPT !.pc = "lock", !.op = "resources", !.srv = s, !.gen = gen])

\* One request of every server.
All(c) ==
    \E s \in Servers :
        Begin(c, Visit([Idle EXCEPT !.op = "templates", !.left = Servers], s))
GetPrompts(c) == All(c)
GetResourceTemplates(c) == All(c)

Lock(c) ==
    LET s == call[c].srv IN
    /\ At(c, "lock") /\ mu[s] = Nobody
    /\ IF conn[s] = "up"
       THEN /\ mu' = [mu EXCEPT ![s] = c]
            /\ Becomes(c, [call[c] EXCEPT !.pc = "ask"])
            /\ UNCHANGED stage
       ELSE Done(c) /\ UNCHANGED mu
    /\ UNCHANGED <<conn, runs, calls, pipe, web, lists, server, answered>>

\* The entry gets the generation that was read before the list was fetched.
StoreWith(c, g) ==
    /\ At(c, "store")
    /\ cache' = [cache EXCEPT ![call[c].srv] = [gen |-> g, version |-> call[c].first]]
    /\ Becomes(c, Idle)
    /\ UNCHANGED <<stage, conn, mu, runs, calls, pipe, web, gen, told, server, answered>>

\* The same if the generation were read when the entry is stored.
StoreLate(c) == StoreWith(c, gen)
Store(c) == StoreWith(c, call[c].gen)

-----------------------------------------------------------------------------
(* Requests over the pipes of a process.                                   *)

NextJSONID(s) == made + 1

Channel(s, id, ch) ==
    slots' = [slots EXCEPT ![s] = [i \in DOMAIN @ \cup {id} |-> IF i = id THEN ch ELSE @[i]]]

\* sendRequestStdio: the channel is registered, then the request is written.
SendRequestStdio(c) ==
    LET s == call[c].srv
        id == NextJSONID(s)
    IN  /\ At(c, "ask") /\ s \in Stdio /\ stuck[s] = << >>
        /\ runs' = Append(runs, 0)
        /\ Channel(s, id, << >>)
        /\ \/ /\ asked' = [asked EXCEPT ![s] = @ \cup {[of |-> made + 1, id |-> id]}]
              /\ Becomes(c, [call[c] EXCEPT !.pc = "wait", !.of = made + 1, !.id = id])
           \/ /\ s \in silent /\ UNCHANGED asked
              /\ Becomes(c, [call[c] EXCEPT !.pc = "broken", !.of = made + 1, !.id = id])
        /\ UNCHANGED <<stage, conn, mu, calls, stuck, web, lists, out, silent, live,
                       version, twice, surprises, answered>>

Waits(c) == At(c, "wait") /\ slots[call[c].srv][call[c].id] = << >>

Receive(c) ==
    LET r == call[c] IN
    /\ At(c, "wait") /\ ~Waits(c)
    /\ Channel(r.srv, r.id, << >>)
    /\ Becomes(c, [r EXCEPT !.pc = "remove", !.of = 0,
                    !.reply = [NoReply EXCEPT !.status = "ok",
                                  !.version = slots[r.srv][r.id][1].version]])
    /\ answered' = answered \cup {slots[r.srv][r.id][1].of}
    /\ UNCHANGED <<stage, conn, mu, runs, calls, stuck, web, lists, server>>

GiveUp(c, place) ==
    /\ At(c, place)
    /\ Becomes(c, [call[c] EXCEPT !.pc = "remove", !.of = 0])
    /\ UNCHANGED <<stage, conn, mu, runs, calls, pipe, web, lists, server, answered>>

\* The deferred delete, then the result or the error.
Remove(c) ==
    LET r == call[c] IN
    /\ At(c, "remove") /\ stuck[r.srv] = << >>
    /\ slots' = [slots EXCEPT ![r.srv] = [i \in DOMAIN @ \ {r.id} |-> @[i]]]
    /\ IF r.reply.status = "ok" THEN Answered(c) ELSE Failed(c)
    /\ UNCHANGED <<conn, runs, calls, stuck, web, lists, server, answered>>

\* handleNotification: a resource or the list of them changed.
Notified(s, line) ==
    /\ gen' = gen + 1
    /\ told' = [told EXCEPT ![s] = line.version]
    /\ UNCHANGED cache

\* loop: a notification, or a response for the channel of its ID.  The send
\* blocks when the channel is full, with muResp held.
Deliver(s) ==
    LET line == Head(out[s]) IN
    /\ stage # "gone" /\ s \in Stdio /\ stuck[s] = << >> /\ out[s] # << >>
    /\ out' = [out EXCEPT ![s] = Tail(@)]
    /\ IF line.id = 0
       THEN Notified(s, line) /\ UNCHANGED pipe
       ELSE /\ UNCHANGED lists
            /\ IF line.id \notin DOMAIN slots[s]
               THEN UNCHANGED pipe
               ELSE IF slots[s][line.id] = << >>
               THEN Channel(s, line.id, <<line>>) /\ UNCHANGED stuck
               ELSE stuck' = [stuck EXCEPT ![s] = <<line>>] /\ UNCHANGED slots
    /\ UNCHANGED <<stage, conn, mu, call, runs, calls, web, asked, silent, live,
                   version, twice, surprises, answered>>

Unblock(s) ==
    /\ stage # "gone" /\ stuck[s] # << >> /\ slots[s][stuck[s][1].id] = << >>
    /\ Channel(s, stuck[s][1].id, stuck[s])
    /\ stuck' = [stuck EXCEPT ![s] = << >>]
    /\ UNCHANGED <<stage, conn, mu, call, runs, calls, web, lists, server, answered>>

-----------------------------------------------------------------------------
(* Requests over HTTP.                                                     *)

\* A post of request r.of by c, which the server has not yet handled.
Post(c, r, opens) ==
    /\ Becomes(c, r)
    /\ asked' = [asked EXCEPT ![r.srv] = @ \cup
                   {[of |-> r.of, by |-> c, try |-> r.try, with |-> r.with, opens |-> opens]}]
    /\ UNCHANGED <<out, silent, live, version, twice, surprises>>

Opens(r) == r.op = "initialize" \/ r.kept # 0

SendRequest(c) ==
    LET r == call[c] IN
    /\ At(c, "ask") /\ r.srv \in Http
    /\ runs' = Append(runs, 0)
    /\ Post(c, [r EXCEPT !.pc = "posted", !.of = made + 1, !.try = 1,
                         !.with = session[r.srv]], Opens(r))
    /\ UNCHANGED <<stage, conn, mu, calls, pipe, web, lists, answered>>

Replied(c, status) == At(c, "posted") /\ call[c].reply.status = status

\* The session is kept and the response parsed; the response to the handshake
\* of doRequest lets the request that was kept be posted again, once.
HttpOk(c) ==
    LET r == call[c] IN
    /\ Replied(c, "ok")
    /\ session' = IF r.reply.session = 0 THEN session
                  ELSE [session EXCEPT ![r.srv] = r.reply.session]
    /\ answered' = answered \cup {r.of}
    /\ IF r.kept = 0
       THEN Answered(c) /\ UNCHANGED server
       ELSE /\ Post(c, [r EXCEPT !.of = r.kept, !.kept = 0, !.try = 2, !.again = TRUE,
                          !.auth = FALSE, !.reply = NoReply,
                          !.with = session'[r.srv]], FALSE)
            /\ UNCHANGED <<mu, stage>>
    /\ UNCHANGED <<conn, runs, calls, pipe, listens, lists>>

\* The same if any error were taken for the end of the session.
IsSessionExpiredAlways(r) == TRUE
IsSessionExpired(r) == r.reply.status = "gone"

\* A post has failed: a new session is opened if that was the reason, for the
\* first post of doRequest.
HttpError(c, why) ==
    LET r == call[c] IN
    /\ At(c, "posted") /\ why
    /\ session' = IF r.reply.status = "gone" THEN [session EXCEPT ![r.srv] = 0] ELSE session
    /\ IF IsSessionExpired(r) /\ ~r.again /\ ~Opens(r)
       THEN /\ runs' = Append(runs, 0)
            /\ Post(c, [r EXCEPT !.of = made + 1, !.kept = r.of, !.try = 1, !.auth = FALSE,
                          !.reply = NoReply, !.with = session'[r.srv]], TRUE)
            /\ UNCHANGED <<mu, stage>>
       ELSE Failed(c) /\ UNCHANGED <<runs, server>>
    /\ UNCHANGED <<conn, calls, pipe, listens, lists, answered>>

\* 404; 401 when no token is stored, or the refresh fails, or it did not help.
HttpRefused(c) == HttpError(c, call[c].reply.status \in {"gone", "denied"})

\* The same if the HTTP client had no timeout.
HttpTimeoutUnset(c) == FALSE

\* A timeout or another status.
HttpTimeout(c) ==
    HttpError(c, call[c].reply.status \in {"none", "ok"} /\ call[c].srv \in silent)

\* The context of a call of the tools ends: an interrupt, or a sibling failed.
\* It is not looked at while the call waits for the lock.
ContextDone(c) ==
    /\ call[c].op \in {"call", "resources"}
    /\ GiveUp(c, "wait") \/ HttpError(c, call[c].reply.status \in {"none", "ok"})

\* 401 with a refresh token in the store: the post is repeated with the new
\* access token, once, in the session of the first.
RefreshToken(c) ==
    LET r == call[c] IN
    /\ Replied(c, "denied") /\ ~r.auth
    /\ Post(c, [r EXCEPT !.try = @ + 2, !.auth = TRUE, !.reply = NoReply], Opens(r))
    /\ UNCHANGED <<stage, conn, mu, runs, calls, pipe, web, lists, answered>>

\* A notification in the stream of BackgroundListen, or before the response in
\* the stream that answers a post.
HttpNotified(s) ==
    /\ stage # "gone" /\ s \in Http /\ out[s] # << >>
    /\ s \in listens \/ \E c \in Goroutines : call[c].srv = s /\ Replied(c, "ok")
    /\ Notified(s, Head(out[s]))
    /\ out' = [out EXCEPT ![s] = Tail(@)]
    /\ UNCHANGED <<stage, conn, mu, call, runs, calls, pipe, web, asked, silent, live,
                   version, twice, surprises, answered>>

\* BackgroundListen is refused, its stream ends, or the timeout of the HTTP
\* client ends it: nothing listens again.
ListenEnds(s) ==
    /\ stage # "gone" /\ s \in listens /\ SurpriseTools
    /\ listens' = listens \ {s}
    /\ out' = [out EXCEPT ![s] = << >>]
    /\ UNCHANGED <<session, call, asked, conn, stage, mu, runs, calls, pipe, lists,
                   silent, live, version, twice, answered>>

-----------------------------------------------------------------------------
(* Main: ConnectAll, GetTools, ShutdownAll.                                *)

Handshake(s) == [Idle EXCEPT !.pc = "ask", !.op = "initialize", !.srv = s]
Connect(s) ==
    /\ stage = "connect" /\ At(Main, "idle") /\ conn[s] = "new"
    /\ conn' = [conn EXCEPT ![s] = "up"]
    /\ mu' = [mu EXCEPT ![s] = Main]
    /\ Becomes(Main, Handshake(s))
    /\ listens' = listens \cup ({s} \cap Http)
    /\ UNCHANGED <<stage, runs, calls, pipe, session, lists, server, answered>>

\* The process of a server cannot be started.
StartFails(s) ==
    /\ stage = "connect" /\ At(Main, "idle") /\ s \in Stdio /\ conn[s] = "new"
    /\ stage' = "gone"
    /\ UNCHANGED <<conn, mu, call, runs, calls, pipe, web, lists, server, answered>>

GetTools ==
    /\ stage = "connect" /\ At(Main, "idle") /\ \A s \in Servers : conn[s] # "new"
    /\ stage' = "discover"
    /\ gen' = gen + 1
    /\ \E s \in Servers :
          Becomes(Main, Visit([Idle EXCEPT !.op = "tools", !.left = Servers], s))
    /\ UNCHANGED <<conn, mu, runs, calls, pipe, web, cache, told, server, answered>>

\* Calls of subagents may be under way; the last call has begun.
ShutdownAll ==
    /\ stage = "run" /\ calls = MaxCalls
    /\ stage' = "exit"
    /\ UNCHANGED <<conn, mu, call, runs, calls, pipe, web, lists, server, answered>>

\* HTTPTransport.Close: the session ends; the server is asked to forget it, and
\* whatever it says the client forgets it.
Close(s) == session' = [t \in Http |-> IF t = s THEN 0 ELSE session[t]]

\* Under the write lock of clientsMu, and the lock of the client.
Disconnect(s) ==
    /\ stage = "exit" /\ conn[s] = "up" /\ mu[s] = Nobody
    /\ \A c \in Callers : call[c].op # "templates"
    /\ conn' = [conn EXCEPT ![s] = "down"]
    /\ Close(s)
    /\ gen' = gen + 1
    /\ asked' = [asked EXCEPT ![s] = {}]
    /\ UNCHANGED <<stage, mu, call, runs, calls, pipe, listens, cache, told,
                   out, silent, live, version, twice, surprises, answered>>

\* All are down, or five seconds are over: the process and its pipes are gone.
Exit ==
    /\ stage = "exit"
    /\ stage' = "gone"
    /\ call' = [c \in Goroutines |-> Idle]
    /\ mu' = [s \in Servers |-> Nobody]
    /\ slots' = [s \in Stdio |-> << >>] /\ stuck' = [s \in Stdio |-> << >>]
    /\ out' = [s \in Servers |-> << >>] /\ asked' = [s \in Servers |-> {}]
    /\ UNCHANGED <<conn, runs, calls, web, lists, silent, live, version, twice,
                   surprises, answered>>

-----------------------------------------------------------------------------
(* The servers.                                                            *)

Serves(s) == stage # "gone" /\ conn[s] = "up"
Stays == UNCHANGED <<stage, conn, mu, calls, pipe, web, lists, answered>>

\* A server executes a request and answers it, once or twice.
Answer(s, q) ==
    LET line == [id |-> q.id, of |-> q.of, version |-> version[s]] IN
    /\ Serves(s) /\ s \in Stdio
    /\ asked' = [asked EXCEPT ![s] = @ \ {q}]
    /\ runs' = [runs EXCEPT ![q.of] = @ + 1]
    /\ \/ /\ out' = [out EXCEPT ![s] = Append(@, line)]
          /\ UNCHANGED <<twice, surprises>>
       \/ /\ SurpriseTools
          /\ out' = [out EXCEPT ![s] = @ \o <<line, line>>]
          /\ twice' = twice \cup {s}
    /\ Stays /\ UNCHANGED <<call, silent, live, version>>

\* An HTTP server handles a post: a session it does not know is gone.
Known(s, q) == q.opens \/ q.with = live[s]
Handle(s, q, status) ==
    LET r == call[q.by] IN
    /\ Serves(s) /\ s \in Http
    /\ asked' = [asked EXCEPT ![s] = @ \ {q}]
    /\ \/ /\ status = IF Known(s, q) THEN "ok" ELSE "gone"
          /\ UNCHANGED surprises
       \/ status = "denied" /\ s \in Oauth /\ Surprise
    /\ runs' = IF status = "ok" THEN [runs EXCEPT ![q.of] = @ + 1] ELSE runs
    /\ call' = IF r.pc = "posted" /\ r.of = q.of /\ r.try = q.try
               THEN [call EXCEPT ![q.by].reply =
                        [status |-> status, version |-> version[s],
                         session |-> IF q.opens THEN live[s] ELSE 0]]
               ELSE call
    /\ Stays /\ UNCHANGED <<out, silent, live, version, twice>>

\* The list of resources changes and the client is told.
Change(s) ==
    /\ Serves(s) /\ SurpriseTools
    /\ version' = [version EXCEPT ![s] = @ + 1]
    /\ out' = [out EXCEPT ![s] = Append(@, [id |-> 0, of |-> 0, version |-> version[s] + 1])]
    /\ Stays /\ UNCHANGED <<call, asked, silent, live, twice, runs>>

Expire(s) ==
    /\ Serves(s) /\ s \in Http /\ SurpriseTools
    /\ live' = [live EXCEPT ![s] = @ + 1]
    /\ Stays /\ UNCHANGED <<call, asked, out, silent, version, twice, runs>>

\* From now on a server owes no answer; one that is dead reads nothing either.
GoSilent(s) ==
    /\ Serves(s) /\ s \notin silent /\ Surprise
    /\ silent' = silent \cup {s}
    /\ Stays /\ UNCHANGED <<call, asked, out, live, version, twice, runs>>

-----------------------------------------------------------------------------
Operation(c) ==
    \/ \E s \in Servers :
          \/ CallTool(c, s) \/ ReadResource(c, s) \/ GetPrompt(c, s) \/ GetResources(c, s)
          \/ SubscribeResource(c, s) \/ UnsubscribeResource(c, s)
          \/ ListTasks(c, s) \/ CreateTask(c, s) \/ GetTask(c, s) \/ CancelTask(c, s)
    \/ GetPrompts(c) \/ GetResourceTemplates(c)
Step(c) ==
    \/ Lock(c) \/ Store(c)
    \/ SendRequestStdio(c) \/ Receive(c) \/ GiveUp(c, "broken") \/ Remove(c)
    \/ SendRequest(c) \/ HttpOk(c) \/ HttpRefused(c) \/ HttpTimeout(c)
    \/ RefreshToken(c)
Reader(s) == Deliver(s) \/ HttpNotified(s)
Responds(s) ==
    \E q \in asked[s] :
        Answer(s, q) \/ \E status \in {"ok", "gone", "denied"} : Handle(s, q, status)

Next ==
    \/ \E c \in Callers : Operation(c) \/ ContextDone(c)
    \/ \E c \in Goroutines : Step(c)
    \/ \E s \in Servers : Reader(s) \/ ListenEnds(s) \/ Responds(s)
    \/ \E s \in Servers : Change(s) \/ Expire(s) \/ GoSilent(s)
    \/ \E s \in Stdio : Unblock(s)
    \/ \E s \in Servers : Connect(s) \/ StartFails(s) \/ Disconnect(s)
    \/ GetTools \/ ShutdownAll \/ Exit

\* The scheduler runs every goroutine that can run, the HTTP client ends a post
\* after its timeout (HttpTimeout), and a server answers until it goes silent.
Fairness ==
    /\ \A c \in Callers : WF_vars(Step(c))
    /\ \A s \in Servers : WF_vars(Reader(s)) /\ WF_vars(s \notin silent /\ Responds(s))
    /\ \A s \in Stdio : WF_vars(Unblock(s))

Spec == Init /\ [][Next]_vars /\ Fairness

-----------------------------------------------------------------------------
(* Properties.                                                             *)

\* An entry of the cache that a list would be answered with.
Hit(s) == cache[s].gen = gen

\* A cached list is no older than the last change the client was told of: an
\* entry that was fetched before a notification is never served after it,
\* although the two are handled by different goroutines (list_resources.go).
FreshList == \A s \in Servers : Hit(s) => cache[s].version >= told[s]

\* A request is executed at most once and its result goes to its caller,
\* through the channels of respChans, the new session of doRequest and the
\* new token of SendRequest.
Waiting == {call[c].of : c \in Goroutines} \cup {call[c].kept : c \in Goroutines}
Requests == INSTANCE RemoteCalls WITH open <- Waiting \ {0}
ImplementsRemoteCalls == Requests!Spec

\* Every call returns, whether its context ends or not, but for a call to a
\* process that goes silent or answers a request twice: nothing bounds the
\* wait for a pipe, nor the wait for the lock of its client.  A call over HTTP
\* returns always.
EveryCallReturns ==
    \A c \in Callers :
        \/ []<>(stage = "gone" \/ call[c].pc = "idle")
        \/ <>[](call[c].srv \in Stdio \cap (silent \cup twice))
=============================================================================
