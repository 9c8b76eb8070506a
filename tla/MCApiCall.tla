----------------------------- MODULE MCApiCall -----------------------------
(* Every provider, three answers, and refusals of each fate.               *)
EXTENDS ApiCall

E(status, code, words) == [status |-> status, code |-> code, words |-> words]
MCErrors == {E(529, "unknown", "plain"), E(500, "unknown", "plain"),
             E(500, "unknown", "quota"), E(429, "server_overload", "plain"),
             E(400, "rate_limit", "plain"), E(404, "unknown", "plain")}
MCAnswers == {<<"text">>, <<"thinking", "text", "tool_use">>,
              <<"text", "tool_use", "text">>}
=============================================================================
