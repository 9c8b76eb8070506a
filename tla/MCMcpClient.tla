---------------------------- MODULE MCMcpClient ----------------------------
(* One server of each transport; two goroutines of the tools.              *)
EXTENDS McpClient, TLC

CONSTANTS c1, c2
MCStdio == {"pipe"}
MCHttp == {"web"}
MCCallers == {c1, c2}
MCAsks == (c1 :> {"call", "resources"}) @@ (c2 :> {"resources", "templates"})
=============================================================================
