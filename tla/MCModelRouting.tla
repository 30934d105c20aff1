--------------------------- MODULE MCModelRouting ---------------------------
EXTENDS ModelRouting, TLC

\* The router and the gateway have a client for each call, the router at the URL of
\* the environment; the clients of gap are kept.
SomeConfig ==
    [providers |-> <<"router", "gateway", "gap">>,
     models |-> ("router" :> <<"m1">> @@ "gateway" :> <<"m1", "m2">> @@ "gap" :> <<"m1">>),
     url |-> ("router" :> "router.default" @@ "gateway" :> "gateway.default" @@ "gap" :> "gap.default"),
     name |-> ("router" :> "ROUTER_KEY" @@ "gateway" :> "GATEWAY_KEY" @@ "gap" :> "GAP_KEY"),
     main |-> ("router" :> "m1" @@ "gateway" :> "m1" @@ "gap" :> "m1"),
     agents |-> ("supervisor" :> [provider |-> "gap", model |-> "m1"]
                 @@ "report" :> [provider |-> "router", model |-> "m1"])]

SomeEdits ==
    {[kind |-> "route", agent |-> "supervisor", provider |-> "gateway", model |-> "m1"],
     [kind |-> "withdraw", left |-> <<"gateway", "router">>],
     [kind |-> "withdraw", left |-> <<"gap">>],
     [kind |-> "enable", provider |-> "gap", models |-> <<"m2", "m2", "m1">>],
     [kind |-> "enable", provider |-> "gateway", models |-> <<"m1">>],
     [kind |-> "url", provider |-> "router", url |-> "elsewhere"],
     [kind |-> "url", provider |-> "gap", url |-> "elsewhere"],
     [kind |-> "url", provider |-> "gap", url |-> "/"],
     [kind |-> "name", provider |-> "gap", name |-> "team_key"],
     [kind |-> "name", provider |-> "gap", name |-> "bad name"]}

\* k1 and k2 differ after the eighth character only.
SomePrefix == ("k1" :> "sk-proj-" @@ "k2" :> "sk-proj-" @@ "k3" :> "sk-live-")

SomeCleaned == [n \in Names |-> CASE n = "team_key" -> "TEAM_KEY"
                                  [] n = "bad name" -> None
                                  [] OTHER -> n]
SomeFallbacks == ("router" :> <<"ROUTER_KEY", "AI_API_KEY">>
                  @@ "gateway" :> <<"GATEWAY_KEY", "SNAPP_KEY", "AI_API_KEY">>
                  @@ "gap" :> <<"GAP_KEY", "AI_API_KEY">>)
SomeEnvKey == [n \in Names |-> IF n \in {"ROUTER_KEY", "SNAPP_KEY"} THEN "k3" ELSE NoKey]
SomeEnvUrl == ("router" :> "router.env" @@ "gateway" :> None @@ "gap" :> None)

Ring(n, k) == [m \in Names |-> IF m = n THEN k ELSE NoKey]
SomeRings == {Ring("GAP_KEY", k) : k \in Keys}
             \cup {Ring("TEAM_KEY", "k2"), Ring("GATEWAY_KEY", "k2")}
Symmetric == Permutations(Writers)
=============================================================================
