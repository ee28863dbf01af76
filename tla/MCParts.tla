------------------------------ MODULE MCParts ------------------------------
(***************************************************************************)
(* Conversations of up to four messages before the step, windows of every  *)
(* kind, loops of up to two iterations with two calls in an answer, or of  *)
(* three after preprocessors; every kind of data under every strategy; two *)
(* tool steps of up to three ticks. Two approvals, two starts of a         *)
(* schedule, six lines of a stream, four syncs or toggles, two at once, of *)
(* an index of two kits; two results of a context and two saves at once,   *)
(* three values for two memory keys, three events of an engine, two MCP    *)
(* servers.                                                                *)
(***************************************************************************)
EXTENDS Parts

Chat(maxMessages, maxTokens, reducer) ==
    [primitive |-> "chat", provider |-> TRUE, model |-> "concrete", router |-> FALSE,
     degraded |-> FALSE, valid |-> TRUE, stream |-> TRUE, tools |-> FALSE,
     preprocessors |-> FALSE, maxIterations |-> 0, maxMessages |-> maxMessages, maxTokens |-> maxTokens,
     reducer |-> reducer]

Loop(primitive, max, tools) ==
    [Chat(2, NoLimit, FALSE) EXCEPT !.primitive = primitive, !.stream = FALSE,
                                    !.maxIterations = max, !.tools = tools]

MCModelSteps ==
    {Chat(n, t, r) : n \in {NoLimit, 0, 2, 3}, t \in {NoLimit, 1, 4}, r \in BOOLEAN}
    \union {Loop(p, m, t) : p \in {"llm", "chat"}, m \in {0, 2}, t \in BOOLEAN}

(* The context of a preprocessor goes in front, a note goes last; another  *)
(* keeps the list short, though that may part an answer from its call.     *)
MCRewrites(list) ==
    {<<Message("system", {}, 1)>> \o list, Append(list, Message("user", {}, 1)),
     IF Len(list) > 1 THEN Tail(list) ELSE list}

(* Steps that fail at once, ask another model, or leave their conversation *)
(* to preprocessors; without one of their own.                             *)
MCEmptySteps ==
    {[Loop(c, 0, FALSE) EXCEPT !.provider = p, !.model = m, !.router = r,
                               !.degraded = d, !.valid = v] :
        c \in {"llm", "chat"}, p, r, d, v \in BOOLEAN, m \in {"none", "tier", "concrete"}}
    \union {[Loop("llm", 3, TRUE) EXCEPT !.preprocessors = TRUE]}

MCChecks ==
    {[complete |-> TRUE, strategy |-> s, data |-> d, fields |-> f, provider |-> p,
      maxAttempts |-> m] :
        s \in {"raise", "return_errors", "correct", "delegate", "unknown"}, d \in Data,
        f, p \in BOOLEAN, m \in {0, 2}}
    \union
    {[complete |-> FALSE, strategy |-> "raise", data |-> "prose", fields |-> TRUE,
      provider |-> TRUE, maxAttempts |-> 1]}

Local(name, registry, async, timeout, listed) ==
    [kind |-> "local", tool |-> name, registry |-> registry, async |-> async,
     timeout |-> timeout, listed |-> listed]

Mcp(server, name, validate, validator, timeout, listed) ==
    [kind |-> "mcp", server |-> server, tool |-> name, validate |-> validate,
     validator |-> validator, timeout |-> timeout, listed |-> listed]

MCRegistered == {<<"", "read">>, <<"kit", "read">>, <<"kit", "write">>}
MCAllowedTools == {<<"", "read">>, <<"files", "get">>, <<"lost", "get">>}

MCToolRequests ==
    {Local(n, r, a, t, l) : n \in MCRegistered \union {<<"", "none">>}, r, a, l \in BOOLEAN,
                            t \in {1, NoTimeout}}
    \union
    {Mcp(s, n, v, w, t, l) : s \in Servers, n \in {"get", "put"}, v, w, l \in BOOLEAN,
                             t \in {1, 2, NoTimeout}}
    \union {[kind |-> "incomplete", listed |-> l] : l \in BOOLEAN}

MCPlainCalls ==
    {[primitive |-> "agent-exec", problem |-> p] :
        p \in {"none", "missing adapter", "missing prompt", "not configured", "adapter not found"}}
    \union
    {[primitive |-> "decide", problem |-> p, sinks |-> s] :
        p \in {"none", "missing key"}, s \in SUBSET {"hook", "tracer", "store"}}
    \union
    {[primitive |-> "output-generator", template |-> t, format |-> f] :
        t \in {"missing", "unresolvable", "text", "json text", "structure", "unserializable"},
        f \in {"json", "markdown", "text", "a2ui", "unheard of"}}

ASSUME ScheduleKeepsTime == CronKeepsTime

(* Algorithms without a state, over every input up to a bound.             *)
References == INSTANCE Resolver
KitFiles   == INSTANCE Kits

ASSUME ReferencesResolve == References!ResolvesAsMeant
ASSUME PathsAreWalked    == References!TraversesStepByStep
ASSUME KitsAreFound      == KitFiles!DiscoveryIsRight
ASSUME ToolsAreLoaded    == KitFiles!LoadingIsWhole
ASSUME AdaptersAreLoaded == KitFiles!AdaptersAreWhole

MCCompositions ==
    {[noKits |-> FALSE, kit |-> k, loaded |-> l, declares |-> TRUE, allowlist |-> TRUE,
      transports |-> <<"streamable", "streamable">>, reserved |-> {},
      steps |-> {[server |-> s, tool |-> "allowed"] : s \in named}] :
        k \in {"one", "absent", "unreadable", "no source", "two", "raises", "no adapter",
              "no validator"},
        l \in {"none", "ours", "foreign"}, named \in SUBSET McpServers}
    \union
    {[noKits |-> n, kit |-> "one", loaded |-> "none", declares |-> d, allowlist |-> a,
      transports |-> <<t, "streamable">>, reserved |-> r,
      steps |-> {[server |-> s, tool |-> g]}] :
        n, d, a \in BOOLEAN, t \in {"streamable", "stdio"}, r \in {{}, {2}},
        s \in {Reference, 1, 2, 3}, g \in {"allowed", "other", "reference"}}
=============================================================================
