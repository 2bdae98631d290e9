----------------------------- MODULE MCPreflight -----------------------------
(***************************************************************************)
(* A small registry of curated models, with prices, windows and qualities  *)
(* on a small scale but in their order, and three families of requests:    *)
(* routing, compression and tool conversations.                            *)
(***************************************************************************)
EXTENDS Preflight

Model(id, provider, blended, quality, window, vision, above) ==
  [api_id |-> id, provider |-> provider, blended |-> blended,
   quality |-> quality, context_window |-> window,
   supports_vision |-> vision, enabled |-> TRUE, above |-> above]

MCCurated ==
  << Model(<<"claude-sonnet-5">>, "Anthropic", 18, 8, 90, TRUE, NoTier),
     Model(<<"gpt-6-astra">>, "OpenAI", 60, 9, 90, TRUE, 32),
     Model(<<"gemini-3.1-flash-lite">>, "Gemini", 2, 6, 90, TRUE, NoTier),
     Model(<<"codestral-2508">>, "Mistral", 8, 5, 40, FALSE, NoTier),
     [Model(<<"grok-code-fast-1">>, "XAI", 9, 6, 90, FALSE, NoTier)
        EXCEPT !.enabled = FALSE],
     Model(<<"llama-3.1-8b-instant">>, "Groq", 1, 4, 40, FALSE, NoTier),
     Model(<<"openai", "gpt-oss-20b">>, "Groq", 3, 5, 40, FALSE, NoTier) >>

MCCatalogs ==
  { << Model(<<"openai", "gpt-oss-20b">>, "OpenRouter", 3, 5, 40, FALSE, NoTier),
       Model(<<"vendor", "x">>, "OpenRouter", 5, 6, 40, TRUE, NoTier),
       Model(<<"vendor", "x">>, "OpenRouter", 6, 6, 40, FALSE, NoTier) >> }

--------------------------------------------------------------------------

Say(role, content, text) ==
  [role |-> role, content |-> content, text |-> text, calls |-> <<>>,
   answers |-> NoId]

Ask(model, ms) == [NoRequest EXCEPT !.model = model, !.messages = ms]

Brief == <<"words">>
Fenced == <<"fence", "padded", "fence", "words">>
Wide == [i \in 1 .. 5 |-> "padded"]
Huge == [i \in 1 .. 9 |-> "words"]

PlainTool == [name |-> "f", kind |-> "plain"]

Routable ==
  { [Ask(model, <<Say("user", content, text)>>)
       EXCEPT !.max_tokens = max, !.stream = stream, !.tools = tools] :
      model \in {<<"auto">>, <<"task:", "summarize">>, <<"task:", "classify">>},
      content \in {"text", "image"},
      text \in {Brief, Fenced, Wide, Huge},
      max \in {NoMaxTokens, 8, 80},
      stream \in BOOLEAN,
      tools \in {<<>>, <<PlainTool>>} }

Concrete ==
  { [Ask(model, <<Say("user", content, text)>>)
       EXCEPT !.stream = stream, !.tools = tools] :
      model \in {<<"task:", "translate">>, <<"gpt-6-astra">>, <<"unheard-of">>,
                 <<"openai", "gpt-oss-20b">>, <<"llama-3.1-8b-instant">>,
                 <<"vendor", "x">>, <<"claude-sonnet-5">>},
      content \in {"text", "image"},
      text \in {Brief, Wide},
      stream \in BOOLEAN,
      tools \in {<<>>, <<PlainTool>>} }

KeySets ==
  {ks \in SUBSET {"OpenAI", "Anthropic", "Gemini", "Mistral", "Groq",
                  "OpenRouter", "Bedrock", "AzureOpenAI"} :
     Cardinality(ks) <= 2}

--------------------------------------------------------------------------
(* Every text of up to four lines; conversations of up to five messages    *)
(* with a long text to repeat, or an image with that caption.              *)

Texts == UNION {[1 .. n -> LineKinds] : n \in 1 .. 4}

Talk ==
  LET Long == [i \in 1 .. 3 |-> "padded"] IN
  {Say(role, "text", text) : role \in {"user", "assistant"}, text \in {Brief, Long}}
    \union {Say("user", "image", Long)}

Levers ==
  {DefaultOptions, [DefaultOptions EXCEPT !.enabled = FALSE],
   [DefaultOptions EXCEPT !.whitespace = FALSE],
   [DefaultOptions EXCEPT !.dedup = FALSE],
   [DefaultOptions EXCEPT !.audit_only = TRUE]}

Compressible ==
  {Ask(<<"gpt-6-astra">>, <<Say("user", "text", text)>>) : text \in Texts}
  \union
  {Ask(<<"gpt-6-astra">>, ms) : ms \in UNION {[1 .. n -> Talk] : n \in 2 .. 4}}
  \union
  {[Ask(<<"gpt-6-astra">>, ms) EXCEPT !.opts = opts] :
     ms \in [1 .. 3 -> Talk], opts \in Levers}
  \union
  {Ask(<<"gpt-6-astra">>, ms) :
     ms \in [1 .. 5 -> {m \in Talk : m.content = "text"}]}

--------------------------------------------------------------------------
(* Conversations with two tools: one or two calls, results to either.      *)

Calls(ids) ==
  [Say("assistant", "null", <<"blank">>) EXCEPT !.calls =
     [i \in DOMAIN ids |-> [id |-> ids[i], name |-> ids[i], wellformed |-> TRUE]]]

Answer(id) == [Say("tool", "text", Brief) EXCEPT !.answers = id]

ToolTalk ==
  {Say("user", "text", Brief), Calls(<<"c1">>), Calls(<<"c1", "c2">>),
   Answer("c1"), Answer("c2"), Answer(NoId)}

ToolRequests ==
  { [Ask(model, ms) EXCEPT !.tools = tools, !.tool_choice = choice] :
      model \in {<<"anthropic.claude-3-haiku">>, <<"gemini-3.1-flash-lite">>,
                 <<"claude-sonnet-5">>},
      ms \in UNION {[1 .. n -> ToolTalk] : n \in 1 .. 3},
      tools \in {<<PlainTool>>},
      choice \in {"absent", "f"} }
  \union
  { [Ask(model, ms) EXCEPT !.tools = <<PlainTool>>] :
      model \in {<<"anthropic.claude-3-haiku">>, <<"gemini-3.1-flash-lite">>},
      ms \in [1 .. 4 -> ToolTalk] }
  \union
  { [Ask(model, <<Say("user", "text", Brief)>>)
       EXCEPT !.tools = tools, !.tool_choice = choice, !.parallel = parallel] :
      model \in {<<"amazon.nova-lite-v1">>, <<"claude-sonnet-5">>},
      tools \in {<<>>, <<PlainTool>>, <<PlainTool, PlainTool>>,
                 <<[PlainTool EXCEPT !.kind = "strict"]>>},
      choice \in {"absent", "auto", "none", "required", "f", "g"},
      parallel \in {"absent", "true", "false"} }

MCCases ==
  (Routable \X KeySets) \union (Concrete \X KeySets)
    \union (Compressible \X {{"OpenAI"}})
    \union {<<r, IF r.model[1] \in {"anthropic.claude-3-haiku", "amazon.nova-lite-v1"}
                 THEN {"Bedrock"} ELSE {"Gemini", "Anthropic"}>> : r \in ToolRequests}

\* The cases of the runs that are about one disagreement.
MCTalkCases == Compressible \X {{"OpenAI"}}
MCSlugCases == Concrete \X KeySets

=============================================================================
