----------------------------- MODULE RouteEngine -----------------------------
(***************************************************************************)
(* route_engine.rs and the vision routing of vision.rs: which models a     *)
(* request may be sent to.  A registry is a sequence of records            *)
(*                                                                         *)
(*   api_id, provider                                                      *)
(*   blended           cost_per_1m_input + cost_per_1m_output              *)
(*   quality, context_window, supports_vision, enabled                     *)
(*   above             the long-context tier's above_input_tokens, NoTier  *)
(*                                                                         *)
(* The weighted score is floating point over measured latencies: here any  *)
(* eligible model may win it.  What is eligible is exact.                  *)
(***************************************************************************)
EXTENDS ChatRequest

CONSTANTS
  SimpleMaxInput, SimpleMaxOutput,        \* SIMPLE_MAX_{IN,OUT}PUT_TOKENS
  ComplexMinInput, ComplexMinOutput,      \* COMPLEX_MIN_{IN,OUT}PUT_TOKENS
  ComplexMinMessages,                     \* COMPLEX_MIN_MESSAGES
  SimpleMinQuality, SimpleMaxBlended      \* the limits of the simple path

ASSUME LimitsAssumption ==
  {SimpleMaxInput, SimpleMaxOutput, ComplexMinInput, ComplexMinOutput,
   ComplexMinMessages, SimpleMinQuality, SimpleMaxBlended} \subseteq Nat

NoTier == -1

Providers == {"OpenAI", "Anthropic", "DeepSeek", "Gemini", "Mistral", "XAI",
              "Qwen", "Moonshot", "Zhipu", "Groq", "AzureOpenAI", "Bedrock",
              "VertexAI", "OpenRouter"}

\* The providers that come with a connection header instead of a key.
HeaderProviders == {"AzureOpenAI", "Bedrock", "VertexAI"}

--------------------------------------------------------------------------
(* The registry.                                                           *)

Entries(models) == ToSet(models)

ApiIds(models) == {m.api_id : m \in Entries(models)}

Known(models, id) == id \in ApiIds(models)

\* find: the first entry of that id.
Find(models, id) == SelectInSeq(models, LAMBDA m : m.api_id = id)

Entry(models, id) == models[Find(models, id)]

\* extend_registry: an entry whose id is there already is skipped, be it from
\* before or from an earlier entry.
ExtendRegistry(models, extra) ==
  LET added == InOrder({i \in DOMAIN extra :
                          /\ ~Known(models, extra[i].api_id)
                          /\ \A j \in 1 .. i - 1 : extra[j].api_id # extra[i].api_id})
  IN models \o [k \in DOMAIN added |-> extra[added[k]]]

OpenrouterCatalogHas(models, id) ==
  \E m \in Entries(models) : m.provider = "OpenRouter" /\ m.api_id = id

\* get_pricing_for: whether the long-context multipliers apply.
LongContext(models, id, input_tokens) ==
  LET above == Entry(models, id).above
  IN above # NoTier /\ input_tokens > above

--------------------------------------------------------------------------
(* classify, on what the client sent.                                      *)

IsCode(req) == \E m \in ToSet(req.messages) : "fence" \in ToSet(m.text)

UserTurns(req) == Len(SelectSeq(req.messages, LAMBDA m : m.role = "user"))

IsSimple(req, input_tokens) ==
  /\ input_tokens < SimpleMaxInput
  /\ req.max_tokens = NoMaxTokens \/ req.max_tokens <= SimpleMaxOutput
  /\ UserTurns(req) <= 1
  /\ ~HasImages(req.messages)

IsComplex(req, input_tokens) ==
  \/ input_tokens > ComplexMinInput
  \/ req.max_tokens # NoMaxTokens /\ req.max_tokens > ComplexMinOutput
  \/ Len(req.messages) > ComplexMinMessages

Difficulty(req, input_tokens) ==
  IF IsSimple(req, input_tokens) THEN "Simple"
  ELSE IF IsComplex(req, input_tokens) THEN "Complex"
  ELSE "Moderate"

--------------------------------------------------------------------------
(* Selection: the set of models each path may end with, empty for its      *)
(* error.  `reachable` is a set of providers.                              *)

Fits(m, input_tokens, reachable) ==
  m.enabled /\ m.provider \in reachable /\ input_tokens < m.context_window

\* select_filtered without limits, that is select_reachable.
Eligible(models, input_tokens, reachable) ==
  {m \in Entries(models) : Fits(m, input_tokens, reachable)}

WithinSimpleLimits(m) ==
  m.quality >= SimpleMinQuality /\ m.blended <= SimpleMaxBlended

\* The first preferred model that can be used, if any, else the fallback.
PreferredOr(models, preferred, input_tokens, reachable, fallback) ==
  LET usable == {i \in DOMAIN preferred :
                   /\ Known(models, preferred[i])
                   /\ Fits(Entry(models, preferred[i]), input_tokens, reachable)}
  IN IF usable = {} THEN fallback
     ELSE {Entry(models, preferred[i]) : i \in {i \in usable : \A j \in usable : i <= j}}

SimpleCodeModels == << <<"grok-code-fast-1">>, <<"codestral-2508">> >>

\* MUTANT of SelectForShape: no second try without the limits.
SelectForShape_LimitsBind(models, req, input_tokens, reachable) ==
  LET eligible == Eligible(models, input_tokens, reachable)
  IN IF Difficulty(req, input_tokens) # "Simple"
     THEN eligible
     ELSE PreferredOr(models, IF IsCode(req) THEN SimpleCodeModels ELSE <<>>,
                      input_tokens, reachable,
                      {m \in eligible : WithinSimpleLimits(m)})

SelectForShape(models, req, input_tokens, reachable) ==
  LET eligible == Eligible(models, input_tokens, reachable)
      cheap    == {m \in eligible : WithinSimpleLimits(m)}
      simple   == IF cheap = {} THEN eligible ELSE cheap
  IN IF Difficulty(req, input_tokens) # "Simple"
     THEN eligible
     ELSE PreferredOr(models, IF IsCode(req) THEN SimpleCodeModels ELSE <<>>,
                      input_tokens, reachable, simple)

PreferredFor ==
  [summarise            |-> <<"claude-sonnet-5">>,
   answer_question      |-> <<"gemini-3-flash-preview">>,
   extract_action_items |-> <<"deepseek-v4-flash">>,
   draft_response       |-> <<"claude-opus-5-5">>,
   classify             |-> <<"gemini-3.1-flash-lite">>]

\* MeetingTask::from_str, the second spellings included.
Tasks == {"summarise", "summarize", "answer_question", "qa",
          "extract_action_items", "draft_response", "draft", "classify"}

TaskOf(name) ==
  CASE name = "summarize" -> "summarise"
    [] name = "qa"        -> "answer_question"
    [] name = "draft"     -> "draft_response"
    [] OTHER              -> name

SelectForTask(models, task, input_tokens, reachable) ==
  PreferredOr(models, <<PreferredFor[task]>>, input_tokens, reachable,
              Eligible(models, input_tokens, reachable))

\* select_vision_model: two picks by score, either of which may see images,
\* and the best that does when neither did: it ends with some model that does.
SelectVisionModel(models, input_tokens, reachable) ==
  {m \in Eligible(models, input_tokens, reachable) : m.supports_vision}

--------------------------------------------------------------------------

\* select_provider: a connection header wins over the registry.
HeaderRoute(keys) ==
  IF "AzureOpenAI" \in keys THEN "AzureOpenAI"
  ELSE IF "Bedrock" \in keys THEN "Bedrock"
  ELSE IF "VertexAI" \in keys THEN "VertexAI"
  ELSE "none"

Prefix ==
  [p \in Providers |->
     CASE p = "Anthropic" -> <<"anthropic">>
       [] p = "OpenAI"    -> <<"openai">>
       [] p = "Gemini"    -> <<"google">>
       [] p = "DeepSeek"  -> <<"deepseek">>
       [] p = "Mistral"   -> <<"mistralai">>
       [] p = "XAI"       -> <<"x-ai">>
       [] p = "Qwen"      -> <<"qwen">>
       [] p = "Moonshot"  -> <<"moonshotai">>
       [] p = "Zhipu"     -> <<"z-ai">>
       [] p = "Groq"      -> <<"groq">>
       [] p = "VertexAI"  -> <<"google">>
       [] OTHER           -> <<"">>]

SlugOverride ==
  (<<"claude-fable-5-1">>        :> <<"anthropic", "claude-fable-5.1">>) @@
  (<<"llama-3.1-8b-instant">>    :> <<"meta-llama", "llama-3.1-8b-instruct">>) @@
  (<<"llama-3.3-70b-versatile">> :> <<"meta-llama", "llama-3.3-70b-instruct">>)

=============================================================================
