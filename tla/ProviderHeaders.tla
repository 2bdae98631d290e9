--------------------------- MODULE ProviderHeaders ---------------------------
(***************************************************************************)
(* The headers that carry credentials (auth.rs): a header is a pair of a   *)
(* provider's name and the form of its credential.                         *)
(***************************************************************************)

Key(name) == <<name, "api-key">>
Connection(name) == <<name, "connection">>
ApiKey == Key("")                       \* x-api-key
ClientId == <<"routerfuel", "client-id">>

\* from_headers: where a provider's key is looked for, in this order.
HeadersOf ==
  [OpenAI      |-> <<Key("openai")>>,
   Anthropic   |-> <<Key("anthropic")>>,
   DeepSeek    |-> <<Key("deepseek")>>,
   Gemini      |-> <<Key("gemini")>>,
   Mistral     |-> <<Key("mistral")>>,
   XAI         |-> <<Key("xai"), Key("grok")>>,
   Qwen        |-> <<Key("qwen"), Key("dashscope")>>,
   Moonshot    |-> <<Key("moonshot"), Key("kimi")>>,
   Zhipu       |-> <<Key("zhipu"), Key("glm")>>,
   Groq        |-> <<Key("groq")>>,
   VertexAI    |-> <<Connection("vertex-ai")>>,
   OpenRouter  |-> <<Key("openrouter")>>,
   AzureOpenAI |-> <<Connection("azure-openai")>>,
   Bedrock     |-> <<Connection("bedrock")>>]

Providers == DOMAIN HeadersOf
=============================================================================
