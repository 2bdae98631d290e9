-------------------------- MODULE OneRequestProofs --------------------------
(***************************************************************************)
(* What holds of one request in each of its three views, for all requests, *)
(* keys, registries, catalogs, prices, limits and widths.  The views share *)
(* no state, so each has an invariant of its own.                          *)
(***************************************************************************)
EXTENDS MCOneRequest, SharedLemmas, FiniteSetTheorems, FunctionTheorems

-----------------------------------------------------------------------------
(***************************************************************************)
(* Whose keys it uses.                                                     *)
(***************************************************************************)

\* Where a provider's key is looked for.
Sought(p) == {Keys!HeadersOf[p][1], Keys!HeadersOf[p][Len(Keys!HeadersOf[p])]}

\* A provider with one header.
LEMMA OneHeader ==
  ASSUME NEW p, NEW name, Keys!HeadersOf[p] = <<name>>
  PROVE  Sought(p) = {name}
BY DEF Sought

\* A provider with two.
LEMMA TwoHeaders ==
  ASSUME NEW p, NEW name, NEW other, Keys!HeadersOf[p] = <<name, other>>
  PROVE  Sought(p) = {name, other}
BY DEF Sought

\* The headers of each provider that has a key of its own, or a connection.
KeyProviders ==
  {<<"OpenAI", "openai">>, <<"Anthropic", "anthropic">>, <<"DeepSeek", "deepseek">>,
   <<"Gemini", "gemini">>, <<"Mistral", "mistral">>, <<"Groq", "groq">>,
   <<"OpenRouter", "openrouter">>}
PairProviders ==
  {<<"XAI", "xai", "grok">>, <<"Qwen", "qwen", "dashscope">>,
   <<"Moonshot", "moonshot", "kimi">>, <<"Zhipu", "zhipu", "glm">>}
ConnectionProviders ==
  {<<"VertexAI", "vertex-ai">>, <<"AzureOpenAI", "azure-openai">>, <<"Bedrock", "bedrock">>}

\* from_headers, row by row, and the names of the same providers.
LEMMA Headers ==
  /\ \A row \in KeyProviders :
       /\ Keys!HeadersOf[row[1]] = << <<row[2], "api-key">> >>
       /\ Keys!NamesOf(row[1]) = {row[2]}
  /\ \A row \in PairProviders :
       /\ Keys!HeadersOf[row[1]] = << <<row[2], "api-key">>, <<row[3], "api-key">> >>
       /\ Keys!NamesOf(row[1]) = {row[2], row[3]}
  /\ \A row \in ConnectionProviders :
       /\ Keys!HeadersOf[row[1]] = << <<row[2], "connection">> >>
       /\ row[2] \in Keys!NamesOf(row[1])
  /\ Keys!NamesOf("AzureOpenAI") = {"azure-openai", "azure", "azure_openai"}
  /\ Keys!NamesOf("Bedrock") = {"bedrock", "aws"}
<1>1. /\ Keys!HeadersOf["OpenAI"] = << <<"openai", "api-key">> >>
      /\ Keys!NamesOf("OpenAI") = {"openai"}
  BY DEF Keys!HeadersOf, Keys!Key, Keys!NamesOf
<1>2. /\ Keys!HeadersOf["Anthropic"] = << <<"anthropic", "api-key">> >>
      /\ Keys!NamesOf("Anthropic") = {"anthropic"}
  BY DEF Keys!HeadersOf, Keys!Key, Keys!NamesOf
<1>3. /\ Keys!HeadersOf["DeepSeek"] = << <<"deepseek", "api-key">> >>
      /\ Keys!NamesOf("DeepSeek") = {"deepseek"}
  BY DEF Keys!HeadersOf, Keys!Key, Keys!NamesOf
<1>4. /\ Keys!HeadersOf["Gemini"] = << <<"gemini", "api-key">> >>
      /\ Keys!NamesOf("Gemini") = {"gemini"}
  BY DEF Keys!HeadersOf, Keys!Key, Keys!NamesOf
<1>5. /\ Keys!HeadersOf["Mistral"] = << <<"mistral", "api-key">> >>
      /\ Keys!NamesOf("Mistral") = {"mistral"}
  BY DEF Keys!HeadersOf, Keys!Key, Keys!NamesOf
<1>6. /\ Keys!HeadersOf["Groq"] = << <<"groq", "api-key">> >>
      /\ Keys!NamesOf("Groq") = {"groq"}
  BY DEF Keys!HeadersOf, Keys!Key, Keys!NamesOf
<1>7. /\ Keys!HeadersOf["OpenRouter"] = << <<"openrouter", "api-key">> >>
      /\ Keys!NamesOf("OpenRouter") = {"openrouter"}
  BY DEF Keys!HeadersOf, Keys!Key, Keys!NamesOf
<1>8. /\ Keys!HeadersOf["XAI"] = << <<"xai", "api-key">>, <<"grok", "api-key">> >>
      /\ Keys!NamesOf("XAI") = {"xai", "grok"}
  BY DEF Keys!HeadersOf, Keys!Key, Keys!NamesOf
<1>9. /\ Keys!HeadersOf["Qwen"] = << <<"qwen", "api-key">>, <<"dashscope", "api-key">> >>
      /\ Keys!NamesOf("Qwen") = {"qwen", "dashscope"}
  BY DEF Keys!HeadersOf, Keys!Key, Keys!NamesOf
<1>10. /\ Keys!HeadersOf["Moonshot"] = << <<"moonshot", "api-key">>, <<"kimi", "api-key">> >>
      /\ Keys!NamesOf("Moonshot") = {"moonshot", "kimi"}
  BY DEF Keys!HeadersOf, Keys!Key, Keys!NamesOf
<1>11. /\ Keys!HeadersOf["Zhipu"] = << <<"zhipu", "api-key">>, <<"glm", "api-key">> >>
      /\ Keys!NamesOf("Zhipu") = {"zhipu", "glm"}
  BY DEF Keys!HeadersOf, Keys!Key, Keys!NamesOf
<1>12. /\ Keys!HeadersOf["VertexAI"] = << <<"vertex-ai", "connection">> >>
       /\ "vertex-ai" \in Keys!NamesOf("VertexAI")
  BY DEF Keys!HeadersOf, Keys!Connection, Keys!NamesOf
<1>13. /\ Keys!HeadersOf["AzureOpenAI"] = << <<"azure-openai", "connection">> >>
       /\ "azure-openai" \in Keys!NamesOf("AzureOpenAI")
  BY DEF Keys!HeadersOf, Keys!Connection, Keys!NamesOf
<1>14. /\ Keys!HeadersOf["Bedrock"] = << <<"bedrock", "connection">> >>
       /\ "bedrock" \in Keys!NamesOf("Bedrock")
  BY DEF Keys!HeadersOf, Keys!Connection, Keys!NamesOf
<1>15. \A row \in KeyProviders :
         Keys!HeadersOf[row[1]] = << <<row[2], "api-key">> >> /\ Keys!NamesOf(row[1]) = {row[2]}
  BY <1>1, <1>2, <1>3, <1>4, <1>5, <1>6, <1>7 DEF KeyProviders
<1>16. \A row \in PairProviders :
         /\ Keys!HeadersOf[row[1]] = << <<row[2], "api-key">>, <<row[3], "api-key">> >>
         /\ Keys!NamesOf(row[1]) = {row[2], row[3]}
  BY <1>8, <1>9, <1>10, <1>11 DEF PairProviders
<1>17. \A row \in ConnectionProviders :
         /\ Keys!HeadersOf[row[1]] = << <<row[2], "connection">> >>
         /\ row[2] \in Keys!NamesOf(row[1])
  BY <1>12, <1>13, <1>14 DEF ConnectionProviders
<1>18. /\ Keys!NamesOf("AzureOpenAI") = {"azure-openai", "azure", "azure_openai"}
       /\ Keys!NamesOf("Bedrock") = {"bedrock", "aws"}
  BY DEF Keys!NamesOf
<1> QED BY <1>15, <1>16, <1>17, <1>18

\* Every provider is in one of the tables.
LEMMA ProviderCases ==
  ASSUME NEW p \in Keys!Providers
  PROVE  \E row \in KeyProviders \cup PairProviders \cup ConnectionProviders : row[1] = p
<1>1. p \in {"OpenAI", "Anthropic", "DeepSeek", "Gemini", "Mistral", "XAI", "Qwen", "Moonshot",
             "Zhipu", "Groq", "VertexAI", "OpenRouter", "AzureOpenAI", "Bedrock"}
  BY DEF Keys!Providers, Keys!HeadersOf
<1> QED BY <1>1 DEF KeyProviders, PairProviders, ConnectionProviders

\* What the bridge turns a name into.
LEMMA BridgeTurns ==
  ASSUME NEW n, Keys!BridgeHeader(n) # None
  PROVE  LET h == Keys!BridgeHeader(n) IN
         \/ n \in {"xai", "grok"} /\ h = <<"xai", "api-key">>
         \/ n \in {"qwen", "dashscope"} /\ h = <<"qwen", "api-key">>
         \/ n \in {"moonshot", "kimi"} /\ h = <<"moonshot", "api-key">>
         \/ n \in {"zhipu", "glm"} /\ h = <<"zhipu", "api-key">>
         \/ n \in {"meta", "llama"} /\ h = <<"meta", "api-key">>
         \/ n \in {"azure", "azure_openai"} /\ h = <<"azure-openai", "connection">>
         \/ n \in {"bedrock", "aws"} /\ h = <<"bedrock", "connection">>
         \/ /\ n \in {"openai", "anthropic", "deepseek", "gemini", "mistral", "openrouter"}
            /\ h = <<n, "api-key">>
BY DEF Keys!BridgeHeader, Keys!Key, Keys!Connection

\* The tables of the two layers agree: a header a provider's key is looked for
\* in has one of that provider's names, and a token that is turned into that
\* header names that provider too.
LEMMA TablesAgree ==
  ASSUME NEW p \in Keys!Providers, NEW name \in Sought(p)
  PROVE  /\ name[1] \in Keys!NamesOf(p)
         /\ name # Keys!ApiKey /\ name # Keys!ClientId
         /\ \A n : Keys!BridgeHeader(n) # None /\ Keys!BridgeHeader(n) = name
               => n \in Keys!NamesOf(p)
<1>1. PICK row \in KeyProviders \cup PairProviders \cup ConnectionProviders : row[1] = p
  BY ProviderCases
<1>2. CASE row \in KeyProviders
  <2>1. name = <<row[2], "api-key">> /\ Keys!NamesOf(p) = {row[2]}
    BY <1>1, <1>2, Headers, OneHeader
  <2>2. row[2] \in {"openai", "anthropic", "deepseek", "gemini", "mistral", "groq", "openrouter"}
    BY <1>2 DEF KeyProviders
  <2>3. name[1] = row[2] /\ name # <<"", "api-key">> /\ name # <<"routerfuel", "client-id">>
    BY <2>1, <2>2
  <2>4. ASSUME NEW n, Keys!BridgeHeader(n) # None, Keys!BridgeHeader(n) = name
        PROVE  n = row[2]
    BY <2>1, <2>2, <2>4, BridgeTurns
  <2> QED BY <2>1, <2>3, <2>4 DEF Keys!ApiKey, Keys!ClientId, Keys!Key
<1>3. CASE row \in PairProviders
  <2>1. name \in {<<row[2], "api-key">>, <<row[3], "api-key">>} /\ Keys!NamesOf(p) = {row[2], row[3]}
    BY <1>1, <1>3, Headers, TwoHeaders
  <2>2. <<row[2], row[3]>> \in {<<"xai", "grok">>, <<"qwen", "dashscope">>, <<"moonshot", "kimi">>,
                                <<"zhipu", "glm">>}
    BY <1>3 DEF PairProviders
  <2> DEFINE a == row[2]
             b == row[3]
  <2> HIDE DEF a, b
  <2>3. /\ name = <<a, "api-key">> \/ name = <<b, "api-key">>
        /\ \/ a = "xai" /\ b = "grok"
           \/ a = "qwen" /\ b = "dashscope"
           \/ a = "moonshot" /\ b = "kimi"
           \/ a = "zhipu" /\ b = "glm"
    BY <2>1, <2>2 DEF a, b
  <2>4. name[1] \in {a, b} /\ name # <<"", "api-key">> /\ name # <<"routerfuel", "client-id">>
    <3>1. PICK c \in {a, b} : name = <<c, "api-key">>
      BY <2>3
    <3>2. c # ""
      BY <2>3
    <3> QED BY <3>1, <3>2
  <2>5. ASSUME NEW n, Keys!BridgeHeader(n) # None, Keys!BridgeHeader(n) = name
        PROVE  n \in {a, b}
    BY <2>3, <2>5, BridgeTurns
  <2>6. name # Keys!ApiKey /\ name # Keys!ClientId
    BY <2>4 DEF Keys!ApiKey, Keys!ClientId, Keys!Key
  <2> QED BY <2>1, <2>4, <2>5, <2>6 DEF a, b
<1>4. CASE row \in ConnectionProviders
  <2>0. Keys!HeadersOf[p] = << <<row[2], "connection">> >> /\ row[2] \in Keys!NamesOf(p)
    BY <1>1, <1>4, Headers
  <2>1. name = <<row[2], "connection">> /\ row[2] \in Keys!NamesOf(p)
    BY <2>0, OneHeader
  <2>2. name[1] \in Keys!NamesOf(p) /\ name # Keys!ApiKey /\ name # Keys!ClientId
    BY <1>4, <2>1 DEF ConnectionProviders, Keys!ApiKey, Keys!ClientId, Keys!Key
  <2>3. ASSUME NEW n, Keys!BridgeHeader(n) # None, Keys!BridgeHeader(n) = name
        PROVE  n \in Keys!NamesOf(p)
    <3>1. \/ n \in {"azure", "azure_openai"} /\ p = "AzureOpenAI"
          \/ n \in {"bedrock", "aws"} /\ p = "Bedrock"
      BY <1>1, <1>4, <2>1, <2>3, BridgeTurns DEF ConnectionProviders
    <3> QED BY <3>1, Headers
  <2> QED BY <2>2, <2>3
<1> QED BY <1>1, <1>2, <1>3, <1>4

\* The headers as the bridge leaves them: with the parts of the token, if the
\* token is the credential.
Carried ==
  IF Keys!ByToken
  THEN Keys!Inserted(Keys!Inserted(sent.headers, Keys!ApiKey, <<sent.bearer[1]>>),
                     Keys!BridgeHeader(sent.bearer[2]), Keys!Rest(sent.bearer))
  ELSE sent.headers

\* Whom resolve_byok_route calls for p.
RouteOf(p) ==
  IF Keys!ForProvider(p) # None
  THEN [provider |-> p, key |-> Keys!ForProvider(p), of |-> p]
  ELSE IF Keys!ForProvider("OpenRouter") # None
  THEN [provider |-> "OpenRouter", key |-> Keys!ForProvider("OpenRouter"), of |-> p]
  ELSE [provider |-> None, key |-> None, of |-> p]

\* What the layers have made of the headers by each step, and what was picked
\* from them.
KeysInv ==
  /\ at \in {"idle", "sent", "bridged", "handler", "routed", "refused", "admin"}
  /\ at = "sent" => headers = sent.headers
  /\ at \in {"bridged", "handler", "routed"} =>
       (Keys!ByToken => Keys!Composite(sent.bearer))
  /\ at = "bridged" => headers = Carried
  /\ at \in {"handler", "routed"} =>
       /\ headers = Keys!Admitted(Carried) /\ Keys!ApiKey \in DOMAIN Carried
       /\ client = Carried[Keys!ApiKey]
  /\ provider_call # None =>
       /\ at = "routed"
       /\ \E p \in Keys!Providers : provider_call = RouteOf(p)
  /\ admin # None =>
       \E supplied : admin = [supplied |-> supplied, in |-> Keys!AdminAccepts(supplied)]

\* What is found under a name depends on the headers alone.
LEMMA SameHeaders ==
  ASSUME headers' = headers
  PROVE  /\ \A name : Keys!Extract(name)' = Keys!Extract(name)
         /\ \A p : Keys!ForProvider(p)' = Keys!ForProvider(p)
         /\ \A p : RouteOf(p)' = RouteOf(p)
<1>1. \A name : Keys!Extract(name)' = Keys!Extract(name)
  BY DEF Keys!Extract
<1>2. \A p : Keys!ForProvider(p)' = Keys!ForProvider(p)
  BY <1>1 DEF Keys!ForProvider
<1>3. \A p : RouteOf(p)' = RouteOf(p)
  BY <1>2 DEF RouteOf
<1> QED BY <1>1, <1>2, <1>3

\* It holds before anything is sent.
LEMMA KeysInit == Keys!Init => KeysInv
BY DEF Keys!Init, KeysInv

\* Each layer and each handler keeps it.
LEMMA KeysStep == KeysInv /\ (Keys!Next \/ UNCHANGED key_vars) => KeysInv'
<1> SUFFICES ASSUME KeysInv, Keys!Next \/ UNCHANGED key_vars PROVE KeysInv'
  OBVIOUS
<1> USE DEF KeysInv
<1>1. CASE Keys!Receive
  BY <1>1 DEF Keys!Receive, Keys!AdminAccepts
<1>2. CASE Keys!PassBridge
  <2>1. Carried' = Carried /\ Keys!ByToken' = Keys!ByToken /\ ~Keys!ByToken
    BY <1>2 DEF Keys!PassBridge, Keys!ByToken, Carried
  <2>2. headers' = Carried
    BY <1>2, <2>1 DEF Keys!PassBridge, Carried
  <2> QED BY <1>2, <2>1, <2>2 DEF Keys!PassBridge, Keys!AdminAccepts
<1>3. CASE Keys!Bridge
  <2>1. Carried' = Carried /\ Keys!ByToken' = Keys!ByToken /\ Keys!ByToken
    BY <1>3 DEF Keys!Bridge, Keys!ByToken, Carried
  <2>2. CASE Keys!Composite(sent.bearer)
    <3>1. headers' = Carried /\ at' = "bridged" /\ Keys!Composite(sent'.bearer)
      BY <1>3, <2>1, <2>2 DEF Keys!Bridge, Carried
    <3> QED BY <1>3, <2>1, <3>1 DEF Keys!Bridge, Keys!AdminAccepts
  <2>3. CASE ~Keys!Composite(sent.bearer)
    BY <1>3, <2>3 DEF Keys!Bridge, Keys!AdminAccepts
  <2> QED BY <2>2, <2>3
<1>4. CASE Keys!Authenticate
  <2>1. Carried' = Carried /\ Keys!ByToken' = Keys!ByToken
    BY <1>4 DEF Keys!Authenticate, Keys!ByToken, Carried
  <2>2. CASE Keys!Accepted(headers)
    <3>1. Keys!Admitted(headers)[Keys!ClientId] = headers[Keys!ApiKey]
      BY DEF Keys!Admitted, Keys!Inserted
    <3>2. headers = Carried /\ Keys!ApiKey \in DOMAIN Carried
      BY <1>4, <2>2 DEF Keys!Authenticate, Keys!Accepted
    <3>3. /\ at' = "handler" /\ headers' = Keys!Admitted(headers)
          /\ client' = headers'[Keys!ClientId]
      BY <1>4, <2>2 DEF Keys!Authenticate
    <3>4. headers' = Keys!Admitted(Carried) /\ client' = Carried[Keys!ApiKey]
      BY <3>1, <3>2, <3>3
    <3>5. UNCHANGED <<sent, provider_call, admin_key, admin>>
      BY <1>4 DEF Keys!Authenticate
    <3>6. Keys!Admitted(Carried)' = Keys!Admitted(Carried)
      BY <2>1 DEF Keys!Admitted, Keys!Inserted
    <3> QED BY <1>4, <2>1, <3>2, <3>3, <3>4, <3>5, <3>6 DEF Keys!Authenticate, Keys!AdminAccepts
  <2>3. CASE ~Keys!Accepted(headers)
    BY <1>4, <2>1, <2>3 DEF Keys!Authenticate, Keys!AdminAccepts
  <2> QED BY <2>2, <2>3
<1>5. ASSUME NEW p \in Keys!Providers, Keys!Route(p) PROVE KeysInv'
  <2>1. Carried' = Carried /\ Keys!ByToken' = Keys!ByToken /\ headers' = headers
    BY <1>5 DEF Keys!Route, Keys!ByToken, Carried
  <2>2. provider_call' = RouteOf(p)'
    BY <1>5, <2>1, SameHeaders DEF Keys!Route, RouteOf
  <2>3. Keys!Admitted(Carried)' = Keys!Admitted(Carried)
    BY <2>1 DEF Keys!Admitted, Keys!Inserted
  <2> QED BY <1>5, <2>1, <2>2, <2>3 DEF Keys!Route, Keys!AdminAccepts
<1>6. ASSUME NEW supplied \in AdminHeaders, Keys!AdminRequest(supplied) PROVE KeysInv'
  <2>1. admin' = [supplied |-> supplied, in |-> Keys!AdminAccepts(supplied)']
    BY <1>6 DEF Keys!AdminRequest, Keys!AdminAccepts
  <2> QED BY <1>6, <2>1 DEF Keys!AdminRequest
<1>7. CASE UNCHANGED key_vars
  <2>1. Carried' = Carried /\ Keys!ByToken' = Keys!ByToken /\ headers' = headers
    BY <1>7 DEF key_vars, Keys!ByToken, Carried
  <2>2. \A supplied : Keys!AdminAccepts(supplied)' = Keys!AdminAccepts(supplied)
    BY <1>7 DEF key_vars, Keys!AdminAccepts
  <2> QED BY <1>7, <2>1, <2>2, SameHeaders DEF key_vars
<1> QED BY <1>1, <1>2, <1>3, <1>4, <1>5, <1>6, <1>7 DEF Keys!Next

\* The layers of auth.rs leave the headers as KeysInv says, for all requests, keys
\* and secrets.
THEOREM KeysInvHolds == OneSpec => []KeysInv
<1>1. OneInit => KeysInv
  BY KeysInit DEF OneInit
<1>2. KeysInv /\ [OneNext]_<<view, vars, key_vars, price_vars>> => KeysInv'
  <2> SUFFICES ASSUME KeysInv, [OneNext]_<<view, vars, key_vars, price_vars>> PROVE KeysInv'
    OBVIOUS
  <2>1. Keys!Next \/ UNCHANGED key_vars
    BY DEF OneNext
  <2> QED BY <2>1, KeysStep
<1> QED BY <1>1, <1>2, PTL DEF OneSpec

\* What is found under a provider's name is what its client supplied for it.
LEMMA FoundIsSupplied ==
  ASSUME KeysInv, at = "routed", NEW p \in Keys!Providers, Keys!ForProvider(p) # None
  PROVE  Keys!ForProvider(p) \in Keys!Supplied(p)
<1>1. PICK name \in Sought(p) : name \in DOMAIN headers /\ Keys!ForProvider(p) = headers[name]
  BY DEF Keys!ForProvider, Keys!Extract, Sought
<1>2. /\ name[1] \in Keys!NamesOf(p) /\ name # Keys!ApiKey /\ name # Keys!ClientId
      /\ \A n : Keys!BridgeHeader(n) # None /\ Keys!BridgeHeader(n) = name => n \in Keys!NamesOf(p)
  BY TablesAgree
<1>3. name \in DOMAIN Carried /\ headers[name] = Carried[name]
  BY <1>1, <1>2 DEF KeysInv, Keys!Admitted, Keys!Inserted
<1>4. CASE name \in DOMAIN sent.headers /\ Carried[name] = sent.headers[name]
  BY <1>1, <1>2, <1>3, <1>4 DEF Keys!Supplied
<1>5. CASE ~(name \in DOMAIN sent.headers /\ Carried[name] = sent.headers[name])
  <2>1. Keys!ByToken /\ Keys!Composite(sent.bearer)
    BY <1>3, <1>5 DEF Carried, KeysInv
  <2>2. name = Keys!BridgeHeader(sent.bearer[2]) /\ Carried[name] = Keys!Rest(sent.bearer)
    BY <1>2, <1>3, <1>5, <2>1 DEF Carried, Keys!Inserted
  <2>3. sent.bearer[2] \in Keys!NamesOf(p) /\ Len(sent.bearer) >= 3
    BY <1>2, <2>1, <2>2 DEF Keys!Composite
  <2> QED BY <1>1, <1>3, <2>1, <2>2, <2>3 DEF Keys!Supplied, Keys!Rest
<1> QED BY <1>4, <1>5

\* A token never stands in for the RouterFuel key itself.
LEMMA BridgeSparesApiKey ==
  ASSUME NEW n, Keys!BridgeHeader(n) # None
  PROVE  Keys!BridgeHeader(n) # Keys!ApiKey
<1> DEFINE names == {"xai", "qwen", "moonshot", "zhipu", "meta", "azure-openai", "bedrock", "openai",
                     "anthropic", "deepseek", "gemini", "mistral", "openrouter"}
<1>1. PICK a \in names, b \in {"api-key", "connection"} : Keys!BridgeHeader(n) = <<a, b>>
  BY BridgeTurns
<1>2. a # ""
  OBVIOUS
<1>3. <<a, b>> # <<"", "api-key">>
  BY <1>2
<1> QED BY <1>1, <1>3 DEF Keys!ApiKey, Keys!Key

\* Whose keys are used follows from what became of the headers.
LEMMA CredentialsNow == KeysInv => CredentialsHold
<1> SUFFICES ASSUME KeysInv PROVE CredentialsHold
  OBVIOUS
<1>0. "OpenRouter" \in Keys!Providers /\ None \notin Keys!Providers
  BY AccessAssumption DEF Keys!ValuesDistinct, Keys!Providers, Keys!HeadersOf
<1>1. Keys!KeysStayHome
  <2> SUFFICES ASSUME provider_call # None, provider_call.provider # None
               PROVE  provider_call.key \in Keys!Supplied(provider_call.provider)
    BY DEF Keys!KeysStayHome
  <2>1. PICK p \in Keys!Providers : at = "routed" /\ provider_call = RouteOf(p)
    BY DEF KeysInv
  <2>2. PICK q \in Keys!Providers : /\ provider_call.provider = q
                                    /\ provider_call.key = Keys!ForProvider(q)
                                    /\ Keys!ForProvider(q) # None
    BY <1>0, <2>1 DEF RouteOf
  <2> QED BY <2>1, <2>2, FoundIsSupplied
<1>2. Keys!OwnIdentity
  <2> SUFFICES ASSUME at \in {"handler", "routed"}
               PROVE  /\ client = (IF Keys!ByToken THEN <<sent.bearer[1]>>
                                   ELSE sent.headers[Keys!ApiKey])
                      /\ headers[Keys!ClientId] = client
    BY DEF Keys!OwnIdentity
  <2>1. headers[Keys!ClientId] = client
    BY DEF KeysInv, Keys!Admitted, Keys!Inserted
  <2>2. CASE Keys!ByToken
    <3>1. Keys!BridgeHeader(sent.bearer[2]) # Keys!ApiKey
      BY <2>2, BridgeSparesApiKey DEF KeysInv, Keys!Composite
    <3>2. Carried[Keys!ApiKey] = <<sent.bearer[1]>>
      BY <2>2, <3>1 DEF Carried, Keys!Inserted
    <3> QED BY <2>1, <2>2, <3>2 DEF KeysInv
  <2>3. CASE ~Keys!ByToken
    BY <2>1, <2>3 DEF KeysInv, Carried
  <2> QED BY <2>2, <2>3
<1>3. Keys!ReachableHasKey
  <2> SUFFICES ASSUME provider_call # None
               PROVE  provider_call.of \in Keys!Reachable <=> provider_call.provider # None
    BY DEF Keys!ReachableHasKey
  <2>1. PICK p \in Keys!Providers : provider_call = RouteOf(p)
    BY DEF KeysInv
  <2> QED BY <1>0, <2>1 DEF RouteOf, Keys!Reachable
<1>4. Keys!AdminNeedsSecret
  <2> SUFFICES ASSUME admin # None, admin.in
               PROVE  admin_key # "" /\ admin.supplied = admin_key
    BY DEF Keys!AdminNeedsSecret
  <2>1. PICK supplied : admin = [supplied |-> supplied, in |-> Keys!AdminAccepts(supplied)]
    BY DEF KeysInv
  <2> QED BY <2>1 DEF Keys!AdminAccepts
<1> QED BY <1>1, <1>2, <1>3, <1>4 DEF CredentialsHold

\* A provider is called with its own client's key for it, the client is whom
\* its key says, and /admin opens to its secret alone.
THEOREM CredentialsAlwaysHold == OneSpec => []CredentialsHold
BY KeysInvHolds, CredentialsNow, PTL

-----------------------------------------------------------------------------
(***************************************************************************)
(* What it costs.                                                          *)
(***************************************************************************)

\* A bill grows with what is counted and with the rates.
LEMMA Monotone ==
  ASSUME NEW a \in Nat, NEW b \in Nat, NEW x \in Nat, NEW y \in Nat, a <= b, x <= y
  PROVE  a * x \in Nat /\ b * y \in Nat /\ a * x <= b * y
<1>1. PICK c \in Nat : b = a + c
  <2>1. b - a \in Nat /\ b = a + (b - a)
    OBVIOUS
  <2> QED BY <2>1
<1>2. PICK z \in Nat : y = x + z
  <2>1. y - x \in Nat /\ y = x + (y - x)
    OBVIOUS
  <2> QED BY <2>1
<1>3. a * x \in Nat /\ a * z \in Nat /\ c * x \in Nat /\ c * z \in Nat
  OBVIOUS
<1>4. b * y = a * x + a * z + c * x + c * z
  BY <1>1, <1>2
<1> DEFINE p == a * x
           q == a * z
           r == c * x
           s == c * z
<1>5. p \in Nat /\ q \in Nat /\ r \in Nat /\ s \in Nat /\ b * y = p + q + r + s
  BY <1>3, <1>4
<1> HIDE DEF p, q, r, s
<1>6. b * y \in Nat /\ p <= b * y
  BY <1>5
<1> QED BY <1>5, <1>6 DEF p

\* Prices are numbers, and more tokens never cost less each.
LEMMA PricesRise ==
  ASSUME NEW m \in DOMAIN Registry, NEW few \in Nat, NEW many \in Nat, few <= many
  PROVE  /\ Money!PriceFor(m, few) \in [in : Nat, out : Nat]
         /\ Money!PriceFor(m, many) \in [in : Nat, out : Nat]
         /\ Money!PriceFor(m, few).in <= Money!PriceFor(m, many).in
         /\ Money!PriceFor(m, few).out <= Money!PriceFor(m, many).out
<1>1. PICK p : p = Registry[m]
  OBVIOUS
<1>2. p \in [in : Nat, out : Nat, above : Nat \cup {-1}, long_in : Nat, long_out : Nat]
  BY <1>1, BillingAssumption DEF Money!RegistrySensible, Money!NoTier
<1>3. p.in <= p.long_in /\ p.out <= p.long_out
  BY <1>1, BillingAssumption DEF Money!RegistrySensible
<1>4. \A n \in Nat :
        Money!PriceFor(m, n) = IF p.above # -1 /\ n > p.above
                               THEN [in |-> p.long_in, out |-> p.long_out]
                               ELSE [in |-> p.in, out |-> p.out]
  BY <1>1 DEF Money!PriceFor, Money!NoTier
<1>5. p.in \in Nat /\ p.out \in Nat /\ p.above \in Nat \cup {-1} /\ p.long_in \in Nat /\ p.long_out \in Nat
  BY <1>2
<1> QED BY <1>3, <1>4, <1>5

\* What reconcile is called with.
SettledCost ==
  Money!Cost(Money!SettledCounts.in, Money!SettledCounts.out, Money!SettlementRates)

\* What is known of the price view: its rates are the model's, nothing is held
\* before the reservation or by a panic, all that the estimate costs after it,
\* and it is settled for the counts its handler takes, or released.
PriceInv ==
  /\ stage \in {"idle", "priced", "reserved", "answered", "settled", "released", "panicked"}
  /\ checks \in BOOLEAN
  /\ model \in DOMAIN Registry \cup {Unregistered}
  /\ input \in Nat /\ Money!EstimatedOutput \in Nat
  /\ rates = IF model = Unregistered THEN Money!Free ELSE Money!PriceFor(model, input)
  /\ reported \in [in : Nat, out : Nat] \cup {None}
  /\ stage = "panicked" => checks
  /\ IF stage \in {"idle", "priced", "panicked"} THEN held = None
     ELSE held = Money!Cost(input, Money!EstimatedOutput, rates)
  /\ settled = CASE stage = "settled" -> SettledCost
                  [] stage = "released" -> 0
                  [] OTHER -> None

\* A handler's rates are numbers.
LEMMA RatesTyped ==
  ASSUME PriceInv
  PROVE  rates \in [in : Nat, out : Nat]
<1>1. Money!Free \in [in : Nat, out : Nat]
  BY DEF Money!Free
<1>2. CASE model = Unregistered
  BY <1>1, <1>2 DEF PriceInv
<1>3. CASE model # Unregistered
  <2>1. model \in DOMAIN Registry /\ input \in Nat /\ input <= input
    BY <1>3 DEF PriceInv
  <2>2. Money!PriceFor(model, input) \in [in : Nat, out : Nat]
    BY <2>1, PricesRise
  <2> QED BY <1>3, <2>2 DEF PriceInv
<1> QED BY <1>2, <1>3

\* The estimate is a number, whatever is asked for.
LEMMA EstimateTyped ==
  ASSUME NEW l \in Limits \cup {None}, NEW k
  PROVE  (IF l = None THEN DefaultOutput
          ELSE IF k = "native" THEN Money!AsU32(l) ELSE l) \in Nat
<1> DEFINE width == Money!U32
<1>1. width \in Nat /\ DefaultOutput \in 0 .. OutputLimit /\ OutputLimit \in 0 .. width - 1
      /\ Limits \subseteq Nat
  BY BillingAssumption DEF Money!TokensSensible, Money!BitsSensible
<1> HIDE DEF width
<1>2. width \in Nat \ {0} /\ DefaultOutput \in Nat
  BY <1>1
<1>3. \A n \in Nat : n % width \in Nat
  <2> SUFFICES ASSUME NEW n \in Nat PROVE n % width \in Nat
    OBVIOUS
  <2>1. width > 0 /\ width \in Int /\ n \in Int
    BY <1>2
  <2>2. n % width \in 0 .. width - 1
    BY <2>1
  <2> QED BY <2>1, <2>2
<1>4. \A n \in Nat : Money!AsU32(n) \in Nat
  BY <1>3 DEF Money!AsU32, width
<1>5. l # None => l \in Nat
  BY <1>1
<1> QED BY <1>2, <1>4, <1>5

\* Before a request nothing is priced, held or settled.
LEMMA PriceInit == Money!Init => PriceInv
<1> SUFFICES ASSUME Money!Init PROVE PriceInv
  OBVIOUS
<1>1. Money!EstimatedOutput \in Nat
  BY EstimateTyped DEF Money!Init, Money!EstimatedOutput, Money!AsU32
<1> QED BY <1>1 DEF Money!Init, PriceInv

\* Pricing, reserving, answering, failing and settling keep it.
LEMMA PriceStep == PriceInv /\ (Money!Next \/ UNCHANGED price_vars) => PriceInv'
<1> SUFFICES ASSUME PriceInv, Money!Next \/ UNCHANGED price_vars PROVE PriceInv'
  OBVIOUS
<1> USE DEF PriceInv
<1>1. CASE Money!Receive
  <2>1. PICK k \in Money!Kinds, m \in DOMAIN Registry \cup {Unregistered}, d \in BOOLEAN,
             n \in Inputs, l \in Limits \cup {None} :
          /\ kind' = k /\ model' = m /\ direct' = d /\ input' = n /\ limit' = l
          /\ rates' = IF m = Unregistered THEN Money!Free ELSE Money!PriceFor(m, n)
    BY <1>1 DEF Money!Receive
  <2>2. Money!EstimatedOutput' \in Nat
    BY <2>1, EstimateTyped DEF Money!EstimatedOutput, Money!AsU32
  <2>3. n \in Nat
    BY BillingAssumption DEF Money!TokensSensible
  <2>4. Money!PriceFor(m, n)' = Money!PriceFor(m, n)
    BY DEF Money!PriceFor
  <2> QED BY <1>1, <2>1, <2>2, <2>3, <2>4 DEF Money!Receive, Money!Free, Money!PriceFor
<1>2. ASSUME UNCHANGED Money!request PROVE Money!EstimatedOutput' = Money!EstimatedOutput
  BY <1>2 DEF Money!EstimatedOutput, Money!request, Money!AsU32
<1>3. CASE Money!EstimatePanics
  BY <1>2, <1>3 DEF Money!EstimatePanics, Money!Panics, Money!request, Money!Free, Money!PriceFor
<1>4. CASE Money!Reserve
  BY <1>2, <1>4 DEF Money!Reserve, Money!request, Money!Free, Money!PriceFor, Money!Cost
<1>5. ASSUME NEW usage \in [in : Reports, out : Reports] \cup {None}, Money!Answer(usage)
      PROVE  PriceInv'
  <2>1. Reports \subseteq Nat
    BY BillingAssumption DEF Money!TokensSensible
  <2>2. reported' \in [in : Nat, out : Nat] \cup {None}
    BY <1>5, <2>1 DEF Money!Answer
  <2> QED BY <1>2, <1>5, <2>2 DEF Money!Answer, Money!request, Money!Free, Money!PriceFor, Money!Cost
<1>6. CASE Money!CallFails
  BY <1>2, <1>6 DEF Money!CallFails, Money!request, Money!Free, Money!PriceFor, Money!Cost
<1>7. CASE Money!Settle
  <2>1. SettledCost' = SettledCost
    BY <1>7 DEF Money!Settle, SettledCost, Money!Cost, Money!SettledCounts, Money!Counts,
                Money!SettlementRates, Money!request, Money!Lookup, Money!Sent, Money!PriceFor,
                Money!CatalogPrice
  <2>2. stage' = "settled" /\ settled' = SettledCost
    BY <1>7 DEF Money!Settle, SettledCost
  <2> QED BY <1>2, <1>7, <2>1, <2>2 DEF Money!Settle, Money!request, Money!Free, Money!PriceFor,
                                        Money!Cost
<1>8. CASE UNCHANGED price_vars
  <2>1. UNCHANGED Money!request
    BY <1>8 DEF price_vars, Money!request
  <2>2. SettledCost' = SettledCost
    BY <1>8 DEF price_vars, SettledCost, Money!Cost, Money!SettledCounts, Money!Counts,
                Money!SettlementRates, Money!Lookup, Money!Sent, Money!PriceFor, Money!CatalogPrice
  <2> QED BY <1>2, <1>8, <2>1, <2>2 DEF price_vars, Money!Free, Money!PriceFor, Money!Cost
<1> QED BY <1>1, <1>3, <1>4, <1>5, <1>6, <1>7, <1>8 DEF Money!Next

\* Every handler holds the price of its own estimate and settles it once, for all
\* prices, widths and limits.
THEOREM PriceInvHolds == OneSpec => []PriceInv
<1>1. OneInit => PriceInv
  BY PriceInit DEF OneInit
<1>2. PriceInv /\ [OneNext]_<<view, vars, key_vars, price_vars>> => PriceInv'
  <2> SUFFICES ASSUME PriceInv, [OneNext]_<<view, vars, key_vars, price_vars>> PROVE PriceInv'
    OBVIOUS
  <2>1. Money!Next \/ UNCHANGED price_vars
    BY DEF OneNext
  <2> QED BY <2>1, PriceStep
<1> QED BY <1>1, <1>2, PTL DEF OneSpec

\* What a handler takes for the counts are numbers, within the estimate if the
\* answer is.
LEMMA CountsTyped ==
  ASSUME PriceInv
  PROVE  /\ Money!SettledCounts.in \in Nat /\ Money!SettledCounts.out \in Nat
         /\ Money!WithinEstimate => /\ Money!SettledCounts.in <= input
                                   /\ Money!SettledCounts.out <= Money!EstimatedOutput
<1>1. input \in Nat /\ Money!EstimatedOutput \in Nat
      /\ reported \in [in : Nat, out : Nat] \cup {None}
  BY DEF PriceInv
<1>2. CASE reported = None
  <2>1. /\ Money!SettledCounts.in \in {0, input}
        /\ Money!SettledCounts.out = 0
    BY <1>2 DEF Money!SettledCounts, Money!Counts
  <2> QED BY <1>1, <2>1
<1>3. CASE reported # None
  <2>1. reported \in [in : Nat, out : Nat]
    BY <1>1, <1>3
  <2>2. /\ Money!SettledCounts.in = IF kind = "chat" THEN input ELSE reported.in
        /\ Money!SettledCounts.out = reported.out
    BY <1>3, <2>1 DEF Money!SettledCounts, Money!Counts
  <2>3. reported.in \in Nat /\ reported.out \in Nat
    BY <2>1
  <2> QED BY <1>1, <1>3, <2>2, <2>3 DEF Money!WithinEstimate
<1> QED BY <1>2, <1>3

\* The estimate bounds the bill.
LEMMA CoversNow == PriceInv => ReservationCovers
<1> SUFFICES ASSUME PriceInv PROVE Money!ReservationCovers
  BY DEF ReservationCovers
<1> DEFINE out == Money!EstimatedOutput
<1>0. input \in Nat /\ out \in Nat /\ rates.in \in Nat /\ rates.out \in Nat
  BY RatesTyped DEF PriceInv
<1>1. held # None => held = input * rates.in + out * rates.out
  BY DEF PriceInv, Money!Cost
<1>2. ASSUME settled # None, Money!Registered, direct, Money!WithinEstimate
      PROVE  settled <= held
  <2>1. held = input * rates.in + out * rates.out
    BY <1>2 DEF PriceInv, Money!Cost
  <2> DEFINE p == Money!SettlementRates
             few == Money!SettledCounts.in
             fewer == Money!SettledCounts.out
  <2>2. settled = 0 \/ settled = few * p.in + fewer * p.out
    BY <1>2 DEF PriceInv, SettledCost, Money!Cost
  <2>a. few \in Nat /\ fewer \in Nat /\ few <= input /\ fewer <= out
    BY <1>2, CountsTyped
  <2>3. model # Unregistered /\ model \in DOMAIN Registry
    BY <1>2, BillingAssumption DEF Money!Registered, Money!RegistrySensible
  <2>4. rates = Money!PriceFor(model, input)
    BY <2>3 DEF PriceInv
  <2>5. p = rates \/ p = Money!PriceFor(model, few)
    BY <1>2, <2>3 DEF Money!SettlementRates, Money!Lookup, Money!Sent
  <2> HIDE DEF few, fewer
  <2>6. /\ p.in \in Nat /\ p.out \in Nat
        /\ p.in <= rates.in /\ p.out <= rates.out
    <3>1. /\ Money!PriceFor(model, few) \in [in : Nat, out : Nat]
          /\ Money!PriceFor(model, few).in <= Money!PriceFor(model, input).in
          /\ Money!PriceFor(model, few).out <= Money!PriceFor(model, input).out
      BY <1>0, <2>a, <2>3, PricesRise
    <3> QED BY <1>0, <2>4, <2>5, <3>1
  <2> HIDE DEF p, out
  <2>7. /\ few * p.in \in Nat /\ input * rates.in \in Nat
        /\ few * p.in <= input * rates.in
    BY <1>0, <2>a, <2>6, Monotone
  <2>8. /\ fewer * p.out \in Nat /\ out * rates.out \in Nat
        /\ fewer * p.out <= out * rates.out
    BY <1>0, <2>a, <2>6, Monotone
  <2> DEFINE a == few * p.in
             b == input * rates.in
             c == fewer * p.out
             d == out * rates.out
  <2>9. a \in Nat /\ b \in Nat /\ c \in Nat /\ d \in Nat /\ a <= b /\ c <= d
        /\ held = b + d /\ (settled = 0 \/ settled = a + c)
    BY <2>1, <2>2, <2>7, <2>8
  <2> HIDE DEF a, b, c, d
  <2> QED BY <2>9
<1>3. ASSUME held # None PROVE held >= input * rates.in /\ held >= out * rates.out
  <2> DEFINE b == input * rates.in
             d == out * rates.out
  <2> HIDE DEF out
  <2>1. b \in Nat /\ d \in Nat /\ held = b + d
    BY <1>0, <1>1, <1>3
  <2> HIDE DEF b, d
  <2>2. held >= b /\ held >= d
    BY <2>1
  <2> QED BY <2>2 DEF b, d
<1>4. stage = "panicked" => checks /\ held = None
  BY DEF PriceInv
<1> QED BY <1>2, <1>3, <1>4 DEF Money!ReservationCovers

\* Whatever is reserved is enough for every answer that keeps to the estimate.
THEOREM ReservationAlwaysCovers == OneSpec => []ReservationCovers
BY PriceInvHolds, CoversNow, PTL

\* Counting more or fewer tokens costs their price more or less.
LEMMA Apart ==
  ASSUME NEW a \in Nat, NEW b \in Nat, NEW x \in Nat, NEW c \in Nat
  PROVE  a * x + c = b * x + c + (a - b) * x
<1>1. (a - b) * x = a * x - b * x
  OBVIOUS
<1>2. a * x \in Nat /\ b * x \in Nat
  OBVIOUS
<1> QED BY <1>1, <1>2

\* What is settled was priced as the provider prices it.
LEMMA BilledNow == PriceInv => SettledAsBilled
<1> SUFFICES ASSUME PriceInv, stage = "settled", Money!Registered, direct, reported # None
             PROVE  /\ kind = "stream" => settled = Money!Bill
                    /\ Money!SameTier => settled = Money!Bill + Money!Miscount * rates.in
  BY DEF SettledAsBilled, Money!SettledAsBilled
<1>1. model # Unregistered /\ model \in DOMAIN Registry
  BY BillingAssumption DEF Money!Registered, Money!RegistrySensible
<1>2. settled = SettledCost
  BY DEF PriceInv
<1>3. /\ reported.in \in Nat /\ reported.out \in Nat /\ input \in Nat
      /\ rates.in \in Nat /\ rates.out \in Nat
  BY RatesTyped DEF PriceInv
<1>4. reported \in [in : Nat, out : Nat]
  BY DEF PriceInv
<1>5. ASSUME kind # "chat" PROVE Money!SettledCounts = reported /\ Money!Miscount = 0
  BY <1>5 DEF Money!SettledCounts, Money!Counts, Money!Miscount
<1>6. CASE kind = "stream"
  <2>1. Money!SettlementRates = Money!PriceFor(model, reported.in)
    BY <1>1, <1>5, <1>6 DEF Money!SettlementRates, Money!Lookup, Money!Sent
  <2>2. settled = Money!Bill
    BY <1>2, <1>5, <1>6, <2>1 DEF SettledCost, Money!Bill
  <2>3. Money!SameTier => Money!Bill = reported.in * rates.in + reported.out * rates.out
    BY <1>1 DEF PriceInv, Money!SameTier, Money!Bill, Money!Cost
  <2>4. Money!SameTier => Money!Bill = Money!Bill + 0 * rates.in
    BY <1>3, <2>3
  <2> QED BY <1>5, <1>6, <2>2, <2>4
<1>7. CASE kind # "stream"
  <2> SUFFICES ASSUME Money!SameTier
               PROVE  settled = Money!Bill + Money!Miscount * rates.in
    BY <1>7
  <2>1. Money!SettlementRates = rates
    BY <1>7 DEF Money!SettlementRates
  <2>2. Money!Bill = reported.in * rates.in + reported.out * rates.out
    BY <1>1 DEF PriceInv, Money!SameTier, Money!Bill, Money!Cost
  <2>3. CASE kind = "chat"
    <3>1. settled = input * rates.in + reported.out * rates.out
      BY <1>2, <1>4, <2>1, <2>3 DEF SettledCost, Money!SettledCounts, Money!Counts, Money!Cost
    <3> DEFINE c == reported.out * rates.out
    <3>2. c \in Nat
      BY <1>3
    <3> HIDE DEF c
    <3>3. input * rates.in + c = reported.in * rates.in + c + (input - reported.in) * rates.in
      BY <1>3, <3>2, Apart
    <3>4. Money!Miscount = input - reported.in
      BY <2>3 DEF Money!Miscount
    <3> QED BY <2>2, <3>1, <3>3, <3>4 DEF c
  <2>4. CASE kind # "chat"
    <3>1. settled = Money!Bill
      BY <1>2, <1>5, <2>1, <2>2, <2>4 DEF SettledCost, Money!Cost
    <3>2. Money!Bill = Money!Bill + 0 * rates.in
      BY <1>3, <2>2
    <3> QED BY <1>5, <2>4, <3>1, <3>2
  <2> QED BY <2>3, <2>4
<1> QED BY <1>6, <1>7

\* What a settlement keeps is the provider's bill, but for what a chat's handler
\* counted differently, at the price of one token of input each.
THEOREM SettledIsBilled == OneSpec => []SettledAsBilled
BY PriceInvHolds, BilledNow, PTL

-----------------------------------------------------------------------------
(***************************************************************************)
(* Finite sets of numbers in order: what is kept, dropped or looked for in *)
(* a sequence is such a set of places.                                     *)
(***************************************************************************)

\* An image without collisions is as large as what it is of.
LEMMA ImageSize ==
  ASSUME NEW S, IsFiniteSet(S), NEW f, NEW T,
         \A x, y \in S : f[x] = f[y] => x = y,
         \A x \in S : f[x] \in T, \A t \in T : \E x \in S : t = f[x]
  PROVE  IsFiniteSet(T) /\ Cardinality(T) = Cardinality(S)
<1> DEFINE g == [x \in S |-> f[x]]
<1>1. g \in Bijection(S, T)
  BY Fun_IsBij
<1>2. ExistsBijection(S, T)
  BY <1>1 DEF ExistsBijection
<1> QED BY <1>2, FS_Bijection

\* The place of i in S.
Rank(S, i) == Cardinality({j \in S : j <= i})

\* Places are numbered from one on, in order, and are nobody else's.
LEMMA RankIs ==
  ASSUME NEW S \in SUBSET Nat, IsFiniteSet(S)
  PROVE  /\ Cardinality(S) \in Nat
         /\ \A i \in S : Rank(S, i) \in 1 .. Cardinality(S)
         /\ \A i, j \in S : i < j => Rank(S, i) < Rank(S, j)
         /\ \A i, j \in S : Rank(S, i) = Rank(S, j) => i = j
<1>0. Cardinality(S) \in Nat
  BY FS_CardinalityType
<1>1. \A i \in S : /\ IsFiniteSet({j \in S : j <= i})
                   /\ Rank(S, i) \in Nat /\ Rank(S, i) <= Cardinality(S)
  <2> SUFFICES ASSUME NEW i \in S
               PROVE  /\ IsFiniteSet({j \in S : j <= i})
                      /\ Rank(S, i) \in Nat /\ Rank(S, i) <= Cardinality(S)
    OBVIOUS
  <2> DEFINE T == {j \in S : j <= i}
  <2>1. T \in SUBSET S
    OBVIOUS
  <2> HIDE DEF T
  <2>2. IsFiniteSet(T) /\ Cardinality(T) <= Cardinality(S) /\ Cardinality(T) \in Nat
    BY <2>1, FS_Subset, FS_CardinalityType
  <2> QED BY <2>2 DEF T, Rank
<1>2. \A i \in S : Rank(S, i) # 0
  <2> SUFFICES ASSUME NEW i \in S PROVE Cardinality({j \in S : j <= i}) # 0
    BY DEF Rank
  <2> DEFINE T == {j \in S : j <= i}
  <2>0. i \in Nat
    OBVIOUS
  <2>1. i \in T
    BY <2>0
  <2>2. IsFiniteSet(T)
    BY <1>1
  <2> HIDE DEF T
  <2>3. T # {}
    BY <2>1
  <2>4. Cardinality(T) # 0
    BY <2>2, <2>3, FS_EmptySet
  <2> QED BY <2>4 DEF T
<1>3. \A i, j \in S : i < j => Rank(S, i) < Rank(S, j)
  <2> SUFFICES ASSUME NEW i \in S, NEW j \in S, i < j PROVE Rank(S, i) < Rank(S, j)
    OBVIOUS
  <2> DEFINE T == {k \in S : k <= i}
             U == {k \in S : k <= j}
  <2>0. i \in Nat /\ j \in Nat /\ \A k \in S : k \in Nat
    OBVIOUS
  <2>1. T \in SUBSET U /\ j \in U /\ j \notin T
    <3>1. \A k \in Nat : k <= i => k <= j
      BY <2>0
    <3>2. T \in SUBSET U
      BY <2>0, <3>1
    <3>3. j <= j /\ ~(j <= i)
      BY <2>0
    <3> QED BY <3>2, <3>3
  <2>2. IsFiniteSet(U) /\ Cardinality(T) = Rank(S, i) /\ Cardinality(U) = Rank(S, j)
    BY <1>1 DEF Rank
  <2> HIDE DEF T, U
  <2>3. Cardinality(T) <= Cardinality(U) /\ (Cardinality(T) = Cardinality(U) => T = U)
    BY <2>1, <2>2, FS_Subset
  <2>4. Rank(S, i) \in Nat /\ Rank(S, j) \in Nat
    BY <1>1
  <2>5. Rank(S, i) # Rank(S, j)
    BY <2>1, <2>2, <2>3
  <2> QED BY <2>2, <2>3, <2>4, <2>5
<1>4. \A i, j \in S : Rank(S, i) = Rank(S, j) => i = j
  <2> SUFFICES ASSUME NEW i \in S, NEW j \in S, Rank(S, i) = Rank(S, j), i # j PROVE FALSE
    OBVIOUS
  <2>0. i \in Nat /\ j \in Nat
    OBVIOUS
  <2>1. i < j \/ j < i
    BY <2>0
  <2>2. Rank(S, i) \in Nat /\ Rank(S, j) \in Nat
    BY <1>1
  <2>3. i < j => Rank(S, i) < Rank(S, j)
    BY <1>3
  <2>4. j < i => Rank(S, j) < Rank(S, i)
    BY <1>3
  <2> DEFINE a == Rank(S, i)
             b == Rank(S, j)
  <2>5. a \in Nat /\ b \in Nat /\ a = b /\ (a < b \/ b < a)
    BY <2>1, <2>2, <2>3, <2>4
  <2> HIDE DEF a, b
  <2> QED BY <2>5
<1>5. \A i \in S : Rank(S, i) \in 1 .. Cardinality(S)
  <2> SUFFICES ASSUME NEW i \in S PROVE Rank(S, i) \in 1 .. Cardinality(S)
    OBVIOUS
  <2> DEFINE a == Rank(S, i)
             n == Cardinality(S)
  <2>1. a \in Nat /\ n \in Nat /\ a <= n /\ a # 0
    BY <1>0, <1>1, <1>2
  <2> HIDE DEF a, n
  <2>2. a \in 1 .. n
    BY <2>1
  <2> QED BY <2>2 DEF a, n
<1> QED BY <1>0, <1>3, <1>4, <1>5

\* InOrder gives every member its place.
LEMMA InOrderIs ==
  ASSUME NEW S \in SUBSET Nat, IsFiniteSet(S)
  PROVE  /\ Cardinality(S) \in Nat
         /\ DOMAIN InOrder(S) = 1 .. Cardinality(S)
         /\ \A k \in 1 .. Cardinality(S) : InOrder(S)[k] \in S /\ Rank(S, InOrder(S)[k]) = k
         /\ \A i \in S : Rank(S, i) \in 1 .. Cardinality(S) /\ InOrder(S)[Rank(S, i)] = i
<1> DEFINE n == Cardinality(S)
           ranks == [i \in S |-> Rank(S, i)]
<1>0. n \in Nat
  BY RankIs
<1>1. IsFiniteSet(1 .. n) /\ Cardinality(1 .. n) = n
  BY <1>0, FS_Interval
<1>2. ranks \in Injection(S, 1 .. n)
  <2>1. ranks \in [S -> 1 .. n]
    BY RankIs
  <2>2. \A i, j \in S : ranks[i] = ranks[j] => i = j
    BY RankIs
  <2> QED BY <2>1, <2>2 DEF Injection, IsInjective
<1>3. ranks \in Surjection(S, 1 .. n)
  <2> DEFINE T == 1 .. n
  <2>1. IsFiniteSet(T) /\ Cardinality(T) = n /\ ranks \in Injection(S, T)
    BY <1>1, <1>2
  <2> HIDE DEF T, ranks
  <2>2. Cardinality(S) = Cardinality(T) <=> ranks \in Surjection(S, T)
    BY <2>1, FS_Injection
  <2> QED BY <2>1, <2>2 DEF T
<1>4. \A k \in 1 .. n : \E i \in S : Rank(S, i) = k
  BY <1>3 DEF Surjection
<1>5. \A k \in 1 .. n : InOrder(S)[k] = CHOOSE i \in S : Rank(S, i) = k
  BY DEF InOrder, Rank
<1>6. \A k \in 1 .. n : InOrder(S)[k] \in S /\ Rank(S, InOrder(S)[k]) = k
  BY <1>4, <1>5
<1>7. \A i \in S : Rank(S, i) \in 1 .. n /\ InOrder(S)[Rank(S, i)] = i
  <2> SUFFICES ASSUME NEW i \in S PROVE Rank(S, i) \in 1 .. n /\ InOrder(S)[Rank(S, i)] = i
    OBVIOUS
  <2>1. Rank(S, i) \in 1 .. n
    BY RankIs
  <2>2. PICK k \in 1 .. n : k = Rank(S, i)
    BY <2>1
  <2>3. PICK j \in S : j = InOrder(S)[k]
    BY <1>6
  <2>4. Rank(S, j) = Rank(S, i)
    BY <1>6, <2>2, <2>3
  <2>5. InOrder(S)[k] = i
    BY <2>3, <2>4, RankIs
  <2> QED BY <2>1, <2>2, <2>5
<1>8. DOMAIN InOrder(S) = 1 .. n
  BY DEF InOrder
<1> QED BY <1>0, <1>6, <1>7, <1>8

\* All of 1 .. n in order are themselves.
LEMMA AllInOrder ==
  ASSUME NEW n \in Nat
  PROVE  /\ IsFiniteSet(1 .. n) /\ Cardinality(1 .. n) = n
         /\ \A k \in 1 .. n : InOrder(1 .. n)[k] = k
<1>1. IsFiniteSet(1 .. n) /\ Cardinality(1 .. n) = n
  BY FS_Interval
<1>2. \A k \in 1 .. n : Rank(1 .. n, k) = k
  <2> SUFFICES ASSUME NEW k \in 1 .. n PROVE Rank(1 .. n, k) = k
    OBVIOUS
  <2>1. {j \in 1 .. n : j <= k} = 1 .. k
    OBVIOUS
  <2>2. Cardinality(1 .. k) = k
    BY FS_Interval
  <2> QED BY <2>1, <2>2 DEF Rank
<1>3. \A k \in 1 .. n : InOrder(1 .. n)[Rank(1 .. n, k)] = k
  BY <1>1, InOrderIs
<1> QED BY <1>1, <1>2, <1>3

\* Of the places D that are kept, those of I are the same in the same order,
\* wherever they have moved to.
LEMMA KeptInOrder ==
  ASSUME NEW D \in SUBSET Nat, IsFiniteSet(D), NEW I \in SUBSET D,
         NEW K, K = {k \in 1 .. Cardinality(D) : InOrder(D)[k] \in I}
  PROVE  /\ K \in SUBSET Nat /\ IsFiniteSet(K) /\ IsFiniteSet(I)
         /\ Cardinality(K) = Cardinality(I)
         /\ \A m \in 1 .. Cardinality(I) :
              /\ InOrder(K)[m] \in 1 .. Cardinality(D)
              /\ InOrder(D)[InOrder(K)[m]] = InOrder(I)[m]
<1> DEFINE kept == InOrder(D)
           n == Cardinality(D)
<1>0. /\ n \in Nat
      /\ \A k \in 1 .. n : kept[k] \in D /\ kept[k] \in Nat /\ Rank(D, kept[k]) = k
      /\ \A i \in D : Rank(D, i) \in 1 .. n /\ kept[Rank(D, i)] = i
  BY InOrderIs
<1>1. \A k, l \in 1 .. n : kept[k] <= kept[l] <=> k <= l
  <2> SUFFICES ASSUME NEW k \in 1 .. n, NEW l \in 1 .. n
               PROVE  kept[k] <= kept[l] <=> k <= l
    OBVIOUS
  <2>1. kept[k] < kept[l] => k < l
    BY <1>0, RankIs
  <2>2. kept[l] < kept[k] => l < k
    BY <1>0, RankIs
  <2>3. kept[l] = kept[k] => l = k
    BY <1>0
  <2> HIDE DEF kept
  <2>4. kept[k] \in Nat /\ kept[l] \in Nat
    BY <1>0
  <2> QED BY <2>1, <2>2, <2>3, <2>4
<1> HIDE DEF kept, n
<1>2. /\ K = {k \in 1 .. n : kept[k] \in I} /\ K \in SUBSET Nat
      /\ K \in SUBSET (1 .. n)
  BY <1>0 DEF kept, n
<1>3. IsFiniteSet(K) /\ IsFiniteSet(I)
  <2>1. IsFiniteSet(1 .. n)
    BY <1>0, FS_Interval
  <2> DEFINE T == 1 .. n
  <2>2. K \in SUBSET T
    BY <1>2
  <2> HIDE DEF T
  <2>3. IsFiniteSet(K)
    BY <2>1, <2>2, FS_Subset DEF T
  <2>4. IsFiniteSet(I)
    BY FS_Subset
  <2> QED BY <2>3, <2>4
<1>4. Cardinality(K) = Cardinality(I)
  <2>1. \A x, y \in K : kept[x] = kept[y] => x = y
    BY <1>0, <1>2
  <2>2. \A x \in K : kept[x] \in I
    BY <1>2
  <2>3. \A t \in I : \E x \in K : t = kept[x]
    BY <1>0, <1>2
  <2> DEFINE S == K
             T == I
  <2>4. IsFiniteSet(S) /\ (\A x, y \in S : kept[x] = kept[y] => x = y)
        /\ (\A x \in S : kept[x] \in T) /\ (\A t \in T : \E x \in S : t = kept[x])
    BY <1>3, <2>1, <2>2, <2>3
  <2> HIDE DEF S, T
  <2>5. Cardinality(T) = Cardinality(S)
    BY <2>4, ImageSize
  <2> QED BY <2>5 DEF S, T
<1>5. \A k \in K : Rank(K, k) = Rank(I, kept[k])
  <2> SUFFICES ASSUME NEW k \in K PROVE Rank(K, k) = Rank(I, kept[k])
    OBVIOUS
  <2> DEFINE S == {j \in K : j <= k}
             T == {i \in I : i <= kept[k]}
  <2>1. S \in SUBSET K
    OBVIOUS
  <2>2. IsFiniteSet(S)
    BY <1>3, <2>1, FS_Subset
  <2>3. \A x, y \in S : kept[x] = kept[y] => x = y
    BY <1>0, <1>2
  <2>4. \A x \in S : kept[x] \in T
    BY <1>1, <1>2
  <2>5. \A t \in T : \E x \in S : t = kept[x]
    <3> SUFFICES ASSUME NEW t \in T PROVE \E x \in S : t = kept[x]
      OBVIOUS
    <3>1. PICK x \in 1 .. n : kept[x] = t
      BY <1>0
    <3>2. x \in K /\ x <= k
      BY <1>1, <1>2, <3>1
    <3> QED BY <3>1, <3>2
  <2> HIDE DEF S, T
  <2>6. Cardinality(T) = Cardinality(S)
    BY <2>2, <2>3, <2>4, <2>5, ImageSize
  <2> QED BY <2>6 DEF S, T, Rank
<1>6. ASSUME NEW m \in 1 .. Cardinality(I)
      PROVE  InOrder(K)[m] \in 1 .. n /\ kept[InOrder(K)[m]] = InOrder(I)[m]
  <2>1. m \in 1 .. Cardinality(K)
    BY <1>4
  <2>2. InOrder(K)[m] \in K /\ Rank(K, InOrder(K)[m]) = m
    BY <1>2, <1>3, <2>1, InOrderIs
  <2>3. I \in SUBSET Nat
    OBVIOUS
  <2>4. InOrder(I)[m] \in I /\ Rank(I, InOrder(I)[m]) = m
    BY <1>3, <2>3, InOrderIs
  <2>5. PICK k \in K : k = InOrder(K)[m]
    BY <2>2
  <2>6. Rank(I, kept[k]) = Rank(I, InOrder(I)[m]) /\ kept[k] \in I
    BY <1>2, <1>5, <2>2, <2>4, <2>5
  <2>7. kept[k] = InOrder(I)[m]
    <3>1. \A i, j \in I : Rank(I, i) = Rank(I, j) => i = j
      BY <1>3, <2>3, RankIs
    <3> QED BY <2>4, <2>6, <3>1
  <2>8. k \in 1 .. n
    BY <1>2
  <2>9. kept[InOrder(K)[m]] = kept[k]
    BY <2>5
  <2>10. InOrder(K)[m] \in 1 .. n
    BY <2>5, <2>8
  <2> QED BY <2>7, <2>9, <2>10
<1> QED BY <1>2, <1>3, <1>4, <1>6 DEF kept, n

-----------------------------------------------------------------------------
(***************************************************************************)
(* The registry.                                                           *)
(***************************************************************************)

\* A sequence of models with an id each.
IsRegistry(ms) ==
  /\ ms \in Seq(ToSet(ms))
  /\ \A i, j \in DOMAIN ms : ms[i].api_id = ms[j].api_id => i = j

\* The elements of a sequence are what is at its places.
LEMMA Places ==
  ASSUME NEW S, NEW s \in Seq(S)
  PROVE  /\ Len(s) \in Nat /\ DOMAIN s = 1 .. Len(s)
         /\ \A i \in DOMAIN s : s[i] \in S /\ s[i] \in ToSet(s)
         /\ \A m \in ToSet(s) : \E i \in DOMAIN s : s[i] = m
BY DEF ToSet

\* An id leads to the one entry that has it.
LEMMA EntryIs ==
  ASSUME NEW ms, IsRegistry(ms), NEW m \in Entries(ms)
  PROVE  Known(ms, m.api_id) /\ Entry(ms, m.api_id) = m
<1>1. PICK k \in DOMAIN ms : ms[k] = m
  BY DEF Entries, ToSet
<1>2. DOMAIN ms = 1 .. Len(ms) /\ Len(ms) \in Nat
  BY DEF IsRegistry
<1> DEFINE found == {i \in 1 .. Len(ms) : ms[i].api_id = m.api_id}
<1>3. found = {k}
  BY <1>1, <1>2 DEF IsRegistry
<1>4. Find(ms, m.api_id) = Min(found)
  BY <1>3 DEF Find, SelectInSeq
<1>5. Min({k}) = k
  BY <1>1, <1>2 DEF Min
<1> HIDE DEF found
<1>6. Entry(ms, m.api_id) = m
  BY <1>1, <1>3, <1>4, <1>5 DEF Entry
<1> QED BY <1>6 DEF Known, ApiIds

\* A known id has an entry.
LEMMA KnownIs ==
  ASSUME NEW ms, IsRegistry(ms), NEW id, Known(ms, id)
  PROVE  Entry(ms, id) \in Entries(ms) /\ Entry(ms, id).api_id = id
<1>1. PICK m \in Entries(ms) : m.api_id = id
  BY DEF Known, ApiIds
<1> QED BY <1>1, EntryIs

\* Merging a catalog keeps every entry there is, and ids stay unique.
LEMMA ExtendedIsRegistry ==
  ASSUME NEW ms, IsRegistry(ms), NEW extra, extra \in Seq(ToSet(extra))
  PROVE  /\ IsRegistry(ExtendRegistry(ms, extra))
         /\ \A i \in DOMAIN ms : i \in DOMAIN ExtendRegistry(ms, extra)
                                 /\ ExtendRegistry(ms, extra)[i] = ms[i]
<1> DEFINE new == {i \in DOMAIN extra :
                     /\ ~Known(ms, extra[i].api_id)
                     /\ \A j \in 1 .. i - 1 : extra[j].api_id # extra[i].api_id}
           added == InOrder(new)
           tail == [k \in DOMAIN added |-> extra[added[k]]]
           n == Cardinality(new)
           S == ToSet(ms) \cup ToSet(extra)
<1>1. Len(extra) \in Nat /\ DOMAIN extra = 1 .. Len(extra) /\ \A i \in DOMAIN extra : extra[i] \in S
  BY Places
<1>2. new \in SUBSET Nat /\ IsFiniteSet(new) /\ new \in SUBSET (DOMAIN extra)
  <2>1. new \in SUBSET (1 .. Len(extra)) /\ new \in SUBSET Nat /\ new \in SUBSET (DOMAIN extra)
    BY <1>1
  <2>2. IsFiniteSet(1 .. Len(extra))
    BY <1>1, FS_Interval
  <2> DEFINE T == 1 .. Len(extra)
  <2> HIDE DEF new, T
  <2>3. IsFiniteSet(new)
    BY <2>1, <2>2, FS_Subset DEF T
  <2> QED BY <2>1, <2>3
<1>3. \A i, j \in new : extra[i].api_id = extra[j].api_id => i = j
  <2> SUFFICES ASSUME NEW i \in new, NEW j \in new, extra[i].api_id = extra[j].api_id, i # j
               PROVE  FALSE
    OBVIOUS
  <2>1. i \in Nat /\ j \in Nat /\ i >= 1 /\ j >= 1
    BY <1>1, <1>2
  <2>2. i \in 1 .. j - 1 \/ j \in 1 .. i - 1
    BY <2>1
  <2> QED BY <2>2
<1>4. \A i \in new : \A m \in Entries(ms) : extra[i].api_id # m.api_id
  BY DEF Known, ApiIds
<1> HIDE DEF new
<1>5. /\ n \in Nat /\ DOMAIN added = 1 .. n
      /\ \A k \in 1 .. n : added[k] \in new /\ Rank(new, added[k]) = k
  BY <1>2, InOrderIs
<1>6. \A k, l \in 1 .. n : added[k] = added[l] => k = l
  BY <1>5
<1> HIDE DEF added
<1>7. /\ DOMAIN tail = 1 .. n
      /\ \A k \in 1 .. n : tail[k] = extra[added[k]] /\ tail[k] \in S
  BY <1>1, <1>2, <1>5
<1>8. tail \in Seq(S) /\ Len(tail) = n
  <2>1. tail \in [1 .. n -> S]
    BY <1>5, <1>7
  <2> HIDE DEF tail, n, S
  <2> QED BY <1>5, <2>1
<1>9. ms \in Seq(S) /\ Len(ms) \in Nat /\ DOMAIN ms = 1 .. Len(ms)
      /\ \A i \in DOMAIN ms : ms[i] \in Entries(ms)
  BY Places, SeqMonotonic DEF IsRegistry, Entries
<1> DEFINE all == ms \o tail
           len == Len(ms)
<1>10. ExtendRegistry(ms, extra) = all
  BY DEF ExtendRegistry, added, new
<1> HIDE DEF tail, n, S
<1>11. all \in Seq(S) /\ Len(all) = len + n
       /\ \A i \in 1 .. len + n : all[i] = IF i <= len THEN ms[i] ELSE tail[i - len]
  BY <1>8, <1>9, ConcatProperties
<1>12. len \in Nat /\ n \in Nat /\ DOMAIN all = 1 .. len + n /\ DOMAIN ms = 1 .. len
  BY <1>5, <1>9, <1>11
<1> HIDE DEF all, len
<1>13. \A i \in 1 .. len + n :
         \/ i \in 1 .. len /\ all[i] = ms[i]
         \/ ~(i <= len) /\ i - len \in 1 .. n /\ all[i] = tail[i - len]
  BY <1>11, <1>12
<1>14. \A i, j \in DOMAIN all : all[i].api_id = all[j].api_id => i = j
  <2> SUFFICES ASSUME NEW i \in 1 .. len + n, NEW j \in 1 .. len + n,
                      all[i].api_id = all[j].api_id
               PROVE  i = j
    BY <1>12
  <2>1. CASE i \in 1 .. len /\ j \in 1 .. len
    <3>1. all[i] = ms[i] /\ all[j] = ms[j] /\ i \in DOMAIN ms /\ j \in DOMAIN ms
      BY <1>11, <1>12, <2>1
    <3> QED BY <3>1 DEF IsRegistry
  <2>2. ASSUME NEW x \in 1 .. len, NEW y \in 1 .. n, ms[x].api_id = tail[y].api_id PROVE FALSE
    BY <1>4, <1>5, <1>7, <1>9, <1>12, <2>2
  <2>3. ASSUME ~(i <= len), ~(j <= len) PROVE i = j
    <3>1. i - len \in 1 .. n /\ j - len \in 1 .. n
      BY <1>12, <1>13, <2>3
    <3>2. extra[added[i - len]].api_id = extra[added[j - len]].api_id
      BY <1>7, <1>11, <2>3, <3>1
    <3>3. i - len = j - len
      BY <1>3, <1>5, <1>6, <3>1, <3>2
    <3> QED BY <1>12, <3>3
  <2>4. CASE i <= len /\ ~(j <= len)
    BY <1>11, <1>12, <1>13, <2>2, <2>4
  <2>5. CASE j <= len /\ ~(i <= len)
    BY <1>11, <1>12, <1>13, <2>2, <2>5
  <2> QED BY <1>12, <2>1, <2>3, <2>4, <2>5
<1>15. all \in Seq(ToSet(all))
  <2>1. \A i \in 1 .. len + n : all[i] \in ToSet(all)
    BY <1>12 DEF ToSet
  <2>2. all = [i \in 1 .. len + n |-> all[i]]
    BY <1>11, <1>12
  <2>3. all \in [1 .. len + n -> ToSet(all)]
    BY <2>1, <2>2
  <2> QED BY <1>12, <2>3
<1> QED BY <1>10, <1>11, <1>12, <1>14, <1>15 DEF IsRegistry

-----------------------------------------------------------------------------
(***************************************************************************)
(* What routing may pick.                                                  *)
(***************************************************************************)

\* A preferred model that is picked can be used, and nothing is picked only if
\* there is nothing to fall back on.
LEMMA PreferredIs ==
  ASSUME NEW ms, IsRegistry(ms), NEW preferred, DOMAIN preferred \in SUBSET Nat,
         NEW count, NEW reachable, NEW fallback
  PROVE  LET picked == PreferredOr(ms, preferred, count, reachable, fallback) IN
         /\ picked \subseteq fallback \cup Eligible(ms, count, reachable)
         /\ picked = {} => fallback = {}
<1> DEFINE usable == {i \in DOMAIN preferred :
                        /\ Known(ms, preferred[i])
                        /\ Fits(Entry(ms, preferred[i]), count, reachable)}
           picked == PreferredOr(ms, preferred, count, reachable, fallback)
<1>1. CASE usable = {}
  <2>1. picked = fallback
    BY <1>1 DEF PreferredOr
  <2> QED BY <2>1
<1>2. CASE usable # {}
  <2> DEFINE first == {i \in usable : \A j \in usable : i <= j}
  <2>1. picked = {Entry(ms, preferred[i]) : i \in first}
    BY <1>2 DEF PreferredOr
  <2>2. \A i \in usable : Entry(ms, preferred[i]) \in Eligible(ms, count, reachable)
    BY KnownIs DEF Eligible
  <2>3. usable \in SUBSET Nat
    OBVIOUS
  <2> HIDE DEF usable, picked
  <2>4. \E i \in usable : \A j \in usable : i <= j
    BY <1>2, <2>3, LeastOf
  <2>5. picked # {} /\ picked \subseteq Eligible(ms, count, reachable)
    BY <2>1, <2>2, <2>4
  <2> QED BY <2>5 DEF picked
<1> QED BY <1>1, <1>2

\* What a request that leaves the choice to the gateway may end with: models
\* that can be called and take it, and none only if none does.
LEMMA CandidatesAre ==
  ASSUME IsRegistry(models), NEW r, NEW count, NEW reachable
  PROVE  LET found == Candidates(r, count, reachable)
             eligible == Eligible(models, count, reachable) IN
         /\ found \subseteq eligible
         /\ HasImages(r.messages) => \A m \in found : m.supports_vision
         /\ found = {} => \A m \in eligible : HasImages(r.messages) /\ ~m.supports_vision
<1> DEFINE found == Candidates(r, count, reachable)
           eligible == Eligible(models, count, reachable)
           seeing == {m \in eligible : m.supports_vision}
           by_task == SelectForTask(models, TaskOf(r.model[2]), count, reachable)
           sighted == {m \in by_task : m.supports_vision}
           by_shape == SelectForShape(models, r, count, reachable)
<1>1. SelectVisionModel(models, count, reachable) = seeing
  BY DEF SelectVisionModel
<1>2. by_task \subseteq eligible /\ (by_task = {} => eligible = {})
  <2> DEFINE preferred == <<PreferredFor[TaskOf(r.model[2])]>>
  <2>1. DOMAIN preferred \in SUBSET Nat
    OBVIOUS
  <2> HIDE DEF preferred
  <2>2. LET picked == PreferredOr(models, preferred, count, reachable, eligible) IN
        picked \subseteq eligible \cup eligible /\ (picked = {} => eligible = {})
    BY <2>1, PreferredIs
  <2> QED BY <2>2 DEF SelectForTask, preferred
<1>3. by_shape \subseteq eligible /\ (by_shape = {} => eligible = {})
  <2>1. CASE Difficulty(r, count) # "Simple"
    BY <2>1 DEF SelectForShape
  <2>2. CASE Difficulty(r, count) = "Simple"
    <3> DEFINE cheap == {m \in eligible : WithinSimpleLimits(m)}
               simple == IF cheap = {} THEN eligible ELSE cheap
               preferred == IF IsCode(r) THEN SimpleCodeModels ELSE <<>>
    <3>1. simple \subseteq eligible /\ (simple = {} => eligible = {})
      OBVIOUS
    <3>2. by_shape = PreferredOr(models, preferred, count, reachable, simple)
      BY <2>2 DEF SelectForShape
    <3>3. DOMAIN preferred \in SUBSET Nat
      BY DEF SimpleCodeModels
    <3> HIDE DEF preferred, simple, by_shape
    <3>4. by_shape \subseteq simple \cup eligible /\ (by_shape = {} => simple = {})
      BY <3>2, <3>3, PreferredIs
    <3> QED BY <3>1, <3>4
  <2> QED BY <2>1, <2>2
<1>4. found = IF HasImages(r.messages)
              THEN IF IsTask(r.model) /\ by_task = sighted THEN by_task ELSE seeing
              ELSE IF IsTask(r.model) THEN by_task ELSE by_shape
  BY <1>1 DEF Candidates
<1> HIDE DEF found, by_task, by_shape, eligible
<1> SUFFICES /\ found \subseteq eligible
             /\ HasImages(r.messages) => \A m \in found : m.supports_vision
             /\ found = {} => \A m \in eligible : HasImages(r.messages) /\ ~m.supports_vision
  BY DEF found, eligible
<1>5. CASE HasImages(r.messages) /\ by_task = sighted /\ found = by_task
  <2>1. \A m \in by_task : m.supports_vision
    BY <1>5
  <2> QED BY <1>2, <1>5, <2>1
<1>6. CASE HasImages(r.messages) /\ found = seeing
  BY <1>6
<1>7. CASE ~HasImages(r.messages)
  BY <1>2, <1>3, <1>4, <1>7
<1> QED BY <1>4, <1>5, <1>6, <1>7

-----------------------------------------------------------------------------
(***************************************************************************)
(* What compression may change.                                            *)
(***************************************************************************)

\* The places of the images.
Images(ms) == {i \in DOMAIN ms : HasImage(ms[i])}

\* The fields compression never touches.
Alike(m, n) ==
  /\ m.role = n.role /\ m.content = n.content /\ m.calls = n.calls /\ m.answers = n.answers
  /\ HasImage(m) => n = m

\* normalize_whitespace keeps the messages and all of them but their text, and
\* an image altogether.
LEMMA SqueezedIs ==
  ASSUME NEW ms \in Seq(Messages)
  PROVE  /\ Squeezed(ms) \in [1 .. Len(ms) -> {Squeezed(ms)[i] : i \in 1 .. Len(ms)}]
         /\ DOMAIN Squeezed(ms) = DOMAIN ms
         /\ \A i \in DOMAIN ms : Alike(ms[i], Squeezed(ms)[i])
<1>1. DOMAIN Squeezed(ms) = 1 .. Len(ms) /\ DOMAIN ms = 1 .. Len(ms)
  BY DEF Squeezed
<1>2. ASSUME NEW i \in DOMAIN ms PROVE Alike(ms[i], Squeezed(ms)[i])
  <2>1. PICK m \in Messages : m = ms[i]
    OBVIOUS
  <2>2. Squeezed(ms)[i] = IF m.content = "text"
                          THEN [m EXCEPT !.text = NormalizeWhitespace(@)] ELSE m
    BY <2>1 DEF Squeezed
  <2>3. CASE m.content = "text"
    <3>1. ~HasImage(m)
      BY <2>3 DEF HasImage
    <3> DEFINE n == [m EXCEPT !.text = NormalizeWhitespace(@)]
    <3>2. n.role = m.role /\ n.content = m.content /\ n.calls = m.calls /\ n.answers = m.answers
      BY <2>1 DEF Messages
    <3> QED BY <2>1, <2>2, <2>3, <3>1, <3>2 DEF Alike
  <2>4. CASE m.content # "text"
    BY <2>1, <2>2, <2>4 DEF Alike
  <2> QED BY <2>3, <2>4
<1>3. Squeezed(ms) \in [1 .. Len(ms) -> {Squeezed(ms)[i] : i \in 1 .. Len(ms)}]
  BY <1>1 DEF Squeezed
<1> QED BY <1>1, <1>2, <1>3

\* The same images in the same order, and nothing else's role, calls or answers.
Faithful(ms, ns) ==
  /\ \A n \in ToSet(ns) : \E m \in ToSet(ms) :
       m.role = n.role /\ m.calls = n.calls /\ m.answers = n.answers
  /\ ImagesOf(ns) = ImagesOf(ms)

\* The images of a conversation, by their places.
LEMMA ImagesOfIs ==
  ASSUME NEW ms, NEW n \in Nat, DOMAIN ms = 1 .. n
  PROVE  /\ Images(ms) \in SUBSET Nat /\ Images(ms) \in SUBSET (1 .. n) /\ IsFiniteSet(Images(ms))
         /\ Cardinality(Images(ms)) \in Nat
         /\ \A k \in 1 .. Cardinality(Images(ms)) : InOrder(Images(ms))[k] \in Images(ms)
         /\ ImagesOf(ms) = [k \in 1 .. Cardinality(Images(ms)) |-> ms[InOrder(Images(ms))[k]]]
<1>1. Images(ms) \in SUBSET (1 .. n) /\ Images(ms) \in SUBSET Nat
  BY DEF Images
<1>2. IsFiniteSet(Images(ms))
  <2> DEFINE T == 1 .. n
  <2>1. IsFiniteSet(T) /\ Images(ms) \in SUBSET T
    BY <1>1, FS_Interval
  <2> HIDE DEF T
  <2> QED BY <2>1, FS_Subset
<1>3. /\ Cardinality(Images(ms)) \in Nat
      /\ DOMAIN InOrder(Images(ms)) = 1 .. Cardinality(Images(ms))
      /\ \A k \in 1 .. Cardinality(Images(ms)) : InOrder(Images(ms))[k] \in Images(ms)
  BY <1>1, <1>2, InOrderIs
<1>4. ImagesOf(ms) = [k \in 1 .. Cardinality(Images(ms)) |-> ms[InOrder(Images(ms))[k]]]
  BY <1>3 DEF ImagesOf, Images
<1> QED BY <1>1, <1>2, <1>3, <1>4

\* Squeezing moves and changes no image.
LEMMA SqueezedFaithful ==
  ASSUME NEW ms \in Seq(Messages)
  PROVE  Faithful(ms, Squeezed(ms))
<1> DEFINE sq == Squeezed(ms)
<1>1. Len(ms) \in Nat /\ DOMAIN ms = 1 .. Len(ms) /\ DOMAIN sq = 1 .. Len(ms)
      /\ \A i \in DOMAIN ms : Alike(ms[i], sq[i])
  BY SqueezedIs
<1> HIDE DEF sq
<1>2. Images(sq) = Images(ms)
  BY <1>1 DEF Images, Alike, HasImage
<1>3. ImagesOf(sq) = ImagesOf(ms)
  <2>1. /\ ImagesOf(sq) = [k \in 1 .. Cardinality(Images(sq)) |-> sq[InOrder(Images(sq))[k]]]
        /\ ImagesOf(ms) = [k \in 1 .. Cardinality(Images(ms)) |-> ms[InOrder(Images(ms))[k]]]
        /\ \A k \in 1 .. Cardinality(Images(ms)) : InOrder(Images(ms))[k] \in Images(ms)
    BY <1>1, ImagesOfIs
  <2>2. \A i \in Images(ms) : sq[i] = ms[i]
    BY <1>1 DEF Images, Alike
  <2> QED BY <1>2, <2>1, <2>2
<1>4. \A n \in ToSet(sq) : \E m \in ToSet(ms) :
        m.role = n.role /\ m.calls = n.calls /\ m.answers = n.answers
  BY <1>1 DEF ToSet, Alike
<1> QED BY <1>3, <1>4 DEF Faithful, sq

\* Dropping repetitions takes none of the images, and moves them together.
LEMMA DedupFaithful ==
  ASSUME NEW ms, NEW n \in Nat, DOMAIN ms = 1 .. n
  PROVE  Faithful(ms, DedupExact(ms))
<1> DEFINE D == {i \in DOMAIN ms : ~Dropped(ms, i)}
           I == Images(ms)
           r == DedupExact(ms)
           K == Images(r)
<1>1. D \in SUBSET Nat /\ D \in SUBSET (1 .. n) /\ I \in SUBSET D /\ I \in SUBSET (1 .. n)
  BY DEF Dropped, Images
<1>2. IsFiniteSet(D)
  <2> DEFINE T == 1 .. n
  <2>1. IsFiniteSet(T) /\ D \in SUBSET T
    BY <1>1, FS_Interval
  <2> HIDE DEF T, D
  <2> QED BY <2>1, FS_Subset
<1>3. r = [k \in DOMAIN InOrder(D) |-> ms[InOrder(D)[k]]]
  BY DEF DedupExact, Survivors
<1> HIDE DEF D, r
<1>4. /\ Cardinality(D) \in Nat /\ DOMAIN InOrder(D) = 1 .. Cardinality(D)
      /\ \A k \in 1 .. Cardinality(D) : InOrder(D)[k] \in D
  BY <1>1, <1>2, InOrderIs
<1>5. DOMAIN r = 1 .. Cardinality(D) /\ \A k \in 1 .. Cardinality(D) : r[k] = ms[InOrder(D)[k]]
  BY <1>3, <1>4
<1>6. K = {k \in 1 .. Cardinality(D) : InOrder(D)[k] \in I}
  BY <1>1, <1>4, <1>5 DEF Images
<1> HIDE DEF I, K
<1>7. /\ Cardinality(K) = Cardinality(I)
      /\ \A m \in 1 .. Cardinality(I) :
           /\ InOrder(K)[m] \in 1 .. Cardinality(D)
           /\ InOrder(D)[InOrder(K)[m]] = InOrder(I)[m]
  BY <1>1, <1>2, <1>6, KeptInOrder
<1>8. /\ ImagesOf(ms) = [m \in 1 .. Cardinality(I) |-> ms[InOrder(I)[m]]]
      /\ ImagesOf(r) = [m \in 1 .. Cardinality(K) |-> r[InOrder(K)[m]]]
  BY <1>4, <1>5, ImagesOfIs DEF I, K
<1>9. \A m \in 1 .. Cardinality(I) : r[InOrder(K)[m]] = ms[InOrder(I)[m]]
  BY <1>5, <1>7
<1>10. ImagesOf(r) = ImagesOf(ms)
  BY <1>7, <1>8, <1>9
<1>11. \A x \in ToSet(r) : x \in ToSet(ms)
  BY <1>1, <1>4, <1>5 DEF ToSet
<1> QED BY <1>10, <1>11 DEF Faithful, r

\* What is faithful to what is faithful is faithful.
LEMMA FaithfulTwice ==
  ASSUME NEW a, NEW b, NEW c, Faithful(a, b), Faithful(b, c)
  PROVE  Faithful(a, c)
<1>1. ASSUME NEW x \in ToSet(c)
      PROVE  \E m \in ToSet(a) : m.role = x.role /\ m.calls = x.calls /\ m.answers = x.answers
  <2>1. PICK y \in ToSet(b) : y.role = x.role /\ y.calls = x.calls /\ y.answers = x.answers
    BY DEF Faithful
  <2>2. PICK m \in ToSet(a) : m.role = y.role /\ m.calls = y.calls /\ m.answers = y.answers
    BY DEF Faithful
  <2> QED BY <2>1, <2>2
<1> QED BY <1>1 DEF Faithful

\* Whatever the options and the operator's mode.
LEMMA CompressFaithful ==
  ASSUME NEW ms \in Seq(Messages), NEW opts
  PROVE  Faithful(ms, Compress(ms, opts))
<1>1. Faithful(ms, ms)
  BY DEF Faithful
<1>2. Faithful(ms, Working(ms, opts))
  <2> DEFINE sq == IF opts.whitespace THEN Squeezed(ms) ELSE ms
  <2>1. Faithful(ms, sq)
    BY <1>1, SqueezedFaithful
  <2>2. Len(ms) \in Nat /\ DOMAIN sq = 1 .. Len(ms)
    BY SqueezedIs
  <2> HIDE DEF sq
  <2>3. Faithful(sq, DedupExact(sq))
    BY <2>2, DedupFaithful
  <2>4. Faithful(ms, DedupExact(sq))
    BY <2>1, <2>3, FaithfulTwice
  <2> QED BY <2>1, <2>4 DEF Working, sq
<1> QED BY <1>1, <1>2 DEF Compress

-----------------------------------------------------------------------------
(***************************************************************************)
(* Where it goes and what is sent.                                         *)
(***************************************************************************)

\* What was picked can be called if the gateway picked it, and sees the
\* request's images.
RoutedWell ==
  /\ Flexible(req) =>
       Known(models, chosen.model) /\ chosen.provider \in Reachable(req, keys)
  /\ HasImages(req.messages) /\ Known(models, chosen.model) =>
       Entry(models, chosen.model).supports_vision

\* What each step knows: the size is that of the messages as they are, which are
\* those received until they are compressed; the rates are those of the size.
PathInv ==
  /\ pc \in {"startup", "serving", "route", "price", "compress", "reserve", "byok", "validate",
             "done"}
  /\ IsRegistry(models)
  /\ pc # "done" => outcome = "none"
  /\ pc \notin {"startup", "serving"} => req \in ChatRequests
  /\ pc \in {"route", "price", "compress"} => messages = req.messages
  /\ pc \in {"price", "compress", "reserve", "byok", "validate"} => RoutedWell
  /\ pc \in {"reserve", "byok", "validate"} =>
       /\ messages = Compress(req.messages, req.opts)
       /\ tokens = InputTokens(Sent)
       /\ Known(models, chosen.model) => long_rates = LongContext(models, chosen.model, tokens)
  /\ pc \in {"byok", "validate"} => reserved = [tokens |-> tokens, long |-> long_rates]
  /\ pc = "validate" => (call = chosen \/ "OpenRouter" \in keys)
  /\ pc = "done" => PickedFits /\ NoNeedlessRefusal /\ ReservedForSent

\* Compression asks for no tools.
LEMMA SentToolPayload ==
  ASSUME req \in ChatRequests, messages = Compress(req.messages, req.opts), HasToolPayload(Sent)
  PROVE  HasToolPayload(req)
<1>1. req.messages \in Seq(Messages)
  BY DEF ChatRequests
<1>2. Faithful(req.messages, messages)
  BY <1>1, CompressFaithful
<1>3. /\ Sent.tools = req.tools /\ Sent.tool_choice = req.tool_choice
      /\ Sent.parallel = req.parallel /\ Sent.messages = messages
  BY DEF Sent, ChatRequests
<1>4. ASSUME NEW n \in ToSet(messages), n.calls # <<>> \/ n.answers # NoId \/ n.role = "tool"
      PROVE  \E m \in ToSet(req.messages) : m.calls # <<>> \/ m.answers # NoId \/ m.role = "tool"
  <2>1. PICK m \in ToSet(req.messages) :
          m.role = n.role /\ m.calls = n.calls /\ m.answers = n.answers
    BY <1>2 DEF Faithful
  <2> QED BY <1>4, <2>1
<1> QED BY <1>3, <1>4 DEF HasToolPayload

\* At startup the registry is the curated one.
LEMMA PathInit == Init => PathInv
<1> SUFFICES ASSUME Init PROVE PathInv
  OBVIOUS
<1>1. IsRegistry(Curated)
  BY CuratedAssumption DEF IsRegistry
<1> QED BY <1>1 DEF Init, PathInv

\* What is picked stays well picked while the request and the registry stay.
LEMMA SameRouting ==
  ASSUME UNCHANGED <<models, req, keys, chosen>>
  PROVE  RoutedWell' = RoutedWell
BY DEF RoutedWell

\* A request that is turned away for its own sake breaks none of the promises.
LEMMA TurnedAway ==
  ASSUME PathInv, pc \notin {"startup", "serving"}, UNCHANGED <<models, handling>>, pc' = "done",
         outcome' \in {"unknown task", "unknown model", "no images", "spend cap"}
  PROVE  PathInv'
<1>1. req' \in ChatRequests /\ IsRegistry(models)'
  BY DEF PathInv, handling, IsRegistry
<1>2. (PickedFits /\ NoNeedlessRefusal /\ ReservedForSent)'
  BY DEF PickedFits, PickedIsCallable, ImagesAreSeen, NoNeedlessRefusal, ReservedForSent
<1> QED BY <1>1, <1>2 DEF PathInv

\* Startup, routing, pricing, compression, reservation, key selection and the wire
\* check each keep it.
LEMMA PathStep == PathInv /\ (Next \/ UNCHANGED vars) => PathInv'
<1> SUFFICES ASSUME PathInv, Next \/ UNCHANGED vars PROVE PathInv'
  OBVIOUS
<1>1. CASE MergeCatalog
  <2>1. PICK extra \in Catalogs : models' = ExtendRegistry(models, extra)
    BY <1>1 DEF MergeCatalog
  <2>2. IsRegistry(models')
    BY <2>1, CatalogsAssumption, ExtendedIsRegistry DEF PathInv
  <2>3. pc' = "serving" /\ outcome' = "none"
    BY <1>1 DEF MergeCatalog, PathInv
  <2> QED BY <2>2, <2>3 DEF PathInv, IsRegistry
<1>2. CASE CatalogUnavailable
  BY <1>2 DEF CatalogUnavailable, PathInv, IsRegistry
<1>3. CASE Receive
  <2>1. PICK case \in Cases : req' = case[1] /\ messages' = case[1].messages
    BY <1>3 DEF Receive
  <2>2. req' \in ChatRequests
    BY <2>1, CasesAssumption
  <2> QED BY <1>3, <2>1, <2>2 DEF Receive, PathInv, IsRegistry
<1>4. CASE RouteUnknownTask
  BY <1>4, TurnedAway DEF RouteUnknownTask, Refuse
<1>5. CASE RouteFlexible
  <2> DEFINE found == Candidates(req, tokens, Reachable(req, keys))
             eligible == Eligible(models, tokens, Reachable(req, keys))
  <2>1. /\ found \subseteq eligible
        /\ HasImages(req.messages) => \A m \in found : m.supports_vision
        /\ found = {} => \A m \in eligible : HasImages(req.messages) /\ ~m.supports_vision
    BY CandidatesAre DEF PathInv
  <2>2. pc = "route" /\ Flexible(req) /\ messages = req.messages /\ req \in ChatRequests
        /\ IsRegistry(models) /\ outcome = "none"
    BY <1>5 DEF RouteFlexible, PathInv
  <2>3. ASSUME NEW m \in found, Routed(m.provider, m.api_id) PROVE PathInv'
    <3>1. m \in Entries(models) /\ m.provider \in Reachable(req, keys)
          /\ (HasImages(req.messages) => m.supports_vision)
      BY <2>1 DEF Eligible, Fits
    <3>2. Known(models, m.api_id) /\ Entry(models, m.api_id) = m
      BY <2>2, <3>1, EntryIs
    <3>3. chosen' = [provider |-> m.provider, model |-> m.api_id]
          /\ UNCHANGED <<models, req, keys, messages, outcome>> /\ pc' = "price"
      BY <2>3 DEF Routed
    <3>4. chosen'.model = m.api_id /\ chosen'.provider = m.provider
      BY <3>3
    <3>5. /\ Known(models, m.api_id)' = Known(models, m.api_id)
          /\ Entry(models, m.api_id)' = Entry(models, m.api_id)
          /\ Reachable(req, keys)' = Reachable(req, keys)
          /\ HasImages(req.messages)' = HasImages(req.messages)
      BY <3>3
    <3>6. RoutedWell'
      BY <3>1, <3>2, <3>3, <3>4, <3>5 DEF RoutedWell
    <3> QED BY <2>2, <3>3, <3>6 DEF PathInv, IsRegistry
  <2>4. CASE found = {} /\ Refuse("no model")
    <3>1. UNCHANGED <<models, handling>> /\ pc' = "done" /\ outcome' = "no model"
      BY <2>4 DEF Refuse
    <3>2. UNCHANGED <<models, req, keys, tokens>>
      BY <3>1 DEF handling
    <3>3. NoNeedlessRefusal'
      BY <2>1, <2>4, <3>2 DEF NoNeedlessRefusal
    <3>4. PickedFits' /\ ReservedForSent'
      BY <3>1 DEF PickedFits, PickedIsCallable, ImagesAreSeen, ReservedForSent
    <3> QED BY <2>2, <3>1, <3>2, <3>3, <3>4 DEF PathInv, IsRegistry
  <2> QED BY <1>5, <2>3, <2>4 DEF RouteFlexible
<1>6. CASE RouteConcrete
  <2> DEFINE known == Known(models, req.model)
             blind == known /\ ~Entry(models, req.model).supports_vision
  <2>1. pc = "route" /\ ~Flexible(req) /\ messages = req.messages /\ req \in ChatRequests
        /\ IsRegistry(models) /\ outcome = "none"
    BY <1>6 DEF RouteConcrete, PathInv
  <2>2. ASSUME Refuse("unknown model") \/ Refuse("no images") PROVE PathInv'
    BY <2>1, <2>2, TurnedAway DEF Refuse
  <2>3. ASSUME NEW p, ~(HasImages(req.messages) /\ blind), Routed(p, req.model) PROVE PathInv'
    <3>1. chosen' = [provider |-> p, model |-> req.model]
          /\ UNCHANGED <<models, req, keys, messages, outcome>> /\ pc' = "price"
      BY <2>3 DEF Routed
    <3>2. chosen'.model = req.model
      BY <3>1
    <3>3. /\ Known(models, req.model)' = Known(models, req.model)
          /\ Entry(models, req.model)' = Entry(models, req.model)
          /\ HasImages(req.messages)' = HasImages(req.messages)
          /\ Flexible(req)' = Flexible(req)
      BY <3>1
    <3>4. RoutedWell'
      BY <2>1, <2>3, <3>1, <3>2, <3>3 DEF RoutedWell
    <3> QED BY <2>1, <3>1, <3>4 DEF PathInv, IsRegistry
  <2> QED BY <1>6, <2>2, <2>3 DEF RouteConcrete
<1>7. CASE Price
  <2>1. pc = "price" /\ RoutedWell /\ messages = req.messages /\ req \in ChatRequests
        /\ IsRegistry(models) /\ outcome = "none"
    BY <1>7 DEF Price, PathInv
  <2>2. UNCHANGED <<models, req, keys, chosen, messages, tokens, reserved, call>>
    BY <1>7 DEF Price
  <2>3. RoutedWell'
    BY <2>1, <2>2, SameRouting
  <2>4. CASE pc' = "compress" /\ outcome' = outcome
    BY <2>1, <2>2, <2>3, <2>4 DEF PathInv, IsRegistry
  <2>5. CASE ~Known(models, chosen.model) /\ pc' = "done" /\ outcome' = "pricing"
    <3>1. ~Flexible(req)
      BY <2>1, <2>5 DEF RoutedWell
    <3>2. (PickedFits /\ NoNeedlessRefusal /\ ReservedForSent)'
      BY <2>2, <2>5, <3>1
         DEF PickedFits, PickedIsCallable, ImagesAreSeen, NoNeedlessRefusal, ReservedForSent
    <3> QED BY <2>1, <2>2, <2>5, <3>2 DEF PathInv, IsRegistry
  <2> QED BY <1>7, <2>4, <2>5 DEF Price
<1>8. CASE CompressAndReprice
  <2>1. pc = "compress" /\ RoutedWell /\ req \in ChatRequests /\ IsRegistry(models)
        /\ outcome = "none"
    BY <1>8 DEF CompressAndReprice, PathInv
  <2>2. /\ UNCHANGED <<models, req, keys, chosen, outcome>> /\ pc' = "reserve"
        /\ messages' = Compress(req.messages, req.opts)
        /\ tokens' = InputTokens([req EXCEPT !.messages = messages'])
        /\ long_rates' = RatesAfter(chosen.model, tokens')
    BY <1>8 DEF CompressAndReprice
  <2>3. RoutedWell'
    BY <2>1, <2>2, SameRouting
  <2>4. tokens' = InputTokens(Sent)'
    BY <2>2 DEF Sent
  <2>5. (Known(models, chosen.model) => long_rates = LongContext(models, chosen.model, tokens))'
    BY <2>2 DEF RatesAfter
  <2> QED BY <2>1, <2>2, <2>3, <2>4, <2>5 DEF PathInv, IsRegistry
<1>9. CASE Reserve
  <2>1. UNCHANGED <<models, req, keys, chosen, messages, tokens, long_rates, outcome>>
        /\ pc = "reserve" /\ pc' = "byok" /\ reserved' = [tokens |-> tokens, long |-> long_rates]
    BY <1>9 DEF Reserve
  <2>2. Sent' = Sent /\ RoutedWell'
    BY <2>1, SameRouting DEF PathInv, Sent
  <2> QED BY <2>1, <2>2 DEF PathInv, IsRegistry
<1>10. CASE OverCap
  BY <1>10, TurnedAway DEF OverCap, Refuse
<1>11. CASE ResolveByok
  <2>1. /\ pc = "byok" /\ RoutedWell /\ req \in ChatRequests /\ IsRegistry(models)
        /\ outcome = "none"
        /\ UNCHANGED <<models, req, keys, chosen, messages, tokens, long_rates>>
    BY <1>11 DEF ResolveByok, PathInv
  <2>2. Sent' = Sent /\ RoutedWell'
    BY <2>1, SameRouting DEF PathInv, Sent
  <2>3. ASSUME pc' = "validate", UNCHANGED <<outcome, reserved>>,
               call' = chosen \/ "OpenRouter" \in keys
        PROVE  PathInv'
    BY <2>1, <2>2, <2>3 DEF PathInv, IsRegistry
  <2>4. ASSUME chosen.provider \notin keys, "OpenRouter" \notin keys, pc' = "done",
               outcome' = "no key"
        PROVE  PathInv'
    <3>1. ~Flexible(req)
      BY <2>1, <2>4 DEF RoutedWell, Reachable
    <3>2. (PickedFits /\ NoNeedlessRefusal /\ ReservedForSent)'
      BY <2>1, <2>4, <3>1
         DEF PickedFits, PickedIsCallable, ImagesAreSeen, NoNeedlessRefusal, ReservedForSent
    <3> QED BY <2>1, <2>4, <3>2 DEF PathInv, IsRegistry
  <2> QED BY <1>11, <2>3, <2>4 DEF ResolveByok
<1>12. CASE ValidateTools
  <2>1. /\ pc = "validate" /\ RoutedWell /\ req \in ChatRequests /\ IsRegistry(models)
        /\ UNCHANGED <<models, req, keys, chosen, messages, tokens, long_rates, call>>
        /\ messages = Compress(req.messages, req.opts) /\ tokens = InputTokens(Sent)
        /\ (Known(models, chosen.model) => long_rates = LongContext(models, chosen.model, tokens))
        /\ reserved = [tokens |-> tokens, long |-> long_rates]
        /\ (call = chosen \/ "OpenRouter" \in keys) /\ pc' = "done"
    BY <1>12 DEF ValidateTools, PathInv
  <2>2. Sent' = Sent
    BY <2>1 DEF Sent
  <2>3. CASE outcome' = "sent" /\ UNCHANGED reserved
    <3>1. PickedIsCallable' /\ NoNeedlessRefusal'
      BY <2>3 DEF PickedIsCallable, NoNeedlessRefusal
    <3>2. ImagesOf(messages) = ImagesOf(req.messages)
      BY <2>1, CompressFaithful DEF Faithful, ChatRequests
    <3>3. ImagesAreSeen'
      BY <2>1, <2>3, <3>2 DEF ImagesAreSeen, RoutedWell
    <3>4. reserved.tokens = tokens /\ reserved.long = long_rates
      BY <2>1
    <3>5. ReservedForSent'
      BY <2>1, <2>2, <2>3, <3>4 DEF ReservedForSent
    <3> QED BY <2>1, <3>1, <3>3, <3>5 DEF PathInv, PickedFits, IsRegistry
  <2>4. CASE ~ToolWireOk(Sent, call.provider, chosen.model) /\ outcome' = "tools"
    <3>1. HasToolPayload(req)
      BY <2>1, <2>4, SentToolPayload DEF ToolWireOk
    <3>2. ASSUME Flexible(req), "OpenRouter" \notin keys, req.stream
          PROVE  call.provider \notin ToolProviders
      BY <2>1, <3>1, <3>2 DEF RoutedWell, Reachable, ToolCapable
    <3>3. PickedIsCallable'
      BY <2>1, <2>4, <3>2 DEF PickedIsCallable
    <3>4. ImagesAreSeen' /\ NoNeedlessRefusal' /\ ReservedForSent'
      BY <2>4 DEF ImagesAreSeen, NoNeedlessRefusal, ReservedForSent
    <3> QED BY <2>1, <3>3, <3>4 DEF PathInv, PickedFits, IsRegistry
  <2> QED BY <1>12, <2>3, <2>4 DEF ValidateTools
<1>13. CASE Finish
  BY <1>13 DEF Finish, PathInv, IsRegistry
<1>14. CASE UNCHANGED vars
  <2>1. UNCHANGED <<models, catalog, pc, req, keys, chosen, messages, tokens, long_rates,
                    reserved, call, outcome>>
    BY <1>14 DEF vars
  <2>2. RoutedWell' = RoutedWell /\ Sent' = Sent
    BY <2>1, SameRouting DEF Sent
  <2>3. /\ PickedFits' = PickedFits /\ NoNeedlessRefusal' = NoNeedlessRefusal
        /\ ReservedForSent' = ReservedForSent
    BY <2>1, <2>2 DEF PickedFits, PickedIsCallable, ImagesAreSeen, NoNeedlessRefusal, ReservedForSent
  <2> QED BY <2>1, <2>2, <2>3 DEF PathInv, IsRegistry
<1> QED BY <1>1, <1>2, <1>3, <1>4, <1>5, <1>6, <1>7, <1>8, <1>9, <1>10, <1>11, <1>12, <1>13,
           <1>14 DEF Next

\* Every handler's path keeps PathInv, for all requests, registries, catalogs and
\* limits.
THEOREM PathInvHolds == OneSpec => []PathInv
<1>1. OneInit => PathInv
  BY PathInit DEF OneInit
<1>2. PathInv /\ [OneNext]_<<view, vars, key_vars, price_vars>> => PathInv'
  <2> SUFFICES ASSUME PathInv, [OneNext]_<<view, vars, key_vars, price_vars>> PROVE PathInv'
    OBVIOUS
  <2>1. Next \/ UNCHANGED vars
    BY DEF OneNext
  <2> QED BY <2>1, PathStep
<1> QED BY <1>1, <1>2, PTL DEF OneSpec

\* The three promises are part of it.
LEMMA PathNow == PathInv => PickedFits /\ NoNeedlessRefusal /\ ReservedForSent
BY DEF PathInv, PickedFits, PickedIsCallable, ImagesAreSeen, NoNeedlessRefusal, ReservedForSent

\* What the gateway picks by itself can be called with the client's keys and is
\* priced, and a model that is sent images sees them, all of them, in order
\* (resolve_model, select_vision_model, supercompress).
THEOREM PickedAlwaysFits == OneSpec => []PickedFits
BY PathInvHolds, PathNow, PTL

\* The limits of the simple path, the preferred models and the vision fallback
\* refuse no request that some model could take (select_for_shape, select_for_task).
THEOREM NeverRefusedNeedlessly == OneSpec => []NoNeedlessRefusal
BY PathInvHolds, PathNow, PTL

\* The reservation is computed from what is sent, tier included: compression is
\* followed by a second count and a second price (handle_streaming and
\* handle_non_streaming).
THEOREM ReservedIsForSent == OneSpec => []ReservedForSent
BY PathInvHolds, PathNow, PTL

-----------------------------------------------------------------------------
(***************************************************************************)
(* The tool results that are sent.                                         *)
(***************************************************************************)

\* What a walk over a conversation carries: is all well, and which ids are open.
Walks == [ok : BOOLEAN, open : SUBSET STRING]

\* A call opens its id.
AddOne(a, c) == [a EXCEPT !.ok = @ /\ c.id \notin a.open, !.open = @ \union {c.id}]

\* It stays a walk, and what went wrong stays wrong.
LEMMA AddOneIs ==
  ASSUME NEW a \in Walks, NEW c, c.id \in STRING
  PROVE  /\ AddOne(a, c) \in Walks
         /\ AddOne(a, c).ok => a.ok
         /\ AddOne(a, c).open = a.open \cup {c.id}
<1> DEFINE well == a.ok /\ c.id \notin a.open
<1>1. well \in BOOLEAN /\ (well => a.ok)
  BY Zenon
<1>2. a \in [ok : BOOLEAN, open : SUBSET STRING]
  BY DEF Walks
<1>3. AddOne(a, c) = [a EXCEPT !.ok = well, !.open = a.open \cup {c.id}]
  BY DEF AddOne
<1> HIDE DEF well
<1>4. AddOne(a, c) = [ok |-> well, open |-> a.open \cup {c.id}]
  BY <1>2, <1>3
<1> QED BY <1>1, <1>2, <1>4 DEF Walks

\* A message's calls are so many, each with an id.
LEMMA CallsOf ==
  ASSUME NEW m \in Messages
  PROVE  /\ m.answers \in STRING
         /\ Len(m.calls) \in Nat /\ DOMAIN m.calls = 1 .. Len(m.calls)
         /\ \A k \in 1 .. Len(m.calls) : m.calls[k].id \in STRING
<1> DEFINE S == [id : STRING, name : STRING, wellformed : BOOLEAN]
<1>1. m.calls \in Seq(S) /\ m.answers \in STRING
  BY DEF Messages
<1>2. \A c \in S : c.id \in STRING
  OBVIOUS
<1> HIDE DEF S
<1> QED BY <1>1, <1>2

\* Call by call.
CallSteps(acc, m) ==
  \E f \in [0 .. Len(m.calls) -> Walks] :
    /\ f[0] = acc
    /\ \A k \in 1 .. Len(m.calls) : f[k] = AddOne(f[k - 1], m.calls[k])
    /\ AddCalls(acc, m) = f[Len(m.calls)]

\* AddCalls goes call by call.
LEMMA CallsFold ==
  ASSUME NEW acc \in Walks, NEW m \in Messages
  PROVE  CallSteps(acc, m)
<1> DEFINE calls == m.calls
           n == Len(calls)
           step == [k \in 1 .. n |-> [r \in Walks |-> AddOne(r, calls[k])]]
           Body(h, s) == IF s = {} THEN acc
                         ELSE AddOne(h[s \ {Max(s)}], calls[Max(s)])
           IsIt(h) == h = [s \in SUBSET DOMAIN calls |-> Body(h, s)]
           it == CHOOSE h : IsIt(h)
<1>1. n \in Nat /\ DOMAIN calls = 1 .. n
  BY CallsOf
<1>2. \A k \in 1 .. n : \A r \in Walks : AddOne(r, calls[k]) \in Walks
  BY CallsOf, AddOneIs
<1>3. step \in [1 .. n -> [Walks -> Walks]]
  BY <1>2
<1>13. \A k \in 1 .. n : \A r \in Walks : step[k][r] = AddOne(r, calls[k])
  OBVIOUS
<1>4. AddCalls(acc, m) = it[DOMAIN calls]
  BY DEF AddCalls, AddOne, FoldLeft, MapThenFoldSet
<1> HIDE DEF calls, n, step
<1>5. PICK h \in [SUBSET (1 .. n) -> Walks] : IsFold(h, n, acc, step)
  BY <1>1, <1>3, FoldExists
<1>6. ASSUME NEW s \in SUBSET (1 .. n), s # {}
      PROVE  h[s] = AddOne(h[s \ {Max(s)}], calls[Max(s)])
  <2>1. Max(s) \in 1 .. n /\ s \ {Max(s)} \in SUBSET (1 .. n)
    BY <1>1, <1>6, FromTheEnd
  <2>2. h[s] = step[Max(s)][h[s \ {Max(s)}]]
    BY <1>5, <1>6 DEF IsFold
  <2>3. h[s \ {Max(s)}] \in Walks
    BY <1>5, <2>1
  <2> QED BY <1>13, <2>1, <2>2, <2>3
<1>7. IsIt(h)
  <2>1. \A s \in SUBSET DOMAIN calls : h[s] = Body(h, s)
    BY <1>1, <1>5, <1>6 DEF IsFold
  <2>2. h = [s \in SUBSET DOMAIN calls |-> h[s]]
    BY <1>1, <1>5
  <2> HIDE DEF Body
  <2> QED BY <2>1, <2>2
<1>8. IsIt(it)
  BY <1>7
<1> HIDE DEF it
<1>9. it[1 .. 0] = acc /\ \A k \in 1 .. n : it[1 .. k] = AddOne(it[1 .. k - 1], calls[k])
  <2>1. ASSUME NEW s \in SUBSET (1 .. n) PROVE it[s] = Body(it, s)
    <3> HIDE DEF Body
    <3> QED BY <1>1, <1>8
  <2>2. it[1 .. 0] = acc
    BY <1>1, <2>1, UpTo
  <2>3. ASSUME NEW k \in 1 .. n PROVE it[1 .. k] = AddOne(it[1 .. k - 1], calls[k])
    <3>1. /\ 1 .. k \in SUBSET (1 .. n) /\ 1 .. k # {}
          /\ Max(1 .. k) = k /\ (1 .. k) \ {k} = 1 .. k - 1
      BY <1>1, UpTo
    <3>2. it[1 .. k] = Body(it, 1 .. k)
      BY <2>1, <3>1
    <3> QED BY <3>1, <3>2
  <2> QED BY <2>2, <2>3
<1>10. FoldsUp(it, Walks, n, acc, step)
  <2>1. it[{}] = acc
    <3>1. 1 .. 0 = {}
      OBVIOUS
    <3> QED BY <1>9, <3>1
  <2> QED BY <1>13, <1>9, <2>1 DEF FoldsUp
<1>11. PICK f \in [0 .. n -> Walks] : IsTrace(f, n, acc, step) /\ f[n] = it[1 .. n]
  BY <1>1, <1>3, <1>10, TraceOf
<1>12. ASSUME NEW k \in 1 .. n PROVE f[k] = AddOne(f[k - 1], calls[k])
  <2>1. f[k - 1] \in Walks
    BY <1>1, <1>11
  <2>2. f[k] = step[k][f[k - 1]]
    BY <1>11 DEF IsTrace
  <2> QED BY <1>13, <2>1, <2>2
<1> QED BY <1>1, <1>4, <1>11, <1>12 DEF n, calls, IsTrace, CallSteps

\* The ids of a message's calls.
IdsOf(m) == {m.calls[c].id : c \in 1 .. Len(m.calls)}

\* A message's calls open their ids and no others.
LEMMA AddCallsIs ==
  ASSUME NEW acc \in Walks, NEW m \in Messages
  PROVE  /\ AddCalls(acc, m) \in Walks
         /\ AddCalls(acc, m).ok => acc.ok
         /\ AddCalls(acc, m).open \subseteq acc.open \cup IdsOf(m)
<1> DEFINE n == Len(m.calls)
<1>1. n \in Nat /\ \A k \in 1 .. n : m.calls[k].id \in STRING /\ m.calls[k].id \in IdsOf(m)
  BY CallsOf DEF IdsOf
<1>2. PICK f \in [0 .. n -> Walks] :
        /\ f[0] = acc
        /\ \A k \in 1 .. n : f[k] = AddOne(f[k - 1], m.calls[k])
        /\ AddCalls(acc, m) = f[n]
  BY CallsFold DEF CallSteps
<1> HIDE DEF n
<1> DEFINE Good == {k \in 0 .. n : /\ f[k].ok => acc.ok
                                   /\ f[k].open \subseteq acc.open \cup IdsOf(m)}
<1>3. 0 \in Good
  BY <1>1, <1>2
<1>4. ASSUME NEW k \in 0 .. n - 1, k \in Good PROVE k + 1 \in Good
  <2>1. k + 1 \in 1 .. n /\ k + 1 \in 0 .. n /\ k \in 0 .. n /\ (k + 1) - 1 = k
    BY <1>1
  <2>2. f[k + 1] = AddOne(f[k], m.calls[k + 1]) /\ f[k] \in Walks
    BY <1>2, <2>1
  <2>3. m.calls[k + 1].id \in STRING /\ m.calls[k + 1].id \in IdsOf(m)
    BY <1>1, <2>1
  <2>4. /\ f[k + 1].ok => f[k].ok
        /\ f[k + 1].open = f[k].open \cup {m.calls[k + 1].id}
    BY <2>2, <2>3, AddOneIs
  <2> QED BY <1>4, <2>1, <2>3, <2>4
<1>5. 0 .. n \subseteq Good
  <2>1. Good \in SUBSET (0 .. n)
    OBVIOUS
  <2> HIDE DEF Good
  <2> QED BY <1>1, <1>3, <1>4, <2>1, Counting
<1>6. n \in 0 .. n /\ f[n] \in Walks
  BY <1>1, <1>2
<1> QED BY <1>2, <1>5, <1>6

\* A tool's result takes an id out that must be open; any other message opens no
\* ids but those of its calls.
Turned(acc, m, now) ==
  /\ now.ok => acc.ok
  /\ m.role = "tool" =>
       /\ now.open = acc.open \ {m.answers}
       /\ now.ok => m.answers \in acc.open
  /\ m.role # "tool" => now.open \subseteq acc.open \cup IdsOf(m)

\* So does PairTurn.
LEMMA PairTurnIs ==
  ASSUME NEW acc \in Walks, NEW m \in Messages
  PROVE  PairTurn(acc, m) \in Walks /\ Turned(acc, m, PairTurn(acc, m))
<1>0. acc \in [ok : BOOLEAN, open : SUBSET STRING]
  BY DEF Walks
<1>1. CASE m.role = "tool"
  <2> DEFINE well == acc.ok /\ m.answers \in acc.open /\ m.content = "text"
  <2>1. well \in BOOLEAN /\ (well => acc.ok /\ m.answers \in acc.open)
    BY Zenon
  <2>2. PairTurn(acc, m) = [ok |-> well, open |-> acc.open \ {m.answers}]
    BY <1>0, <1>1 DEF PairTurn, TakeAnswer
  <2> HIDE DEF well
  <2> QED BY <1>0, <1>1, <2>1, <2>2 DEF Walks, Turned
<1>2. CASE m.role = "system"
  BY <1>2 DEF PairTurn, Turned
<1>3. CASE m.role \notin {"tool", "system"}
  <2> DEFINE well == acc.ok /\ m.answers = NoId
             start == [acc EXCEPT !.ok = @ /\ m.answers = NoId]
  <2>1. well \in BOOLEAN /\ (well => acc.ok)
    BY Zenon
  <2>2. start = [ok |-> well, open |-> acc.open]
    BY <1>0
  <2>3. PairTurn(acc, m) = AddCalls(start, m)
    BY <1>3 DEF PairTurn
  <2> HIDE DEF well, start
  <2>4. start \in Walks /\ (start.ok => acc.ok) /\ start.open = acc.open
    BY <1>0, <2>1, <2>2 DEF Walks, Turned
  <2> QED BY <1>3, <2>3, <2>4, AddCallsIs DEF Turned
<1> QED BY <1>1, <1>2, <1>3

\* Message by message.
Afresh == [ok |-> TRUE, open |-> {}]
PairSteps(ms) ==
  \E f \in [0 .. Len(ms) -> Walks] :
    /\ f[0] = Afresh
    /\ \A k \in 1 .. Len(ms) : f[k] = PairTurn(f[k - 1], ms[k])
    /\ CallsPair(ms) = f[Len(ms)].ok

\* CallsPair goes message by message.
LEMMA PairsFold ==
  ASSUME NEW ms \in Seq(Messages)
  PROVE  PairSteps(ms)
<1> DEFINE n == Len(ms)
           step == [k \in 1 .. n |-> [r \in Walks |-> PairTurn(r, ms[k])]]
           Body(h, s) == IF s = {} THEN Afresh
                         ELSE PairTurn(h[s \ {Max(s)}], ms[Max(s)])
           IsIt(h) == h = [s \in SUBSET DOMAIN ms |-> Body(h, s)]
           it == CHOOSE h : IsIt(h)
<1>1. n \in Nat /\ DOMAIN ms = 1 .. n
  OBVIOUS
<1>2. \A k \in 1 .. n : \A r \in Walks : PairTurn(r, ms[k]) \in Walks
  BY PairTurnIs
<1>3. step \in [1 .. n -> [Walks -> Walks]]
  BY <1>2
<1>13. \A k \in 1 .. n : \A r \in Walks : step[k][r] = PairTurn(r, ms[k])
  OBVIOUS
<1>4. CallsPair(ms) = it[DOMAIN ms].ok
  BY DEF CallsPair, Afresh, FoldLeft, MapThenFoldSet
<1>14. Afresh \in Walks
  BY DEF Walks, Afresh
<1> HIDE DEF n, step
<1>5. PICK h \in [SUBSET (1 .. n) -> Walks] : IsFold(h, n, Afresh, step)
  BY <1>1, <1>3, <1>14, FoldExists
<1>6. ASSUME NEW s \in SUBSET (1 .. n), s # {}
      PROVE  h[s] = PairTurn(h[s \ {Max(s)}], ms[Max(s)])
  <2>1. Max(s) \in 1 .. n /\ s \ {Max(s)} \in SUBSET (1 .. n)
    BY <1>1, <1>6, FromTheEnd
  <2>2. h[s] = step[Max(s)][h[s \ {Max(s)}]]
    BY <1>5, <1>6 DEF IsFold
  <2>3. h[s \ {Max(s)}] \in Walks
    BY <1>5, <2>1
  <2> QED BY <1>13, <2>1, <2>2, <2>3
<1>7. IsIt(h)
  <2>1. \A s \in SUBSET DOMAIN ms : h[s] = Body(h, s)
    BY <1>1, <1>5, <1>6 DEF IsFold
  <2>2. h = [s \in SUBSET DOMAIN ms |-> h[s]]
    BY <1>1, <1>5
  <2> HIDE DEF Body
  <2> QED BY <2>1, <2>2
<1>8. IsIt(it)
  BY <1>7
<1> HIDE DEF it
<1>9. it[1 .. 0] = Afresh /\ \A k \in 1 .. n : it[1 .. k] = PairTurn(it[1 .. k - 1], ms[k])
  <2>1. ASSUME NEW s \in SUBSET (1 .. n) PROVE it[s] = Body(it, s)
    <3> HIDE DEF Body
    <3> QED BY <1>1, <1>8
  <2>2. it[1 .. 0] = Afresh
    BY <1>1, <2>1, UpTo
  <2>3. ASSUME NEW k \in 1 .. n PROVE it[1 .. k] = PairTurn(it[1 .. k - 1], ms[k])
    <3>1. /\ 1 .. k \in SUBSET (1 .. n) /\ 1 .. k # {}
          /\ Max(1 .. k) = k /\ (1 .. k) \ {k} = 1 .. k - 1
      BY <1>1, UpTo
    <3>2. it[1 .. k] = Body(it, 1 .. k)
      BY <2>1, <3>1
    <3> QED BY <3>1, <3>2
  <2> QED BY <2>2, <2>3
<1>10. FoldsUp(it, Walks, n, Afresh, step)
  <2>1. it[{}] = Afresh
    <3>1. 1 .. 0 = {}
      OBVIOUS
    <3> QED BY <1>9, <3>1
  <2> QED BY <1>13, <1>9, <2>1 DEF FoldsUp
<1>11. PICK f \in [0 .. n -> Walks] : IsTrace(f, n, Afresh, step) /\ f[n] = it[1 .. n]
  BY <1>1, <1>3, <1>10, <1>14, TraceOf
<1>12. ASSUME NEW k \in 1 .. n PROVE f[k] = PairTurn(f[k - 1], ms[k])
  <2>1. f[k - 1] \in Walks
    BY <1>1, <1>11
  <2>2. f[k] = step[k][f[k - 1]]
    BY <1>11 DEF IsTrace
  <2> QED BY <1>13, <2>1, <2>2
<1> QED BY <1>1, <1>4, <1>11, <1>12 DEF n, IsTrace, PairSteps

-----------------------------------------------------------------------------
(* The results and the calls of one id, in the first k messages.           *)

Answered(ms, k, id) == {j \in 1 .. k : ms[j].role = "tool" /\ ms[j].answers = id}
Called(ms, k, id) ==
  UNION {{<<j, c>> : c \in {c \in DOMAIN ms[j].calls : ms[j].calls[c].id = id}} : j \in 1 .. k}

\* One message more.
LEMMA AnsweredNext ==
  ASSUME NEW ms, NEW k \in Nat \ {0}, NEW id
  PROVE  Answered(ms, k, id) = IF ms[k].role = "tool" /\ ms[k].answers = id
                               THEN Answered(ms, k - 1, id) \cup {k}
                               ELSE Answered(ms, k - 1, id)
<1>1. 1 .. k = (1 .. k - 1) \cup {k}
  OBVIOUS
<1> QED BY <1>1, Zenon DEF Answered

\* The calls there are, by their places.
LEMMA CalledNext ==
  ASSUME NEW ms \in Seq(Messages), NEW k \in 1 .. Len(ms), NEW id
  PROVE  /\ Called(ms, k - 1, id) \subseteq Called(ms, k, id)
         /\ Called(ms, k, id) \subseteq Called(ms, k - 1, id) \cup ({k} \X (1 .. Len(ms[k].calls)))
         /\ id \in IdsOf(ms[k]) => \E p \in Called(ms, k, id) : p \notin Called(ms, k - 1, id)
<1> DEFINE At(j) == {<<j, c>> : c \in {c \in DOMAIN ms[j].calls : ms[j].calls[c].id = id}}
           before == {At(j) : j \in 1 .. k - 1}
           upto == {At(j) : j \in 1 .. k}
<1>0. Called(ms, k - 1, id) = UNION before /\ Called(ms, k, id) = UNION upto
  BY DEF Called
<1>1. 1 .. k = (1 .. k - 1) \cup {k} /\ k \notin 1 .. k - 1
  OBVIOUS
<1>2. upto = before \cup {At(k)}
  <2> HIDE DEF At
  <2> QED BY <1>1, Zenon
<1>3. DOMAIN ms[k].calls = 1 .. Len(ms[k].calls)
  BY DEF Messages
<1>4. At(k) \subseteq {k} \X (1 .. Len(ms[k].calls))
  BY <1>3
<1>5. \A p \in UNION before : p[1] # k
  <2> SUFFICES ASSUME NEW j \in 1 .. k - 1, NEW p \in At(j) PROVE p[1] # k
    OBVIOUS
  <2>1. p[1] = j
    OBVIOUS
  <2> QED BY <1>1, <2>1
<1>6. ASSUME id \in IdsOf(ms[k]) PROVE \E p \in At(k) : p[1] = k
  <2>1. PICK c \in 1 .. Len(ms[k].calls) : ms[k].calls[c].id = id
    BY <1>6 DEF IdsOf
  <2>2. <<k, c>> \in At(k) /\ <<k, c>>[1] = k
    BY <1>3, <2>1
  <2> QED BY <2>2
<1> HIDE DEF At, before, upto
<1> QED BY <1>0, <1>2, <1>4, <1>5, <1>6

\* So far every result had its call: the results of an id, and the call that is
\* open, are no more than its calls.
Balanced(ms, f, k) ==
  /\ \A id \in STRING :
       /\ IsFiniteSet(Answered(ms, k, id)) /\ IsFiniteSet(Called(ms, k, id))
       /\ f[k].ok => Cardinality(Answered(ms, k, id)) + (IF id \in f[k].open THEN 1 ELSE 0)
                       <= Cardinality(Called(ms, k, id))
  /\ f[k].ok => \A i \in 1 .. k : ms[i].role = "tool" =>
       Cardinality(Answered(ms, i, ms[i].answers)) <= Cardinality(Called(ms, i - 1, ms[i].answers))

\* A message keeps the balance.
LEMMA BalancedNext ==
  ASSUME NEW ms \in Seq(Messages), NEW f \in [0 .. Len(ms) -> Walks], NEW k \in 1 .. Len(ms),
         f[k] = PairTurn(f[k - 1], ms[k]), Balanced(ms, f, k - 1)
  PROVE  Balanced(ms, f, k)
<1> DEFINE m == ms[k]
           calls == Len(m.calls)
<1>0. k \in Nat \ {0} /\ k - 1 \in 0 .. Len(ms) /\ k - 1 \in Nat /\ k \in 0 .. Len(ms)
  OBVIOUS
<1>7. m \in Messages /\ f[k - 1] \in Walks /\ f[k] \in Walks
  <2> HIDE DEF m
  <2>1. m \in Messages
    BY DEF m
  <2> QED BY <1>0, <2>1
<1>1. m.answers \in STRING /\ calls \in Nat
  BY <1>7, CallsOf
<1>2. /\ f[k].ok => f[k - 1].ok
      /\ m.role = "tool" =>
           /\ f[k].open = f[k - 1].open \ {m.answers}
           /\ f[k].ok => m.answers \in f[k - 1].open
      /\ m.role # "tool" => f[k].open \subseteq f[k - 1].open \cup IdsOf(m)
  <2> HIDE DEF m
  <2>1. Turned(f[k - 1], m, PairTurn(f[k - 1], m))
    BY <1>7, PairTurnIs
  <2>2. f[k] = PairTurn(f[k - 1], m)
    BY DEF m
  <2> QED BY <2>1, <2>2 DEF Turned
<1> HIDE DEF m, calls
<1>3. ASSUME NEW id \in STRING
      PROVE  /\ IsFiniteSet(Answered(ms, k, id)) /\ IsFiniteSet(Called(ms, k, id))
             /\ Cardinality(Answered(ms, k - 1, id)) \in Nat
             /\ Cardinality(Called(ms, k - 1, id)) \in Nat
             /\ Cardinality(Called(ms, k, id)) \in Nat
             /\ Cardinality(Answered(ms, k, id)) <=
                  Cardinality(Answered(ms, k - 1, id))
                    + (IF m.role = "tool" /\ m.answers = id THEN 1 ELSE 0)
             /\ Cardinality(Answered(ms, k, id)) \in Nat
             /\ Cardinality(Called(ms, k - 1, id)) <= Cardinality(Called(ms, k, id))
             /\ id \in IdsOf(m) =>
                  Cardinality(Called(ms, k - 1, id)) + 1 <= Cardinality(Called(ms, k, id))
  <2> DEFINE was == Answered(ms, k - 1, id)
             is == Answered(ms, k, id)
             old == Called(ms, k - 1, id)
             new == Called(ms, k, id)
             room == {k} \X (1 .. calls)
  <2>1. IsFiniteSet(was) /\ IsFiniteSet(old)
    BY DEF Balanced
  <2>2. is = IF m.role = "tool" /\ m.answers = id THEN was \cup {k} ELSE was
    BY <1>0, AnsweredNext DEF m
  <2>3. /\ old \subseteq new /\ new \subseteq old \cup room
        /\ id \in IdsOf(m) => \E p \in new : p \notin old
    BY CalledNext DEF m, calls
  <2> HIDE DEF was, is, old, new
  <2>4. /\ IsFiniteSet(was \cup {k})
        /\ Cardinality(was \cup {k}) = IF k \in was THEN Cardinality(was) ELSE Cardinality(was) + 1
    BY <2>1, FS_AddElement
  <2>5. IsFiniteSet(is) /\ Cardinality(was) \in Nat /\ Cardinality(is) \in Nat
    BY <2>1, <2>2, <2>4, FS_CardinalityType
  <2>6. Cardinality(is) <= Cardinality(was) + (IF m.role = "tool" /\ m.answers = id THEN 1 ELSE 0)
    BY <2>2, <2>4, <2>5
  <2>7. IsFiniteSet(new)
    <3>1. IsFiniteSet({k}) /\ IsFiniteSet(1 .. calls)
      <4>1. calls \in Int /\ 1 \in Int
        BY <1>1
      <4> QED BY <4>1, FS_Singleton, FS_Interval
    <3>2. IsFiniteSet(room)
      BY <3>1, FS_Product
    <3> HIDE DEF room
    <3>3. IsFiniteSet(old \cup room)
      BY <2>1, <3>2, FS_Union
    <3> QED BY <2>3, <3>3, FS_Subset
  <2>8. /\ Cardinality(old) <= Cardinality(new)
        /\ Cardinality(old) \in Nat /\ Cardinality(new) \in Nat
        /\ Cardinality(old) = Cardinality(new) => new = old
    BY <2>1, <2>3, <2>7, FS_Subset, FS_CardinalityType
  <2>9. ASSUME id \in IdsOf(m) PROVE Cardinality(old) + 1 <= Cardinality(new)
    <3>1. Cardinality(old) # Cardinality(new)
      BY <2>3, <2>8, <2>9
    <3> QED BY <2>8, <3>1
  <2> QED BY <2>5, <2>6, <2>7, <2>8, <2>9 DEF was, is, old, new
<1>4. ASSUME NEW id \in STRING, f[k].ok
      PROVE  Cardinality(Answered(ms, k, id)) + (IF id \in f[k].open THEN 1 ELSE 0)
               <= Cardinality(Called(ms, k, id))
  <2>1. Cardinality(Answered(ms, k - 1, id)) + (IF id \in f[k - 1].open THEN 1 ELSE 0)
          <= Cardinality(Called(ms, k - 1, id))
    BY <1>2, <1>4 DEF Balanced
  <2>2. CASE m.role = "tool" /\ m.answers = id
    <3>1. id \in f[k - 1].open /\ id \notin f[k].open
      BY <1>2, <1>4, <2>2
    <3> QED BY <1>3, <2>1, <2>2, <3>1
  <2>3. CASE ~(m.role = "tool" /\ m.answers = id)
    <3>1. id \in f[k].open => id \in f[k - 1].open \/ id \in IdsOf(m)
      BY <1>2
    <3> QED BY <1>3, <2>1, <2>3, <3>1
  <2> QED BY <2>2, <2>3
<1>5. ASSUME f[k].ok, NEW i \in 1 .. k, ms[i].role = "tool"
      PROVE  Cardinality(Answered(ms, i, ms[i].answers))
               <= Cardinality(Called(ms, i - 1, ms[i].answers))
  <2>1. CASE i = k
    <3>1. m.role = "tool" /\ m.answers \in f[k - 1].open /\ f[k - 1].ok
      BY <1>2, <1>5, <2>1 DEF m
    <3>2. Cardinality(Answered(ms, k - 1, m.answers)) + 1
            <= Cardinality(Called(ms, k - 1, m.answers))
      BY <1>1, <3>1 DEF Balanced
    <3>3. Cardinality(Answered(ms, k, m.answers)) <= Cardinality(Called(ms, k - 1, m.answers))
      BY <1>1, <1>3, <3>1, <3>2
    <3> QED BY <2>1, <3>3 DEF m
  <2>2. CASE i # k
    <3>1. i \in 1 .. k - 1
      BY <2>2
    <3> QED BY <1>2, <1>5, <3>1 DEF Balanced
  <2> QED BY <2>1, <2>2
<1> QED BY <1>3, <1>4, <1>5 DEF Balanced

\* The walk of the validators finds a call for every result.
LEMMA PairsHold ==
  ASSUME NEW ms \in Seq(Messages), CallsPair(ms), NEW i \in DOMAIN ms, ms[i].role = "tool"
  PROVE  Cardinality(Answered(ms, i, ms[i].answers)) <= Cardinality(Called(ms, i - 1, ms[i].answers))
<1> DEFINE n == Len(ms)
<1>1. n \in Nat /\ i \in 1 .. n
  OBVIOUS
<1>2. PICK f \in [0 .. n -> Walks] :
        /\ f[0] = Afresh
        /\ \A k \in 1 .. n : f[k] = PairTurn(f[k - 1], ms[k])
        /\ CallsPair(ms) = f[n].ok
  BY PairsFold DEF PairSteps
<1> DEFINE Good == {k \in 0 .. n : Balanced(ms, f, k)}
<1>3. 0 \in Good
  <2>1. ASSUME NEW id \in STRING PROVE Answered(ms, 0, id) = {} /\ Called(ms, 0, id) = {}
    <3>1. 1 .. 0 = {}
      OBVIOUS
    <3> QED BY <3>1 DEF Answered, Called
  <2>2. f[0].open = {}
    BY <1>2 DEF Afresh
  <2>3. IsFiniteSet({}) /\ Cardinality({}) = 0
    BY FS_EmptySet
  <2>4. Balanced(ms, f, 0)
    BY <2>1, <2>2, <2>3 DEF Balanced
  <2> QED BY <1>1, <2>4
<1>4. ASSUME NEW k \in 0 .. n - 1, k \in Good PROVE k + 1 \in Good
  <2>1. k + 1 \in 1 .. n /\ k + 1 \in 0 .. n /\ (k + 1) - 1 = k
    BY <1>1
  <2>2. f[k + 1] = PairTurn(f[(k + 1) - 1], ms[k + 1]) /\ Balanced(ms, f, (k + 1) - 1)
    BY <1>2, <1>4, <2>1
  <2>3. Balanced(ms, f, k + 1)
    BY <2>1, <2>2, BalancedNext
  <2> QED BY <2>1, <2>3
<1>5. n \in Good
  <2>1. Good \in SUBSET (0 .. n) /\ n \in 0 .. n
    BY <1>1
  <2> HIDE DEF Good
  <2> QED BY <1>1, <1>3, <1>4, <2>1, Counting
<1> QED BY <1>1, <1>2, <1>5 DEF Balanced

\* What the wire check lets through to Google and Bedrock is paired.
LEMMA WireCheckPairs ==
  ASSUME req \in ChatRequests, messages = Compress(req.messages, req.opts),
         ToolWireOk(Sent, call.provider, chosen.model)
  PROVE  call.provider \in ToolProviders =>
           \A i \in DOMAIN messages : messages[i].role = "tool" =>
             Cardinality(Answered(messages, i, messages[i].answers))
               <= Cardinality(Called(messages, i - 1, messages[i].answers))
<1> SUFFICES ASSUME call.provider \in ToolProviders,
                    NEW i \in DOMAIN messages, messages[i].role = "tool"
             PROVE  Cardinality(Answered(messages, i, messages[i].answers))
                      <= Cardinality(Called(messages, i - 1, messages[i].answers))
  OBVIOUS
<1>1. req.messages \in Seq(Messages)
  BY DEF ChatRequests
<1>2. Faithful(req.messages, messages)
  BY <1>1, CompressFaithful
<1>3. messages[i] \in ToSet(messages)
  BY DEF ToSet
<1>4. PICK m \in ToSet(req.messages) : m.role = "tool"
  BY <1>2, <1>3 DEF Faithful
<1>5. HasAgentTurn(req.messages)
  BY <1>4 DEF HasAgentTurn, ToSet
<1>6. messages = req.messages
  BY <1>5 DEF Compress
<1>7. Sent.messages = messages
  BY DEF Sent, ChatRequests
<1>8. HasToolPayload(Sent)
  BY <1>3, <1>7 DEF HasToolPayload
<1>9. CallsPair(messages)
  BY <1>7, <1>8 DEF ToolWireOk, ToolProviders, GoogleAccepts, BedrockAccepts
<1> QED BY <1>1, <1>6, <1>9, PairsHold

\* Only the wire check sends a request.
LEMMA PairedStep ==
  ASSUME PathInv, ToolResultsPaired, Next \/ UNCHANGED vars
  PROVE  ToolResultsPaired'
<1>1. CASE ValidateTools /\ outcome' = "sent"
  <2>1. /\ req \in ChatRequests /\ messages = Compress(req.messages, req.opts)
        /\ ToolWireOk(Sent, call.provider, chosen.model)
        /\ UNCHANGED <<messages, call>>
    BY <1>1 DEF ValidateTools, PathInv
  <2> QED BY <2>1, WireCheckPairs DEF ToolResultsPaired, Answered, Called
<1>2. CASE UNCHANGED vars
  <2>1. UNCHANGED <<messages, call, req, outcome>>
    BY <1>2 DEF vars
  <2> QED BY <2>1 DEF ToolResultsPaired
<1>3. CASE Next /\ ~(ValidateTools /\ outcome' = "sent")
  <2>1. outcome' # "sent"
    BY <1>3 DEF PathInv, Next, MergeCatalog, CatalogUnavailable, Receive, RouteUnknownTask,
                RouteFlexible, RouteConcrete, Routed, Refuse, Price, CompressAndReprice, Reserve,
                OverCap, ResolveByok, Finish
  <2> QED BY <2>1 DEF ToolResultsPaired
<1> QED BY <1>1, <1>2, <1>3

\* A tool result that reaches Google or Bedrock answers a call of its own, made
\* before it, however long the conversation and however often ids come again
\* (the validators' open calls).
THEOREM ToolResultsAlwaysPaired == OneSpec => []ToolResultsPaired
<1>1. OneInit => ToolResultsPaired
  BY DEF OneInit, Init, ToolResultsPaired
<1>2. PathInv /\ ToolResultsPaired /\ [OneNext]_<<view, vars, key_vars, price_vars>>
        => ToolResultsPaired'
  <2> SUFFICES ASSUME PathInv, ToolResultsPaired, [OneNext]_<<view, vars, key_vars, price_vars>>
               PROVE  ToolResultsPaired'
    OBVIOUS
  <2>1. Next \/ UNCHANGED vars
    BY DEF OneNext
  <2> QED BY <2>1, PairedStep
<1> QED BY <1>1, <1>2, PathInvHolds, PTL DEF OneSpec

-----------------------------------------------------------------------------
(***************************************************************************)
(* A text, line by line.                                                   *)
(***************************************************************************)

\* The first places of a sequence, and one more.
LEMMA PrefixGrows ==
  ASSUME NEW S, NEW s \in Seq(S), NEW k \in 0 .. Len(s) - 1
  PROVE  /\ SubSeq(s, 1, k) \in Seq(S) /\ Len(SubSeq(s, 1, k)) = k /\ s[k + 1] \in S
         /\ SubSeq(s, 1, k + 1) = Append(SubSeq(s, 1, k), s[k + 1])
<1> DEFINE p == SubSeq(s, 1, k)
           x == s[k + 1]
<1>1. /\ Len(s) \in Nat /\ k \in Int /\ k + 1 \in 1 .. Len(s) /\ 1 \in 1 .. Len(s)
      /\ k + 1 \in 1 .. Len(s) /\ (k + 1) - 1 = k
  OBVIOUS
<1>2. x \in S
  BY <1>1, ElementOfSeq
<1>3. p \in Seq(S) /\ Len(p) = k
  <2>1. \A i \in 1 .. k : s[i] \in S
    BY <1>1, ElementOfSeq
  <2>2. p \in Seq(S) /\ Len(p) = IF 1 <= k THEN k - 1 + 1 ELSE 0
    BY <1>1, <2>1, SubSeqProperties
  <2> QED BY <2>2
<1>4. SubSeq(s, 1, k + 1) = SubSeq(s, 1, (k + 1) - 1) \o <<x>>
  BY <1>1, SubSeqRecursiveSecond
<1>5. SubSeq(s, 1, k + 1) = p \o <<x>>
  BY <1>1, <1>4
<1> HIDE DEF p, x
<1>6. p \o <<x>> = Append(p, x)
  BY <1>2, <1>3, AppendIsConcat
<1> QED BY <1>2, <1>3, <1>5, <1>6 DEF p, x

\* What holds of the empty sequence, and of a sequence with one element more,
\* holds of all.
LEMMA ByAppending ==
  ASSUME NEW S, NEW Good \in SUBSET Seq(S), <<>> \in Good,
         \A s \in Good : \A x \in S : Append(s, x) \in Good
  PROVE  Seq(S) \subseteq Good
<1> SUFFICES ASSUME NEW s \in Seq(S) PROVE s \in Good
  OBVIOUS
<1> DEFINE n == Len(s)
           Ok == {k \in 0 .. n : SubSeq(s, 1, k) \in Good}
<1>0. n \in Nat
  OBVIOUS
<1>1. SubSeq(s, 1, 0) = <<>> /\ SubSeq(s, 1, n) = s
  BY SubSeqEmpty, SubSeqFull
<1>2. ASSUME NEW k \in 0 .. n - 1, k \in Ok PROVE k + 1 \in Ok
  <2>1. SubSeq(s, 1, k + 1) = Append(SubSeq(s, 1, k), s[k + 1]) /\ s[k + 1] \in S
    BY PrefixGrows
  <2>2. k + 1 \in 0 .. n
    BY <1>0
  <2>3. Append(SubSeq(s, 1, k), s[k + 1]) \in Good
    BY <1>2, <2>1
  <2> QED BY <2>1, <2>2, <2>3
<1>3. 0 .. n \subseteq Ok
  <2>1. 0 \in 0 .. n
    BY <1>0
  <2>2. 0 \in Ok /\ Ok \in SUBSET (0 .. n)
    BY <1>1, <2>1, Zenon
  <2> HIDE DEF Ok
  <2> QED BY <1>0, <1>2, <2>2, Counting
<1>4. n \in 0 .. n
  BY <1>0
<1> QED BY <1>1, <1>3, <1>4, Zenon

\* The values of a fold on its way over s, each element doing what the table says.
Runs(table, base, s, f) ==
  f[0] = base /\ \A k \in 1 .. Len(s) : f[k] = table[s[k]][f[k - 1]]

\* A fold over one element more is one step further.
LEMMA RunOn ==
  ASSUME NEW S, NEW R, NEW table \in [S -> [R -> R]], NEW base \in R, NEW s \in Seq(S), NEW x \in S,
         NEW f \in [0 .. Len(s) -> R], Runs(table, base, s, f),
         NEW g \in [0 .. Len(Append(s, x)) -> R], Runs(table, base, Append(s, x), g)
  PROVE  g[Len(Append(s, x))] = table[x][f[Len(s)]]
<1> DEFINE n == Len(s)
           t == Append(s, x)
           Ok == {k \in 0 .. n : f[k] = g[k]}
<1>1. /\ n \in Nat /\ Len(t) = n + 1 /\ t[n + 1] = x
      /\ \A k \in 1 .. n : t[k] = s[k]
  OBVIOUS
<1> HIDE DEF n, t
<1>2. ASSUME NEW k \in 0 .. n - 1, k \in Ok PROVE k + 1 \in Ok
  <2>1. k + 1 \in 1 .. n /\ k + 1 \in 1 .. n + 1 /\ k + 1 \in 0 .. n /\ (k + 1) - 1 = k
    BY <1>1
  <2>2. f[k + 1] = table[s[k + 1]][f[k]]
    BY <2>1 DEF Runs, n
  <2>3. g[k + 1] = table[s[k + 1]][g[k]]
    BY <1>1, <2>1 DEF Runs, t
  <2> QED BY <1>2, <2>1, <2>2, <2>3
<1>3. 0 .. n \subseteq Ok
  <2>1. 0 \in Ok /\ Ok \in SUBSET (0 .. n)
    BY <1>1 DEF Runs
  <2> HIDE DEF Ok
  <2> QED BY <1>1, <1>2, <2>1, Counting
<1>4. g[n + 1] = table[x][g[n]]
  <2>1. Len(t) = n + 1 /\ n + 1 \in 1 .. n + 1 /\ (n + 1) - 1 = n
    <3>1. n \in Nat /\ Len(t) = n + 1
      BY <1>1
    <3> QED BY ONLY <3>1
  <2>2. g[n + 1] = table[t[n + 1]][g[(n + 1) - 1]]
    BY <2>1 DEF Runs, t
  <2> QED BY <1>1, <2>1, <2>2
<1>5. f[n] = g[n]
  BY <1>1, <1>3
<1> QED BY <1>1, <1>4, <1>5 DEF n, t

\* What becomes of a line.
LEMMA TrimmedIs ==
  ASSUME NEW x \in LineKinds
  PROVE  /\ Trimmed(x) \in LineKinds /\ Trimmed(Trimmed(x)) = Trimmed(x)
         /\ x = "fence" => Trimmed(x) = "fence"
         /\ x # "fence" => Trimmed(x) # "fence"
BY DEF Trimmed, LineKinds

\* The words of a text, added line by line.
NoWords == <<>>
Texted == Seq(LineKinds)
WordsTable == [x \in LineKinds |-> [r \in Texted |-> AddWords(r, x)]]

\* Words are lines.
LEMMA AddWordsType ==
  /\ NoWords \in Texted
  /\ \A r \in Texted, x \in LineKinds : AddWords(r, x) \in Texted
<1>1. \A x \in LineKinds : Trimmed(x) \in LineKinds
  BY TrimmedIs
<1> QED BY <1>1 DEF AddWords, NoWords, Texted

\* Word by word.
WordsSteps(s) ==
  \E f \in [0 .. Len(s) -> Texted] :
    Runs(WordsTable, NoWords, s, f) /\ Words(s) = f[Len(s)]

\* Words goes line by line.
LEMMA WordsFold ==
  ASSUME NEW s \in Seq(LineKinds)
  PROVE  WordsSteps(s)
<1> DEFINE n == Len(s)
           step == [k \in 1 .. n |-> WordsTable[s[k]]]
           Body(h, t) == IF t = {} THEN NoWords
                         ELSE AddWords(h[t \ {Max(t)}], s[Max(t)])
           IsIt(h) == h = [t \in SUBSET DOMAIN s |-> Body(h, t)]
           it == CHOOSE h : IsIt(h)
<1>1. n \in Nat /\ DOMAIN s = 1 .. n
  OBVIOUS
<1>14. NoWords \in Texted
  BY AddWordsType
<1>2. WordsTable \in [LineKinds -> [Texted -> Texted]]
  BY AddWordsType DEF WordsTable
<1>3. step \in [1 .. n -> [Texted -> Texted]]
  BY <1>2
<1>13. \A k \in 1 .. n : step[k] = WordsTable[s[k]]
       /\ \A r \in Texted : WordsTable[s[k]][r] = AddWords(r, s[k])
  BY DEF WordsTable
<1>4. Words(s) = it[DOMAIN s]
  BY DEF Words, NoWords, FoldLeft, MapThenFoldSet
<1> HIDE DEF n, step
<1>5. PICK h \in [SUBSET (1 .. n) -> Texted] : IsFold(h, n, NoWords, step)
  BY <1>1, <1>3, <1>14, FoldExists
<1>6. ASSUME NEW t \in SUBSET (1 .. n), t # {}
      PROVE  h[t] = AddWords(h[t \ {Max(t)}], s[Max(t)])
  <2>1. Max(t) \in 1 .. n /\ t \ {Max(t)} \in SUBSET (1 .. n)
    BY <1>1, <1>6, FromTheEnd
  <2>2. h[t] = step[Max(t)][h[t \ {Max(t)}]]
    BY <1>5, <1>6 DEF IsFold
  <2>3. h[t \ {Max(t)}] \in Texted
    BY <1>5, <2>1
  <2> QED BY <1>13, <2>1, <2>2, <2>3
<1>7. IsIt(h)
  <2>1. \A t \in SUBSET DOMAIN s : h[t] = Body(h, t)
    BY <1>1, <1>5, <1>6 DEF IsFold
  <2>2. h = [t \in SUBSET DOMAIN s |-> h[t]]
    BY <1>1, <1>5
  <2> HIDE DEF Body
  <2> QED BY <2>1, <2>2
<1>8. IsIt(it)
  BY <1>7
<1> HIDE DEF it
<1>9. it[1 .. 0] = NoWords /\ \A k \in 1 .. n : it[1 .. k] = AddWords(it[1 .. k - 1], s[k])
  <2>1. ASSUME NEW t \in SUBSET (1 .. n) PROVE it[t] = Body(it, t)
    <3> HIDE DEF Body
    <3> QED BY <1>1, <1>8
  <2>2. it[1 .. 0] = NoWords
    BY <1>1, <2>1, UpTo
  <2>3. ASSUME NEW k \in 1 .. n PROVE it[1 .. k] = AddWords(it[1 .. k - 1], s[k])
    <3>1. /\ 1 .. k \in SUBSET (1 .. n) /\ 1 .. k # {}
          /\ Max(1 .. k) = k /\ (1 .. k) \ {k} = 1 .. k - 1
      BY <1>1, UpTo
    <3>2. it[1 .. k] = Body(it, 1 .. k)
      BY <2>1, <3>1
    <3> QED BY <3>1, <3>2
  <2> QED BY <2>2, <2>3
<1>10. FoldsUp(it, Texted, n, NoWords, step)
  <2>1. it[{}] = NoWords
    <3>1. 1 .. 0 = {}
      OBVIOUS
    <3> QED BY <1>9, <3>1
  <2> QED BY <1>13, <1>9, <2>1 DEF FoldsUp
<1>11. PICK f \in [0 .. n -> Texted] : IsTrace(f, n, NoWords, step) /\ f[n] = it[1 .. n]
  BY <1>1, <1>3, <1>10, <1>14, TraceOf
<1>12. Runs(WordsTable, NoWords, s, f)
  <2>1. \A k \in 1 .. n : f[k] = WordsTable[s[k]][f[k - 1]]
    BY <1>11, <1>13 DEF IsTrace
  <2> QED BY <1>11, <2>1 DEF IsTrace, Runs, n
<1> QED BY <1>1, <1>4, <1>11, <1>12 DEF n, WordsSteps

\* One line more.
LEMMA WordsAppend ==
  /\ Words(<<>>) = NoWords
  /\ \A s \in Seq(LineKinds) : Words(s) \in Texted
  /\ \A s \in Seq(LineKinds), x \in LineKinds : Words(Append(s, x)) = AddWords(Words(s), x)
<1>1. NoWords \in Texted /\ WordsTable \in [LineKinds -> [Texted -> Texted]]
  BY AddWordsType DEF WordsTable
<1>2. Words(<<>>) = NoWords
  <2>1. <<>> \in Seq(LineKinds) /\ Len(<<>>) = 0
    OBVIOUS
  <2> QED BY <2>1, WordsFold DEF WordsSteps, Runs
<1>3. ASSUME NEW s \in Seq(LineKinds), NEW x \in LineKinds
      PROVE  Words(s) \in Texted /\ Words(Append(s, x)) = AddWords(Words(s), x)
  <2>1. PICK f \in [0 .. Len(s) -> Texted] :
          Runs(WordsTable, NoWords, s, f) /\ Words(s) = f[Len(s)]
    BY WordsFold DEF WordsSteps
  <2>2. Append(s, x) \in Seq(LineKinds) /\ Len(s) \in 0 .. Len(s)
    OBVIOUS
  <2>3. PICK g \in [0 .. Len(Append(s, x)) -> Texted] :
          /\ Runs(WordsTable, NoWords, Append(s, x), g)
          /\ Words(Append(s, x)) = g[Len(Append(s, x))]
    BY <2>2, WordsFold DEF WordsSteps
  <2>4. Words(Append(s, x)) = WordsTable[x][Words(s)]
    BY <1>1, <2>1, <2>3, RunOn
  <2>5. Words(s) \in Texted
    BY <2>1, <2>2
  <2> QED BY <2>4, <2>5 DEF WordsTable
<1>4. "blank" \in LineKinds
  BY DEF LineKinds
<1> QED BY <1>2, <1>3, <1>4

\* The fenced blocks of a text, as they are gone through.
Blocks == [open : BOOLEAN, block : Seq(LineKinds), closed : Seq(LineKinds)]
NoBlocks == [open |-> FALSE, block |-> <<>>, closed |-> <<>>]
FencesTable == [x \in LineKinds |-> [r \in Blocks |-> AddFenced(r, x)]]

\* What a line does to them.
LEMMA AddFencedIs ==
  ASSUME NEW r \in Blocks, NEW x \in LineKinds
  PROVE  AddFenced(r, x) =
           IF x = "fence"
           THEN IF r.open
                THEN [open |-> FALSE, block |-> <<>>, closed |-> r.closed \o Append(r.block, x)]
                ELSE [open |-> TRUE, block |-> <<x>>, closed |-> r.closed]
           ELSE IF r.open
           THEN [open |-> TRUE, block |-> Append(r.block, x), closed |-> r.closed]
           ELSE r
<1>1. r = [open |-> r.open, block |-> r.block, closed |-> r.closed] /\ r.open \in BOOLEAN
  BY DEF Blocks
<1>2. CASE x = "fence" /\ r.open
  BY <1>2 DEF AddFenced
<1>3. CASE x = "fence" /\ ~r.open
  <2>1. AddFenced(r, x) = [r EXCEPT !.open = TRUE, !.block = <<x>>]
    BY <1>3 DEF AddFenced
  <2> QED BY <1>1, <1>3, <2>1
<1>4. CASE x # "fence" /\ r.open
  <2>1. AddFenced(r, x) = [r EXCEPT !.block = Append(@, x)]
    BY <1>4 DEF AddFenced
  <2>2. r.open = TRUE
    BY <1>1, <1>4
  <2> QED BY <1>1, <1>4, <2>1, <2>2
<1>5. CASE x # "fence" /\ ~r.open
  BY <1>5 DEF AddFenced
<1> QED BY <1>2, <1>3, <1>4, <1>5

\* A marker opens or closes a block, and nothing else does.
LEMMA AddFencedOpen ==
  ASSUME NEW r \in Blocks, NEW x \in LineKinds
  PROVE  /\ x = "fence" => (AddFenced(r, x).open <=> ~r.open)
         /\ x # "fence" => (AddFenced(r, x).open <=> r.open)
<1>1. CASE x = "fence" /\ r.open
  BY <1>1 DEF AddFenced
<1>2. CASE x = "fence" /\ ~r.open
  <2>1. AddFenced(r, x) = [open |-> TRUE, block |-> <<x>>, closed |-> r.closed]
    BY <1>2, AddFencedIs
  <2>2. AddFenced(r, x).open = TRUE
    BY <2>1
  <2> QED BY <1>2, <2>2
<1>3. CASE x # "fence" /\ r.open
  <2>1. AddFenced(r, x) = [open |-> TRUE, block |-> Append(r.block, x), closed |-> r.closed]
    BY <1>3, AddFencedIs
  <2>2. AddFenced(r, x).open = TRUE
    BY <2>1
  <2> QED BY <1>3, <2>2
<1>4. CASE x # "fence" /\ ~r.open
  BY <1>4 DEF AddFenced
<1> QED BY <1>1, <1>2, <1>3, <1>4

\* A line that is no marker closes nothing.
LEMMA AddFencedClosed ==
  ASSUME NEW r \in Blocks, NEW x \in LineKinds, x # "fence"
  PROVE  AddFenced(r, x).closed = r.closed
<1>1. CASE r.open
  <2>1. AddFenced(r, x) = [open |-> TRUE, block |-> Append(r.block, x), closed |-> r.closed]
    BY <1>1, AddFencedIs
  <2> QED BY <2>1
<1>2. CASE ~r.open
  BY <1>2 DEF AddFenced
<1> QED BY <1>1, <1>2

\* They stay what they are.
LEMMA AddFencedType ==
  /\ NoBlocks \in Blocks
  /\ \A r \in Blocks, x \in LineKinds : AddFenced(r, x) \in Blocks
<1>1. NoBlocks \in Blocks
  BY DEF NoBlocks, Blocks
<1>2. ASSUME NEW r \in Blocks, NEW x \in LineKinds PROVE AddFenced(r, x) \in Blocks
  <2>1. r.block \in Seq(LineKinds) /\ r.closed \in Seq(LineKinds) /\ r.open \in BOOLEAN
    BY DEF Blocks
  <2>2. /\ Append(r.block, x) \in Seq(LineKinds) /\ <<x>> \in Seq(LineKinds)
        /\ <<>> \in Seq(LineKinds)
    BY <2>1
  <2>3. r.closed \o Append(r.block, x) \in Seq(LineKinds)
    BY <2>1, <2>2, ConcatProperties
  <2>4. AddFenced(r, x) \in
          {[open |-> FALSE, block |-> <<>>, closed |-> r.closed \o Append(r.block, x)],
           [open |-> TRUE, block |-> <<x>>, closed |-> r.closed],
           [open |-> TRUE, block |-> Append(r.block, x), closed |-> r.closed], r}
    BY AddFencedIs
  <2>5. \A o \in BOOLEAN, b \in Seq(LineKinds), c \in Seq(LineKinds) :
          [open |-> o, block |-> b, closed |-> c] \in Blocks
    BY DEF Blocks
  <2>6. TRUE \in BOOLEAN /\ FALSE \in BOOLEAN
    OBVIOUS
  <2> QED BY <2>1, <2>2, <2>3, <2>4, <2>5, <2>6
<1> QED BY <1>1, <1>2

\* Line by line.
FencesSteps(s) ==
  \E f \in [0 .. Len(s) -> Blocks] :
    Runs(FencesTable, NoBlocks, s, f) /\ Fences(s) = f[Len(s)]

\* Fences goes line by line.
LEMMA FencesFold ==
  ASSUME NEW s \in Seq(LineKinds)
  PROVE  FencesSteps(s)
<1> DEFINE n == Len(s)
           step == [k \in 1 .. n |-> FencesTable[s[k]]]
           Body(h, t) == IF t = {} THEN NoBlocks
                         ELSE AddFenced(h[t \ {Max(t)}], s[Max(t)])
           IsIt(h) == h = [t \in SUBSET DOMAIN s |-> Body(h, t)]
           it == CHOOSE h : IsIt(h)
<1>1. n \in Nat /\ DOMAIN s = 1 .. n
  OBVIOUS
<1>14. NoBlocks \in Blocks
  BY AddFencedType
<1>2. FencesTable \in [LineKinds -> [Blocks -> Blocks]]
  BY AddFencedType DEF FencesTable
<1>3. step \in [1 .. n -> [Blocks -> Blocks]]
  BY <1>2
<1>13. \A k \in 1 .. n : step[k] = FencesTable[s[k]]
       /\ \A r \in Blocks : FencesTable[s[k]][r] = AddFenced(r, s[k])
  BY DEF FencesTable
<1>4. Fences(s) = it[DOMAIN s]
  BY DEF Fences, NoBlocks, FoldLeft, MapThenFoldSet
<1> HIDE DEF n, step
<1>5. PICK h \in [SUBSET (1 .. n) -> Blocks] : IsFold(h, n, NoBlocks, step)
  BY <1>1, <1>3, <1>14, FoldExists
<1>6. ASSUME NEW t \in SUBSET (1 .. n), t # {}
      PROVE  h[t] = AddFenced(h[t \ {Max(t)}], s[Max(t)])
  <2>1. Max(t) \in 1 .. n /\ t \ {Max(t)} \in SUBSET (1 .. n)
    BY <1>1, <1>6, FromTheEnd
  <2>2. h[t] = step[Max(t)][h[t \ {Max(t)}]]
    BY <1>5, <1>6 DEF IsFold
  <2>3. h[t \ {Max(t)}] \in Blocks
    BY <1>5, <2>1
  <2> QED BY <1>13, <2>1, <2>2, <2>3
<1>7. IsIt(h)
  <2>1. \A t \in SUBSET DOMAIN s : h[t] = Body(h, t)
    BY <1>1, <1>5, <1>6 DEF IsFold
  <2>2. h = [t \in SUBSET DOMAIN s |-> h[t]]
    BY <1>1, <1>5
  <2> HIDE DEF Body
  <2> QED BY <2>1, <2>2
<1>8. IsIt(it)
  BY <1>7
<1> HIDE DEF it
<1>9. it[1 .. 0] = NoBlocks /\ \A k \in 1 .. n : it[1 .. k] = AddFenced(it[1 .. k - 1], s[k])
  <2>1. ASSUME NEW t \in SUBSET (1 .. n) PROVE it[t] = Body(it, t)
    <3> HIDE DEF Body
    <3> QED BY <1>1, <1>8
  <2>2. it[1 .. 0] = NoBlocks
    BY <1>1, <2>1, UpTo
  <2>3. ASSUME NEW k \in 1 .. n PROVE it[1 .. k] = AddFenced(it[1 .. k - 1], s[k])
    <3>1. /\ 1 .. k \in SUBSET (1 .. n) /\ 1 .. k # {}
          /\ Max(1 .. k) = k /\ (1 .. k) \ {k} = 1 .. k - 1
      BY <1>1, UpTo
    <3>2. it[1 .. k] = Body(it, 1 .. k)
      BY <2>1, <3>1
    <3> QED BY <3>1, <3>2
  <2> QED BY <2>2, <2>3
<1>10. FoldsUp(it, Blocks, n, NoBlocks, step)
  <2>1. it[{}] = NoBlocks
    <3>1. 1 .. 0 = {}
      OBVIOUS
    <3> QED BY <1>9, <3>1
  <2> QED BY <1>13, <1>9, <2>1 DEF FoldsUp
<1>11. PICK f \in [0 .. n -> Blocks] : IsTrace(f, n, NoBlocks, step) /\ f[n] = it[1 .. n]
  BY <1>1, <1>3, <1>10, <1>14, TraceOf
<1>12. Runs(FencesTable, NoBlocks, s, f)
  <2>1. \A k \in 1 .. n : f[k] = FencesTable[s[k]][f[k - 1]]
    BY <1>11, <1>13 DEF IsTrace
  <2> QED BY <1>11, <2>1 DEF IsTrace, Runs, n
<1> QED BY <1>1, <1>4, <1>11, <1>12 DEF n, FencesSteps

\* One line more.
LEMMA FencesAppend ==
  /\ Fences(<<>>) = NoBlocks
  /\ \A s \in Seq(LineKinds) : Fences(s) \in Blocks
  /\ \A s \in Seq(LineKinds), x \in LineKinds : Fences(Append(s, x)) = AddFenced(Fences(s), x)
<1>1. NoBlocks \in Blocks /\ FencesTable \in [LineKinds -> [Blocks -> Blocks]]
  BY AddFencedType DEF FencesTable
<1>2. Fences(<<>>) = NoBlocks
  <2>1. <<>> \in Seq(LineKinds) /\ Len(<<>>) = 0
    OBVIOUS
  <2> QED BY <2>1, FencesFold DEF FencesSteps, Runs
<1>3. ASSUME NEW s \in Seq(LineKinds), NEW x \in LineKinds
      PROVE  Fences(s) \in Blocks /\ Fences(Append(s, x)) = AddFenced(Fences(s), x)
  <2>1. PICK f \in [0 .. Len(s) -> Blocks] :
          Runs(FencesTable, NoBlocks, s, f) /\ Fences(s) = f[Len(s)]
    BY FencesFold DEF FencesSteps
  <2>2. Append(s, x) \in Seq(LineKinds) /\ Len(s) \in 0 .. Len(s)
    OBVIOUS
  <2>3. PICK g \in [0 .. Len(Append(s, x)) -> Blocks] :
          /\ Runs(FencesTable, NoBlocks, Append(s, x), g)
          /\ Fences(Append(s, x)) = g[Len(Append(s, x))]
    BY <2>2, FencesFold DEF FencesSteps
  <2>4. Fences(Append(s, x)) = FencesTable[x][Fences(s)]
    BY <1>1, <2>1, <2>3, RunOn
  <2>5. Fences(s) \in Blocks
    BY <2>1, <2>2
  <2> QED BY <2>4, <2>5 DEF FencesTable
<1>4. "blank" \in LineKinds
  BY DEF LineKinds
<1> QED BY <1>2, <1>3, <1>4

\* The pass of normalize_whitespace, before the end is trimmed.
Passes == [out : Seq(LineKinds), in_fence : BOOLEAN, blank_run : Nat]
AtFirst == [out |-> <<>>, in_fence |-> FALSE, blank_run |-> 0]
PassTable == [x \in LineKinds |-> [r \in Passes |-> NormalizeLine(r, x)]]
Passed(text) == FoldLeft(NormalizeLine, AtFirst, text)

\* What the pass makes of a line.
LEMMA NormalizeLineIs ==
  ASSUME NEW r \in Passes, NEW x \in LineKinds
  PROVE  NormalizeLine(r, x) =
           IF x = "fence"
           THEN [out |-> Append(r.out, x), in_fence |-> ~r.in_fence, blank_run |-> 0]
           ELSE IF r.in_fence
           THEN [out |-> Append(r.out, x), in_fence |-> r.in_fence, blank_run |-> r.blank_run]
           ELSE IF Trimmed(x) # "blank"
           THEN [out |-> Append(r.out, Trimmed(x)), in_fence |-> r.in_fence, blank_run |-> 0]
           ELSE IF r.blank_run > 0 \/ r.out = <<>>
           THEN [out |-> r.out, in_fence |-> r.in_fence, blank_run |-> r.blank_run + 1]
           ELSE [out |-> Append(r.out, "blank"), in_fence |-> r.in_fence, blank_run |-> 1]
<1>1. r = [out |-> r.out, in_fence |-> r.in_fence, blank_run |-> r.blank_run]
  BY DEF Passes
<1>2. ASSUME NEW l PROVE Kept(r, l) = [out |-> Append(r.out, l), in_fence |-> r.in_fence,
                                       blank_run |-> r.blank_run]
  BY <1>1 DEF Kept
<1>3. CASE x = "fence"
  <2> DEFINE flipped == ~r.in_fence
             k == Kept(r, x)
  <2>1. NormalizeLine(r, x) = [k EXCEPT !.in_fence = ~@, !.blank_run = 0]
    BY <1>3 DEF NormalizeLine
  <2>2. k = [out |-> Append(r.out, x), in_fence |-> r.in_fence, blank_run |-> r.blank_run]
    BY <1>2
  <2> HIDE DEF k
  <2>3. k.in_fence = r.in_fence
    BY <2>2
  <2>4. NormalizeLine(r, x) = [k EXCEPT !.in_fence = flipped, !.blank_run = 0]
    BY <2>1, <2>3
  <2> HIDE DEF flipped
  <2>5. NormalizeLine(r, x) = [out |-> Append(r.out, x), in_fence |-> flipped, blank_run |-> 0]
    BY <2>2, <2>4
  <2> QED BY <1>3, <2>5 DEF flipped
<1>4. CASE x # "fence" /\ r.in_fence
  BY <1>2, <1>4 DEF NormalizeLine
<1>5. CASE x # "fence" /\ ~r.in_fence /\ Trimmed(x) # "blank"
  <2> DEFINE k == Kept(r, Trimmed(x))
  <2>1. NormalizeLine(r, x) = [k EXCEPT !.blank_run = 0]
    BY <1>5 DEF NormalizeLine
  <2>2. k = [out |-> Append(r.out, Trimmed(x)), in_fence |-> r.in_fence, blank_run |-> r.blank_run]
    BY <1>2
  <2> HIDE DEF k
  <2> QED BY <1>5, <2>1, <2>2
<1>6. CASE x # "fence" /\ ~r.in_fence /\ Trimmed(x) = "blank" /\ (r.blank_run > 0 \/ r.out = <<>>)
  <2>1. NormalizeLine(r, x) = [r EXCEPT !.blank_run = @ + 1]
    BY <1>6 DEF NormalizeLine
  <2> QED BY <1>1, <1>6, <2>1
<1>7. CASE x # "fence" /\ ~r.in_fence /\ Trimmed(x) = "blank" /\ ~(r.blank_run > 0 \/ r.out = <<>>)
  <2> DEFINE k == Kept(r, "blank")
  <2>1. NormalizeLine(r, x) = [k EXCEPT !.blank_run = 1]
    BY <1>7 DEF NormalizeLine
  <2>2. k = [out |-> Append(r.out, "blank"), in_fence |-> r.in_fence, blank_run |-> r.blank_run]
    BY <1>2
  <2> HIDE DEF k
  <2> QED BY <1>7, <2>1, <2>2
<1> QED BY <1>3, <1>4, <1>5, <1>6, <1>7

\* At a marker it goes in or out of a block.
LEMMA PassFlips ==
  ASSUME NEW r \in Passes, NEW x, x = "fence"
  PROVE  /\ NormalizeLine(r, x).out = Append(r.out, x)
         /\ NormalizeLine(r, x).in_fence <=> ~r.in_fence
         /\ NormalizeLine(r, x).blank_run = 0
<1> DEFINE flipped == ~r.in_fence
<1>1. x \in LineKinds
  BY DEF LineKinds
<1>2. NormalizeLine(r, x) = [out |-> Append(r.out, x), in_fence |-> flipped, blank_run |-> 0]
  BY <1>1, NormalizeLineIs
<1> HIDE DEF flipped
<1>3. NormalizeLine(r, x).out = Append(r.out, x) /\ NormalizeLine(r, x).in_fence = flipped
      /\ NormalizeLine(r, x).blank_run = 0
  BY <1>2
<1> QED BY <1>3, Zenon DEF flipped

\* It keeps its types.
LEMMA PassType ==
  /\ AtFirst \in Passes
  /\ \A r \in Passes, x \in LineKinds : NormalizeLine(r, x) \in Passes
<1>1. AtFirst \in Passes
  BY DEF AtFirst, Passes
<1>2. ASSUME NEW r \in Passes, NEW x \in LineKinds PROVE NormalizeLine(r, x) \in Passes
  <2> DEFINE flipped == ~r.in_fence
  <2>1. r.out \in Seq(LineKinds) /\ r.in_fence \in BOOLEAN /\ r.blank_run \in Nat
    BY DEF Passes
  <2>2. Trimmed(x) \in LineKinds /\ "blank" \in LineKinds
    BY TrimmedIs DEF LineKinds
  <2>3. /\ Append(r.out, x) \in Seq(LineKinds) /\ Append(r.out, Trimmed(x)) \in Seq(LineKinds)
        /\ Append(r.out, "blank") \in Seq(LineKinds)
    BY <2>1, <2>2
  <2>4. flipped \in BOOLEAN
    BY Zenon
  <2>5. NormalizeLine(r, x) \in
          {[out |-> Append(r.out, x), in_fence |-> flipped, blank_run |-> 0],
           [out |-> Append(r.out, x), in_fence |-> r.in_fence, blank_run |-> r.blank_run],
           [out |-> Append(r.out, Trimmed(x)), in_fence |-> r.in_fence, blank_run |-> 0],
           [out |-> r.out, in_fence |-> r.in_fence, blank_run |-> r.blank_run + 1],
           [out |-> Append(r.out, "blank"), in_fence |-> r.in_fence, blank_run |-> 1]}
    BY NormalizeLineIs
  <2> HIDE DEF flipped
  <2> QED BY <2>1, <2>3, <2>4, <2>5 DEF Passes
<1> QED BY <1>1, <1>2

\* Line by line.
PassSteps(s) ==
  \E f \in [0 .. Len(s) -> Passes] :
    Runs(PassTable, AtFirst, s, f) /\ Passed(s) = f[Len(s)]

\* Passed goes line by line.
LEMMA PassFold ==
  ASSUME NEW s \in Seq(LineKinds)
  PROVE  PassSteps(s)
<1> DEFINE n == Len(s)
           step == [k \in 1 .. n |-> PassTable[s[k]]]
           Body(h, t) == IF t = {} THEN AtFirst
                         ELSE NormalizeLine(h[t \ {Max(t)}], s[Max(t)])
           IsIt(h) == h = [t \in SUBSET DOMAIN s |-> Body(h, t)]
           it == CHOOSE h : IsIt(h)
<1>1. n \in Nat /\ DOMAIN s = 1 .. n
  OBVIOUS
<1>14. AtFirst \in Passes
  BY PassType
<1>2. PassTable \in [LineKinds -> [Passes -> Passes]]
  BY PassType DEF PassTable
<1>3. step \in [1 .. n -> [Passes -> Passes]]
  BY <1>2
<1>13. \A k \in 1 .. n : step[k] = PassTable[s[k]]
       /\ \A r \in Passes : PassTable[s[k]][r] = NormalizeLine(r, s[k])
  BY DEF PassTable
<1>4. Passed(s) = it[DOMAIN s]
  BY DEF Passed, AtFirst, FoldLeft, MapThenFoldSet
<1> HIDE DEF n, step
<1>5. PICK h \in [SUBSET (1 .. n) -> Passes] : IsFold(h, n, AtFirst, step)
  BY <1>1, <1>3, <1>14, FoldExists
<1>6. ASSUME NEW t \in SUBSET (1 .. n), t # {}
      PROVE  h[t] = NormalizeLine(h[t \ {Max(t)}], s[Max(t)])
  <2>1. Max(t) \in 1 .. n /\ t \ {Max(t)} \in SUBSET (1 .. n)
    BY <1>1, <1>6, FromTheEnd
  <2>2. h[t] = step[Max(t)][h[t \ {Max(t)}]]
    BY <1>5, <1>6 DEF IsFold
  <2>3. h[t \ {Max(t)}] \in Passes
    BY <1>5, <2>1
  <2> QED BY <1>13, <2>1, <2>2, <2>3
<1>7. IsIt(h)
  <2>1. \A t \in SUBSET DOMAIN s : h[t] = Body(h, t)
    BY <1>1, <1>5, <1>6 DEF IsFold
  <2>2. h = [t \in SUBSET DOMAIN s |-> h[t]]
    BY <1>1, <1>5
  <2> HIDE DEF Body
  <2> QED BY <2>1, <2>2
<1>8. IsIt(it)
  BY <1>7
<1> HIDE DEF it
<1>9. it[1 .. 0] = AtFirst /\ \A k \in 1 .. n : it[1 .. k] = NormalizeLine(it[1 .. k - 1], s[k])
  <2>1. ASSUME NEW t \in SUBSET (1 .. n) PROVE it[t] = Body(it, t)
    <3> HIDE DEF Body
    <3> QED BY <1>1, <1>8
  <2>2. it[1 .. 0] = AtFirst
    BY <1>1, <2>1, UpTo
  <2>3. ASSUME NEW k \in 1 .. n PROVE it[1 .. k] = NormalizeLine(it[1 .. k - 1], s[k])
    <3>1. /\ 1 .. k \in SUBSET (1 .. n) /\ 1 .. k # {}
          /\ Max(1 .. k) = k /\ (1 .. k) \ {k} = 1 .. k - 1
      BY <1>1, UpTo
    <3>2. it[1 .. k] = Body(it, 1 .. k)
      BY <2>1, <3>1
    <3> QED BY <3>1, <3>2
  <2> QED BY <2>2, <2>3
<1>10. FoldsUp(it, Passes, n, AtFirst, step)
  <2>1. it[{}] = AtFirst
    <3>1. 1 .. 0 = {}
      OBVIOUS
    <3> QED BY <1>9, <3>1
  <2> QED BY <1>13, <1>9, <2>1 DEF FoldsUp
<1>11. PICK f \in [0 .. n -> Passes] : IsTrace(f, n, AtFirst, step) /\ f[n] = it[1 .. n]
  BY <1>1, <1>3, <1>10, <1>14, TraceOf
<1>12. Runs(PassTable, AtFirst, s, f)
  <2>1. \A k \in 1 .. n : f[k] = PassTable[s[k]][f[k - 1]]
    BY <1>11, <1>13 DEF IsTrace
  <2> QED BY <1>11, <2>1 DEF IsTrace, Runs, n
<1> QED BY <1>1, <1>4, <1>11, <1>12 DEF n, PassSteps

\* One line more.
LEMMA PassAppend ==
  /\ Passed(<<>>) = AtFirst
  /\ \A s \in Seq(LineKinds) : Passed(s) \in Passes
  /\ \A s \in Seq(LineKinds), x \in LineKinds : Passed(Append(s, x)) = NormalizeLine(Passed(s), x)
<1>1. AtFirst \in Passes /\ PassTable \in [LineKinds -> [Passes -> Passes]]
  BY PassType DEF PassTable
<1>2. Passed(<<>>) = AtFirst
  <2>1. <<>> \in Seq(LineKinds) /\ Len(<<>>) = 0
    OBVIOUS
  <2> QED BY <2>1, PassFold DEF PassSteps, Runs
<1>3. ASSUME NEW s \in Seq(LineKinds), NEW x \in LineKinds
      PROVE  Passed(s) \in Passes /\ Passed(Append(s, x)) = NormalizeLine(Passed(s), x)
  <2>1. PICK f \in [0 .. Len(s) -> Passes] :
          Runs(PassTable, AtFirst, s, f) /\ Passed(s) = f[Len(s)]
    BY PassFold DEF PassSteps
  <2>2. Append(s, x) \in Seq(LineKinds) /\ Len(s) \in 0 .. Len(s)
    OBVIOUS
  <2>3. PICK g \in [0 .. Len(Append(s, x)) -> Passes] :
          /\ Runs(PassTable, AtFirst, Append(s, x), g)
          /\ Passed(Append(s, x)) = g[Len(Append(s, x))]
    BY <2>2, PassFold DEF PassSteps
  <2>4. Passed(Append(s, x)) = PassTable[x][Passed(s)]
    BY <1>1, <2>1, <2>3, RunOn
  <2>5. Passed(s) \in Passes
    BY <2>1, <2>2
  <2> QED BY <2>4, <2>5 DEF PassTable
<1>4. "blank" \in LineKinds
  BY DEF LineKinds
<1> QED BY <1>2, <1>3, <1>4

-----------------------------------------------------------------------------
(***************************************************************************)
(* What the pass leaves of a text.                                         *)
(***************************************************************************)

\* What is promised of the pass over a text: its words and its fenced blocks are
\* those of the text, the pass is inside a block when the text is, it makes no
\* text longer, and a second pass comes to the same.
BlankNow(r) == r.blank_run > 0 \/ r.out = <<>>
PassKeeps(t) ==
  LET r == Passed(t)
      again == Passed(r.out)
  IN /\ Words(r.out) = Words(t)
     /\ Fences(r.out) = Fences(t) /\ (Fences(t).open <=> r.in_fence)
     /\ Len(r.out) <= Len(t)
     /\ again.out = r.out /\ (again.in_fence <=> r.in_fence)
     /\ BlankNow(again) <=> BlankNow(r)

\* In a block no blanks are counted.
LEMMA NoBlanksInside ==
  ASSUME NEW t \in Seq(LineKinds)
  PROVE  Passed(t).in_fence => Passed(t).blank_run = 0
<1> DEFINE Good == {s \in Seq(LineKinds) : Passed(s).in_fence => Passed(s).blank_run = 0}
<1>1. <<>> \in Good
  <2>1. ~Passed(<<>>).in_fence /\ <<>> \in Seq(LineKinds)
    BY PassAppend DEF AtFirst
  <2> QED BY <2>1
<1>2. ASSUME NEW s \in Good, NEW x \in LineKinds PROVE Append(s, x) \in Good
  <2> DEFINE r == Passed(s)
  <2>1. s \in Seq(LineKinds) /\ Append(s, x) \in Seq(LineKinds)
    OBVIOUS
  <2>2. r \in Passes /\ Passed(Append(s, x)) = NormalizeLine(r, x)
    BY <2>1, PassAppend
  <2>3. r.in_fence => r.blank_run = 0
    BY <1>2
  <2> HIDE DEF r, Good
  <2>4. NormalizeLine(r, x).in_fence => NormalizeLine(r, x).blank_run = 0
    BY <2>2, <2>3, NormalizeLineIs
  <2> QED BY <2>1, <2>2, <2>4 DEF Good
<1>3. Good \in SUBSET Seq(LineKinds)
  OBVIOUS
<1> HIDE DEF Good
<1>4. t \in Good
  BY <1>1, <1>2, <1>3, ByAppending
<1> QED BY <1>4 DEF Good

\* The empty text is left as it is.
LEMMA PassKeepsNone == PassKeeps(<<>>)
<1>1. Passed(<<>>) = AtFirst /\ AtFirst.out = <<>> /\ ~AtFirst.in_fence
  BY PassAppend DEF AtFirst
<1>2. Fences(<<>>) = NoBlocks /\ ~NoBlocks.open
  BY FencesAppend DEF NoBlocks
<1> QED BY <1>1, <1>2 DEF PassKeeps

\* So is a line more.
LEMMA PassKeepsNext ==
  ASSUME NEW t \in Seq(LineKinds), NEW x \in LineKinds, PassKeeps(t)
  PROVE  PassKeeps(Append(t, x))
<1> DEFINE r == Passed(t)
           again == Passed(r.out)
           now == Passed(Append(t, x))
           y == Trimmed(x)
<1>1. r \in Passes /\ now = NormalizeLine(r, x) /\ now \in Passes
  <2>1. Append(t, x) \in Seq(LineKinds)
    OBVIOUS
  <2> QED BY <2>1, PassAppend
<1>2. r.out \in Seq(LineKinds) /\ r.blank_run \in Nat /\ again \in Passes
      /\ again.out \in Seq(LineKinds) /\ again.blank_run \in Nat
  <2>1. r.out \in Seq(LineKinds) /\ r.blank_run \in Nat
    BY <1>1 DEF Passes
  <2>2. again \in Passes
    BY <2>1, PassAppend
  <2> QED BY <2>1, <2>2 DEF Passes
<1>3. /\ Words(r.out) = Words(t)
      /\ Fences(r.out) = Fences(t) /\ (Fences(t).open <=> r.in_fence)
      /\ Len(r.out) <= Len(t)
      /\ again.out = r.out /\ (again.in_fence <=> r.in_fence)
      /\ BlankNow(again) <=> BlankNow(r)
  BY DEF PassKeeps
<1>4. /\ Words(Append(t, x)) = AddWords(Words(t), x)
      /\ Fences(Append(t, x)) = AddFenced(Fences(t), x)
      /\ Fences(t) \in Blocks
  BY WordsAppend, FencesAppend
<1>5. ASSUME NEW l \in LineKinds
      PROVE  /\ Words(Append(r.out, l)) = AddWords(Words(t), l)
             /\ Fences(Append(r.out, l)) = AddFenced(Fences(t), l)
             /\ Passed(Append(r.out, l)) = NormalizeLine(again, l)
             /\ Append(r.out, l) # <<>>
             /\ Len(Append(r.out, l)) <= Len(Append(t, x))
  <2>1. Words(Append(r.out, l)) = AddWords(Words(r.out), l)
        /\ Fences(Append(r.out, l)) = AddFenced(Fences(r.out), l)
        /\ Passed(Append(r.out, l)) = NormalizeLine(again, l)
    BY <1>2, WordsAppend, FencesAppend, PassAppend
  <2>2. Append(r.out, l) # <<>> /\ Len(Append(r.out, l)) = Len(r.out) + 1
        /\ Len(Append(t, x)) = Len(t) + 1 /\ Len(t) \in Nat /\ Len(r.out) \in Nat
    <3> DEFINE o == r.out
    <3>1. o \in Seq(LineKinds)
      BY <1>2
    <3> HIDE DEF o
    <3>2. Append(o, l) # <<>> /\ Len(Append(o, l)) = Len(o) + 1 /\ Len(o) \in Nat
      BY <3>1, AppendProperties, LenProperties
    <3> QED BY <3>2, AppendProperties, LenProperties DEF o
  <2>3. Len(Append(r.out, l)) <= Len(Append(t, x))
    BY <1>3, <2>2
  <2> QED BY <1>3, <2>1, <2>2, <2>3
<1>6. /\ y \in LineKinds /\ Trimmed(y) = y /\ (x = "fence" => y = "fence")
      /\ (x # "fence" => y # "fence") /\ "blank" \in LineKinds /\ Trimmed("blank") = "blank"
  BY TrimmedIs DEF LineKinds, Trimmed
<1> DEFINE Goes(l) ==
             /\ AddWords(Words(t), l) = AddWords(Words(t), x)
             /\ AddFenced(Fences(t), l) = AddFenced(Fences(t), x)
             /\ now.out = Append(r.out, l)
             /\ NormalizeLine(again, l).out = Append(again.out, l)
             /\ NormalizeLine(again, l).in_fence <=> now.in_fence
             /\ NormalizeLine(again, l).blank_run > 0 <=> now.blank_run > 0
             /\ AddFenced(Fences(t), x).open <=> now.in_fence
<1>7. ASSUME NEW l \in LineKinds, Goes(l)
      PROVE  PassKeeps(Append(t, x))
  <2>1. /\ Passed(now.out) = NormalizeLine(again, l)
        /\ NormalizeLine(again, l).out = now.out /\ now.out # <<>>
    BY <1>3, <1>5, <1>7
  <2>2. BlankNow(Passed(now.out)) <=> BlankNow(now)
    BY <1>7, <2>1 DEF BlankNow
  <2>3. /\ Words(now.out) = Words(Append(t, x)) /\ Fences(now.out) = Fences(Append(t, x))
        /\ Len(now.out) <= Len(Append(t, x))
    BY <1>4, <1>5, <1>7
  <2>4. (Fences(Append(t, x)).open <=> now.in_fence) /\ Passed(now.out).out = now.out
        /\ (Passed(now.out).in_fence <=> now.in_fence)
    BY <1>4, <1>7, <2>1
  <2> HIDE DEF now
  <2> QED BY <2>2, <2>3, <2>4 DEF PassKeeps, now
<1> HIDE DEF r, again, now, y, Goes
<1>8. CASE x = "fence"
  <2>3. AddFenced(Fences(t), x).open <=> ~Fences(t).open
    BY <1>4, <1>8, AddFencedOpen
  <2>4. (now.in_fence <=> ~r.in_fence) /\ (NormalizeLine(again, x).in_fence <=> ~again.in_fence)
    BY <1>1, <1>2, <1>8, PassFlips
  <2>5. now.out = Append(r.out, x) /\ now.blank_run = 0
        /\ NormalizeLine(again, x).out = Append(again.out, x)
        /\ NormalizeLine(again, x).blank_run = 0
    BY <1>1, <1>2, <1>8, PassFlips
  <2>6. NormalizeLine(again, x).in_fence <=> now.in_fence
    BY <1>3, <2>4
  <2>7. AddFenced(Fences(t), x).open <=> now.in_fence
    BY <1>3, <2>3, <2>4
  <2>8. Goes(x)
    BY <2>5, <2>6, <2>7 DEF Goes
  <2> QED BY <1>7, <2>8
<1>9. CASE x # "fence" /\ r.in_fence
  <2>1. now = [out |-> Append(r.out, x), in_fence |-> r.in_fence, blank_run |-> r.blank_run]
    BY <1>1, <1>9, NormalizeLineIs
  <2>2. NormalizeLine(again, x)
          = [out |-> Append(again.out, x), in_fence |-> again.in_fence,
             blank_run |-> again.blank_run]
    BY <1>2, <1>3, <1>9, NormalizeLineIs
  <2>3. AddFenced(Fences(t), x).open <=> Fences(t).open
    BY <1>4, <1>9, AddFencedOpen
  <2>4. again.blank_run = 0 /\ r.blank_run = 0
    BY <1>2, <1>3, <1>9, NoBlanksInside DEF r, again
  <2>5. now.out = Append(r.out, x) /\ now.blank_run = r.blank_run
        /\ NormalizeLine(again, x).out = Append(again.out, x)
        /\ NormalizeLine(again, x).blank_run = again.blank_run
    BY <2>1, <2>2
  <2>6. NormalizeLine(again, x).in_fence <=> now.in_fence
    BY <1>3, <2>1, <2>2
  <2>7. AddFenced(Fences(t), x).open <=> now.in_fence
    BY <1>3, <2>1, <2>3
  <2>8. Goes(x)
    BY <2>4, <2>5, <2>6, <2>7 DEF Goes
  <2> QED BY <1>7, <2>8
<1>10. CASE x # "fence" /\ ~r.in_fence /\ y # "blank"
  <2>1. now = [out |-> Append(r.out, y), in_fence |-> r.in_fence, blank_run |-> 0]
    BY <1>1, <1>10, NormalizeLineIs DEF y
  <2>2. NormalizeLine(again, y)
          = [out |-> Append(again.out, y), in_fence |-> again.in_fence, blank_run |-> 0]
    BY <1>2, <1>3, <1>6, <1>10, NormalizeLineIs
  <2>3. AddFenced(Fences(t), x) = Fences(t) /\ AddFenced(Fences(t), y) = Fences(t)
    BY <1>3, <1>4, <1>6, <1>10, AddFencedIs
  <2>4. AddWords(Words(t), y) = AddWords(Words(t), x)
    BY <1>6 DEF AddWords, y
  <2>5. now.out = Append(r.out, y) /\ now.blank_run = 0
        /\ NormalizeLine(again, y).out = Append(again.out, y)
        /\ NormalizeLine(again, y).blank_run = 0
    BY <2>1, <2>2
  <2>6. NormalizeLine(again, y).in_fence <=> now.in_fence
    BY <1>3, <2>1, <2>2
  <2>7. AddFenced(Fences(t), x).open <=> now.in_fence
    BY <1>3, <2>1, <2>3
  <2>8. Goes(y)
    BY <2>3, <2>4, <2>5, <2>6, <2>7 DEF Goes
  <2> QED BY <1>6, <1>7, <2>8
<1>11. CASE x # "fence" /\ ~r.in_fence /\ y = "blank" /\ BlankNow(r)
  <2>1. now = [out |-> r.out, in_fence |-> r.in_fence, blank_run |-> r.blank_run + 1]
    BY <1>1, <1>11, NormalizeLineIs DEF y, BlankNow
  <2>2. AddFenced(Fences(t), x) = Fences(t)
    BY <1>3, <1>4, <1>11, AddFencedIs
  <2>3. AddWords(Words(t), x) = Words(t)
    BY <1>11 DEF AddWords, y
  <2>4. now.out = r.out /\ (now.in_fence <=> r.in_fence) /\ now.blank_run > 0
    BY <1>2, <2>1
  <2>5. BlankNow(now)
    BY <2>4 DEF BlankNow
  <2>6. Len(r.out) <= Len(Append(t, x))
    <3>1. Len(Append(t, x)) = Len(t) + 1 /\ Len(t) \in Nat /\ Len(r.out) \in Nat
      BY <1>2
    <3> QED BY <1>3, <3>1
  <2>7. Passed(now.out) = again
    BY <2>4 DEF again
  <2>8. /\ Words(now.out) = Words(Append(t, x)) /\ Fences(now.out) = Fences(Append(t, x))
        /\ (Fences(Append(t, x)).open <=> now.in_fence)
        /\ Len(now.out) <= Len(Append(t, x))
        /\ again.out = now.out /\ (again.in_fence <=> now.in_fence)
        /\ (BlankNow(again) <=> BlankNow(now))
    BY <1>3, <1>4, <1>11, <2>2, <2>3, <2>4, <2>5, <2>6
  <2> QED BY <2>7, <2>8 DEF PassKeeps, now
<1>12. CASE x # "fence" /\ ~r.in_fence /\ y = "blank" /\ ~BlankNow(r)
  <2>1. now = [out |-> Append(r.out, "blank"), in_fence |-> r.in_fence, blank_run |-> 1]
    BY <1>1, <1>12, NormalizeLineIs DEF y, BlankNow
  <2>2. NormalizeLine(again, "blank")
          = [out |-> Append(again.out, "blank"), in_fence |-> again.in_fence, blank_run |-> 1]
    BY <1>2, <1>3, <1>6, <1>12, NormalizeLineIs DEF BlankNow
  <2>3. AddFenced(Fences(t), x) = Fences(t) /\ AddFenced(Fences(t), "blank") = Fences(t)
    BY <1>3, <1>4, <1>6, <1>12, AddFencedIs
  <2>4. AddWords(Words(t), "blank") = AddWords(Words(t), x)
    BY <1>6, <1>12 DEF AddWords, y
  <2>5. now.out = Append(r.out, "blank") /\ now.blank_run = 1
        /\ NormalizeLine(again, "blank").out = Append(again.out, "blank")
        /\ NormalizeLine(again, "blank").blank_run = 1
    BY <2>1, <2>2
  <2>6. NormalizeLine(again, "blank").in_fence <=> now.in_fence
    BY <1>3, <2>1, <2>2
  <2>7. AddFenced(Fences(t), x).open <=> now.in_fence
    BY <1>3, <2>1, <2>3
  <2>8. Goes("blank")
    BY <2>3, <2>4, <2>5, <2>6, <2>7 DEF Goes
  <2> QED BY <1>6, <1>7, <2>8
<1> QED BY <1>8, <1>9, <1>10, <1>11, <1>12

\* So it is for every text.
LEMMA PassKeepsAll ==
  ASSUME NEW t \in Seq(LineKinds)
  PROVE  PassKeeps(t)
<1> DEFINE Good == {s \in Seq(LineKinds) : PassKeeps(s)}
<1>1. <<>> \in Good
  <2>1. <<>> \in Seq(LineKinds)
    OBVIOUS
  <2> QED BY <2>1, PassKeepsNone
<1>2. ASSUME NEW s \in Good, NEW x \in LineKinds PROVE Append(s, x) \in Good
  <2>1. s \in Seq(LineKinds) /\ PassKeeps(s)
    OBVIOUS
  <2>2. Append(s, x) \in Seq(LineKinds)
    BY <2>1
  <2> QED BY <2>1, <2>2, PassKeepsNext
<1>3. Good \in SUBSET Seq(LineKinds)
  OBVIOUS
<1> HIDE DEF Good
<1>4. t \in Good
  BY <1>1, <1>2, <1>3, ByAppending
<1> QED BY <1>4 DEF Good

-----------------------------------------------------------------------------
(***************************************************************************)
(* What trimming the end leaves of it.                                     *)
(***************************************************************************)

\* The last line with ink is the one that is trimmed, and those after it go.
Ends(lines, last) ==
  /\ \A j \in last + 1 .. Len(lines) : Trimmed(lines[j]) = "blank"
  /\ last = 0 => TrimEnd(lines) = <<"blank">>
  /\ last # 0 => /\ Trimmed(lines[last]) # "blank"
                 /\ TrimEnd(lines) = Append(SubSeq(lines, 1, last - 1), Trimmed(lines[last]))

\* Changing the element that was added last.
LEMMA LastReplaced ==
  ASSUME NEW S, NEW p \in Seq(S), NEW x \in S, NEW y \in S
  PROVE  [Append(p, x) EXCEPT ![Len(p) + 1] = y] = Append(p, y)
<1> DEFINE a == Append(p, x)
           b == Append(p, y)
           c == [a EXCEPT ![Len(p) + 1] = y]
<1>1. /\ a \in Seq(S) /\ Len(a) = Len(p) + 1 /\ \A i \in 1 .. Len(p) : a[i] = p[i]
      /\ b \in Seq(S) /\ Len(b) = Len(p) + 1 /\ b[Len(p) + 1] = y
      /\ \A i \in 1 .. Len(p) : b[i] = p[i]
  BY AppendProperties
<1>2. Len(p) \in Nat
  BY LenProperties
<1> HIDE DEF a, b
<1>3. a \in [1 .. Len(p) + 1 -> S] /\ b \in [1 .. Len(p) + 1 -> S]
  BY <1>1, LenProperties
<1>4. c \in [1 .. Len(p) + 1 -> S] /\ \A i \in 1 .. Len(p) + 1 : c[i] = b[i]
  BY <1>1, <1>2, <1>3
<1>5. c = b
  BY <1>3, <1>4
<1> QED BY <1>5 DEF a, b

\* There is such a line, or none has ink.
LEMMA TrimEndIs ==
  ASSUME NEW lines \in Seq(LineKinds)
  PROVE  \E last \in 0 .. Len(lines) : Ends(lines, last)
<1> DEFINE n == Len(lines)
           inked == {i \in DOMAIN lines : Trimmed(lines[i]) # "blank"}
           c == CHOOSE i \in inked : \A j \in inked : j <= i
<1>1. n \in Nat /\ DOMAIN lines = 1 .. n
  BY LenProperties
<1>2. TrimEnd(lines) = IF inked = {} THEN <<"blank">>
                       ELSE [SubSeq(lines, 1, c) EXCEPT ![c] = Trimmed(@)]
  BY DEF TrimEnd
<1>3. inked \in SUBSET (1 .. n)
  BY <1>1
<1>4. CASE inked = {}
  <2>1. \A j \in 0 + 1 .. Len(lines) : Trimmed(lines[j]) = "blank"
    BY <1>1, <1>4
  <2>2. 0 \in 0 .. Len(lines)
    BY <1>1
  <2>3. TrimEnd(lines) = <<"blank">>
    BY <1>2, <1>4
  <2> HIDE DEF inked, c
  <2>4. Ends(lines, 0)
    BY <2>1, <2>3 DEF Ends
  <2> QED BY <2>2, <2>4
<1>5. CASE inked # {}
  <2> HIDE DEF n
  <2>1. \E i \in inked : \A j \in inked : j <= i
    <3> HIDE DEF inked
    <3>1. Max(inked) \in inked /\ \A y \in inked : Max(inked) >= y
      BY <1>1, <1>3, <1>5, MaxIs
    <3>2. inked \in SUBSET Int
      BY <1>3
    <3>3. \A j \in inked : j <= Max(inked)
      BY <3>1, <3>2
    <3> QED BY <3>1, <3>3
  <2>2. c \in inked /\ \A j \in inked : j <= c
    BY <2>1
  <2> HIDE DEF c
  <2>3. c \in 1 .. n /\ Trimmed(lines[c]) # "blank"
    BY <1>1, <2>2
  <2>4. ASSUME NEW j \in c + 1 .. n PROVE Trimmed(lines[j]) = "blank"
    <3>1. j \in 1 .. n /\ ~(j <= c)
      BY <1>1, <2>3
    <3> QED BY <1>1, <2>2, <3>1
  <2> DEFINE p == SubSeq(lines, 1, c - 1)
             x == lines[c]
  <2>5. c - 1 \in 0 .. Len(lines) - 1 /\ (c - 1) + 1 = c /\ c \in 0 .. Len(lines) /\ c # 0
    BY <1>1, <2>3 DEF n
  <2>6. /\ p \in Seq(LineKinds) /\ Len(p) = c - 1 /\ x \in LineKinds
        /\ SubSeq(lines, 1, c) = Append(p, x)
    <3>1. /\ p \in Seq(LineKinds) /\ Len(p) = c - 1 /\ lines[(c - 1) + 1] \in LineKinds
          /\ SubSeq(lines, 1, (c - 1) + 1) = Append(p, lines[(c - 1) + 1])
      BY <2>5, PrefixGrows
    <3> QED BY <2>5, <3>1
  <2>7. Trimmed(x) \in LineKinds
    BY <2>6, TrimmedIs
  <2>8. TrimEnd(lines) = [SubSeq(lines, 1, c) EXCEPT ![c] = Trimmed(@)]
    BY <1>2, <1>5
  <2> HIDE DEF inked, p, x
  <2>9. Len(p) + 1 = c
    BY <2>5, <2>6
  <2>10. [Append(p, x) EXCEPT ![Len(p) + 1] = Trimmed(x)] = Append(p, Trimmed(x))
    BY <2>6, <2>7, LastReplaced
  <2>11. Append(p, x)[c] = x
    BY <2>6, <2>9, AppendProperties
  <2>12. TrimEnd(lines) = [Append(p, x) EXCEPT ![c] = Trimmed(@)]
    BY <2>6, <2>8
  <2>13. TrimEnd(lines) = Append(p, Trimmed(x))
    BY <2>9, <2>10, <2>11, <2>12
  <2>14. TrimEnd(lines) = Append(SubSeq(lines, 1, c - 1), Trimmed(lines[c]))
    BY <2>13 DEF p, x
  <2>15. Ends(lines, c)
    BY <2>3, <2>4, <2>5, <2>14 DEF Ends, n
  <2> QED BY <2>5, <2>15
<1> QED BY <1>4, <1>5

\* Blank lines at the end are neither words nor part of a closed block.
LEMMA BlankEnd ==
  ASSUME NEW lines \in Seq(LineKinds), NEW last \in 0 .. Len(lines),
         \A j \in last + 1 .. Len(lines) : Trimmed(lines[j]) = "blank"
  PROVE  /\ Words(lines) = Words(SubSeq(lines, 1, last))
         /\ Fences(lines).closed = Fences(SubSeq(lines, 1, last)).closed
<1> DEFINE n == Len(lines) - last
           upto(k) == SubSeq(lines, 1, last + k)
           Same1(k) == /\ Words(upto(k)) = Words(SubSeq(lines, 1, last))
                       /\ Fences(upto(k)).closed = Fences(SubSeq(lines, 1, last)).closed
           Good == {k \in 0 .. n : Same1(k)}
<1>1. n \in Nat /\ last \in Nat /\ Len(lines) \in Nat /\ last + n = Len(lines) /\ last + 0 = last
  BY LenProperties
<1>2. 0 \in Good
  <2>1. 0 \in 0 .. n
    BY <1>1
  <2> QED BY <1>1, <2>1
<1>3. ASSUME NEW k \in 0 .. n - 1, k \in Good PROVE k + 1 \in Good
  <2> DEFINE x == lines[last + k + 1]
             p == upto(k)
  <2>1. last + k \in 0 .. Len(lines) - 1 /\ last + (k + 1) = (last + k) + 1 /\ k + 1 \in 0 .. n
        /\ (last + k) + 1 \in last + 1 .. Len(lines)
    <3> HIDE DEF n
    <3>1. k \in 0 .. n - 1
      OBVIOUS
    <3>2. n \in Nat /\ last \in Nat /\ Len(lines) = last + n
      BY <1>1
    <3> QED BY ONLY <3>1, <3>2
  <2>2. p \in Seq(LineKinds) /\ x \in LineKinds /\ upto(k + 1) = Append(p, x)
    BY <2>1, PrefixGrows
  <2>3. Trimmed(x) = "blank" /\ x # "fence"
    <3>1. Trimmed(x) = "blank"
      BY <2>1
    <3> HIDE DEF x
    <3> QED BY <2>2, <3>1, TrimmedIs
  <2>4. Same1(k)
    BY <1>3
  <2> HIDE DEF x, p
  <2>5. Words(Append(p, x)) = Words(p)
    <3>1. Words(Append(p, x)) = AddWords(Words(p), x)
      BY <2>2, WordsAppend
    <3> QED BY <2>3, <3>1 DEF AddWords
  <2>6. Fences(Append(p, x)).closed = Fences(p).closed
    <3> DEFINE f == Fences(p)
    <3>1. Fences(Append(p, x)) = AddFenced(f, x) /\ f \in Blocks
      BY <2>2, FencesAppend
    <3> HIDE DEF f
    <3>2. AddFenced(f, x).closed = f.closed
      BY <2>2, <2>3, <3>1, AddFencedClosed
    <3> QED BY <3>1, <3>2 DEF f
  <2>7. Same1(k + 1)
    BY <2>2, <2>4, <2>5, <2>6 DEF p
  <2> QED BY <2>1, <2>7
<1>4. 0 .. n \subseteq Good
  <2>1. Good \in SUBSET (0 .. n)
    OBVIOUS
  <2> HIDE DEF Good, n
  <2> QED BY <1>1, <1>2, <1>3, <2>1, Counting
<1>5. n \in 0 .. n
  <2> HIDE DEF n
  <2> QED BY <1>1
<1>6. Same1(n)
  BY <1>4, <1>5
<1>7. upto(n) = lines
  BY <1>1, SubSeqFull
<1> QED BY <1>6, <1>7

\* Trimming the end keeps the words and the closed blocks.
LEMMA TrimKeeps ==
  ASSUME NEW t \in Seq(LineKinds)
  PROVE  Words(TrimEnd(t)) = Words(t) /\ Fences(TrimEnd(t)).closed = Fences(t).closed
<1>1. PICK last \in 0 .. Len(t) : Ends(t, last)
  BY TrimEndIs
<1>2. /\ Words(t) = Words(SubSeq(t, 1, last))
      /\ Fences(t).closed = Fences(SubSeq(t, 1, last)).closed
  BY <1>1, BlankEnd DEF Ends
<1>3. CASE last = 0
  <2>1. SubSeq(t, 1, last) = <<>> /\ TrimEnd(t) = <<"blank">> /\ <<"blank">> = Append(<<>>, "blank")
        /\ <<>> \in Seq(LineKinds) /\ "blank" \in LineKinds
    BY <1>1, <1>3, SubSeqEmpty DEF Ends, LineKinds
  <2>2. /\ Words(<<>>) = NoWords /\ Words(Append(<<>>, "blank")) = AddWords(NoWords, "blank")
        /\ Fences(<<>>) = NoBlocks /\ Fences(Append(<<>>, "blank")) = AddFenced(NoBlocks, "blank")
    BY <2>1, WordsAppend, FencesAppend
  <2>3. AddWords(NoWords, "blank") = NoWords
    BY DEF AddWords, Trimmed
  <2>4. AddFenced(NoBlocks, "blank") = NoBlocks
    BY DEF AddFenced, NoBlocks
  <2> QED BY <1>2, <2>1, <2>2, <2>3, <2>4
<1>4. CASE last # 0
  <2> DEFINE p == SubSeq(t, 1, last - 1)
             x == t[last]
             y == Trimmed(x)
             f == Fences(p)
  <2>1. last - 1 \in 0 .. Len(t) - 1 /\ (last - 1) + 1 = last
    BY <1>4, LenProperties
  <2>2. p \in Seq(LineKinds) /\ x \in LineKinds /\ SubSeq(t, 1, last) = Append(p, x)
    <3>1. p \in Seq(LineKinds) /\ t[(last - 1) + 1] \in LineKinds
          /\ SubSeq(t, 1, (last - 1) + 1) = Append(p, t[(last - 1) + 1])
      BY <2>1, PrefixGrows
    <3> QED BY <2>1, <3>1
  <2>3. y # "blank" /\ TrimEnd(t) = Append(p, y)
    BY <1>1, <1>4 DEF Ends
  <2> HIDE DEF p, x
  <2>4. y \in LineKinds /\ Trimmed(y) = y /\ (x = "fence" => y = x) /\ (x # "fence" => y # "fence")
    BY <2>2, TrimmedIs
  <2>5. /\ Words(Append(p, x)) = AddWords(Words(p), x) /\ Words(Append(p, y)) = AddWords(Words(p), y)
        /\ Fences(Append(p, x)) = AddFenced(f, x) /\ Fences(Append(p, y)) = AddFenced(f, y)
        /\ f \in Blocks
    BY <2>2, <2>4, WordsAppend, FencesAppend
  <2>6. AddWords(Words(p), x) = AddWords(Words(p), y)
    BY <2>4 DEF AddWords
  <2> HIDE DEF y, f
  <2>7. AddFenced(f, x).closed = AddFenced(f, y).closed
    <3>1. CASE x = "fence"
      BY <2>4, <3>1
    <3>2. CASE x # "fence"
      <4>1. AddFenced(f, x).closed = f.closed
        BY <2>2, <2>5, <3>2, AddFencedClosed
      <4>2. AddFenced(f, y).closed = f.closed
        BY <2>4, <2>5, <3>2, AddFencedClosed
      <4> QED BY <4>1, <4>2
    <3> QED BY <3>1, <3>2
  <2> QED BY <1>2, <2>2, <2>3, <2>5, <2>6, <2>7
<1> QED BY <1>3, <1>4

\* normalize_whitespace is the pass and the trimming.
LEMMA NormalizedIs ==
  ASSUME NEW t \in Seq(LineKinds)
  PROVE  NormalizeWhitespace(t) = TrimEnd(Passed(t).out) /\ Passed(t).out \in Seq(LineKinds)
<1>1. NormalizeWhitespace(t) = TrimEnd(Passed(t).out)
  BY DEF NormalizeWhitespace, Passed, AtFirst
<1>2. Passed(t) \in Passes
  BY PassAppend
<1> QED BY <1>1, <1>2 DEF Passes

\* It keeps the words of a text and its closed blocks.
LEMMA NormalizedKeeps ==
  ASSUME NEW t \in Seq(LineKinds)
  PROVE  /\ Words(NormalizeWhitespace(t)) = Words(t)
         /\ FencedLines(NormalizeWhitespace(t)) = FencedLines(t)
<1> DEFINE o == Passed(t).out
<1>1. NormalizeWhitespace(t) = TrimEnd(o) /\ o \in Seq(LineKinds)
  BY NormalizedIs
<1>2. Words(o) = Words(t) /\ Fences(o) = Fences(t)
  BY PassKeepsAll DEF PassKeeps
<1> HIDE DEF o
<1>3. Words(TrimEnd(o)) = Words(o) /\ Fences(TrimEnd(o)).closed = Fences(o).closed
  BY <1>1, TrimKeeps
<1> QED BY <1>1, <1>2, <1>3 DEF FencedLines

\* A text the pass leaves as it is, it leaves so far as it has come.
LEMMA PassedBefore ==
  ASSUME NEW s \in Seq(LineKinds), NEW x \in LineKinds, Passed(Append(s, x)).out = Append(s, x)
  PROVE  Passed(s).out = s
<1> DEFINE r == Passed(s)
           o == r.out
<1>1. r \in Passes /\ Passed(Append(s, x)) = NormalizeLine(r, x)
  BY PassAppend
<1>2. o \in Seq(LineKinds)
  BY <1>1 DEF Passes
<1>3. Len(o) <= Len(s)
  BY PassKeepsAll DEF PassKeeps
<1>4. Trimmed(x) \in LineKinds /\ "blank" \in LineKinds
  BY TrimmedIs DEF LineKinds
<1>5. NormalizeLine(r, x).out = o \/ \E y \in LineKinds : NormalizeLine(r, x).out = Append(o, y)
  <2> HIDE DEF r
  <2>1. NormalizeLine(r, x).out \in {o, Append(o, x), Append(o, Trimmed(x)), Append(o, "blank")}
    <3>1. CASE x = "fence"
      BY <1>1, <3>1, PassFlips
    <3>2. CASE x # "fence"
      BY <1>1, <3>2, NormalizeLineIs
    <3> QED BY <3>1, <3>2
  <2> QED BY <1>4, <2>1
<1>6. NormalizeLine(r, x).out = Append(s, x)
  BY <1>1
<1> HIDE DEF r, o
<1>7. Append(s, x) # o
  <2>1. Len(Append(s, x)) = Len(s) + 1 /\ Len(s) \in Nat /\ Len(o) \in Nat
    BY <1>2, AppendProperties, LenProperties
  <2> QED BY <1>3, <2>1
<1>8. PICK y \in LineKinds : Append(s, x) = Append(o, y)
  BY <1>5, <1>6, <1>7
<1>9. s = o
  BY <1>2, <1>8, AppendInjective
<1> QED BY <1>9 DEF o, r

\* So it leaves any beginning of it.
LEMMA PassedBeginning ==
  ASSUME NEW s \in Seq(LineKinds), Passed(s).out = s, NEW m \in 0 .. Len(s)
  PROVE  Passed(SubSeq(s, 1, m)).out = SubSeq(s, 1, m)
<1> DEFINE n == Len(s)
           Stays(k) == Passed(SubSeq(s, 1, k)).out = SubSeq(s, 1, k)
           Good == {j \in 0 .. n : Stays(n - j)}
<1>1. n \in Nat /\ SubSeq(s, 1, n) = s /\ n - 0 = n
  BY LenProperties, SubSeqFull
<1>2. 0 \in Good
  <2>1. 0 \in 0 .. n
    BY <1>1
  <2> QED BY <1>1, <2>1
<1>3. ASSUME NEW j \in 0 .. n - 1, j \in Good PROVE j + 1 \in Good
  <2> DEFINE k == n - (j + 1)
  <2>1. k \in 0 .. Len(s) - 1 /\ k + 1 = n - j /\ j + 1 \in 0 .. n
    BY <1>1
  <2>2. /\ SubSeq(s, 1, k) \in Seq(LineKinds) /\ s[k + 1] \in LineKinds
        /\ SubSeq(s, 1, k + 1) = Append(SubSeq(s, 1, k), s[k + 1])
    BY <2>1, PrefixGrows
  <2>3. Stays(k + 1)
    BY <1>3, <2>1
  <2>4. Stays(k)
    BY <2>2, <2>3, PassedBefore
  <2> QED BY <2>1, <2>4
<1>4. 0 .. n \subseteq Good
  <2>1. Good \in SUBSET (0 .. n)
    OBVIOUS
  <2> HIDE DEF Good
  <2> QED BY <1>1, <1>2, <1>3, <2>1, Counting
<1>5. n - m \in 0 .. n /\ n - (n - m) = m
  BY <1>1
<1> QED BY <1>4, <1>5

\* A text with ink in its last line, its blanks trimmed, is not trimmed again.
LEMMA TrimmedOnce ==
  ASSUME NEW p \in Seq(LineKinds), NEW y \in LineKinds, y # "blank", Trimmed(y) = y
  PROVE  TrimEnd(Append(p, y)) = Append(p, y)
<1> DEFINE o == Append(p, y)
           n == Len(p) + 1
<1>1. o \in Seq(LineKinds) /\ Len(o) = n /\ o[n] = y /\ Len(p) \in Nat
  BY AppendProperties, LenProperties
<1>2. PICK e \in 0 .. Len(o) : Ends(o, e)
  BY <1>1, TrimEndIs
<1> HIDE DEF o
<1>3. e = n
  <2>1. \A j \in e + 1 .. Len(o) : Trimmed(o[j]) = "blank"
    BY <1>2 DEF Ends
  <2>2. ~(n \in e + 1 .. Len(o))
    BY <1>1, <2>1
  <2>3. e \in 0 .. n /\ ~(n \in e + 1 .. n) /\ n \in Nat
    BY <1>1, <2>2
  <2> HIDE DEF n
  <2> QED BY ONLY <2>3
<1>4. TrimEnd(o) = Append(SubSeq(o, 1, n - 1), Trimmed(o[n]))
  BY <1>1, <1>2, <1>3 DEF Ends
<1>5. n - 1 \in 0 .. Len(o) - 1 /\ (n - 1) + 1 = n
  BY <1>1
<1>6. SubSeq(o, 1, n) = Append(SubSeq(o, 1, n - 1), o[n])
  <2>1. SubSeq(o, 1, (n - 1) + 1) = Append(SubSeq(o, 1, n - 1), o[(n - 1) + 1])
    BY <1>1, <1>5, PrefixGrows
  <2> QED BY <1>5, <2>1
<1>7. SubSeq(o, 1, n) = o
  BY <1>1, SubSeqFull
<1> QED BY <1>1, <1>4, <1>6, <1>7 DEF o

\* A text that was compressed is not changed again.
LEMMA NormalizedOnce ==
  ASSUME NEW t \in Seq(LineKinds)
  PROVE  /\ NormalizeWhitespace(t) \in Seq(LineKinds)
         /\ NormalizeWhitespace(NormalizeWhitespace(t)) = NormalizeWhitespace(t)
<1> DEFINE w == Passed(t).out
<1>1. NormalizeWhitespace(t) = TrimEnd(w) /\ w \in Seq(LineKinds) /\ Passed(w).out = w
  BY NormalizedIs, PassKeepsAll DEF PassKeeps
<1> HIDE DEF w
<1>2. PICK last \in 0 .. Len(w) : Ends(w, last)
  BY <1>1, TrimEndIs
<1>3. CASE last = 0
  <2>1. TrimEnd(w) = <<"blank">> /\ <<"blank">> = Append(<<>>, "blank")
        /\ <<>> \in Seq(LineKinds) /\ "blank" \in LineKinds /\ <<"blank">> \in Seq(LineKinds)
    BY <1>2, <1>3 DEF Ends, LineKinds
  <2>2. Passed(<<"blank">>) = NormalizeLine(AtFirst, "blank")
    BY <2>1, PassAppend
  <2>3. NormalizeLine(AtFirst, "blank").out = <<>>
    BY DEF NormalizeLine, AtFirst, Trimmed
  <2>4. NormalizeWhitespace(<<"blank">>) = TrimEnd(<<>>)
    BY <2>1, <2>2, <2>3, NormalizedIs
  <2>5. TrimEnd(<<>>) = <<"blank">>
    BY DEF TrimEnd
  <2> QED BY <1>1, <2>1, <2>4, <2>5
<1>4. CASE last # 0
  <2> DEFINE p == SubSeq(w, 1, last - 1)
             x == w[last]
             y == Trimmed(x)
             r == Passed(p)
  <2>1. last - 1 \in 0 .. Len(w) - 1 /\ last - 1 \in 0 .. Len(w) /\ (last - 1) + 1 = last
    BY <1>1, <1>4, LenProperties
  <2>2. p \in Seq(LineKinds) /\ x \in LineKinds
    <3>1. p \in Seq(LineKinds) /\ w[(last - 1) + 1] \in LineKinds
      BY <1>1, <2>1, PrefixGrows
    <3> QED BY <2>1, <3>1
  <2>3. y # "blank" /\ TrimEnd(w) = Append(p, y)
    BY <1>2, <1>4 DEF Ends
  <2>4. r.out = p
    BY <1>1, <2>1, PassedBeginning
  <2> HIDE DEF p, x
  <2>5. y \in LineKinds /\ Trimmed(y) = y
    BY <2>2, TrimmedIs
  <2>6. r \in Passes /\ Passed(Append(p, y)) = NormalizeLine(r, y)
    BY <2>2, <2>5, PassAppend
  <2> HIDE DEF y, r
  <2>7. NormalizeLine(r, y).out = Append(p, y)
    <3>1. CASE y = "fence"
      BY <2>4, <2>6, <3>1, PassFlips
    <3>2. CASE y # "fence"
      BY <2>3, <2>4, <2>5, <2>6, <3>2, NormalizeLineIs
    <3> QED BY <3>1, <3>2
  <2>8. Append(p, y) \in Seq(LineKinds)
    BY <2>2, <2>5
  <2>9. NormalizeWhitespace(Append(p, y)) = TrimEnd(Append(p, y))
    BY <2>6, <2>7, <2>8, NormalizedIs
  <2>10. TrimEnd(Append(p, y)) = Append(p, y)
    BY <2>2, <2>3, <2>5, TrimmedOnce
  <2> QED BY <1>1, <2>3, <2>8, <2>9, <2>10
<1> QED BY <1>3, <1>4

-----------------------------------------------------------------------------
(***************************************************************************)
(* What compression leaves of a conversation.                              *)
(***************************************************************************)

\* Squeezing a message leaves its words and its closed blocks, and leaves
\* nothing to squeeze.
Clean(m) == m.content = "text" => NormalizeWhitespace(m.text) = m.text

LEMMA SqueezedKeeps ==
  ASSUME NEW ms \in Seq(Messages), NEW i \in DOMAIN ms
  PROVE  /\ Became(ms[i], Squeezed(ms)[i]) /\ Clean(Squeezed(ms)[i])
         /\ FencedLines(Squeezed(ms)[i].text) = FencedLines(ms[i].text)
         /\ Squeezed(ms)[i] \in Messages
<1>1. PICK m \in Messages : m = ms[i]
  OBVIOUS
<1>2. Squeezed(ms)[i] = IF m.content = "text"
                        THEN [m EXCEPT !.text = NormalizeWhitespace(@)] ELSE m
  BY <1>1 DEF Squeezed
<1>3. CASE m.content = "text"
  <2> DEFINE t == m.text
             u == NormalizeWhitespace(t)
             n == [m EXCEPT !.text = u]
  <2>1. t \in Seq(LineKinds)
    BY DEF Messages
  <2>2. n.text = u /\ n.role = m.role /\ n.content = m.content /\ n.calls = m.calls
        /\ n.answers = m.answers /\ Squeezed(ms)[i] = n
    BY <1>2, <1>3 DEF Messages
  <2> HIDE DEF u, t
  <2>3. Words(u) = Words(t) /\ FencedLines(u) = FencedLines(t)
    BY <2>1, NormalizedKeeps DEF u
  <2>4. u \in Seq(LineKinds) /\ NormalizeWhitespace(u) = u
    BY <2>1, NormalizedOnce DEF u
  <2>5. n \in Messages
    BY <2>4 DEF Messages
  <2> HIDE DEF n
  <2>6. Became(m, n) /\ Clean(n) /\ FencedLines(n.text) = FencedLines(m.text)
    BY <1>3, <2>2, <2>3, <2>4 DEF Became, Same, Clean, t
  <2> QED BY <1>1, <2>2, <2>5, <2>6
<1>4. CASE m.content # "text"
  BY <1>1, <1>2, <1>4 DEF Became, Same, Clean
<1> QED BY <1>3, <1>4

\* What is dropped is a repetition of something that stays.
LEMMA DroppedIsRepeated ==
  ASSUME NEW ms, NEW i \in Nat, Dropped(ms, i)
  PROVE  \E j \in 1 .. i - 1 :
           ~Dropped(ms, j) /\ ms[j].role = ms[i].role /\ ms[j].text = ms[i].text
<1> DEFINE T == {j \in 1 .. i - 1 : /\ ~HasImage(ms[j]) /\ ms[j].role = ms[i].role
                                    /\ ms[j].text = ms[i].text}
<1>1. T # {} /\ T \in SUBSET Nat
  BY DEF Dropped, AlreadySeen
<1> HIDE DEF T
<1>2. PICK j \in T : \A k \in T : j <= k
  BY <1>1, LeastOf
<1>3. j \in 1 .. i - 1 /\ ms[j].role = ms[i].role /\ ms[j].text = ms[i].text
  BY <1>2 DEF T
<1>4. ~AlreadySeen(ms, j)
  <2> SUFFICES ASSUME NEW k \in 1 .. j - 1, ~HasImage(ms[k]), ms[k].role = ms[j].role,
                      ms[k].text = ms[j].text
               PROVE  FALSE
    BY DEF AlreadySeen
  <2>1. k \in 1 .. i - 1 /\ ~(j <= k)
    BY <1>3
  <2>2. k \in T
    BY <1>3, <2>1 DEF T
  <2> QED BY <1>2, <2>1, <2>2
<1> QED BY <1>3, <1>4 DEF Dropped

\* NothingLost, of any two conversations: those at `kept` stay.
Keeps(ms, ns, kept) ==
  LET order == InOrder(kept)
      gone  == DOMAIN ms \ kept
  IN /\ Len(ns) = Len(order)
     /\ \A k \in DOMAIN order : Became(ms[order[k]], ns[k])
     /\ \A i \in gone :
          /\ ~HasImage(ms[i]) /\ i # Len(ms)
          /\ \E j \in kept : j < i /\ Same(ms[j], ms[i])

\* The messages as they are before repetitions are dropped.
SqueezedOrNot(ms, opts) == IF opts.whitespace THEN Squeezed(ms) ELSE ms

LEMMA SqueezedOrNotIs ==
  ASSUME NEW ms \in Seq(Messages), NEW opts
  PROVE  LET w == SqueezedOrNot(ms, opts) IN
         /\ Len(ms) \in Nat /\ DOMAIN ms = 1 .. Len(ms)
         /\ w \in Seq(Messages) /\ Len(w) = Len(ms)
         /\ \A i \in 1 .. Len(ms) :
              /\ Became(ms[i], w[i]) /\ FencedLines(w[i].text) = FencedLines(ms[i].text)
              /\ opts.whitespace => Clean(w[i])
<1> DEFINE w == SqueezedOrNot(ms, opts)
<1>1. Len(ms) \in Nat /\ DOMAIN ms = 1 .. Len(ms)
  BY LenProperties
<1>2. CASE opts.whitespace
  <2>1. w = Squeezed(ms)
    BY <1>2 DEF SqueezedOrNot
  <2>2. \A i \in 1 .. Len(ms) :
          /\ Became(ms[i], w[i]) /\ FencedLines(w[i].text) = FencedLines(ms[i].text)
          /\ Clean(w[i]) /\ w[i] \in Messages
    BY <1>1, <2>1, SqueezedKeeps
  <2>3. w = [i \in 1 .. Len(ms) |-> w[i]]
    BY <1>1, <2>1 DEF Squeezed
  <2> HIDE DEF w
  <2>4. w \in Seq(Messages) /\ Len(w) = Len(ms)
    BY <1>1, <2>2, <2>3
  <2> QED BY <1>1, <2>2, <2>4 DEF w
<1>3. CASE ~opts.whitespace
  <2>1. w = ms
    BY <1>3 DEF SqueezedOrNot
  <2> QED BY <1>1, <1>3, <2>1 DEF Became, Same
<1> QED BY <1>2, <1>3

\* Without the dropping, all are kept.
LEMMA AllKept ==
  ASSUME NEW ms, NEW w, NEW n \in Nat, DOMAIN ms = 1 .. n, Len(w) = n,
         \A i \in 1 .. n : Became(ms[i], w[i])
  PROVE  Keeps(ms, w, 1 .. n)
<1>1. /\ Cardinality(1 .. n) = n /\ DOMAIN InOrder(1 .. n) = 1 .. n
      /\ \A k \in 1 .. n : InOrder(1 .. n)[k] = k
  BY AllInOrder DEF InOrder
<1>2. Len(InOrder(1 .. n)) = n
  BY <1>1 DEF InOrder
<1> QED BY <1>1, <1>2 DEF Keeps

\* The order of a set, as a sequence.
LEMMA OrderIs ==
  ASSUME NEW S
  PROVE  InOrder(S) = [k \in 1 .. Cardinality(S) |-> InOrder(S)[k]]
<1> DEFINE At(k) == CHOOSE i \in S : Cardinality({j \in S : j <= i}) = k
<1>1. InOrder(S) = [k \in 1 .. Cardinality(S) |-> At(k)]
  BY DEF InOrder
<1> HIDE DEF At
<1> QED BY <1>1

\* What is dropped for `ns` leaves some of the messages w.
Leaves(ns, w, n) ==
  /\ Len(ns) \in Nat /\ ns = [k \in 1 .. Len(ns) |-> ns[k]]
  /\ \A k \in 1 .. Len(ns) : \E i \in 1 .. n : ns[k] = w[i]

\* With it, those that are no repetition.
LEMMA RestKept ==
  ASSUME NEW ms, NEW w, NEW n \in Nat, DOMAIN ms = 1 .. n, DOMAIN w = 1 .. n, Len(ms) = n,
         Len(w) = n, \A i \in 1 .. n : Became(ms[i], w[i])
  PROVE  /\ Keeps(ms, DedupExact(w), {i \in 1 .. n : ~Dropped(w, i)})
         /\ Leaves(DedupExact(w), w, n)
<1> DEFINE D == {i \in 1 .. n : ~Dropped(w, i)}
           r == DedupExact(w)
<1>1. D \in SUBSET Nat /\ IsFiniteSet(D)
  <2> DEFINE T == 1 .. n
  <2>1. IsFiniteSet(T) /\ D \in SUBSET T
    BY FS_Interval
  <2> HIDE DEF T, D
  <2>2. IsFiniteSet(D)
    BY <2>1, FS_Subset
  <2> QED BY <2>1, <2>2 DEF T
<1>2. r = [k \in DOMAIN InOrder(D) |-> w[InOrder(D)[k]]]
  BY DEF DedupExact, Survivors
<1>3. \A i \in D : i \in 1 .. n
  OBVIOUS
<1> DEFINE c == Cardinality(D)
           order == InOrder(D)
<1>4. /\ c \in Nat /\ DOMAIN order = 1 .. c
      /\ \A k \in 1 .. c : order[k] \in D
  BY <1>1, InOrderIs
<1>5. order = [k \in 1 .. c |-> order[k]]
  BY OrderIs
<1>6. ASSUME NEW i \in 1 .. n, i \notin D
      PROVE  /\ ~HasImage(ms[i]) /\ i # n
             /\ \E j \in D : j < i /\ Same(ms[j], ms[i])
  <2>1. Dropped(w, i)
    BY <1>6
  <2>2. PICK j \in 1 .. i - 1 :
          ~Dropped(w, j) /\ w[j].role = w[i].role /\ w[j].text = w[i].text
    BY <2>1, DroppedIsRepeated
  <2>3. j \in 1 .. n /\ j < i
    BY <2>2
  <2>4. Became(ms[i], w[i]) /\ Became(ms[j], w[j])
    BY <2>3
  <2>5. Same(ms[j], ms[i])
    BY <2>2, <2>4 DEF Became, Same
  <2>6. ~HasImage(ms[i]) /\ i # n
    BY <2>1, <2>4 DEF Dropped, HasImage, Became
  <2> QED BY <2>2, <2>3, <2>5, <2>6
<1> HIDE DEF D, r, c, order
<1>7. Len(order) = c /\ DOMAIN r = 1 .. c /\ Len(r) = c /\ r = [k \in 1 .. c |-> r[k]]
      /\ \A k \in 1 .. c : r[k] = w[order[k]]
  BY <1>2, <1>4, <1>5 DEF order
<1>8. \A k \in 1 .. c : Became(ms[order[k]], r[k])
  BY <1>3, <1>4, <1>7
<1>9. Keeps(ms, r, D)
  BY <1>4, <1>6, <1>7, <1>8 DEF Keeps, order
<1>10. \A k \in 1 .. c : \E i \in 1 .. n : r[k] = w[i]
  BY <1>3, <1>4, <1>7
<1>11. Leaves(r, w, n)
  BY <1>4, <1>7, <1>10 DEF Leaves
<1> QED BY <1>9, <1>11 DEF D, r

\* Each message is one of those received, but for its blanks.
Received(ms, ns, squeezed) ==
  /\ Len(ns) \in Nat /\ DOMAIN ns = 1 .. Len(ns) /\ ns = [k \in 1 .. Len(ns) |-> ns[k]]
  /\ \A k \in 1 .. Len(ns) :
       /\ squeezed => Clean(ns[k]) /\ ns[k] \in Messages
       /\ \E m \in ToSet(ms) :
            Same(m, ns[k]) /\ FencedLines(m.text) = FencedLines(ns[k].text)

\* What compress sends in place of a conversation.
LEMMA WorkingKeeps ==
  ASSUME NEW ms \in Seq(Messages), NEW opts
  PROVE  /\ \E kept \in SUBSET DOMAIN ms : Keeps(ms, Working(ms, opts), kept)
         /\ Received(ms, Working(ms, opts), opts.whitespace)
<1> DEFINE n == Len(ms)
           w == SqueezedOrNot(ms, opts)
           ns == Working(ms, opts)
<1>1. /\ n \in Nat /\ DOMAIN ms = 1 .. n /\ w \in Seq(Messages) /\ Len(w) = n
      /\ \A i \in 1 .. n :
           /\ Became(ms[i], w[i]) /\ FencedLines(w[i].text) = FencedLines(ms[i].text)
           /\ opts.whitespace => Clean(w[i])
  BY SqueezedOrNotIs
<1>2. ns = IF opts.dedup THEN DedupExact(w) ELSE w
  BY DEF Working, SqueezedOrNot
<1> HIDE DEF w, n
<1>3. DOMAIN w = 1 .. n /\ Len(ms) = n /\ w = [k \in 1 .. n |-> w[k]]
      /\ \A i \in 1 .. n : w[i] \in Messages
  BY <1>1 DEF n
<1>4. ASSUME NEW i \in 1 .. n
      PROVE  /\ opts.whitespace => Clean(w[i]) /\ w[i] \in Messages
             /\ \E m \in ToSet(ms) :
                  Same(m, w[i]) /\ FencedLines(m.text) = FencedLines(w[i].text)
  <2>1. ms[i] \in ToSet(ms)
    BY <1>1 DEF ToSet
  <2> QED BY <1>1, <1>3, <2>1 DEF Became
<1>5. CASE opts.dedup
  <2>1. ns = DedupExact(w)
    BY <1>2, <1>5
  <2> HIDE DEF ns
  <2>2. /\ Keeps(ms, ns, {i \in 1 .. n : ~Dropped(w, i)})
        /\ Leaves(ns, w, n)
    BY <1>1, <1>3, <2>1, RestKept
  <2>3. \E kept \in SUBSET DOMAIN ms : Keeps(ms, ns, kept)
    BY <1>1, <2>2
  <2>4. DOMAIN ns = 1 .. Len(ns)
    BY <2>2 DEF Leaves
  <2>5. Received(ms, ns, opts.whitespace)
    BY <1>4, <2>2, <2>4 DEF Leaves, Received
  <2> QED BY <2>3, <2>5 DEF ns
<1>6. CASE ~opts.dedup
  <2>1. ns = w
    BY <1>2, <1>6
  <2>2. Keeps(ms, w, 1 .. n)
    BY <1>1, AllKept
  <2>3. \E kept \in SUBSET DOMAIN ms : Keeps(ms, w, kept)
    BY <1>1, <2>2
  <2>4. Received(ms, w, opts.whitespace)
    BY <1>1, <1>3, <1>4 DEF Received
  <2> QED BY <2>1, <2>3, <2>4
<1> QED BY <1>5, <1>6

\* The messages of a request are those received, or what compress makes of them.
MessagesInv ==
  messages # req.messages =>
    req \in ChatRequests /\ messages = Compress(req.messages, req.opts)

\* Then nothing of them is lost and no code is touched.
LEMMA CompressionNow == MessagesInv => CompressionKeeps
<1> SUFFICES ASSUME MessagesInv PROVE CompressionKeeps
  OBVIOUS
<1>1. CASE messages = req.messages
  BY <1>1 DEF CompressionKeeps, NothingLost, FencesUntouched
<1>2. CASE messages # req.messages
  <2> DEFINE ms == req.messages
             opts == req.opts
  <2>1. ms \in Seq(Messages) /\ messages = Compress(ms, opts)
    BY <1>2 DEF MessagesInv, ChatRequests
  <2>2. messages = Working(ms, opts) /\ ~HasAgentTurn(ms)
    BY <1>2, <2>1 DEF Compress
  <2> HIDE DEF ms, opts
  <2>3. (\E kept \in SUBSET DOMAIN ms : Keeps(ms, messages, kept))
        /\ Received(ms, messages, opts.whitespace)
    BY <2>1, <2>2, WorkingKeeps
  <2>4. \A k \in 1 .. Len(messages) :
          /\ opts.whitespace => Clean(messages[k]) /\ messages[k] \in Messages
          /\ \E m \in ToSet(ms) :
               Same(m, messages[k]) /\ FencedLines(m.text) = FencedLines(messages[k].text)
    BY <2>3 DEF Received
  <2>5. NothingLost
    BY <2>2, <2>3 DEF NothingLost, Keeps, ms
  <2>6. ASSUME NEW n \in ToSet(messages)
        PROVE  \E m \in ToSet(ms) : Same(m, n) /\ FencedLines(m.text) = FencedLines(n.text)
    BY <2>3, <2>4 DEF ToSet, Received
  <2>7. ASSUME opts.whitespace PROVE Squeezed(messages) = messages
    <3>1. ASSUME NEW k \in 1 .. Len(messages)
          PROVE  (IF messages[k].content = "text"
                  THEN [messages[k] EXCEPT !.text = NormalizeWhitespace(@)]
                  ELSE messages[k]) = messages[k]
      <4>1. messages[k] \in Messages /\ Clean(messages[k])
        BY <2>4, <2>7
      <4>2. PICK m \in Messages : m = messages[k]
        BY <4>1
      <4>3. m.content = "text" => NormalizeWhitespace(m.text) = m.text
        BY <4>1, <4>2 DEF Clean
      <4>4. [m EXCEPT !.text = m.text] = m
        BY DEF Messages
      <4> QED BY <4>2, <4>3, <4>4
    <3> QED BY <2>3, <3>1 DEF Squeezed, Received
  <2>8. FencesUntouched
    BY <2>6, <2>7 DEF FencesUntouched, ms, opts
  <2> QED BY <2>5, <2>8 DEF CompressionKeeps
<1> QED BY <1>1, <1>2

\* Only the compression step makes them differ.
LEMMA MessagesStep ==
  ASSUME PathInv, MessagesInv, Next \/ UNCHANGED vars
  PROVE  MessagesInv'
<1>1. CASE CompressAndReprice
  <2>1. req \in ChatRequests /\ UNCHANGED req /\ messages' = Compress(req.messages, req.opts)
    BY <1>1 DEF CompressAndReprice, PathInv
  <2> QED BY <2>1 DEF MessagesInv
<1>2. CASE Receive
  <2>1. messages' = req'.messages
    BY <1>2 DEF Receive
  <2> QED BY <2>1 DEF MessagesInv
<1>3. CASE Finish
  <2>1. messages' = req'.messages
    BY <1>3 DEF Finish, NoRequest
  <2> QED BY <2>1 DEF MessagesInv
<1>4. CASE (Next \/ UNCHANGED vars) /\ ~CompressAndReprice /\ ~Receive /\ ~Finish
  <2>1. UNCHANGED <<req, messages>>
    BY <1>4 DEF vars, handling, Next, MergeCatalog, CatalogUnavailable, RouteUnknownTask,
                RouteFlexible, RouteConcrete, Routed, Refuse, Price, Reserve, OverCap,
                ResolveByok, ValidateTools
  <2> QED BY <2>1 DEF MessagesInv
<1> QED BY <1>1, <1>2, <1>3, <1>4

\* Of every conversation, however long its texts and however its fences open and
\* close, compression takes blanks and repetitions only: no message is lost that
\* an earlier one does not repeat, no closed block changes, and what was
\* compressed once is not compressed further (compress, normalize_whitespace,
\* dedup_exact).
THEOREM CompressionAlwaysKeeps == OneSpec => []CompressionKeeps
<1>1. OneInit => MessagesInv
  <2>1. NoRequest.messages = <<>>
    BY DEF NoRequest
  <2>2. OneInit => messages = <<>> /\ req = NoRequest
    BY DEF OneInit, Init, Idle
  <2> QED BY <2>1, <2>2 DEF MessagesInv
<1>2. PathInv /\ MessagesInv /\ [OneNext]_<<view, vars, key_vars, price_vars>> => MessagesInv'
  <2> SUFFICES ASSUME PathInv, MessagesInv, [OneNext]_<<view, vars, key_vars, price_vars>>
               PROVE  MessagesInv'
    OBVIOUS
  <2>1. Next \/ UNCHANGED vars
    BY DEF OneNext
  <2> QED BY <2>1, MessagesStep
<1> QED BY <1>1, <1>2, CompressionNow, PathInvHolds, PTL DEF OneSpec
=============================================================================
