------------------------------- MODULE Access -------------------------------
(***************************************************************************)
(* Who a request is from and whose keys it may use: the two layers of      *)
(* auth.rs in front of every endpoint, cursor_bridge_middleware and        *)
(* api_key_middleware; the provider keys the handlers then read from the   *)
(* headers, and resolve_byok_route of main.rs, which picks the one for the *)
(* call; and the layer in front of /admin (admin.rs).                      *)
(*                                                                         *)
(* A header's value is the sequence of its parts between colons, <<>> if   *)
(* blank.                                                                  *)
(* Which keys are valid when is ClientRegistry's.                          *)
(***************************************************************************)
EXTENDS ProviderHeaders, Naturals, Sequences

CONSTANTS
  Valid,        \* RouterFuel keys the store accepts
  Requests,     \* what clients send: headers and the Bearer token
  AdminKeys, AdminHeaders,      \* ROUTERFUEL_ADMIN_KEY, and what is supplied
  Unreadable,   \* a value that is not text
  None

\* What the constants stand for (assumed where they are given values).
ValuesDistinct ==
  /\ Unreadable \notin Valid /\ None \notin Valid /\ <<>> \notin Valid
  /\ None \notin Providers

VARIABLES at, sent, headers, client, call, admin_key, admin
vars == <<at, sent, headers, client, call, admin_key, admin>>

-----------------------------------------------------------------------------
\* The bridge's table, names in lower case.
BridgeHeader(name) ==
  CASE name \in {"xai", "grok"}           -> Key("xai")
    [] name \in {"qwen", "dashscope"}     -> Key("qwen")
    [] name \in {"moonshot", "kimi"}      -> Key("moonshot")
    [] name \in {"zhipu", "glm"}          -> Key("zhipu")
    [] name \in {"meta", "llama"}         -> Key("meta")
    [] name \in {"azure", "azure_openai"} -> Connection("azure-openai")
    [] name \in {"bedrock", "aws"}        -> Connection("bedrock")
    [] name \in {"openai", "anthropic", "deepseek", "gemini", "mistral",
                 "openrouter"}            -> Key(name)
    [] OTHER                              -> None

-----------------------------------------------------------------------------
(* The layers.                                                             *)

NoHeaders == [h \in {} |-> <<>>]
NoRequest == [headers |-> NoHeaders, bearer |-> None]

Init ==
  /\ at = "idle" /\ sent = NoRequest /\ headers = NoHeaders
  /\ client = None /\ call = None
  /\ admin_key \in AdminKeys /\ admin = None

Receive ==
  /\ at = "idle"
  /\ \E r \in Requests : sent' = r /\ headers' = r.headers
  /\ at' = "sent"
  /\ UNCHANGED <<client, call, admin_key, admin>>

Inserted(h, name, value) ==
  [n \in DOMAIN h \cup {name} |-> IF n = name THEN value ELSE h[n]]

\* MUTANT of Rest: split at every colon.
Rest_Third(token) == <<token[3]>>

\* splitn(3, ':'): the third part keeps its colons.
Rest(token) == SubSeq(token, 3, Len(token))

Composite(token) == Len(token) >= 3 /\ BridgeHeader(token[2]) # None

PassBridge ==
  /\ at = "sent"
  /\ ApiKey \in DOMAIN headers \/ sent.bearer = None
  /\ at' = "bridged"
  /\ UNCHANGED <<sent, headers, client, call, admin_key, admin>>

\* (A part of a text is text: the two parse calls cannot fail.)
Bridge ==
  /\ at = "sent"
  /\ ApiKey \notin DOMAIN headers /\ sent.bearer # None
  /\ IF Composite(sent.bearer)
       THEN /\ headers' = Inserted(Inserted(headers, ApiKey, <<sent.bearer[1]>>),
                                   BridgeHeader(sent.bearer[2]), Rest(sent.bearer))
            /\ at' = "bridged"
       ELSE at' = "refused" /\ UNCHANGED headers
  /\ UNCHANGED <<sent, client, call, admin_key, admin>>

\* validate_identity; the client's id is the key's hash, here the key.
Accepted(h) == ApiKey \in DOMAIN h /\ h[ApiKey] \in Valid

\* MUTANT of Admitted: an id that is there already stays.
Admitted_KeepsId(h) ==
  IF ClientId \in DOMAIN h THEN h ELSE Inserted(h, ClientId, h[ApiKey])

Admitted(h) == Inserted(h, ClientId, h[ApiKey])

Authenticate ==
  /\ at = "bridged"
  /\ IF Accepted(headers)
       THEN /\ headers' = Admitted(headers)
            /\ at' = "handler"
       ELSE at' = "refused" /\ UNCHANGED headers
  /\ client' = IF Accepted(headers) THEN headers'[ClientId] ELSE None
  /\ UNCHANGED <<sent, call, admin_key, admin>>

-----------------------------------------------------------------------------
(* The handlers: reading the keys, and picking one.                        *)

\* extract_header_string: text, trimmed, not empty.
Extract(name) ==
  IF name \in DOMAIN headers /\ headers[name] \notin {<<>>, Unreadable}
  THEN headers[name] ELSE None

\* for_provider.
ForProvider(p) ==
  LET names == HeadersOf[p]
      first == Extract(names[1])
  IN IF first # None THEN first ELSE Extract(names[Len(names)])

\* reachable_providers.
Reachable ==
  IF ForProvider("OpenRouter") # None THEN Providers
  ELSE {p \in Providers : ForProvider(p) # None}

\* resolve_byok_route of the provider routing has picked (Preflight).
Route(p) ==
  /\ at = "handler"
  /\ call' = IF ForProvider(p) # None THEN [provider |-> p, key |-> ForProvider(p), of |-> p]
             ELSE IF ForProvider("OpenRouter") # None
             THEN [provider |-> "OpenRouter", key |-> ForProvider("OpenRouter"), of |-> p]
             ELSE [provider |-> None, key |-> None, of |-> p]
  /\ at' = "routed"
  /\ UNCHANGED <<sent, headers, client, admin_key, admin>>

\* admin_key_middleware: an unset secret, the empty string, disables /admin.
AdminAccepts(supplied) == admin_key # "" /\ supplied = admin_key

AdminRequest(supplied) ==
  /\ at = "idle"
  /\ at' = "admin"
  /\ admin' = [supplied |-> supplied, in |-> AdminAccepts(supplied)]
  /\ UNCHANGED <<sent, headers, client, call, admin_key>>

Next ==
  \/ Receive \/ PassBridge \/ Bridge \/ Authenticate
  \/ \E p \in Providers : Route(p)
  \/ \E supplied \in AdminHeaders : AdminRequest(supplied)

Spec == Init /\ [][Next]_vars

-----------------------------------------------------------------------------
\* The names a provider goes by in the tables of USAGE.md.
NamesOf(p) ==
  CASE p = "XAI" -> {"xai", "grok"}            [] p = "Qwen" -> {"qwen", "dashscope"}
    [] p = "Moonshot" -> {"moonshot", "kimi"}  [] p = "Zhipu" -> {"zhipu", "glm"}
    [] p = "AzureOpenAI" -> {"azure-openai", "azure", "azure_openai"}
    [] p = "Bedrock" -> {"bedrock", "aws"}     [] p = "VertexAI" -> {"vertex-ai"}
    [] p = "OpenAI" -> {"openai"}              [] p = "Anthropic" -> {"anthropic"}
    [] p = "DeepSeek" -> {"deepseek"}          [] p = "Gemini" -> {"gemini"}
    [] p = "Mistral" -> {"mistral"}            [] p = "Groq" -> {"groq"}
    [] p = "OpenRouter" -> {"openrouter"}

\* The token is the credential: there is one, and no X-API-Key.
ByToken == ApiKey \notin DOMAIN sent.headers /\ sent.bearer # None

\* What the client itself said is a key of p.
Supplied(p) ==
  {sent.headers[h] : h \in {h \in DOMAIN sent.headers : h[1] \in NamesOf(p)}}
    \cup (IF ByToken /\ Len(sent.bearer) >= 3 /\ sent.bearer[2] \in NamesOf(p)
          THEN {SubSeq(sent.bearer, 3, Len(sent.bearer))} ELSE {})

TypeOK ==
  /\ at \in {"idle", "sent", "bridged", "handler", "routed", "refused", "admin"}
  /\ client \in Valid \cup {None}
  /\ \A h \in DOMAIN headers \ DOMAIN sent.headers :
       h \in {ApiKey, ClientId, Key("meta")}
               \cup {HeadersOf[p][1] : p \in Providers}

\* A provider is called with a key its client gave for that provider, whole,
\* colons and all, whichever of the names, headers and tokens it used.
KeysStayHome ==
  call # None /\ call.provider # None => call.key \in Supplied(call.provider)

\* A handler's client is the one whose key was validated: X-API-Key if there is
\* one, else the token's first part, and never an id the client sent itself.
OwnIdentity ==
  at \in {"handler", "routed"} =>
    /\ client = (IF ByToken THEN <<sent.bearer[1]>> ELSE sent.headers[ApiKey])
    /\ headers[ClientId] = client

\* Routing and key selection agree: a provider routing takes for reachable has
\* a key, and one it does not has none.
ReachableHasKey ==
  call # None => (call.of \in Reachable <=> call.provider # None)

\* Nobody is let into /admin without the secret; while it is unset, nobody is.
AdminNeedsSecret ==
  admin # None /\ admin.in => admin_key # "" /\ admin.supplied = admin_key

\* USAGE.md:209 lists the "Supported `<provider>` values" of a composite key,
\* `meta` (or `llama`) among them.  A token of a supported provider gives its
\* client some provider to call.  The code: nothing reads x-meta-api-key.
TokenIsUsable ==
  at = "handler" /\ ByToken /\ Rest(sent.bearer) # <<"">> => Reachable # {}
=============================================================================
