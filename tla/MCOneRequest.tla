---------------------------- MODULE MCOneRequest ----------------------------
(***************************************************************************)
(* One request in three views, each to its end: whose keys it comes with   *)
(* and uses (Access), where it is routed and what is sent (Preflight), and *)
(* what it costs (Billing).  A behaviour shows one of them: what one view  *)
(* leaves open (the keys of Preflight, the model of Billing) the other     *)
(* decides, and each is checked for every way it may be decided.           *)
(***************************************************************************)
EXTENDS MCPreflight, TLC

CONSTANTS
  Valid, Requests, AdminKeys, AdminHeaders, Unreadable, None,     \* of Access
  Bits, Registry, Slug, Unregistered, DefaultRates, DefaultOutput, OutputLimit,
  Inputs, Limits, Reports                                         \* of Billing

VARIABLES
  view,         \* keys, path or price
  at, sent, headers, client, provider_call, admin_key, admin,
  fetched, checks, stage, kind, model, direct, input, limit, rates, held,
  reported, settled

key_vars == <<at, sent, headers, client, provider_call, admin_key, admin>>
price_vars == <<fetched, checks, stage, kind, model, direct, input, limit, rates,
                held, reported, settled>>

-----------------------------------------------------------------------------
(* Access: up to two provider headers, a token, or both.                   *)

H == INSTANCE ProviderHeaders

Bare == [h \in {} |-> <<>>]

MCValid == {<<"rf1">>, <<"rf2">>}
ProviderHeaderNames ==
  UNION {{H!HeadersOf[p][i] : i \in DOMAIN H!HeadersOf[p]} : p \in H!Providers}

\* Each header has a value of its own, or one with a colon, or none to speak of.
ValuesOf(h) == {<<h[1]>>, <<h[1], "tail">>, <<>>}

\* Two headers that matter together: two names of one provider's, or OpenRouter's
\* and another's.
Together(q) ==
  q[1] # q[2] /\ (q[1] = H!Key("openrouter") \/ \E p \in H!Providers : H!HeadersOf[p] = q)

HeaderSets ==
  {Bare} \cup UNION {{h :> v : v \in ValuesOf(h) \cup {Unreadable}} : h \in ProviderHeaderNames}
         \cup UNION {{(pair[1] :> v) @@ (pair[2] :> w) : v, w \in {<<"own">>, <<>>}} :
                     pair \in {q \in ProviderHeaderNames \X ProviderHeaderNames : Together(q)}}

CredentialNames ==
  {h[1] : h \in ProviderHeaderNames} \cup {"azure", "azure_openai", "aws", "meta", "llama"}
Tokens ==
  {<<k, n, "own">> : k \in {"rf1", "rf3"}, n \in CredentialNames}
    \cup {<<"rf2", n, "own", "tail">> : n \in CredentialNames} \cup {<<"rf1", "own">>, <<"">>}

ApiKeys == {Bare} \cup {H!ApiKey :> k : k \in {<<"rf1">>, <<"rf3">>, Unreadable}}
Forged == {Bare, H!ClientId :> <<"rf2">>}

MCAccessRequests ==
  {[headers |-> k @@ a @@ f, bearer |-> b] :
     k \in HeaderSets, a \in ApiKeys, f \in Forged, b \in {None, <<"rf2", "qwen", "own", "tail">>}}
  \cup {[headers |-> k @@ f, bearer |-> b] :
     k \in {Bare} \cup {h :> <<h[1]>> : h \in ProviderHeaderNames}, f \in Forged, b \in Tokens}

MCAdminKeys == {"", "secret"}
MCAdminHeaders == {None, "", "secret", "rf1"}

Keys == INSTANCE Access WITH call <- provider_call
ASSUME AccessAssumption == Keys!ValuesDistinct

-----------------------------------------------------------------------------
(* Billing: a flat and a tiered model, and counts of three bits.           *)

MCRegistry ==
  [flat   |-> [in |-> 2, out |-> 4, above |-> NoTier, long_in |-> 2, long_out |-> 4],
   tiered |-> [in |-> 2, out |-> 4, above |-> 3, long_in |-> 4, long_out |-> 6]]
MCSlug == [flat |-> "lab/flat", tiered |-> "lab/tiered"]
MCDefaultRates == [in |-> 5, out |-> 30]

\* Up to the widest count, and past it for a limit.
MCInputs == 0 .. 7
MCLimits == 0 .. 10
MCReports == 0 .. 5

Money == INSTANCE Billing WITH
           catalog <- fetched, pc <- stage, reserved <- held
ASSUME BillingAssumption ==
  Money!BitsSensible /\ Money!RegistrySensible /\ Money!TokensSensible

-----------------------------------------------------------------------------
OneInit ==
  /\ view \in {"keys", "path", "price"}
  /\ Init /\ Keys!Init /\ Money!Init
  \* The other views stand still, in one of their first states.
  /\ view # "keys" => admin_key = ""
  /\ view # "price" => ~fetched /\ ~checks

OneNext ==
  \/ view = "path" /\ Next /\ UNCHANGED <<view, key_vars, price_vars>>
  \/ view = "keys" /\ Keys!Next /\ UNCHANGED <<view, vars, price_vars>>
  \/ view = "price" /\ Money!Next /\ UNCHANGED <<view, vars, key_vars>>

OneSpec == OneInit /\ [][OneNext]_<<view, vars, key_vars, price_vars>>

-----------------------------------------------------------------------------
\* Two layers that write headers, one that reads them, two names for some
\* providers: a provider is called with its own client's key for it, the client
\* is whom its key says, a provider taken for reachable has a key, and /admin
\* has its secret (auth.rs, resolve_byok_route, admin_key_middleware).
CredentialsHold ==
  /\ Keys!KeysStayHome
  /\ Keys!OwnIdentity
  /\ Keys!ReachableHasKey
  /\ Keys!AdminNeedsSecret

\* An answer within the estimate is settled within its reservation, whatever
\* max_tokens was (estimate_output_tokens, TokenCostBreakdown::new).
ReservationCovers == Money!ReservationCovers

\* What is kept of a call is its bill, but that a chat's is out by the tokens
\* its handler counted differently (the audit task of stream_handler; the
\* reconcile of handle_non_streaming, messages_handler and the shadow task).
SettledAsBilled == Money!SettledAsBilled

\* What is picked can be called, and takes the request's images.
PickedFits == PickedIsCallable /\ ImagesAreSeen

\* Compression takes away repetition and blanks only, and nothing in a fence.
CompressionKeeps == NothingLost /\ FencesUntouched
=============================================================================
