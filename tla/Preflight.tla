------------------------------ MODULE Preflight ------------------------------
(***************************************************************************)
(* What happens to a chat request between its admission and the provider   *)
(* call, in handle_streaming and handle_non_streaming alike: routing,      *)
(* pricing, compression, a second pricing, the reservation, the choice of  *)
(* the client's key, the check of the wire protocol.  Also the startup     *)
(* step that decides over all of it: merging OpenRouter's catalog into the *)
(* registry of models, or going on without.                                *)
(*                                                                         *)
(* The steps of one request share nothing with those of another but the    *)
(* registry, fixed once serving starts, and the spend guard, which         *)
(* SpendWindow models: here it may always refuse.  So one request at a     *)
(* time is handled, any number after another.                              *)
(***************************************************************************)
EXTENDS RouteEngine, Supercompress, ToolWire, FiniteSets

CONSTANTS
  Curated,    \* build_registry, a sequence of models
  Catalogs,   \* what fetch_openrouter_catalog may return
  Cases       \* pairs of a request and the set of providers it has keys for

ASSUME CuratedAssumption ==
  /\ Curated \in Seq(ToSet(Curated))
  /\ \A i, j \in DOMAIN Curated : Curated[i].api_id = Curated[j].api_id => i = j
ASSUME CatalogsAssumption ==
  \A extra \in Catalogs : extra \in Seq(ToSet(extra))
ASSUME CasesAssumption ==
  \A case \in Cases : case[1] \in ChatRequests /\ case[2] \subseteq Providers

VARIABLES
  models,      \* RouteEngine.models
  catalog,     \* what OpenRouter reported at startup, <<>> if nothing
  pc,          \* where the handler is
  req,         \* the request as received
  keys,        \* ClientProviderKeys
  chosen,      \* (selected_provider, routing_model_id)
  messages,    \* request.messages, compressed once that is done
  tokens,      \* input_tokens
  long_rates,  \* the rates are those of the long-context tier
  reserved,    \* what the reservation was computed from
  call,        \* ByokRoute: provider_to_call and model_id_to_send
  outcome      \* how the last request ended

vars == <<models, catalog, pc, req, keys, chosen, messages, tokens,
          long_rates, reserved, call, outcome>>

handling == <<req, keys, chosen, messages, tokens, long_rates, reserved, call>>

Nothing == [provider |-> "none", model |-> <<>>]
NotReserved == [tokens |-> 0, long |-> FALSE]
NoRequest ==
  [model |-> <<"none">>, messages |-> <<>>, max_tokens |-> NoMaxTokens,
   stream |-> FALSE, tools |-> <<>>, tool_choice |-> "absent",
   parallel |-> "absent", opts |-> DefaultOptions]

Idle ==
  /\ req = NoRequest /\ keys = {} /\ chosen = Nothing /\ messages = <<>>
  /\ tokens = 0 /\ long_rates = FALSE /\ reserved = NotReserved
  /\ call = Nothing

Init ==
  /\ models = Curated /\ catalog = <<>>
  /\ pc = "startup" /\ outcome = "none"
  /\ Idle

--------------------------------------------------------------------------
(* Startup.                                                                *)

MergeCatalog ==
  /\ pc = "startup"
  /\ \E extra \in Catalogs :
       /\ catalog' = extra
       /\ models' = ExtendRegistry(models, extra)
  /\ pc' = "serving"
  /\ UNCHANGED <<handling, outcome>>

CatalogUnavailable ==
  /\ pc = "startup"
  /\ pc' = "serving"
  /\ UNCHANGED <<models, catalog, handling, outcome>>

--------------------------------------------------------------------------
(* Routing.                                                                *)

IsTask(model) == model[1] = "task:"

\* A request that leaves the choice of the model to the gateway.
Flexible(r) == r.model = <<"auto">> \/ IsTask(r.model)

\* The providers whose connector carries tools, of this request's kind.
ToolCapable(r) ==
  Providers \ ({"OpenRouter"} \union IF r.stream THEN ToolProviders ELSE {})

\* MUTANT of Reachable: the filter does not look at `stream`.
Reachable_AnyTools(r, ks) == IF "OpenRouter" \in ks THEN Providers ELSE ks

\* reachable_providers and the filter of resolve_model; None is everything.
Reachable(r, ks) ==
  IF "OpenRouter" \in ks THEN Providers
  ELSE IF HasToolPayload(r) THEN ks \intersect ToolCapable(r)
  ELSE ks

\* MUTANT of Candidates: a task's model is kept for a request with images.
Candidates_Blind(r, input_tokens, reachable) ==
  IF IsTask(r.model)
  THEN SelectForTask(models, TaskOf(r.model[2]), input_tokens, reachable)
  ELSE IF HasImages(r.messages)
  THEN SelectVisionModel(models, input_tokens, reachable)
  ELSE SelectForShape(models, r, input_tokens, reachable)

\* The models an "auto" or task request may end with, empty for an error.
Candidates(r, input_tokens, reachable) ==
  LET seeing    == SelectVisionModel(models, input_tokens, reachable)
      by_task   == SelectForTask(models, TaskOf(r.model[2]), input_tokens,
                                 reachable)
      sighted   == {m \in by_task : m.supports_vision}
  IN IF HasImages(r.messages)
     THEN IF IsTask(r.model) /\ by_task = sighted THEN by_task ELSE seeing
     ELSE IF IsTask(r.model) THEN by_task
     ELSE SelectForShape(models, r, input_tokens, reachable)

Refuse(why) ==
  /\ pc' = "done" /\ outcome' = why
  /\ UNCHANGED <<models, catalog, handling>>

Receive ==
  /\ pc = "serving"
  /\ \E case \in Cases :
       /\ req' = case[1] /\ keys' = case[2]
       /\ messages' = case[1].messages
       /\ tokens' = InputTokens(case[1])
  /\ pc' = "route"
  /\ UNCHANGED <<models, catalog, chosen, long_rates, reserved, call, outcome>>

Routed(provider, model) ==
  /\ chosen' = [provider |-> provider, model |-> model]
  /\ pc' = "price"
  /\ UNCHANGED <<models, catalog, req, keys, messages, tokens, long_rates,
                 reserved, call, outcome>>

RouteUnknownTask ==
  /\ pc = "route" /\ IsTask(req.model) /\ req.model[2] \notin Tasks
  /\ Refuse("unknown task")

RouteFlexible ==
  /\ pc = "route" /\ Flexible(req)
  /\ IsTask(req.model) => req.model[2] \in Tasks
  /\ LET found == Candidates(req, tokens, Reachable(req, keys)) IN
       \/ \E m \in found : Routed(m.provider, m.api_id)
       \/ found = {} /\ Refuse("no model")

RouteConcrete ==
  /\ pc = "route" /\ ~Flexible(req)
  /\ LET known == Known(models, req.model)
         header == HeaderRoute(keys)
         blind  == known /\ ~Entry(models, req.model).supports_vision
     IN \/ /\ header = "none" /\ ~known
           /\ Refuse("unknown model")
        \/ /\ header # "none" \/ known
           /\ HasImages(req.messages) /\ blind
           /\ Refuse("no images")
        \/ /\ header # "none" \/ known
           /\ ~(HasImages(req.messages) /\ blind)
           /\ Routed(IF header # "none" THEN header
                     ELSE Entry(models, req.model).provider, req.model)

--------------------------------------------------------------------------
(* Pricing, compression, reservation.                                      *)

Price ==
  /\ pc = "price"
  /\ IF Known(models, chosen.model)
     THEN /\ long_rates' = LongContext(models, chosen.model, tokens)
          /\ pc' = "compress" /\ outcome' = outcome
     ELSE /\ long_rates' = FALSE
          /\ IF chosen.provider \in HeaderProviders
             THEN pc' = "compress" /\ outcome' = outcome
             ELSE pc' = "done" /\ outcome' = "pricing"
  /\ UNCHANGED <<models, catalog, req, keys, chosen, messages, tokens,
                 reserved, call>>

\* MUTANT of RatesAfter: the rates stay those of the message as it came.
RatesAfter_Kept(model, input_tokens) == long_rates

RatesAfter(model, input_tokens) ==
  IF Known(models, model)
  THEN LongContext(models, model, input_tokens)
  ELSE long_rates

CompressAndReprice ==
  /\ pc = "compress"
  /\ messages' = Compress(req.messages, req.opts)
  /\ tokens' = InputTokens([req EXCEPT !.messages = messages'])
  /\ long_rates' = RatesAfter(chosen.model, tokens')
  /\ pc' = "reserve"
  /\ UNCHANGED <<models, catalog, req, keys, chosen, reserved, call, outcome>>

Reserve ==
  /\ pc = "reserve"
  /\ reserved' = [tokens |-> tokens, long |-> long_rates]
  /\ pc' = "byok"
  /\ UNCHANGED <<models, catalog, req, keys, chosen, messages, tokens,
                 long_rates, call, outcome>>

OverCap ==
  /\ pc = "reserve"
  /\ Refuse("spend cap")

--------------------------------------------------------------------------
(* resolve_byok_route and validate_tool_wire_for_model.                    *)

OpenrouterSlug(provider, model) ==
  IF \/ provider = "OpenRouter"
     \/ Len(model) > 1 /\ SubSeq(model, 1, 1) = Prefix[provider]
     \/ OpenrouterCatalogHas(models, model)
  THEN model
  ELSE IF model \in DOMAIN SlugOverride
  THEN SlugOverride[model]
  ELSE Prefix[provider] \o model

ResolveByok ==
  /\ pc = "byok"
  /\ \/ /\ chosen.provider \in keys
        /\ call' = chosen
        /\ pc' = "validate" /\ UNCHANGED <<outcome, reserved>>
     \/ /\ chosen.provider \notin keys /\ "OpenRouter" \in keys
        /\ call' = [provider |-> "OpenRouter",
                    model |-> OpenrouterSlug(chosen.provider, chosen.model)]
        /\ pc' = "validate" /\ UNCHANGED <<outcome, reserved>>
     \/ /\ chosen.provider \notin keys /\ "OpenRouter" \notin keys
        /\ reserved' = NotReserved
        /\ pc' = "done" /\ outcome' = "no key" /\ UNCHANGED call
  /\ UNCHANGED <<models, catalog, req, keys, chosen, messages, tokens, long_rates>>

Sent == [req EXCEPT !.messages = messages]

ValidateTools ==
  /\ pc = "validate"
  /\ \/ /\ ToolWireOk(Sent, call.provider, chosen.model)
        /\ outcome' = "sent" /\ UNCHANGED reserved
     \/ /\ ~ToolWireOk(Sent, call.provider, chosen.model)
        /\ outcome' = "tools" /\ reserved' = NotReserved
  /\ pc' = "done"
  /\ UNCHANGED <<models, catalog, req, keys, chosen, messages, tokens,
                 long_rates, call>>

\* The request is handed to the provider call (Gateway), or answered.
Finish ==
  /\ pc = "done"
  /\ pc' = "serving" /\ outcome' = "none"
  /\ req' = NoRequest /\ keys' = {} /\ chosen' = Nothing /\ messages' = <<>>
  /\ tokens' = 0 /\ long_rates' = FALSE /\ reserved' = NotReserved
  /\ call' = Nothing
  /\ UNCHANGED <<models, catalog>>

Next ==
  \/ MergeCatalog \/ CatalogUnavailable
  \/ Receive
  \/ RouteUnknownTask \/ RouteFlexible \/ RouteConcrete
  \/ Price \/ CompressAndReprice
  \/ Reserve \/ OverCap
  \/ ResolveByok \/ ValidateTools
  \/ Finish

Spec == Init /\ [][Next]_vars

--------------------------------------------------------------------------
(* Properties.                                                             *)

\* Every variable has its type; the registry is the curated one, no entry of
\* it replaced, with ids added that are in it once.
TypeOK ==
  /\ SubSeq(models, 1, Len(Curated)) = Curated
  /\ \A i, j \in DOMAIN models : models[i].api_id = models[j].api_id => i = j
  /\ pc \in {"startup", "serving", "route", "price", "compress", "reserve",
            "byok", "validate", "done"}
  /\ keys \subseteq Providers
  /\ chosen.provider \in Providers \union {"none"}
  /\ tokens \in Nat /\ reserved.tokens \in Nat
  /\ long_rates \in BOOLEAN /\ reserved.long \in BOOLEAN
  /\ call.provider \in Providers \union {"none"}

\* A model the gateway picked itself is one the client's keys can call, and
\* without an OpenRouter key one whose connector streams tools if they are
\* asked for: routing, key selection and the wire check agree.
PickedIsCallable ==
  Flexible(req) =>
    /\ outcome \notin {"no key", "pricing"}
    /\ outcome = "tools" /\ "OpenRouter" \notin keys =>
         ~(req.stream /\ call.provider \in ToolProviders)

\* The limits of the simple path, the preferred models and the vision
\* fallbacks never fail a request that some model could have taken.
NoNeedlessRefusal ==
  outcome = "no model" =>
    \A m \in Eligible(models, tokens, Reachable(req, keys)) :
      HasImages(req.messages) /\ ~m.supports_vision

\* The messages with an image, in order.
ImagesOf(ms) ==
  LET images == InOrder({i \in DOMAIN ms : HasImage(ms[i])})
  IN [k \in DOMAIN images |-> ms[images[k]]]

\* Images reach a model of the registry only if it sees them, and all do.
ImagesAreSeen ==
  outcome = "sent" /\ HasImages(req.messages) =>
    /\ Known(models, chosen.model) => Entry(models, chosen.model).supports_vision
    /\ ImagesOf(messages) = ImagesOf(req.messages)

\* What is reserved was computed from what is sent: its size, and the rates
\* that size has with the model it goes to, tier included.
ReservedForSent ==
  outcome = "sent" =>
    /\ reserved.tokens = InputTokens(Sent)
    /\ Known(models, chosen.model) =>
         reserved.long = LongContext(models, chosen.model, InputTokens(Sent))

\* The words of a text: its lines without blanks, empty ones left out.
AddWords(words, line) ==
  IF Trimmed(line) = "blank" THEN words ELSE Append(words, Trimmed(line))

Words(text) == FoldLeft(AddWords, <<>>, text)

Same(m, n) == m.role = n.role /\ Words(m.text) = Words(n.text)

\* m as received became n: nothing but the blanks of a plain text differ.
Became(m, n) ==
  /\ Same(m, n)
  /\ m.content = n.content /\ m.calls = n.calls /\ m.answers = n.answers
  /\ m.content # "text" => m.text = n.text

\* Compression loses nothing: of the messages received all are sent, in
\* order, but for some whose role and words an earlier one that stays has
\* too; never the last, an image, or anything of a conversation with tools.
NothingLost ==
  messages # req.messages => \E kept \in SUBSET DOMAIN req.messages :
    LET order == InOrder(kept)
        gone  == DOMAIN req.messages \ kept
    IN /\ Len(messages) = Len(order)
       /\ \A k \in DOMAIN order : Became(req.messages[order[k]], messages[k])
       /\ \A i \in gone :
            /\ ~HasImage(req.messages[i]) /\ i # Len(req.messages)
            /\ \E j \in kept : j < i /\ Same(req.messages[j], req.messages[i])
       /\ ~HasAgentTurn(req.messages)

\* The lines of the fenced blocks that are closed, their markers included: a
\* block's lines count once its second marker has come.
AddFenced(acc, line) ==
  IF line = "fence"
  THEN IF acc.open
       THEN [open |-> FALSE, block |-> <<>>,
             closed |-> acc.closed \o Append(acc.block, line)]
       ELSE [acc EXCEPT !.open = TRUE, !.block = <<line>>]
  ELSE IF acc.open
  THEN [acc EXCEPT !.block = Append(@, line)]
  ELSE acc

Fences(text) ==
  FoldLeft(AddFenced, [open |-> FALSE, block |-> <<>>, closed |-> <<>>], text)

FencedLines(text) == Fences(text).closed

\* Code is sent as it came: the closed blocks of every message that stays
\* are the same line for line.  And a prompt that was compressed once (a
\* client that sends its history back) is not changed again.
FencesUntouched ==
  /\ \A n \in ToSet(messages) \ ToSet(req.messages) : \E m \in ToSet(req.messages) :
       Same(m, n) /\ FencedLines(m.text) = FencedLines(n.text)
  /\ outcome = "sent" /\ req.opts.whitespace /\ messages # req.messages =>
       Squeezed(messages) = messages

\* The tool results sent on to Google and Bedrock answer, each, a call of
\* their own made earlier in the conversation.
ToolResultsPaired ==
  outcome = "sent" /\ call.provider \in ToolProviders /\ HasToolPayload(req) =>
    \A i \in DOMAIN messages :
      messages[i].role = "tool" =>
        LET id       == messages[i].answers
            answered == {j \in 1 .. i :
                           messages[j].role = "tool" /\ messages[j].answers = id}
            calls    == UNION {{<<j, c>> : c \in {c \in DOMAIN messages[j].calls :
                                                 messages[j].calls[c].id = id}} :
                               j \in 1 .. i - 1}
        IN Cardinality(answered) <= Cardinality(calls)

\* What openrouter_catalog_has says it does (route_engine.rs:444): a slug
\* that OpenRouter's catalog reported is recognised, and sent as it is.
CatalogSlugKept ==
  call.provider = "OpenRouter" /\ chosen.model \in ApiIds(catalog) =>
    call.model = chosen.model

\* The roles in turn, a run of one role being one turn.
Turns(ms) ==
  FoldLeft(LAMBDA acc, m : IF acc # <<>> /\ Last(acc) = m.role
                           THEN acc ELSE Append(acc, m.role),
           <<>>, ms)

\* What the comment at supercompress.rs:356 says: dropping from a run only
\* shortens it and "introduces no new adjacency" of two turns.
NoNewAdjacency == Turns(messages) = Turns(req.messages)

=============================================================================
