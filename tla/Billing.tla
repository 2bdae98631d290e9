------------------------------ MODULE Billing ------------------------------
(***************************************************************************)
(* What a request costs, three times over: what is reserved for it         *)
(* (tokens.rs and get_pricing_for of route_engine.rs, from the handlers'   *)
(* estimate), what it is settled at once the provider has answered (by     *)
(* other counts and other rates in each handler), and what the provider    *)
(* bills.  One request at a time: how the sums are kept is SpendGuard's.   *)
(*                                                                         *)
(* Token counts are u32 of Bits bits; money is in units in which rates are *)
(* whole numbers.                                                          *)
(***************************************************************************)
EXTENDS Integers

CONSTANTS
  Bits,         \* 32 in the code
  Registry,     \* curated models: [in, out, above, long_in, long_out]
  Slug,         \* a registered model's id at OpenRouter
  Unregistered, \* an Azure, Bedrock or Vertex deployment, or a new Claude
  DefaultRates, \* 500 and 3000 cents per million
  DefaultOutput,\* max_tokens where the request has none
  OutputLimit,  \* no model generates more (external)
  Inputs, Limits, Reports,      \* bounds: counted, asked for, reported tokens
  None

U32 == 2^Bits
NoTier == -1
Rates == [in : Nat, out : Nat]

\* What the constants stand for (assumed where they are given values).
BitsSensible == Bits \in Nat \ {0} /\ U32 \in Nat
RegistrySensible ==
  /\ Registry \in [DOMAIN Registry -> [in : Nat, out : Nat, above : Nat \cup {NoTier},
                                       long_in : Nat, long_out : Nat]]
  /\ \A m \in DOMAIN Registry : Registry[m].in <= Registry[m].long_in
                             /\ Registry[m].out <= Registry[m].long_out
  /\ Slug \in [DOMAIN Registry -> {Slug[m] : m \in DOMAIN Registry}]
  /\ \A m \in DOMAIN Registry : Slug[m] \notin DOMAIN Registry /\ Slug[m] # Unregistered
  /\ Unregistered \notin DOMAIN Registry
TokensSensible ==
  /\ DefaultRates \in Rates
  /\ DefaultOutput \in 0 .. OutputLimit /\ OutputLimit \in 0 .. U32 - 1
  /\ Inputs \cup Reports \subseteq 0 .. U32 - 1 /\ Limits \subseteq Nat
  /\ None \notin Nat

VARIABLES
  catalog,      \* did startup fetch OpenRouter's catalog?
  checks,       \* was the program built with overflow checks?
  pc,
  kind, model,  \* the endpoint, and the model as routing left it
  direct,       \* the client has that provider's key, and not only OpenRouter's
  input, limit, \* tokens counted, max_tokens
  rates,        \* the handler's cost_per_1m_input and _output
  reserved, reported, settled

request == <<kind, model, direct, input, limit>>
vars == <<catalog, checks, pc, request, rates, reserved, reported, settled>>

\* messages_handler, and its relay_stream.
Native == {"native", "native_stream"}
Kinds == {"chat", "stream", "shadow"} \cup Native
Free == [in |-> 0, out |-> 0]

\* `as u32`: the low bits.
AsU32(n) == n % U32

Init ==
  /\ catalog \in BOOLEAN /\ checks \in BOOLEAN
  /\ pc = "idle"
  /\ kind = "chat" /\ model = Unregistered /\ direct = TRUE /\ input = 0 /\ limit = None
  /\ rates = Free /\ reserved = None /\ reported = None /\ settled = None

-----------------------------------------------------------------------------
(* Prices.                                                                 *)

\* get_pricing_for a curated model.
PriceFor(m, tokens) ==
  IF Registry[m].above # NoTier /\ tokens > Registry[m].above
  THEN [in |-> Registry[m].long_in, out |-> Registry[m].long_out]
  ELSE [in |-> Registry[m].in, out |-> Registry[m].out]

\* The entry merged from the catalog has the flat rates and no tier.
CatalogPrice(slug) ==
  LET m == CHOOSE m \in DOMAIN Registry : Slug[m] = slug
  IN [in |-> Registry[m].in, out |-> Registry[m].out]

Sent == IF direct THEN model ELSE Slug[model]

\* get_pricing_for of any id, and what the stream puts for an unknown one.
Lookup(id, tokens) ==
  IF id \in DOMAIN Registry THEN PriceFor(id, tokens)
  ELSE IF catalog /\ \E m \in DOMAIN Registry : Slug[m] = id THEN CatalogPrice(id)
  ELSE DefaultRates

\* MUTANT of Cost: the cost is computed in the width of the counts.
Cost_InU32(in, out, price) == AsU32(in * price.in) + AsU32(out * price.out)

\* TokenCostBreakdown::new, total_cost_cents.
Cost(in, out, price) == in * price.in + out * price.out

\* TokenCostBreakdown::new, total_tokens: with checks on, an overflow panics.
Panics(in, out) == checks /\ in + out >= U32

\* estimate_output_tokens, and the native handler's own reading.
EstimatedOutput ==
  IF limit = None THEN DefaultOutput
  ELSE IF kind \in Native THEN AsU32(limit) ELSE limit

-----------------------------------------------------------------------------
(* The handlers.                                                           *)

\* A limit of 2^32 and more is refused with the body, off the native endpoint;
\* a shadow model must be registered; an OpenRouter key is no use to Anthropic's
\* endpoint, nor to a deployment, which its own header selects.
Receive ==
  /\ pc = "idle"
  /\ \E k \in Kinds, m \in DOMAIN Registry \cup {Unregistered}, d \in BOOLEAN,
        n \in Inputs, l \in Limits \cup {None} :
       /\ k \notin Native /\ l # None => l < U32
       /\ k = "shadow" => m # Unregistered
       /\ k \in Native \/ m = Unregistered => d
       /\ kind' = k /\ model' = m /\ direct' = d /\ input' = n /\ limit' = l
       \* The catalog's ids are not curated ones: what routing picked is found, or free.
       /\ rates' = IF m = Unregistered THEN Free ELSE PriceFor(m, n)
  /\ pc' = "priced"
  /\ UNCHANGED <<catalog, checks, reserved, reported, settled>>

\* MUTANT of EstimatePanics: the reservation comes before the breakdown it is made from.
EstimatePanics_Reserved ==
  /\ pc = "priced" /\ Panics(input, EstimatedOutput)
  /\ reserved' = Cost(input, EstimatedOutput, rates)
  /\ pc' = "panicked"
  /\ UNCHANGED <<catalog, checks, request, rates, reported, settled>>

\* The handler's task panics, and with it its connection.
EstimatePanics ==
  /\ pc = "priced" /\ Panics(input, EstimatedOutput)
  /\ pc' = "panicked"
  /\ UNCHANGED <<catalog, checks, request, rates, reserved, reported, settled>>

Reserve ==
  /\ pc = "priced" /\ ~Panics(input, EstimatedOutput)
  /\ reserved' = Cost(input, EstimatedOutput, rates)
  /\ pc' = "reserved"
  /\ UNCHANGED <<catalog, checks, request, rates, reported, settled>>

\* The provider answers with what it counted, in numbers of the code's width, or
\* leaves its usage out: no more output than it was asked for, and a limit no
\* model has is an error to it.
Answer(usage) ==
  /\ pc = "reserved"
  /\ limit # None => limit <= OutputLimit
  /\ usage # None => usage.out <= OutputLimit /\ (limit # None => usage.out <= limit)
  /\ reported' = usage
  /\ pc' = "answered"
  /\ UNCHANGED <<catalog, checks, request, rates, reserved, settled>>

\* release, on any way the call fails: a connector may want the usage that is left
\* out, or a stream's client go.
CallFails ==
  /\ pc \in {"reserved", "answered"}
  /\ pc = "answered" => reported = None /\ kind \notin Native
  /\ settled' = 0
  /\ pc' = "released"
  /\ UNCHANGED <<catalog, checks, request, rates, reserved, reported>>

\* What is read off an answer: without usage nothing, but that messages_handler
\* puts its own estimate for the input.
Counts ==
  IF reported # None THEN reported
  ELSE [in |-> IF kind = "native" THEN input ELSE 0, out |-> 0]

\* MUTANT of SettledCounts: any call that is no stream is settled on the handler's
\* own count of the input.
SettledCounts_Estimated == IF kind = "stream" THEN Counts ELSE [Counts EXCEPT !.in = input]

\* handle_non_streaming takes its own count of the input, and the output reported.
SettledCounts == IF kind = "chat" THEN [Counts EXCEPT !.in = input] ELSE Counts

\* MUTANT of SettlementRates: the stream is settled at the rates of the estimate.
SettlementRates_Kept == rates

\* The stream's audit task looks up again, by the id sent and the count
\* reported; the others keep the handler's rates.
SettlementRates ==
  IF kind = "stream" THEN Lookup(Sent, SettledCounts.in) ELSE rates

\* The counts add up within a u32, as those of a real call do.
Settle ==
  /\ pc = "answered" /\ SettledCounts.in + SettledCounts.out < U32
  /\ settled' = Cost(SettledCounts.in, SettledCounts.out, SettlementRates)
  /\ pc' = "settled"
  /\ UNCHANGED <<catalog, checks, request, rates, reserved, reported>>

Next ==
  \/ Receive \/ EstimatePanics \/ Reserve \/ CallFails
  \/ \E usage \in [in : Reports, out : Reports] \cup {None} : Answer(usage)
  \/ Settle

Spec == Init /\ [][Next]_vars

-----------------------------------------------------------------------------
TypeOK ==
  /\ catalog \in BOOLEAN /\ checks \in BOOLEAN
  /\ pc \in {"idle", "priced", "reserved", "answered", "settled", "released",
           "panicked"}
  /\ kind \in Kinds /\ model \in DOMAIN Registry \cup {Unregistered} /\ direct \in BOOLEAN
  /\ input \in 0 .. U32 - 1 /\ limit \in Nat \cup {None}
  /\ EstimatedOutput \in 0 .. U32 - 1
  /\ rates \in Rates /\ reported \in [in : Nat, out : Nat] \cup {None}
  /\ {reserved, settled} \subseteq Nat \cup {None}

Registered == model \in DOMAIN Registry

\* What the provider charges.
Bill == Cost(reported.in, reported.out, PriceFor(model, reported.in))

SameTier == PriceFor(model, reported.in) = PriceFor(model, input)

\* The answer keeps to the estimate; of a chat's its input is never looked at.
WithinEstimate ==
  reported # None => /\ reported.out <= EstimatedOutput
                     /\ kind = "chat" \/ reported.in <= input

\* The cap binds: an answer that keeps to the estimate is settled within what
\* was reserved for it, truncated limits and overflowing totals included: the
\* first are refused by the provider, and of the second nothing is reserved,
\* since nobody would give back what a handler that panics has reserved.
ReservationCovers ==
  /\ settled # None /\ Registered /\ direct /\ WithinEstimate => settled <= reserved
  /\ reserved # None =>
       reserved >= input * rates.in /\ reserved >= EstimatedOutput * rates.out
  /\ pc = "panicked" => checks /\ reserved = None

\* By how many tokens of input a chat is settled beside the provider's count.
Miscount == IF kind = "chat" THEN input - reported.in ELSE 0

\* A call whose usage is known is settled at the provider's price: a stream
\* always, and every other call if its counts fall on the same side of the
\* long-context threshold as the estimate.  What is kept then is the bill, but
\* that a chat's is out by what the handler counted differently.
SettledAsBilled ==
  pc = "settled" /\ Registered /\ direct /\ reported # None =>
    /\ kind = "stream" => settled = Bill
    /\ SameTier => settled = Bill + Miscount * rates.in

\* tokens.rs:85-89 says of the handlers' own count that what it misses "only
\* affects the routing/cost-estimate signal".  The code: a chat is settled on it,
\* so that the cap is charged with something else than the bill.
CountOnlyEstimates ==
  pc = "settled" /\ kind = "chat" /\ Registered /\ direct /\ reported # None /\ SameTier
    => settled = Bill

\* anthropic_passthrough.rs:32-36: reconciling "against Anthropic's own exact
\* `usage`" "makes the *final* accounting exact on this path".  The code: at the
\* rates of the estimate, also if the counts reported are beyond the threshold.
NativeIsExact ==
  pc = "settled" /\ kind \in Native /\ Registered /\ reported # None => settled = Bill

\* main.rs:759-761 of an Azure or Bedrock deployment: "the client is billed
\* directly by their own Azure/AWS account. Treat as zero-cost".  The code: a
\* stream of it is settled at the default rates.
OwnAccountIsFree ==
  settled # None /\ ~Registered => settled = 0

\* streaming.rs:130-134 of the audit task: it "has to price the same tier the
\* provider will bill", or it would "reconcile a tiered request down to the base
\* amount and hand back cap headroom that was really spent".  The code: by its
\* OpenRouter id a model has no tier, or no rates at all.
StreamTierKept ==
  pc = "settled" /\ Registered /\ kind = "stream" /\ reported # None => settled = Bill
=============================================================================
