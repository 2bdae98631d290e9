------------------------------ MODULE MCStreams ------------------------------
(***************************************************************************)
(* A stream, whichever way it takes to the client: translated event by     *)
(* event (AnthropicStream), or relayed line by line or byte by byte        *)
(* (StreamRelay).  Which it is is settled before the first byte arrives.   *)
(***************************************************************************)
EXTENDS MCAnthropicStream

CONSTANTS
  Lines,                \* what a provider whose stream is relayed may send
  Unreported,
  MaxLines, MaxPiece    \* bounds: lines of a relayed stream, and of a piece

VARIABLES
  way,          \* translated, relayed
  mode, relaying, in_tok, out_tok, line_buf, relayed, reported, provided, begun, cut

Line(kind, wide, in, out) == [kind |-> kind, wide |-> wide, input |-> in, output |-> out]

\* Text with and without a wide character, usage that gives both counts, or
\* one of them as Anthropic's two events do, [DONE] and a comment.
MCLines ==
  { Line("text", FALSE, Unreported, Unreported),
    Line("text", TRUE, Unreported, Unreported),
    Line("usage", FALSE, 2, 1),
    Line("usage", FALSE, 3, Unreported),
    Line("usage", FALSE, Unreported, 2),
    Line("done", FALSE, Unreported, Unreported),
    Line("other", FALSE, Unreported, Unreported) }

Relay == INSTANCE StreamRelay WITH
           at <- relaying, input <- in_tok, output <- out_tok,
           buffer <- line_buf, shown <- relayed, audit <- reported

ASSUME LinesAssumption == Relay!LinesSensible
ASSUME BoundAssumption == MaxPiece \in Nat

relay_vars == <<mode, relaying, in_tok, out_tok, line_buf, relayed, reported,
                provided, begun, cut>>
stream_vars == <<way, vars, relay_vars>>

StreamInit ==
  /\ way \in {"translated", "relayed"}
  /\ Init
  /\ Relay!Init
  /\ way = "translated" => mode = "chat"

StreamNext ==
  \/ way = "translated" /\ Next /\ UNCHANGED <<way, relay_vars>>
  \/ way = "relayed" /\ Relay!Next /\ UNCHANGED <<way, vars>>

StreamSpec == StreamInit /\ [][StreamNext]_stream_vars

\* Every variable has its type, and neither the translator nor the relays'
\* buffers hold more than their limit or a line's rest.
StreamsTypeOK == TypeOK /\ Relay!TypeOK

\* What is passed on and what is counted is exact: on the native endpoint (its
\* copy of the bytes is put together into lines) however the network cuts the
\* stream, on the chat endpoint as long as it cuts no line.
RelaysExact == Relay!NativeExact /\ Relay!ExactUnlessCut /\ Relay!InOrderUntilDone
=============================================================================
