--------------------------- MODULE AnthropicStream --------------------------
(***************************************************************************)
(* One streamed chat completion that Anthropic serves: the generator of    *)
(* src/streaming.rs with the SseFramer and the Translator of               *)
(* src/anthropic_stream.rs, and the OpenAI client that puts the chunks     *)
(* together.  The provider may send any bytes and any events, in any       *)
(* order; the network may cut them anywhere; the client may leave at any   *)
(* yield.  What an event says is chosen when it is translated.             *)
(*                                                                         *)
(* Left out: message id, model, creation time and text, which are passed   *)
(* on as they are, and total_tokens, a sum of what is shown.               *)
(***************************************************************************)
EXTENDS SseFramer

CONSTANTS
  Blocks,               \* content block indexes the provider uses
  Chars, Parts,         \* of tool arguments, and what partial_json may be
  Objects,              \* argument texts that parse to a JSON object
  EmptyObject,          \* "{}"
  MaxArguments,         \* MAX_PENDING_FRAME, as the limit on tool arguments
  Chunks,               \* pieces of the body the network may deliver
  InputReports, OutputReports,  \* token counts the provider may report, u64
  TokenModulus,         \* 2^32
  NoTool, NotReported, NotSent

ASSUME ChunksAssumption == Chunks \subseteq Seq(Bytes)
ASSUME PartsAssumption == Parts \subseteq Seq(Chars)
ASSUME ObjectsAssumption ==
  EmptyObject \in Objects /\ Objects \subseteq Seq(Chars) /\ <<>> \notin Objects
ASSUME MaxArgumentsAssumption ==
  MaxArguments \in Nat /\ Len(EmptyObject) <= MaxArguments
ASSUME ReportsAssumption ==
  /\ InputReports \subseteq Nat /\ OutputReports \subseteq Nat
  /\ TokenModulus \in Nat \ {0}

ToolStates == [index : Nat, arguments : Seq(Chars), ended : BOOLEAN]
Usages == [input : 0..TokenModulus - 1, output : 0..TokenModulus - 1]

ASSUME PlaceholderAssumption ==
  NoTool \notin ToolStates /\ NotReported \notin Nat /\ NotSent \notin Usages

VARIABLES
  pending,              \* the framer's bytes
  due,                  \* events of the last push not translated yet
  started, tools, thinking_blocks, next_tool_index, stop_reason,
  usage,                \* input_tokens and output_tokens of the translator
  counted,              \* the generator's copy of them
  at,                   \* where the generator stands
  audit,                \* tokens sent to the audit task
  phase, calls, finish_reason,  \* what the client has, as in ChatStream
  shown                 \* usage in the final chunk

framer_vars == <<pending, due>>
translator_vars ==
  <<started, tools, thinking_blocks, next_tool_index, stop_reason, usage>>
client_vars == <<phase, calls, finish_reason, shown>>
vars == <<framer_vars, translator_vars, counted, at, audit, client_vars>>

StopReasons == {"tool_use", "end_turn", "max_tokens", "refusal"}
Phases == {"silent", "open", "finished", "done", "failed"}

TranslatorTypeOK ==
  /\ started \in BOOLEAN
  /\ tools \in [Blocks -> ToolStates \cup {NoTool}]
  /\ \A b \in Blocks :
       tools[b] # NoTool => Len(tools[b].arguments) <= MaxArguments
  /\ thinking_blocks \subseteq Blocks
  /\ next_tool_index \in Nat
  /\ stop_reason \in StopReasons \cup {"none"}
  /\ usage \in Usages /\ counted \in Usages
  /\ at \in {"relaying", "finishing", "ending", "closed", "dropped"}
  /\ audit \in Usages \cup {NotSent} /\ shown \in Usages \cup {NotSent}
  /\ phase \in Phases
  /\ finish_reason \in {"none", "stop", "length", "tool_calls"}

\* Types, and the two limits on memory: neither what the framer holds nor the
\* arguments of a tool grow beyond theirs, whatever the provider sends.
TypeOK ==
  /\ TranslatorTypeOK
  /\ pending \in Seq(Bytes) /\ due \in Nat
  /\ at = "relaying" => Len(pending) <= MaxPendingFrame

NoTokens == [input |-> 0, output |-> 0]

Init ==
  /\ pending = <<>> /\ due = 0
  /\ started = FALSE
  /\ tools = [b \in Blocks |-> NoTool]
  /\ thinking_blocks = {}
  /\ next_tool_index = 0
  /\ stop_reason = "none"
  /\ usage = NoTokens /\ counted = NoTokens
  /\ at = "relaying"
  /\ audit = NotSent /\ shown = NotSent
  /\ phase = "silent" /\ calls = [i \in {} |-> <<>>] /\ finish_reason = "none"

-----------------------------------------------------------------------------
(* The generator's loop. *)

\* An error chunk is yielded and the loop is left; events not translated yet
\* are abandoned.
FailWith(held) ==
  /\ pending' = held /\ due' = 0
  /\ phase' = "failed"
  /\ at' = "ending"
  /\ UNCHANGED <<translator_vars, counted, audit, calls, finish_reason, shown>>

Receive(bytes) ==
  /\ at = "relaying" /\ due = 0
  /\ LET push == Push(pending, bytes) IN
       \/ /\ push.ok
          /\ pending' = push.pending
          /\ due' = Len(push.events)
          /\ UNCHANGED <<translator_vars, counted, at, audit, client_vars>>
       \/ /\ ~push.ok
          /\ FailWith(push.pending)

\* The body ends, or reading it fails.
BodyEnds ==
  /\ at = "relaying" /\ due = 0
  /\ at' = "ending"
  /\ UNCHANGED <<framer_vars, translator_vars, counted, audit, client_vars>>

Translating == at = "relaying" /\ due > 0

Refuse == Translating /\ FailWith(pending)

\* Mutant: the counts are copied before the event is translated.
Forward_CopiesFirst ==
  /\ due' = due - 1
  /\ counted' = usage
  /\ UNCHANGED <<pending, at, audit, finish_reason, shown>>

\* translate has returned chunks: the token counts are copied.
Forward ==
  /\ due' = due - 1
  /\ counted' = usage'
  /\ UNCHANGED <<pending, at, audit, finish_reason, shown>>

-----------------------------------------------------------------------------
(* translate, one action per kind of event.  What a chunk does to the tool *)
(* call of index i at the client: opened, or its arguments extended.       *)

Opened(i) ==
  calls' = [k \in DOMAIN calls \cup {i} |-> IF k = i THEN <<>> ELSE calls[k]]
Extended(i, part) ==
  calls' = [calls EXCEPT ![i] = @ \o part]

AsU32(n) == n % TokenModulus

\* Everything but message_start and ping needs require_started.
BeforeStart == ~started /\ Refuse

\* Not JSON, a field missing, a kind or block type unknown, an error event.
Malformed == Refuse

MessageStart(n) ==
  \/ started /\ Refuse
  \/ /\ Translating /\ ~started
     /\ started' = TRUE
     /\ usage' = [usage EXCEPT !.input = AsU32(n)]
     /\ phase' = "open"
     /\ UNCHANGED <<tools, thinking_blocks, next_tool_index, stop_reason, calls>>
     /\ Forward

\* Mutant: the block index is taken for the tool index.
ToolStart_BlockIndex(b) ==
  /\ started
  /\ \/ tools[b] # NoTool /\ Refuse
     \/ /\ Translating /\ tools[b] = NoTool
        /\ tools' = [tools EXCEPT ![b] = [index |-> b, arguments |-> <<>>,
                                          ended |-> FALSE]]
        /\ next_tool_index' = next_tool_index + 1
        /\ Opened(b)
        /\ UNCHANGED <<started, thinking_blocks, stop_reason, usage, phase>>
        /\ Forward

ToolStart(b) ==
  /\ started
  /\ \/ tools[b] # NoTool /\ Refuse
     \/ /\ Translating /\ tools[b] = NoTool
        /\ tools' = [tools EXCEPT ![b] = [index     |-> next_tool_index,
                                          arguments |-> <<>>,
                                          ended     |-> FALSE]]
        /\ next_tool_index' = next_tool_index + 1
        /\ Opened(next_tool_index)
        /\ UNCHANGED <<started, thinking_blocks, stop_reason, usage, phase>>
        /\ Forward

\* A tool block may start at the index of an open thinking block, but not the
\* other way round.
ThinkingStart(b) ==
  /\ started
  /\ \/ (tools[b] # NoTool \/ b \in thinking_blocks) /\ Refuse
     \/ /\ Translating /\ tools[b] = NoTool /\ b \notin thinking_blocks
        /\ thinking_blocks' = thinking_blocks \cup {b}
        /\ UNCHANGED <<started, tools, next_tool_index, stop_reason, usage,
                       phase, calls>>
        /\ Forward

\* ping at any time, text block starts and text deltas once started.
PassOn ==
  /\ Translating
  /\ UNCHANGED <<translator_vars, phase, calls>>
  /\ Forward

\* Mutant: the limit looks at the part alone.
ArgumentsDelta_LimitsPart(b, part) ==
  /\ started
  /\ LET tool == tools[b]
         fits == tool # NoTool /\ ~tool.ended /\ Len(part) <= MaxArguments
     IN \/ ~fits /\ Refuse
        \/ /\ Translating /\ fits
           /\ tools' = [tools EXCEPT ![b].arguments = @ \o part]
           /\ Extended(tool.index, part)
           /\ UNCHANGED <<started, thinking_blocks, next_tool_index,
                          stop_reason, usage, phase>>
           /\ Forward

ArgumentsDelta(b, part) ==
  /\ started
  /\ LET tool == tools[b]
         fits == /\ tool # NoTool
                 /\ ~tool.ended
                 /\ Len(tool.arguments) + Len(part) <= MaxArguments
     IN \/ ~fits /\ Refuse
        \/ /\ Translating /\ fits
           /\ tools' = [tools EXCEPT ![b].arguments = @ \o part]
           /\ Extended(tool.index, part)
           /\ UNCHANGED <<started, thinking_blocks, next_tool_index,
                          stop_reason, usage, phase>>
           /\ Forward

\* thinking_delta and signature_delta: kept from the client.
ThinkingDelta(b) ==
  /\ started
  /\ IF b \in thinking_blocks THEN PassOn ELSE Refuse

\* Mutant: the "{}" is filled in but not sent.
EndTool_KeepsFilling(b) ==
  LET tool == tools[b]
      arguments == IF tool.arguments = <<>> THEN EmptyObject ELSE tool.arguments
  IN \/ (tool.ended \/ arguments \notin Objects) /\ Refuse
     \/ /\ Translating /\ ~tool.ended /\ arguments \in Objects
        /\ tools' = [tools EXCEPT ![b] = [index     |-> tool.index,
                                          arguments |-> arguments,
                                          ended     |-> TRUE]]
        /\ UNCHANGED <<started, thinking_blocks, next_tool_index, stop_reason,
                       usage, phase, calls>>
        /\ Forward

\* The stop of a tool block checks its arguments; if there were none they are
\* "{}", for the translator and for the client.
EndTool(b) ==
  LET tool == tools[b]
      arguments == IF tool.arguments = <<>> THEN EmptyObject ELSE tool.arguments
  IN \/ (tool.ended \/ arguments \notin Objects) /\ Refuse
     \/ /\ Translating /\ ~tool.ended /\ arguments \in Objects
        /\ tools' = [tools EXCEPT ![b] = [index     |-> tool.index,
                                          arguments |-> arguments,
                                          ended     |-> TRUE]]
        /\ IF tool.arguments = <<>> THEN Extended(tool.index, EmptyObject)
                                    ELSE UNCHANGED calls
        /\ UNCHANGED <<started, thinking_blocks, next_tool_index, stop_reason,
                       usage, phase>>
        /\ Forward

BlockStop(b) ==
  /\ started
  /\ \/ /\ Translating /\ b \in thinking_blocks
        /\ thinking_blocks' = thinking_blocks \ {b}
        /\ UNCHANGED <<started, tools, next_tool_index, stop_reason, usage,
                       phase, calls>>
        /\ Forward
     \/ b \notin thinking_blocks /\ tools[b] # NoTool /\ EndTool(b)
     \/ b \notin thinking_blocks /\ tools[b] = NoTool /\ PassOn

MessageDelta(reason, n) ==
  /\ started /\ Translating
  /\ stop_reason' = IF reason = "none" THEN stop_reason ELSE reason
  /\ usage' = IF n = NotReported THEN usage
                                 ELSE [usage EXCEPT !.output = AsU32(n)]
  /\ UNCHANGED <<started, tools, thinking_blocks, next_tool_index, phase, calls>>
  /\ Forward

\* anthropic_finish_reason: "none" where it is an error.
FinishReason(has_tools) ==
  CASE stop_reason = "tool_use"   /\ has_tools  -> "tool_calls"
    [] stop_reason = "end_turn"   /\ ~has_tools -> "stop"
    [] stop_reason = "max_tokens" /\ ~has_tools -> "length"
    [] OTHER                                    -> "none"

\* The final chunk; what is left of the batch is never looked at.
MessageStop ==
  /\ started
  /\ LET mine   == {b \in Blocks : tools[b] # NoTool}
         reason == FinishReason(mine # {})
         ready  == (\A b \in mine : tools[b].ended) /\ reason # "none"
     IN \/ ~ready /\ Refuse
        \/ /\ Translating /\ ready
           /\ phase' = "finished"
           /\ finish_reason' = reason
           /\ shown' = usage
           /\ counted' = usage
           /\ due' = 0
           /\ at' = "finishing"
           /\ UNCHANGED <<pending, translator_vars, audit, calls>>

-----------------------------------------------------------------------------
(* How the generator ends. *)

\* After the final chunk: the audit task is told, then [DONE].
Finish ==
  /\ at = "finishing"
  /\ audit' = counted
  /\ phase' = "done"
  /\ at' = "closed"
  /\ UNCHANGED <<framer_vars, translator_vars, counted, calls, finish_reason, shown>>

\* Mutant: no error chunk, as for every provider but Anthropic.
End_Silently ==
  /\ at = "ending"
  /\ audit' = counted
  /\ at' = "closed"
  /\ UNCHANGED <<framer_vars, translator_vars, counted, client_vars>>

\* After the loop: the same, then an error chunk.
End ==
  /\ at = "ending"
  /\ audit' = counted
  /\ phase' = "failed"
  /\ at' = "closed"
  /\ UNCHANGED <<framer_vars, translator_vars, counted, calls, finish_reason, shown>>

\* The client goes away; nothing is sent to the audit task, which then
\* releases the reservation (Gateway.tla).
Drop ==
  /\ at \in {"relaying", "finishing", "ending"}
  /\ at' = "dropped"
  /\ UNCHANGED <<framer_vars, translator_vars, counted, audit, client_vars>>

BlockEvent(b) ==
  \/ ToolStart(b) \/ ThinkingStart(b) \/ ThinkingDelta(b) \/ BlockStop(b)
  \/ \E part \in Parts : ArgumentsDelta(b, part)

Translate ==
  \/ BeforeStart \/ Malformed \/ PassOn \/ MessageStop
  \/ \E n \in InputReports : MessageStart(n)
  \/ \E reason \in StopReasons \cup {"none"},
        n \in OutputReports \cup {NotReported} : MessageDelta(reason, n)
  \/ \E b \in Blocks : BlockEvent(b)

Next ==
  \/ \E bytes \in Chunks : Receive(bytes)
  \/ BodyEnds \/ Translate \/ Finish \/ End \/ Drop

Spec == Init /\ [][Next]_vars

-----------------------------------------------------------------------------
(* Properties. *)

HasTool(b) == tools[b] # NoTool

\* What the client has put together for a tool call is what the translator
\* checks at the end of its block, and every call of the client is the call of
\* exactly one block: deltas of interleaved blocks never mix, whatever the
\* block indexes.
CallsMatchTools ==
  /\ \A b \in Blocks : HasTool(b) =>
       tools[b].index \in DOMAIN calls /\ calls[tools[b].index] = tools[b].arguments
  /\ \A i \in DOMAIN calls : \E b \in Blocks :
       HasTool(b) /\ tools[b].index = i
  /\ \A b, c \in Blocks :
       HasTool(b) /\ HasTool(c) /\ tools[b].index = tools[c].index => b = c

\* The stream is what an OpenAI client may expect, whatever the provider sends:
\* in particular a final chunk comes only with complete tool calls, and says
\* "tool_calls" exactly if there are some.
Chat == INSTANCE ChatStream WITH opened <- next_tool_index
ImplementsChat == Chat!ChatSpec

\* The tokens the client is billed for are the last the provider reported,
\* on every way the stream ends, and those the client was shown if it finished.
BilledAsShown ==
  audit # NotSent => audit = usage /\ (phase = "done" => audit = shown)

\* A stream the client stayed with ends in [DONE] or an error chunk and is
\* accounted for: it never just stops.
EndIsMarked ==
  at = "closed" => phase \in {"done", "failed"} /\ audit # NotSent

\* How the network cuts the bytes makes no difference: if the same bytes would
\* pass one at a time, a piece yields the same events and leaves the same rest.
ChunkingInvisible ==
  [][\A bytes \in Chunks :
       LET each == PushEach(pending, bytes) IN
         Receive(bytes) /\ each.ok =>
           at' = "relaying" /\ pending' = each.pending
                            /\ due' = Len(each.events)]_vars
=============================================================================
