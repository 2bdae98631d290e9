------------------------------- MODULE ToolWire -------------------------------
(***************************************************************************)
(* Which tool requests each wire protocol can carry: has_tool_payload, the *)
(* validators of the Anthropic, Google and Bedrock connectors, and         *)
(* validate_tool_wire(_for_model), which picks among them.  Descriptions,  *)
(* argument JSON and schemas are one flag: a tool is "plain", "strict" or  *)
(* "malformed", a call well formed or not.                                 *)
(***************************************************************************)
EXTENDS ChatRequest

ToolProviders == {"Bedrock", "Gemini", "VertexAI"}

Named(choice) == choice \notin {"absent", "auto", "none", "required"}

HasToolPayload(req) ==
  \/ req.tools # <<>>
  \/ req.tool_choice # "absent"
  \/ req.parallel # "absent"
  \/ \E m \in ToSet(req.messages) :
       m.calls # <<>> \/ m.answers # NoId \/ m.role = "tool"

ToolNames(req) == {t.name : t \in ToSet(req.tools)}

AllPlain(req) == \A t \in ToSet(req.tools) : t.kind = "plain"

NamesUnique(req) ==
  \A i, j \in DOMAIN req.tools :
    req.tools[i].name = req.tools[j].name => i = j

ChoiceIsDeclared(req) ==
  Named(req.tool_choice) => req.tool_choice \in ToolNames(req)

\* Plain text that is not empty.
HasText(m) == m.content = "text" /\ Chars(m.text) > 0

\* An assistant's calls come with text or with null content.
CallsFit(m) ==
  m.calls # <<>> =>
    /\ m.role = "assistant"
    /\ HasText(m) \/ m.content = "null"
    /\ \A c \in ToSet(m.calls) : c.wellformed

--------------------------------------------------------------------------
(* Anthropic: a tool result needs an id and text, but not a call before    *)
(* it; tool_choice "none" takes the tools away.                            *)

AnthropicTools(req) == IF req.tool_choice = "none" THEN <<>> ELSE req.tools

AnthropicTurn(m) ==
  \/ m.role = "system"
  \/ m.role = "tool" /\ m.answers # NoId /\ m.content = "text"
  \/ m.role \notin {"system", "tool"} /\ m.answers = NoId /\ CallsFit(m)

AnthropicAccepts(req) ==
  /\ AllPlain(req)
  /\ ChoiceIsDeclared(req)
  /\ \/ req.tool_choice \notin {"absent", "none"}
     \/ req.parallel # "absent"
     => AnthropicTools(req) # <<>>
  /\ \A m \in ToSet(req.messages) : AnthropicTurn(m)

--------------------------------------------------------------------------
(* Google and Bedrock keep the ids of calls not answered yet: a result     *)
(* takes its id out, a call may not use an id that is still in.            *)

\* The ids of a message's calls added one by one; ok turns FALSE on a clash.
AddCalls(acc, m) ==
  FoldLeft(LAMBDA a, c : [a EXCEPT !.ok = @ /\ c.id \notin a.open,
                                   !.open = @ \union {c.id}],
           acc, m.calls)

\* MUTANT of TakeAnswer: the id stays open, so a second result for it is let through.
TakeAnswer_Keeps(acc, m) ==
  [acc EXCEPT !.ok = @ /\ m.answers \in acc.open /\ m.content = "text"]

TakeAnswer(acc, m) ==
  [acc EXCEPT !.ok = @ /\ m.answers \in acc.open /\ m.content = "text",
              !.open = @ \ {m.answers}]

PairTurn(acc, m) ==
  CASE m.role = "tool"   -> TakeAnswer(acc, m)
    [] m.role = "system" -> acc
    [] OTHER             -> AddCalls([acc EXCEPT !.ok = @ /\ m.answers = NoId], m)

CallsPair(messages) ==
  FoldLeft(PairTurn, [ok |-> TRUE, open |-> {}], messages).ok

\* Repeated calls to one function in one turn cannot be told apart.
CallNamesUnique(m) ==
  \A i, j \in DOMAIN m.calls : m.calls[i].name = m.calls[j].name => i = j

GoogleAccepts(req) ==
  /\ req.parallel # "false"
  /\ AllPlain(req) /\ NamesUnique(req)
  /\ ChoiceIsDeclared(req)
  /\ req.tool_choice \notin {"absent", "none"} => req.tools # <<>>
  /\ \A m \in ToSet(req.messages) :
       m.role \notin {"system", "tool"} => CallsFit(m) /\ CallNamesUnique(m)
  /\ CallsPair(req.messages)

BedrockTurn(m) ==
  \/ m.role = "tool"
  \/ m.role = "system" /\ m.calls = <<>> /\ m.answers = NoId /\ m.content = "text"
  \/ /\ m.role \in {"user", "assistant"}
     /\ HasText(m) \/ (m.content = "null" /\ m.calls # <<>>)
     /\ m.answers = NoId
     /\ CallsFit(m)

BedrockAccepts(req, model_supported) ==
  /\ model_supported
  /\ ~req.stream
  /\ req.parallel # "false"
  /\ AllPlain(req) /\ NamesUnique(req)
  /\ ChoiceIsDeclared(req)
  /\ req.tool_choice # "none"
  /\ req.tool_choice # "absent" => req.tools # <<>>
  /\ \A m \in ToSet(req.messages) : BedrockTurn(m)
  /\ CallsPair(req.messages)

--------------------------------------------------------------------------

\* Direct OpenAI models whose tool calls need another API.
ResponsesOnly == {<<"gpt-6-astra">>, <<"gpt-6.1-sol">>}

\* tool_model_supported: the model families Bedrock's tools are known for.
BedrockToolModels == {<<"anthropic.claude-3-haiku">>, <<"amazon.nova-lite-v1">>}

\* validate_tool_wire_for_model; Bedrock's check reads the requested name.
ToolWireOk(req, provider, routing_model) ==
  HasToolPayload(req) =>
    /\ ~(provider = "OpenAI" /\ routing_model \in ResponsesOnly)
    /\ provider = "Anthropic" => AnthropicAccepts(req)
    /\ provider \in {"Gemini", "VertexAI"} => ~req.stream /\ GoogleAccepts(req)
    /\ provider = "Bedrock" =>
         BedrockAccepts(req, req.model \in BedrockToolModels)

=============================================================================
