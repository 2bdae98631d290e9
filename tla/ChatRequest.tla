----------------------------- MODULE ChatRequest -----------------------------
(***************************************************************************)
(* What a chat completion request is to the modules that handle it before  *)
(* it is sent: a record                                                    *)
(*                                                                         *)
(*   model        a sequence of path segments, <<"openai", "gpt-oss-20b">> *)
(*   messages     a sequence of records [role, content, text, calls,       *)
(*                answers]                                                 *)
(*   max_tokens   a number or NoMaxTokens                                  *)
(*   stream       BOOLEAN                                                  *)
(*   tools        a sequence of records [name, kind]                       *)
(*   tool_choice  "absent", "auto", "none", "required" or a tool's name    *)
(*   parallel     parallel_tool_calls: "absent", "true" or "false"         *)
(*   opts         the supercompress options                                *)
(*                                                                         *)
(* A message's content is "text", "parts" (text parts only), "image"       *)
(* (parts with an image) or "null"; text is its as_text(), kept as a       *)
(* sequence of lines (split('\n') never yields none).  Of a line only what *)
(* the code looks at is left: a ``` marker, an empty one, one of blanks    *)
(* only, words, words followed by blanks.  calls are the tool calls an     *)
(* assistant makes, answers the tool_call_id.  Some([]) is not told apart  *)
(* from None, and `name` on a message is left out.                         *)
(***************************************************************************)
EXTENDS Integers, Sequences, SequencesExt, FiniteSets

NoId == "none"
NoMaxTokens == -1

LineKinds == {"fence", "blank", "spaces", "words", "padded"}

LineChars ==
  [fence |-> 3, blank |-> 0, spaces |-> 1, words |-> 4, padded |-> 5]

Messages ==
  [role : STRING, content : {"text", "parts", "image", "null"}, text : Seq(LineKinds),
   calls : Seq([id : STRING, name : STRING, wellformed : BOOLEAN]), answers : STRING]

ChatRequests ==
  [model : Seq(STRING), messages : Seq(Messages), max_tokens : Nat \union {NoMaxTokens},
   stream : BOOLEAN, tools : Seq([name : STRING, kind : {"plain", "strict", "malformed"}]),
   tool_choice : STRING, parallel : {"absent", "true", "false"},
   opts : [enabled : BOOLEAN, whitespace : BOOLEAN, dedup : BOOLEAN, audit_only : BOOLEAN]]

\* text.len(), the newlines between the lines included.
Chars(text) ==
  FoldLeft(LAMBDA n, line : n + LineChars[line] + 1, -1, text)

\* The numbers of a finite set from the least on.  (SetToSortSeq, in a form
\* that can be reasoned about.)
InOrder(numbers) ==
  [k \in 1 .. Cardinality(numbers) |->
     CHOOSE i \in numbers : Cardinality({j \in numbers : j <= i}) = k]

\* MessageContent::has_image
HasImage(m) == m.content = "image"

HasImages(messages) == \E m \in ToSet(messages) : HasImage(m)

\* count_completion_request_tokens with a token per character, identifier,
\* call and tool: 3 for the request, 4 and the role for a message.
InputTokens(req) ==
  LET OfMessage(m) ==
        5 + Chars(m.text) + Len(m.calls) + IF m.answers = NoId THEN 0 ELSE 1
  IN FoldLeft(LAMBDA n, m : n + OfMessage(m), 3, req.messages)
       + Len(req.tools)
       + IF req.tool_choice = "absent" THEN 0 ELSE 1

=============================================================================
