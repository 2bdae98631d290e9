-------------------------- MODULE MCAnthropicStream -------------------------
(***************************************************************************)
(* The instance of AnthropicStream that TLC checks: of tool arguments      *)
(* there are two JSON objects, "{}", which comes in one part, and one that *)
(* comes in two halves.                                                    *)
(***************************************************************************)
EXTENDS AnthropicStream

MCChars == {"{", "}", "half"}
MCEmptyObject == <<"{", "}">>
MCParts == {<<>>, MCEmptyObject, <<"half">>}
MCObjects == {MCEmptyObject, <<"half", "half">>}

\* A byte at a time, or an event complete and the next begun.
MCChunks ==
  {<<"x">>, <<"cr">>, <<"lf">>, <<"bad", "lf", "lf">>, <<"x", "lf", "lf", "x">>}
=============================================================================
