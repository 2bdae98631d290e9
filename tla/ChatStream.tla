----------------------------- MODULE ChatStream -----------------------------
(***************************************************************************)
(* What an OpenAI client may expect of a streamed chat completion, whoever *)
(* produces it: a role chunk, then tool calls that are opened in index     *)
(* order and whose arguments only grow, then one final chunk, sent only    *)
(* when every tool call holds a JSON object and marked "tool_calls"        *)
(* exactly if there is a tool call, then [DONE].  An error ends the stream *)
(* at any point before the final chunk, and nothing but errors follows it. *)
(* AnthropicStream.tla implements this module.                             *)
(***************************************************************************)
EXTENDS Naturals, Sequences

CONSTANTS
  Objects               \* argument texts that parse to a JSON object

VARIABLES
  phase,                \* "silent", "open", "finished", "done" or "failed"
  opened,               \* number of tool calls
  calls,                \* arguments the client has put together, by index
  finish_reason         \* of the final chunk, "none" before it

chat_vars == <<phase, opened, calls, finish_reason>>

ChatInit ==
  /\ phase = "silent"
  /\ opened = 0
  /\ calls = [i \in {} |-> <<>>]
  /\ finish_reason = "none"

-----------------------------------------------------------------------------
Begin ==
  /\ phase = "silent"
  /\ phase' = "open"
  /\ UNCHANGED <<opened, calls, finish_reason>>

\* A new tool call has the next index.
OpenCall ==
  /\ phase = "open"
  /\ calls' = [i \in DOMAIN calls \cup {opened} |->
                 IF i = opened THEN <<>> ELSE calls[i]]
  /\ opened' = opened + 1
  /\ UNCHANGED <<phase, finish_reason>>

\* The arguments of one open tool call grow.
ExtendCall(i) ==
  /\ phase = "open"
  /\ DOMAIN calls' = DOMAIN calls
  /\ \A k \in DOMAIN calls \ {i} : calls'[k] = calls[k]
  /\ Len(calls'[i]) >= Len(calls[i])
  /\ \A n \in 1..Len(calls[i]) : calls'[i][n] = calls[i][n]
  /\ UNCHANGED <<phase, opened, finish_reason>>

Finish ==
  /\ phase = "open"
  /\ \A i \in DOMAIN calls : calls[i] \in Objects
  /\ phase' = "finished"
  /\ finish_reason' # "none"
  /\ finish_reason' = "tool_calls" <=> opened > 0
  /\ UNCHANGED <<opened, calls>>

Done ==
  /\ phase = "finished"
  /\ phase' = "done"
  /\ UNCHANGED <<opened, calls, finish_reason>>

Fail ==
  /\ phase \in {"silent", "open"}
  /\ phase' = "failed"
  /\ UNCHANGED <<opened, calls, finish_reason>>

ChatNext ==
  \/ Begin \/ OpenCall \/ Finish \/ Done \/ Fail
  \/ \E i \in DOMAIN calls : ExtendCall(i)

ChatSpec == ChatInit /\ [][ChatNext]_chat_vars
=============================================================================
