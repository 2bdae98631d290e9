---------------------------- MODULE Supercompress ----------------------------
(***************************************************************************)
(* supercompress.rs: the tier-1 compression every chat request goes        *)
(* through after routing.  It is a pure function of the messages, the      *)
(* request's options and the operator's mode.                              *)
(***************************************************************************)
EXTENDS ChatRequest

CONSTANTS
  DedupMinChars,   \* DEDUP_MIN_CHARS, on the scale of LineChars
  ServerMode       \* "off", "audit" or "on"

ASSUME DedupAssumption == DedupMinChars \in Nat
ASSUME ModeAssumption == ServerMode \in {"off", "audit", "on"}

--------------------------------------------------------------------------
(* normalize_whitespace: one pass over the lines.                          *)

Trimmed(line) ==
  CASE line = "spaces" -> "blank"
    [] line = "padded" -> "words"
    [] OTHER           -> line

Kept(acc, line) == [acc EXCEPT !.out = Append(@, line)]

\* MUTANT of NormalizeLine: blanks are trimmed inside a fence as well.
NormalizeLine_TrimsCode(acc, line) ==
  IF line = "fence"
  THEN [Kept(acc, line) EXCEPT !.in_fence = ~@, !.blank_run = 0]
  ELSE IF Trimmed(line) # "blank" \/ acc.in_fence
  THEN [Kept(acc, Trimmed(line)) EXCEPT !.blank_run = 0]
  ELSE IF acc.blank_run > 0 \/ acc.out = <<>>
  THEN [acc EXCEPT !.blank_run = @ + 1]
  ELSE [Kept(acc, "blank") EXCEPT !.blank_run = 1]

NormalizeLine(acc, line) ==
  IF line = "fence"
  THEN [Kept(acc, line) EXCEPT !.in_fence = ~@, !.blank_run = 0]
  ELSE IF acc.in_fence
  THEN Kept(acc, line)
  ELSE IF Trimmed(line) # "blank"
  THEN [Kept(acc, Trimmed(line)) EXCEPT !.blank_run = 0]
  ELSE IF acc.blank_run > 0 \/ acc.out = <<>>
  THEN [acc EXCEPT !.blank_run = @ + 1]
  ELSE [Kept(acc, "blank") EXCEPT !.blank_run = 1]

\* out.trim_end(): no trailing blank lines, no blanks after the last word.
TrimEnd(lines) ==
  LET inked == {i \in DOMAIN lines : Trimmed(lines[i]) # "blank"}
      last  == CHOOSE i \in inked : \A j \in inked : j <= i
  IN IF inked = {}
     THEN <<"blank">>
     ELSE [SubSeq(lines, 1, last) EXCEPT ![last] = Trimmed(@)]

NormalizeWhitespace(text) ==
  TrimEnd(FoldLeft(NormalizeLine,
                   [out |-> <<>>, in_fence |-> FALSE, blank_run |-> 0],
                   text).out)

--------------------------------------------------------------------------
(* dedup_exact: `seen` holds every earlier message without an image,       *)
(* dropped or not; the run test looks at the messages as they were given.  *)

AlreadySeen(messages, i) ==
  \E j \in 1 .. i - 1 :
    /\ ~HasImage(messages[j])
    /\ messages[j].role = messages[i].role
    /\ messages[j].text = messages[i].text

InSameRoleRun(messages, i) ==
  \E j \in {i - 1, i + 1} \cap DOMAIN messages :
    messages[j].role = messages[i].role

\* MUTANT of Dropped: the final message is not exempt.
Dropped_FinalToo(messages, i) ==
  /\ ~HasImage(messages[i])
  /\ AlreadySeen(messages, i)
  /\ Chars(messages[i].text) >= DedupMinChars
  /\ InSameRoleRun(messages, i)

Dropped(messages, i) ==
  /\ ~HasImage(messages[i])
  /\ AlreadySeen(messages, i)
  /\ Chars(messages[i].text) >= DedupMinChars
  /\ i # Len(messages)
  /\ InSameRoleRun(messages, i)

\* The indices of the messages that stay, in order.
Survivors(messages) == InOrder({i \in DOMAIN messages : ~Dropped(messages, i)})

DedupExact(messages) ==
  LET stay == Survivors(messages)
  IN [k \in DOMAIN stay |-> messages[stay[k]]]

--------------------------------------------------------------------------
(* compress: what is sent instead of `messages`, or `messages` itself when *)
(* nothing changed, nothing may change, or changes are only measured.      *)

DefaultOptions ==
  [enabled |-> TRUE, whitespace |-> TRUE, dedup |-> TRUE, audit_only |-> FALSE]

\* Tool turns are left alone as a whole.
HasAgentTurn(messages) ==
  \E i \in DOMAIN messages :
    \/ messages[i].role = "tool"
    \/ messages[i].calls # <<>>
    \/ messages[i].answers # NoId

Squeezed(messages) ==
  [i \in DOMAIN messages |->
     IF messages[i].content = "text"
     THEN [messages[i] EXCEPT !.text = NormalizeWhitespace(@)]
     ELSE messages[i]]

Working(messages, opts) ==
  LET squeezed == IF opts.whitespace THEN Squeezed(messages) ELSE messages
  IN IF opts.dedup THEN DedupExact(squeezed) ELSE squeezed

Compress(messages, opts) ==
  IF \/ ServerMode = "off" \/ ~opts.enabled
     \/ HasAgentTurn(messages)
     \/ opts.audit_only \/ ServerMode = "audit"
  THEN messages
  ELSE Working(messages, opts)

=============================================================================
