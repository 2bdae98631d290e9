---------------------------- MODULE StreamRelay ----------------------------
(***************************************************************************)
(* How a provider's event stream is passed on and its token usage read off *)
(* on the way, in the two relays that translate nothing:                   *)
(*                                                                         *)
(*   chat    the generator of stream_handler (streaming.rs), for every     *)
(*           provider but Anthropic: each piece of the body is split into  *)
(*           lines by itself, and `data: ` lines are passed on             *)
(*   native  the generator of relay_stream (anthropic_passthrough.rs): the *)
(*           pieces are passed on as they are, and a copy is put together  *)
(*           into lines                                                    *)
(*                                                                         *)
(* The network cuts the lines where it likes.  A line has three parts: the *)
(* first ends inside the prefix `data: `, the second inside the payload,   *)
(* the third with the line feed.  (A cut right before a line feed is the   *)
(* same as one after it.)  What settles a stream, and who drops it, is     *)
(* Gateway's; here a stream ends with what it would report.                *)
(***************************************************************************)
EXTENDS Naturals, Sequences, SequencesExt, FiniteSetsExt

CONSTANTS
  Lines,        \* [kind, wide, input, output]: what a provider may send
  Unreported,   \* a count a line does not give
  TokenModulus, \* 2^32
  NotSent,
  MaxLines, MaxPiece    \* bounds of the runs: lines of a stream, and of a piece

\* "text" and "usage" are data lines, as is "done"; "other" is a comment, an
\* event name or an empty line.  A wide line has a character of several bytes
\* between its second and third part.
Kinds == {"text", "usage", "done", "other"}

\* Only a usage line gives counts, and none that a u32 does not hold: of a larger
\* one the native relay would keep the low bits, the chat relay nothing.
Tokens == 0 .. TokenModulus - 1
LinesSensible ==
  /\ TokenModulus \in Nat \ {0}
  /\ \A line \in Lines :
    /\ line.kind \in Kinds
    /\ line.input \in Tokens \cup {Unreported} /\ line.output \in Tokens \cup {Unreported}
    /\ line.kind # "usage" => line.input = Unreported /\ line.output = Unreported

VARIABLES
  mode,         \* which relay
  at,           \* relaying, closed
  input, output,        \* input_tokens and output_tokens, in_tok and out_tok
  buffer,       \* line_buf of the native relay: the segments it holds
  shown,        \* what the client has been sent, in order
  audit,        \* the counts reported at the end
  \* the provider's side, for the properties and to say what may come next:
  provided,     \* the lines of which anything has arrived
  begun,        \* how many parts of the last one have; 3 at a line's end
  cut           \* has a piece ended inside a line?

relay_vars == <<at, input, output, buffer, shown, audit>>
vars == <<mode, relay_vars, provided, begun, cut>>

\* A part of the n-th line, and the [DONE] and counts that are made here.
Segment(n, from, to) == [n |-> n, from |-> from, to |-> to]
Done == Segment(0, 1, 3)

\* The segments of a piece, given the lines it starts: the rest of the line
\* begun or a part of that, lines as a whole, and a part of the last.
Piece(started, to) ==
  LET first == Len(provided)
      last  == first + started
      lead  == IF begun < 3
                 THEN <<Segment(first, begun + 1, IF started = 0 THEN to ELSE 3)>>
                 ELSE <<>>
  IN  lead \o [i \in 1..started |->
                 Segment(first + i, 1, IF first + i = last THEN to ELSE 3)]

Init ==
  /\ mode \in {"chat", "native"}
  /\ at = "relaying"
  /\ input = 0 /\ output = 0
  /\ buffer = <<>> /\ shown = <<>> /\ audit = NotSent
  /\ provided = <<>> /\ begun = 3 /\ cut = FALSE

\* A count a line gives replaces the one before.
Reported(line, counts) ==
  [in  |-> IF line.input = Unreported THEN counts.in ELSE line.input,
   out |-> IF line.output = Unreported THEN counts.out ELSE line.output]

-----------------------------------------------------------------------------
(***************************************************************************)
(* chat: one piece, line by line.                                          *)
(***************************************************************************)
Relaying == [input |-> input, output |-> output, shown |-> shown, done |-> FALSE]

\* MUTANT of RelayLine: counts are added up.
RelayLine_AddsUp(lines, s, r) ==
  LET line == lines[s.n]
      counts == Reported(line, [in |-> 0, out |-> 0])
  IN  IF r.done \/ s.from > 1 \/ s.to = 1 \/ line.kind = "other" THEN r
      ELSE IF s.to < 3 THEN [r EXCEPT !.shown = Append(@, s)]
      ELSE IF line.kind = "done" THEN [r EXCEPT !.done = TRUE, !.shown = Append(@, Done)]
      ELSE [r EXCEPT !.shown = Append(@, s),
                     !.input = @ + counts.in, !.output = @ + counts.out]

\* What lines() yields is a line only if the piece holds it whole.  Without
\* its prefix it is skipped; cut in its payload it is passed on all the same,
\* but is neither [DONE] nor JSON.  [DONE] ends the stream.
RelayLine(lines, s, r) ==
  LET line == lines[s.n]
      counts == Reported(line, [in |-> r.input, out |-> r.output])
  IN  IF r.done \/ s.from > 1 \/ s.to = 1 \/ line.kind = "other" THEN r
      ELSE IF s.to < 3 THEN [r EXCEPT !.shown = Append(@, s)]
      ELSE IF line.kind = "done" THEN [r EXCEPT !.done = TRUE, !.shown = Append(@, Done)]
      ELSE [r EXCEPT !.shown = Append(@, s), !.input = counts.in, !.output = counts.out]

\* from_utf8 fails on a piece that a character is cut at.
NotUtf8(lines, piece) ==
  \E s \in Range(piece) : lines[s.n].wide /\ (s.to = 2 \/ s.from = 3)

Relayed(lines, piece) ==
  IF NotUtf8(lines, piece)
    THEN Relaying
    ELSE FoldLeft(LAMBDA r, s : RelayLine(lines, s, r), Relaying, piece)

RelayPiece(lines, piece) ==
  LET r == Relayed(lines, piece)
  IN  /\ input' = r.input /\ output' = r.output /\ shown' = r.shown
      /\ at' = IF r.done THEN "closed" ELSE at
      /\ audit' = IF r.done THEN [in |-> r.input, out |-> r.output] ELSE audit
      /\ UNCHANGED buffer

-----------------------------------------------------------------------------
(***************************************************************************)
(* native: the bytes go on untouched, lines are put together beside them.  *)
(***************************************************************************)
Sniffing(kept) == [input |-> input, output |-> output, buffer |-> kept]

\* `as u32`: the low bits.
AsU32(n) == n % TokenModulus

\* A line feed drains a line from the buffer: it can be read if all is there.
SniffSegment(lines, s, r) ==
  LET held == Append(r.buffer, s)
      whole == held[1].from = 1 /\ lines[s.n].kind = "usage"
      counts == Reported(lines[s.n], [in |-> r.input, out |-> r.output])
  IN  IF s.to < 3
        THEN [r EXCEPT !.buffer = held]
        ELSE [buffer |-> <<>>,
              input  |-> IF whole THEN AsU32(counts.in) ELSE r.input,
              output |-> IF whole THEN AsU32(counts.out) ELSE r.output]

\* MUTANT of Sniffed: nothing is kept between pieces.
Sniffed_PerPiece(lines, piece) ==
  FoldLeft(LAMBDA r, s : SniffSegment(lines, s, r), Sniffing(<<>>), piece)

Sniffed(lines, piece) ==
  FoldLeft(LAMBDA r, s : SniffSegment(lines, s, r), Sniffing(buffer), piece)

PassOn(lines, piece) ==
  LET r == Sniffed(lines, piece)
  IN  /\ input' = r.input /\ output' = r.output /\ buffer' = r.buffer
      /\ shown' = shown \o piece
      /\ UNCHANGED <<at, audit>>

-----------------------------------------------------------------------------

\* A piece that starts the lines `more` and ends after part `to` of its last.
Receive(more, to) ==
  LET piece == Piece(Len(more), to)
      lines == provided \o more
  IN  /\ at = "relaying"
      /\ Len(lines) <= MaxLines
      /\ more = <<>> => begun < to
      /\ provided' = lines
      /\ begun' = to
      /\ cut' = (cut \/ to < 3)
      /\ IF mode = "chat" THEN RelayPiece(lines, piece) ELSE PassOn(lines, piece)
      /\ UNCHANGED mode

\* The body ends or breaks off: what was counted so far is reported.
EndOfBody ==
  /\ at = "relaying"
  /\ at' = "closed"
  /\ audit' = [in |-> input, out |-> output]
  /\ UNCHANGED <<mode, input, output, buffer, shown, provided, begun, cut>>

Next ==
  \/ \E more \in SeqOf(Lines, MaxPiece), to \in 1..3 : Receive(more, to)
  \/ EndOfBody

Spec == Init /\ [][Next]_vars

-----------------------------------------------------------------------------

\* The last counts the whole lines among the first n give.
LastReported(n) ==
  FoldLeft(LAMBDA c, line : Reported(line, c), [in |-> 0, out |-> 0], SubSeq(provided, 1, n))
WholeLines == IF begun = 3 THEN Len(provided) ELSE Len(provided) - 1

\* The number of lines before the provider's first [DONE].
BeforeDone ==
  LET ends == {n \in 1..Len(provided) : provided[n].kind = "done"}
  IN  IF ends = {} THEN Len(provided) ELSE Min(ends) - 1

TypeOK ==
  /\ mode \in {"chat", "native"} /\ at \in {"relaying", "closed"}
  /\ input \in Tokens /\ output \in Tokens
  /\ \A s \in Range(buffer) : s.n = Len(provided) /\ s.to <= begun /\ begun < 3
  /\ \A s \in Range(shown) : s.n \in 0..Len(provided) /\ s.from <= s.to
  /\ audit \in {NotSent} \cup [in : Tokens, out : Tokens]
  /\ begun \in 1..3 /\ cut \in BOOLEAN

\* [DONE] is the last thing a client of the chat relay sees, and before it the
\* provider's lines in their order and once each, if not all or not whole.
InOrderUntilDone ==
  mode = "chat" =>
    \A i, j \in 1..Len(shown) : i < j => shown[i] # Done /\ (shown[j] = Done \/ shown[i].n < shown[j].n)

\* While no piece ends inside a line the client of the chat relay is sent
\* every data line before [DONE], and what is counted, and in the end reported
\* for the audit task to reconcile, is what the provider gave last.
ExactUnlessCut ==
  mode = "chat" /\ ~cut =>
    /\ {s.n : s \in Range(shown)} \ {0} = {n \in 1..BeforeDone : provided[n].kind # "other"}
    /\ [in |-> input, out |-> output] = LastReported(BeforeDone)
    /\ audit = IF at = "closed" THEN LastReported(BeforeDone) ELSE NotSent
    /\ at = "relaying" => BeforeDone = Len(provided)

\* The native relay passes on every byte, in order, and counts and reconciles
\* the last usage of the whole lines, however the network cuts them.
NativeExact ==
  mode = "native" =>
    /\ [in |-> input, out |-> output] = LastReported(WholeLines)
    /\ audit = IF at = "closed" THEN LastReported(WholeLines) ELSE NotSent
    /\ \A i \in 1..Len(shown) :
         LET before == IF i = 1 THEN Segment(0, 1, 3) ELSE shown[i-1]
         IN  \/ shown[i].n = before.n /\ shown[i].from = before.to + 1
             \/ shown[i].n = before.n + 1 /\ shown[i].from = 1 /\ before.to = 3
    /\ provided # <<>> => Last(shown).n = Len(provided) /\ Last(shown).to = begun

\* streaming.rs:489-493: at the end of the body "the reservation gets
\* reconciled to the real (possibly partial) cost".  The code: a cut line's
\* counts are never read.
CutsDoNotCost ==
  mode = "chat" /\ at = "closed" /\ begun = 3 /\ BeforeDone + 1 >= Len(provided)
    => audit = LastReported(BeforeDone)
=============================================================================
