------------------------------ MODULE SseFramer -----------------------------
(***************************************************************************)
(* SseFramer of src/anthropic_stream.rs: server-sent events cut out of a   *)
(* byte stream that arrives in pieces of any size.  A frame ends with an   *)
(* empty line, "\n\n" or "\r\n\r\n".                                       *)
(*                                                                         *)
(* A byte is "lf", "cr", "x", which stands for whatever belongs to a       *)
(* `data:` line, or "bad", which is not UTF-8.  Frames without any "x"     *)
(* (comments, bare event names) yield no event.  What an event says is     *)
(* left to the reader of this module.                                      *)
(***************************************************************************)
EXTENDS Naturals, Sequences, SequencesExt

CONSTANTS MaxPendingFrame       \* MAX_PENDING_FRAME, in bytes

ASSUME MaxPendingFrameAssumption == MaxPendingFrame \in Nat

Bytes == {"x", "cr", "lf", "bad"}

Boundaries(p) ==
  LET found(mark) == {[at |-> i, width |-> Len(mark)] :
                        i \in {k \in 1..Len(p) + 1 - Len(mark) :
                                 SubSeq(p, k, k + Len(mark) - 1) = mark}}
  IN  found(<<"lf", "lf">>) \cup found(<<"cr", "lf", "cr", "lf">>)

\* The loop of push: drain frame after frame while there is a boundary, and
\* stop at the first that is not UTF-8.
Drain[p \in Seq(Bytes)] ==
  IF Boundaries(p) = {}
    THEN [ok |-> TRUE, events |-> <<>>, rest |-> p]
    ELSE LET cut   == CHOOSE b \in Boundaries(p) :
                        \A c \in Boundaries(p) : b.at <= c.at
             frame == SubSeq(p, 1, cut.at - 1)
             rest  == SubSeq(p, cut.at + cut.width, Len(p))
         IN  IF Contains(frame, "bad")
               THEN [ok |-> FALSE, events |-> <<>>, rest |-> rest]
               ELSE [Drain[rest] EXCEPT !.events =
                       IF Contains(frame, "x") THEN <<frame>> \o @ ELSE @]

\* Mutant: whatever is incomplete at the end of a piece is forgotten, which
\* is how the other providers' branches of the generator read their lines.
Push_PerPiece(pending, bytes) ==
  LET drained == Drain[bytes]
  IN  [ok |-> drained.ok, events |-> drained.events, pending |-> <<>>]

\* push: the limit is on what is left over.  The events found before an error
\* in the same call are lost with it.
Push(pending, bytes) ==
  LET drained == Drain[pending \o bytes]
  IN  [ok      |-> drained.ok /\ Len(drained.rest) <= MaxPendingFrame,
       events  |-> drained.events,
       pending |-> drained.rest]

\* The reference: the same bytes one at a time.
PushEach(pending, bytes) ==
  FoldLeft(LAMBDA done, byte :
             LET r == Push(done.pending, <<byte>>)
             IN  [ok      |-> done.ok /\ r.ok,
                  events  |-> done.events \o r.events,
                  pending |-> r.pending],
           [ok |-> TRUE, events |-> <<>>, pending |-> pending],
           bytes)
=============================================================================
