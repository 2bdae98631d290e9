------------------------------ MODULE MCAnswers ------------------------------
EXTENDS Answers, TLC

CONSTANTS r1, r2, r3

MCRequests == {r1, r2, r3}

Asks(client, model, prompt, cacheable) ==
  [client |-> client, model |-> model, prompt |-> prompt, cacheable |-> cacheable]

\* One question, and what differs from it in one thing each: the wording, the
\* client, the model, a body the key does not describe, no prompt.
MCQuestions ==
  { Asks("alice", "auto", "hi", TRUE),
    Asks("alice", "auto", "hey", TRUE),
    Asks("bob", "auto", "hi", TRUE),
    Asks("alice", "gpt", "hi", TRUE),
    Asks("alice", "auto", "hi", FALSE),
    Asks("alice", "auto", NoPrompt, TRUE) }

MCSimilar(p, q) == p = q \/ {p, q} = {"hi", "hey"}

RequestSymmetry == Permutations(MCRequests)

=============================================================================
