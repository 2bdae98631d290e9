---------------------------- MODULE SemanticCache ----------------------------
(***************************************************************************)
(* semantic_cache.rs against its table.  A lookup is two queries, either   *)
(* of which may fail and then counts as a miss; a store is a detached task *)
(* with one INSERT ... ON CONFLICT DO NOTHING.  The embedding model is a   *)
(* relation of similar prompts; hit_count, which only the dashboard reads, *)
(* is left out.                                                            *)
(***************************************************************************)
EXTENDS Integers, FiniteSets

CONSTANTS
  Similar(_, _),  \* 1 - (embedding <=> $1) >= SIMILARITY_THRESHOLD
  Enabled         \* the embedding model could be loaded

ASSUME CacheAssumption == Enabled \in BOOLEAN

VARIABLE rows     \* the table: [key, response], its key being unique

CacheInit == rows = {}

\* cache_key_hash, taken to be injective.
CacheKey(q) == [client |-> q.client, model |-> q.model, prompt |-> q.prompt]

ExactHits(q) == {row \in rows : row.key = CacheKey(q)}

\* MUTANT of SimilarHits: the vector query is not scoped to the client.
SimilarHits_AnyClient(q) ==
  {row \in rows : row.key.model = q.model /\ Similar(row.key.prompt, q.prompt)}

\* The rows of the vector query; which one is nearest is left open.
SimilarHits(q) ==
  {row \in rows : /\ row.key.model = q.model /\ row.key.client = q.client
                  /\ Similar(row.key.prompt, q.prompt)}

Insert(q, response) ==
  IF ExactHits(q) = {}
  THEN rows' = rows \union {[key |-> CacheKey(q), response |-> response]}
  ELSE UNCHANGED rows

=============================================================================
