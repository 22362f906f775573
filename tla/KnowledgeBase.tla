----------------------------- MODULE KnowledgeBase -----------------------------
(***************************************************************************)
(* The knowledge base of one tenant: ingest and query                      *)
(* (app/knowledge/router.py) and both back ends of top_k                   *)
(* (app/knowledge/vector_store.py).  An action is a call of the gateway or *)
(* a transaction; other requests run in between.                           *)
(*                                                                         *)
(* Everyone asks the same question, and a chunk is named by its place in   *)
(* the order of similarity to it: chunk 1 is the best.  That order holds   *)
(* among embeddings of one model.  Embeddings of two models of the same    *)
(* length compare in any way; of different lengths, not at all.            *)
(***************************************************************************)
EXTENDS AIGateway, Integers, FiniteSets

CONSTANTS
  Query,        \* requests to /knowledge/ingest and /knowledge/query
  Area,         \* departments clients name
  KeySets,      \* which API keys a deployment may have
  Ks,           \* the k a client may ask for: any integer is accepted
  MaxChunks,    \* bound: chunks
  EfSearch      \* hnsw.ef_search: candidates an index scan looks at

ASSUME KnowledgeAssumption ==
  /\ Ks \subseteq Int /\ MaxChunks \in Nat /\ EfSearch \in Nat
  /\ KeySets \subseteq SUBSET Provider

VARIABLES
  setup,    \* the deployment: keys, back end, does the local model ever fail, and
            \* how many vectors other tenants have
  chunks,   \* table knowledge_chunks
  rag       \* the requests

kbVars == <<setup, chunks, rag>>

Rank == 1..MaxChunks
Anywhere == "anywhere"      \* a query that names no department
General == "general"        \* where a chunk goes that is given none
ColumnDimension == 768      \* embedding_vector vector(768)

Setup == [keys : KeySets, pgvector : BOOLEAN, steady : BOOLEAN, others : {0, EfSearch}]

NoChunk == [there |-> FALSE, area |-> Anywhere, space |-> NoAnswer, vector |-> FALSE]
Chunk == [there : BOOLEAN, area : Area \cup {General, Anywhere}, space : Embedders \cup {NoAnswer},
          vector : BOOLEAN]

NewRequest == [pc |-> "new", op |-> "none", area |-> Anywhere, space |-> NoAnswer, k |-> 0,
               chunk |-> 0, before |-> {}, exact |-> FALSE, status |-> 0, found |-> <<>>]

KnowledgeTypeOK ==
  /\ setup \in Setup
  /\ chunks \in [Rank -> Chunk]
  /\ \A c \in Rank : chunks[c].vector => Dimension[chunks[c].space] = ColumnDimension
  /\ \A q \in Query :
       /\ rag[q].pc \in {"new", "insert", "vector", "audit", "search", "done", "cut"}
       /\ rag[q].op \in {"none", "ingest", "query"}
       /\ rag[q].status \in {0, 200, 201, 500, 503}
       /\ rag[q].before \subseteq Rank
       /\ rag[q].chunk \in 0..MaxChunks
       /\ rag[q].found \in Seq(Rank)

KnowledgeInit ==
  /\ setup \in {s \in Setup : s.pgvector \/ s.others = 0}     \* memory has no shared index
  /\ chunks = [c \in Rank |-> NoChunk]
  /\ rag = [q \in Query |-> NewRequest]

--------------------------------------------------------------------------------
\* top_k

FiledUnder(area) == {c \in Rank : chunks[c].there /\ area \in {Anywhere, chunks[c].area}}
Vectors == {c \in Rank : chunks[c].vector}
ColumnSize == Cardinality(Vectors) + setup.others

\* The orders the scores of rows, against a question embedded in space, may give.
Rankings(rows, space) ==
  {r \in [1..Cardinality(rows) -> rows] :
     \A i, j \in DOMAIN r : i < j =>
       /\ r[i] # r[j]
       /\ chunks[r[i]].space = space /\ chunks[r[j]].space = space => r[i] < r[j]}

\* Python's seq[:k]: a negative k counts from the end.
Slice(seq, k) ==
  LET n == IF k < 0 THEN Len(seq) + k ELSE k
  IN SubSeq(seq, 1, IF n > Len(seq) THEN Len(seq) ELSE n)

Failed == [status |-> 500, found |-> <<>>]
Found(rows) == [status |-> 200, found |-> rows]

\* Every chunk of the area is scored; cosine_similarity raises on two lengths.
MemoryTopK(space, k, area) ==
  LET rows == FiledUnder(area)
  IN IF \E c \in rows : Dimension[chunks[c].space] # Dimension[space]
     THEN {Failed}
     ELSE {Found(Slice(r, k)) : r \in Rankings(rows, space)}

\* The rows a plan lets through to the WHERE clause: all, or what the index comes up
\* with, which is all of them only while the column is small.
Candidates ==
  IF ColumnSize <= EfSearch THEN {Vectors}
  ELSE {Vectors} \cup {some \in SUBSET Vectors : Cardinality(some) <= EfSearch}

\* The rows come in the order of the first select; the second, by id, always finds
\* them: no code deletes a chunk.  LIMIT refuses a negative number.  Vectors of two
\* lengths cannot be compared, once there is one to compare with.
PgvectorTopK(space, k, area) ==
  LET rows == FiledUnder(area) \cap Vectors
  IN IF k < 0 THEN {Failed}
     ELSE IF Dimension[space] # ColumnDimension
     THEN (IF ColumnSize > 0 THEN {Failed} ELSE {}) \cup (IF rows = {} THEN {Found(<<>>)} ELSE {})
     ELSE UNION {{Found(Slice(r, k)) : r \in Rankings(rows \cap some, space)} : some \in Candidates}

TopK(space, k, area) ==
  IF setup.pgvector THEN PgvectorTopK(space, k, area) ELSE MemoryTopK(space, k, area)

--------------------------------------------------------------------------------
\* ingest

\* The chunks whose ingest has answered 201.
Stored == {rag[q].chunk : q \in {p \in Query : rag[p].status = 201}}

BeginIngest(q) ==
  /\ rag[q].pc = "new"
  /\ \E area \in Area \cup {General}, space \in EmbedOutcomes(setup.keys, setup.steady) :
       rag' = [rag EXCEPT ![q] =
                IF space = NoAnswer
                THEN [NewRequest EXCEPT !.op = "ingest", !.pc = "done", !.status = 503]
                ELSE [NewRequest EXCEPT !.op = "ingest", !.pc = "insert",
                                        !.area = area, !.space = space]]
  /\ UNCHANGED <<setup, chunks>>

InsertChunk(q) ==
  /\ rag[q].pc = "insert"
  /\ \E c \in {d \in Rank : ~chunks[d].there} :
       /\ chunks' = [chunks EXCEPT ![c] = [there |-> TRUE, area |-> rag[q].area,
                                           space |-> rag[q].space, vector |-> FALSE]]
       /\ rag' = [rag EXCEPT ![q].chunk = c,
                             ![q].pc = IF setup.pgvector THEN "vector" ELSE "audit"]
  /\ UNCHANGED setup

\* Mutant: the vector goes into a column of any length.
SaveAnyVector(q) ==
  /\ rag[q].pc = "vector"
  /\ chunks' = [chunks EXCEPT ![rag[q].chunk].vector = TRUE]
  /\ rag' = [rag EXCEPT ![q].pc = "audit"]
  /\ UNCHANGED setup

\* Mutant: the tenant context went with the first commit, and the update hits no row.
SaveVectorWithoutContext(q) ==
  /\ rag[q].pc = "vector"
  /\ IF Dimension[rag[q].space] = ColumnDimension
     THEN rag' = [rag EXCEPT ![q].pc = "audit"]
     ELSE rag' = [rag EXCEPT ![q].pc = "done", ![q].status = 500]
  /\ UNCHANGED <<setup, chunks>>

\* The second transaction: a vector of another length is an error, and the chunk
\* stays without one, and without its audit entry.
SaveVector(q) ==
  /\ rag[q].pc = "vector"
  /\ IF Dimension[rag[q].space] = ColumnDimension
     THEN /\ chunks' = [chunks EXCEPT ![rag[q].chunk].vector = TRUE]
          /\ rag' = [rag EXCEPT ![q].pc = "audit"]
     ELSE /\ rag' = [rag EXCEPT ![q].pc = "done", ![q].status = 500]
          /\ UNCHANGED chunks
  /\ UNCHANGED setup

AuditIngest(q) ==
  /\ rag[q].pc = "audit"
  /\ rag' = [rag EXCEPT ![q].pc = "done", ![q].status = 201]
  /\ UNCHANGED <<setup, chunks>>

--------------------------------------------------------------------------------
\* query

BeginQuery(q) ==
  /\ rag[q].pc = "new"
  /\ \E area \in Area \cup {Anywhere}, k \in Ks,
        space \in EmbedOutcomes(setup.keys, setup.steady) :
       rag' = [rag EXCEPT ![q] =
                IF space = NoAnswer
                THEN [NewRequest EXCEPT !.op = "query", !.pc = "done", !.status = 503]
                ELSE [NewRequest EXCEPT !.op = "query", !.pc = "search",
                                        !.area = area, !.space = space, !.k = k,
                                        !.before = Stored \cap FiledUnder(area)]]
  /\ UNCHANGED <<setup, chunks>>

Search(q) ==
  /\ rag[q].pc = "search"
  /\ \E outcome \in TopK(rag[q].space, rag[q].k, rag[q].area) :
       rag' = [rag EXCEPT ![q].pc = "done", ![q].status = outcome.status,
                          ![q].found = outcome.found,
                          ![q].exact = ~setup.pgvector \/ ColumnSize <= EfSearch]
  /\ UNCHANGED <<setup, chunks>>

\* The request stops between two awaits: its client goes away, the process dies.
CutQuery(q) ==
  /\ rag[q].pc \in {"insert", "vector", "audit", "search"}
  /\ rag' = [rag EXCEPT ![q] = [NewRequest EXCEPT !.pc = "cut"]]
  /\ UNCHANGED <<setup, chunks>>

KnowledgeStep(q) ==
  \/ BeginIngest(q) \/ InsertChunk(q) \/ SaveVector(q) \/ AuditIngest(q)
  \/ BeginQuery(q) \/ Search(q) \/ CutQuery(q)

KnowledgeNext == \E q \in Query : KnowledgeStep(q)

KnowledgeSpec == KnowledgeInit /\ [][KnowledgeNext]_kbVars

--------------------------------------------------------------------------------

\* The listed chunks in the question's own space.
Comparable(q, c) == chunks[c].space = rag[q].space
Listed(q) == {rag[q].found[i] : i \in DOMAIN rag[q].found}

\* An answered query goes from near to far and lists no more than k, whichever back end
\* serves it, however crowded the index and whatever is being ingested meanwhile.  While
\* the index has no more vectors than it looks at, a chunk stored when the query began is
\* missing only if none that is listed is known to be farther, and k are: a negative k
\* cuts the list at its far end.
BestOfWhatWasStored ==
  \A q \in Query : rag[q].op = "query" /\ rag[q].status = 200 =>
    /\ \A i, j \in DOMAIN rag[q].found :
         i < j /\ Comparable(q, rag[q].found[i]) /\ Comparable(q, rag[q].found[j]) =>
           rag[q].found[i] < rag[q].found[j]
    /\ rag[q].k >= 0 => Len(rag[q].found) <= rag[q].k
    /\ rag[q].exact => \A c \in rag[q].before \ Listed(q) :
         /\ rag[q].k >= 0 => Len(rag[q].found) = rag[q].k
         /\ \A f \in Listed(q) : Comparable(q, c) /\ Comparable(q, f) => f < c

\* While the local model never fails, no ingest and no query breaks: embeddings of two
\* lengths come only from falling back.  (A negative k is the one other way to break.)
SteadySearchNeverBreaks ==
  setup.steady => \A q \in Query : rag[q].status \in {500, 503} => rag[q].k < 0
================================================================================
