----------------------------- MODULE Embeddings -----------------------------
(***************************************************************************)
(* Embeddings of the jobs table, for semantic matching. The discovery      *)
(* service calls EmbedNewJobs when it starts and every five minutes, the   *)
(* Lambda after each of its runs: both read a list of rows without an      *)
(* embedding, ask the AI service for the vectors, and write them back one  *)
(* by one, while discovery runs insert rows and rewrite their text.        *)
(***************************************************************************)
EXTENDS Naturals, FiniteSets

CONSTANTS
  Jobs,         \* rows of the jobs table
  Wordings,     \* descriptions that are not empty
  Embedders,    \* the service's ticker and the Lambda
  EmbedLimit    \* LIMIT of the query (100 in the code)

ASSUME EmbeddingsAssumption ==
  /\ IsFiniteSet(Jobs) /\ EmbedLimit \in Nat \ {0}
  /\ Wordings \cap {"norow", "empty", "null"} = {}

VARIABLES
  description,  \* jobs.description: "norow", "empty" or a wording
  embedding,    \* jobs.embedding: "null" or the wording it was made of
  embedder,     \* embedder[e]: idle, waiting for the AI service, or writing
  batch         \* batch[e]: the rows it read, each with the wording it had

embeddingsVars == <<description, embedding, embedder, batch>>

Read == [job : Jobs, text : Wordings]

EmbeddingsInit ==
  /\ description = [j \in Jobs |-> "norow"]
  /\ embedding = [j \in Jobs |-> "null"]
  /\ embedder = [e \in Embedders |-> "idle"]
  /\ batch = [e \in Embedders |-> {}]

(* BulkUpsert: the description is replaced, by an empty one too; the        *)
(* embedding is left as it is.                                              *)
Rewrite(j, text) ==
  /\ description' = [description EXCEPT ![j] = text]
  /\ UNCHANGED <<embedding, embedder, batch>>

(* Mutant: the query does not leave out the rows that have one.             *)
MissingAny == {j \in Jobs : description[j] \in Wordings}

Missing == {j \in Jobs : description[j] \in Wordings /\ embedding[j] = "null"}

(* The newest rows come first; which rows are the newest is left open.      *)
ReadBatch(e) ==
  /\ embedder[e] = "idle" /\ Missing # {}
  /\ \E S \in SUBSET Missing :
       /\ Cardinality(S) = EmbedLimit \/ (Cardinality(S) < EmbedLimit /\ S = Missing)
       /\ batch' = [batch EXCEPT ![e] = {[job |-> j, text |-> description[j]] : j \in S}]
  /\ embedder' = [embedder EXCEPT ![e] = "waiting"]
  /\ UNCHANGED <<description, embedding>>

(* EmbedBatch fails: the batch is given up, the next tick reads it again.   *)
ServiceFails(e) ==
  /\ embedder[e] = "waiting"
  /\ embedder' = [embedder EXCEPT ![e] = "idle"]
  /\ batch' = [batch EXCEPT ![e] = {}]
  /\ UNCHANGED <<description, embedding>>

ServiceAnswers(e) ==
  /\ embedder[e] = "waiting"
  /\ embedder' = [embedder EXCEPT ![e] = "writing"]
  /\ UNCHANGED <<description, embedding, batch>>

(* One UPDATE per row; an error is logged and the loop goes on.             *)
StoreNext(e, ok) ==
  /\ embedder[e] = "writing"
  /\ \E b \in batch[e] :
       /\ batch' = [batch EXCEPT ![e] = @ \ {b}]
       /\ embedding' = IF ok THEN [embedding EXCEPT ![b.job] = b.text] ELSE embedding
       /\ embedder' = [embedder EXCEPT ![e] = IF batch[e] = {b} THEN "idle" ELSE "writing"]
  /\ UNCHANGED description

EmbeddingsNext ==
  \/ \E j \in Jobs, text \in Wordings \cup {"empty"} : Rewrite(j, text)
  \/ \E e \in Embedders :
       ReadBatch(e) \/ ServiceFails(e) \/ ServiceAnswers(e) \/ \E ok \in BOOLEAN : StoreNext(e, ok)

(* The ticker goes on, the AI service is not down for ever, and so are the  *)
(* rows not refused for ever.                                               *)
EmbeddingsFairness ==
  \A e \in Embedders :
    /\ WF_embeddingsVars(ReadBatch(e)) /\ SF_embeddingsVars(ServiceAnswers(e))
    /\ SF_embeddingsVars(StoreNext(e, TRUE))

EmbeddingsSpec == EmbeddingsInit /\ [][EmbeddingsNext]_embeddingsVars /\ EmbeddingsFairness

-----------------------------------------------------------------------------
(* A posting that keeps a description is embedded in the end, although the  *)
(* AI service fails again and again, rows are refused and others are added: *)
(* the rows at the head of the list leave it, so each batch gets further.   *)
DescribedGetsEmbedded ==
  \A j \in Jobs :
    description[j] \in Wordings ~> embedding[j] # "null" \/ description[j] = "empty"
=============================================================================
