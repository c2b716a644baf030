---------------------------- MODULE MCBackground ----------------------------
(***************************************************************************)
(* The background jobs for TLC: the weekly digest, the follow-up           *)
(* reminders, a webhook and the embeddings. They share nothing, so a       *)
(* behaviour moves one of them, chosen at the start; the others rest in    *)
(* their initial state, where nothing that is fair is enabled.             *)
(***************************************************************************)
EXTENDS Digest, FollowUp, Webhook, Embeddings

VARIABLE focus

MCInit ==
  /\ focus \in {"digest", "followUp", "webhook", "embeddings"}
  /\ DigestInit /\ FollowUpInit /\ WebhookInit /\ EmbeddingsInit

MCNext ==
  /\ UNCHANGED focus
  /\ \/ focus = "digest" /\ DigestNext /\ UNCHANGED <<followUpVars, webhookVars, embeddingsVars>>
     \/ focus = "followUp" /\ FollowUpNext /\ UNCHANGED <<digestVars, webhookVars, embeddingsVars>>
     \/ focus = "webhook" /\ WebhookNext /\ UNCHANGED <<digestVars, followUpVars, embeddingsVars>>
     \/ focus = "embeddings" /\ EmbeddingsNext /\ UNCHANGED <<digestVars, followUpVars, webhookVars>>

mcVars == <<focus, digestVars, followUpVars, webhookVars, embeddingsVars>>

MCSpec == MCInit /\ [][MCNext]_mcVars /\ FollowUpFairness /\ EmbeddingsFairness

BackgroundTypeOK == DigestTypeOK /\ FollowUpTypeOK
=============================================================================
