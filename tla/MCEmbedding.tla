---------------------------- MODULE MCEmbedding -----------------------------
(* Bounds for Embedding are given in embedding.cfg.                        *)
EXTENDS Embedding
=============================================================================
