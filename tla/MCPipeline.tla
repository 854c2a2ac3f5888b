----------------------------- MODULE MCPipeline -----------------------------
(* Batches of up to three requests: a denied item before, between and after *)
(* forwarded ones.                                                          *)
EXTENDS Pipeline
=============================================================================
