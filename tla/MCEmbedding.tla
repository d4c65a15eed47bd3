----------------------------- MODULE MCEmbedding -----------------------------
(***************************************************************************)
(* The embedding client on a small instance: a request longer than a batch,  *)
(* one that asks for a text twice, and one that overlaps with both.          *)
(***************************************************************************)
EXTENDS Embedding

CONSTANTS k1, k2, k3

Asked == {<<k1, k2, k3>>, <<k2, k2>>, <<k3, k1>>}
=============================================================================
