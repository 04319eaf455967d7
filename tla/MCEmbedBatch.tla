---------------------------- MODULE MCEmbedBatch ----------------------------
(* Instances of EmbedBatch for TLC. *)
EXTENDS EmbedBatch, TLC

CONSTANTS b1, b2, b3, k1, k2

(* A batch that shares each of its keys with another batch. *)
Bridge == (b1 :> {k1}) @@ (b2 :> {k1, k2}) @@ (b3 :> {k1, k2})
=============================================================================
