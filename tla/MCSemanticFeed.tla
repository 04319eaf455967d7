--------------------------- MODULE MCSemanticFeed ---------------------------
(* Instances of SemanticFeed for TLC. *)
EXTENDS SemanticFeed, TLC

CONSTANTS p1, p2, k1, k2, t1, t2

(* A completion on one replica and a DELETE of the same key on the other. *)
Homes == (t1 :> p1) @@ (t2 :> p2)

Targets == (t1 :> k1) @@ (t2 :> k1)

(* Both keys have vectors: the completion may find its own or its neighbour's. *)
TwoVectors == <<[op |-> "put", key |-> k1], [op |-> "put", key |-> k2]>>
=============================================================================
