----------------------------- MODULE MCCoalesce -----------------------------
(* Instances of Coalesce for TLC. *)
EXTENDS Coalesce, TLC

CONSTANTS p1, p2, p3, r1, r2, r3

(* Two runs share a replica, a third is a peer's. *)
SharedHome == (r1 :> p1) @@ (r2 :> p1) @@ (r3 :> p2)

(* Three replicas with a run each. *)
OneRunEach == (r1 :> p1) @@ (r2 :> p2) @@ (r3 :> p3)
=============================================================================
