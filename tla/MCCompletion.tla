---------------------------- MODULE MCCompletion ----------------------------
(* Instances of Completion for TLC. *)
EXTENDS Completion, TLC

CONSTANTS p1, p2, r1, r2, r3

(* Two requests of one replica and one of a peer. *)
SharedHome == (r1 :> p1) @@ (r2 :> p1) @@ (r3 :> p2)

OneReplica == (r1 :> p1) @@ (r2 :> p1) @@ (r3 :> p1)
=============================================================================
