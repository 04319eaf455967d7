--------------------------- MODULE MCExpiringStore ---------------------------
(* An instance of ExpiringStore for TLC. *)
EXTENDS ExpiringStore, TLC

CONSTANTS p1, p2, d1, r1, r2

Twins == Permutations({p1, p2}) \cup Permutations({r1, r2})
=============================================================================
