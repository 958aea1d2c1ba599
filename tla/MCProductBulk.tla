-------------------------- MODULE MCProductBulk --------------------------
(* Small instances of ProductBulk for TLC. *)
EXTENDS ProductBulk

CONSTANTS p1, p2, r1, r2, e1, e2
=============================================================================
