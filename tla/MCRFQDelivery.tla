--------------------------- MODULE MCRFQDelivery ---------------------------
(* Small instances of RFQDelivery for TLC. *)
EXTENDS RFQDelivery, TLC

CONSTANTS f1, f2, c1, c2, p1, p2, m1, m2, k1, k2, none
=============================================================================
