--------------------------- MODULE MCBlockingRing ---------------------------
(* Instances of BlockingRing for TLC. *)
EXTENDS BlockingRing
=============================================================================
