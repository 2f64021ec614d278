---------------------------- MODULE MCNorthbound ----------------------------
(* A finite instance of Northbound.  The constants get their values in the    *)
(* .cfg file; liveness is checked with safety, so no symmetry is declared.    *)
EXTENDS Northbound
=============================================================================
