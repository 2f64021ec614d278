------------------------------ MODULE MCStream ------------------------------
(* Finite instances of Stream.  The constants get their values in the .cfg    *)
(* files; liveness is checked with safety, so no symmetry is declared.        *)
EXTENDS Stream
=============================================================================
