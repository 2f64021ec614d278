------------------------------ MODULE MCBroker ------------------------------
(* Finite instances of Broker.  The constants get their values in the .cfg    *)
(* files; liveness is checked with safety, so no symmetry is declared.        *)
EXTENDS Broker
=============================================================================
