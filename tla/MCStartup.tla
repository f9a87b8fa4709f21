----------------------------- MODULE MCStartup -----------------------------
(* Values of Startup's constants for TLC. *)
EXTENDS StartupInvariant

OneEach == [t \in TxStream |-> 1]
=============================================================================
