------------------------------ MODULE MCRelay ------------------------------
(* Values of Relay's constants for TLC. *)
EXTENDS RelayInvariant

AllModes   == Mode
DualModes  == {"INET_TO_INET_INET6", "INET6_TO_INET_INET6"}
SomeModes  == {"INET_TO_INET_INET6", "INET6_TO_INET"}
OneMode    == {"INET_TO_INET"}
Foreground == {FALSE}
AsDaemon   == {TRUE}
TwoAndOne  == [t \in TxStream |-> IF t = "inet_out" THEN 2 ELSE 1]
OneAndTwo  == [t \in TxStream |-> IF t = "inet_out" THEN 1 ELSE 2]
OneEach    == [t \in TxStream |-> 1]
=============================================================================
