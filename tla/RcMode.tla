------------------------------- MODULE RcMode -------------------------------
(* enum REPLICAST_MODE, the sockets each of its six relaying modes uses and *)
(* the order in which its rcast function turns to them.                     *)

RxStream == {"inet_in", "inet6_in"}
TxStream == {"inet_out", "inet6_out"}
Stream   == RxStream \cup TxStream  \* index of sock_fds and of pkt_counters

Mode == {"INET_TO_INET", "INET_TO_INET6", "INET_TO_INET_INET6",
         "INET6_TO_INET6", "INET6_TO_INET", "INET6_TO_INET_INET6"}

(* The sockets of a mode, and the order in which its rcast function opens   *)
(* them and then, once a datagram is in, works through them: the source     *)
(* first, inet destinations before inet6 ones, and back to the source.      *)
Rx(m) == IF m \in {"INET_TO_INET", "INET_TO_INET6", "INET_TO_INET_INET6"}
         THEN "inet_in" ELSE "inet6_in"

Tx(m) ==
  {t \in TxStream :
     \/ t = "inet_out"  /\ m \notin {"INET_TO_INET6", "INET6_TO_INET6"}
     \/ t = "inet6_out" /\ m \notin {"INET_TO_INET", "INET6_TO_INET"}}

StreamsOf(m) == {Rx(m)} \cup Tx(m)

(* Seeded error: the second family of a mode is forgotten. *)
AfterInetOnly(m, s) == IF s \in RxStream THEN "inet_out" ELSE Rx(m)

After(m, s) ==
  IF s \in RxStream /\ "inet_out" \in Tx(m) THEN "inet_out"
  ELSE IF s # "inet6_out" /\ "inet6_out" \in Tx(m) THEN "inet6_out"
  ELSE Rx(m)
=============================================================================
