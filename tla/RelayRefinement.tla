-------------------------- MODULE RelayRefinement --------------------------
(* Relay implements Replicator: between recv() and the return of the last   *)
(* tx_rcast call, the copies still to be made are those from sa_dest on in  *)
(* the family being served, and all of those of the family after it.        *)
EXTENDS Relay

CopiesOf(t) == {[via |-> t, to |-> i] : i \in 1..Fanout[t]}

PlanOf(m) == UNION {CopiesOf(t) : t \in Tx(m)}

CopiesLeft ==
  CASE pc["main"] = "count_in" -> PlanOf(rc_mode)
    [] pc["main"] = "send" ->
         {c \in PlanOf(rc_mode) :
            \/ c.via = stream /\ c.to > sa_dest
            \/ c.via # stream /\ stream = "inet_out"}
    [] OTHER -> {}

R == INSTANCE Replicator WITH
       Streams  <- TxStream,
       Plans    <- {PlanOf(m) : m \in Modes},
       plan     <- PlanOf(rc_mode),
       todo     <- CopiesLeft,
       received <- wire[Rx(rc_mode)],
       copied   <- [t \in TxStream |-> wire[t]],
       refused  <- refused,
       stopped  <- exited # "no"

(* What is promised to whoever runs replicast: one datagram at a time, each *)
(* copied exactly once to each destination before the next is taken, and    *)
(* nothing started that is not finished unless the program is ended.        *)
Replicates == R!LiveSpec

(* The same without the promise to finish: no step of the program does      *)
(* anything to the traffic but take a datagram when none is in hand, offer  *)
(* one outstanding copy, or stop.                                           *)
ReplicatesSafely == R!Spec
=============================================================================
