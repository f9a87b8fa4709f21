---------------------------- MODULE MCReplicator ----------------------------
(* Replicator by itself, for a bounded number of datagrams. *)
EXTENDS Replicator

CONSTANT MaxReceived  \* bound: datagrams taken from the source

TwoStreams == {"inet_out", "inet6_out"}

Dest(s, n) == [via |-> s, to |-> n]

SomePlans ==
  {{Dest("inet_out", 1)},
   {Dest("inet_out", 1), Dest("inet_out", 2)},
   {Dest("inet_out", 1), Dest("inet_out", 2), Dest("inet6_out", 1)}}

BoundedSpec ==
  Init /\ [][Next /\ received' <= MaxReceived]_vars /\ WF_vars(CopyOne)
=============================================================================
