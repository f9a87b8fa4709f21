----------------------------- MODULE Replicator -----------------------------
(* What replicast promises, with none of how it keeps the promise: it takes *)
(* one datagram at a time from its source and hands one copy of it to each  *)
(* of its destinations, each copy exactly once, before it takes the next;   *)
(* a copy the network refuses is given up, never repeated; and it may be    *)
(* stopped between any two steps.  Relay implements this module.            *)
EXTENDS Naturals, FiniteSets

CONSTANTS
  Streams,  \* the sockets a copy can leave by
  Plans     \* the sets of destinations a program can be started with

ASSUME PlansAssumption ==
  \A p \in Plans : IsFiniteSet(p) /\ \A c \in p : c.via \in Streams

VARIABLES
  plan,     \* the destinations of this program, fixed when it starts
  todo,     \* the copies of the current datagram not handed over yet
  received, \* datagrams taken from the source
  copied,   \* copies the network accepted, by socket
  refused,  \* copies it refused, by socket
  stopped   \* the program has ended

vars == <<plan, todo, received, copied, refused, stopped>>

Init ==
  /\ plan \in Plans
  /\ todo = {}
  /\ received = 0
  /\ copied = [s \in Streams |-> 0]
  /\ refused = [s \in Streams |-> 0]
  /\ stopped = FALSE

(* Seeded error: whoever any program was started for is served. *)
AcceptForAll ==
  /\ ~stopped
  /\ todo = {}
  /\ todo' = UNION Plans
  /\ received' = received + 1
  /\ UNCHANGED <<plan, copied, refused, stopped>>

Accept ==
  /\ ~stopped
  /\ todo = {}
  /\ todo' = plan
  /\ received' = received + 1
  /\ UNCHANGED <<plan, copied, refused, stopped>>

(* A copy is handed to the network, which accepts or refuses it.  Seeded    *)
(* errors: it stays on the list; the last one is never handed over.         *)
Handed(c) ==
  \/ copied' = [copied EXCEPT ![c.via] = @ + 1] /\ UNCHANGED refused
  \/ refused' = [refused EXCEPT ![c.via] = @ + 1] /\ UNCHANGED copied

CopyKept(c) ==
  /\ ~stopped
  /\ c \in todo
  /\ Handed(c)
  /\ UNCHANGED <<plan, todo, received, stopped>>

CopyButLast(c) ==
  /\ ~stopped
  /\ c \in todo /\ todo # {c}
  /\ todo' = todo \ {c}
  /\ Handed(c)
  /\ UNCHANGED <<plan, received, stopped>>

Copy(c) ==
  /\ ~stopped
  /\ c \in todo
  /\ todo' = todo \ {c}
  /\ Handed(c)
  /\ UNCHANGED <<plan, received, stopped>>

CopyOne == \E c \in todo : Copy(c)

Stop ==
  /\ ~stopped
  /\ stopped' = TRUE
  /\ UNCHANGED <<plan, todo, received, copied, refused>>

Next == Accept \/ CopyOne \/ Stop

Spec == Init /\ [][Next]_vars

(* A datagram that was taken is not abandoned half-copied. *)
LiveSpec == Spec /\ WF_vars(CopyOne)

-----------------------------------------------------------------------------
TypeOK ==
  /\ plan \in Plans
  /\ todo \subseteq plan
  /\ received \in Nat
  /\ copied \in [Streams -> Nat] /\ refused \in [Streams -> Nat]
  /\ stopped \in BOOLEAN

Of(copies, s) == Cardinality({c \in copies : c.via = s})

(* No destination is offered a datagram twice, and none is left out: the    *)
(* copies offered by a socket and those that still will be are what the     *)
(* datagrams taken call for.                                                *)
ExactlyOnce ==
  \A s \in Streams :
    copied[s] + refused[s] + Of(todo, s) = received * Of(plan, s)

(* A datagram in hand is dealt with, unless the program is stopped. *)
TakenIsFinished == (todo # {}) ~> (todo = {} \/ stopped)
=============================================================================
