-------------------------- MODULE ReplicatorProofs --------------------------
(* Replicator keeps its promise, for any sockets and any finite sets of     *)
(* destinations to start with.                                              *)
EXTENDS Replicator, FiniteSetTheorems, TLAPS

(* Taking one copy off a list takes it off the count of its own socket and  *)
(* of no other.                                                             *)
LEMMA OfWithout ==
  ASSUME NEW copies, IsFiniteSet(copies), NEW c \in copies, NEW s
  PROVE  /\ Of(copies, s) \in Nat
         /\ Of(copies \ {c}, s) = IF c.via = s THEN Of(copies, s) - 1 ELSE Of(copies, s)
<1> DEFINE mine == {d \in copies : d.via = s}
<1>1. IsFiniteSet(mine) /\ Cardinality(mine) \in Nat
  BY FS_Subset, FS_CardinalityType
<1>2. CASE c.via = s
  <2>1. {d \in copies \ {c} : d.via = s} = mine \ {c} /\ c \in mine
    BY <1>2
  <2>2. Cardinality(mine \ {c}) = Cardinality(mine) - 1
    BY <1>1, <2>1, FS_RemoveElement
  <2>3. QED
    BY <1>1, <1>2, <2>1, <2>2 DEF Of
<1>3. CASE c.via # s
  <2>1. {d \in copies \ {c} : d.via = s} = mine
    BY <1>3
  <2>2. QED
    BY <1>1, <1>3, <2>1 DEF Of
<1>4. QED
  BY <1>2, <1>3

(* The variables of Replicator keep their types. *)
THEOREM TypesKept == Spec => []TypeOK
<1>1. Init => TypeOK
  <2> SUFFICES ASSUME Init PROVE TypeOK
    OBVIOUS
  <2>1. copied \in [Streams -> Nat] /\ refused \in [Streams -> Nat]
    BY DEF Init
  <2>2. QED
    BY <2>1 DEF Init, TypeOK
<1>2. TypeOK /\ [Next]_vars => TypeOK'
  <2> SUFFICES ASSUME TypeOK, [Next]_vars PROVE TypeOK'
    OBVIOUS
  <2>1. CASE Accept
    BY <2>1 DEF Accept, TypeOK
  <2>2. ASSUME NEW c \in todo, Copy(c) PROVE TypeOK'
    <3>1. c.via \in Streams
      BY PlansAssumption DEF TypeOK
    <3>2. QED
      BY <2>2, <3>1 DEF Copy, Handed, TypeOK
  <2>3. CASE Stop
    BY <2>3 DEF Stop, TypeOK
  <2>4. CASE UNCHANGED vars
    BY <2>4 DEF vars, TypeOK
  <2>5. QED
    BY <2>1, <2>2, <2>3, <2>4 DEF Next, CopyOne
<1>3. QED
  BY <1>1, <1>2, PTL DEF Spec

(* However many destinations there are by each socket, the copies offered   *)
(* and those outstanding are one per destination and datagram taken.        *)
THEOREM OneCopyEach == Spec => []ExactlyOnce
<1>1. Init => ExactlyOnce
  <2> SUFFICES ASSUME Init, NEW s \in Streams
               PROVE  copied[s] + refused[s] + Of(todo, s) = received * Of(plan, s)
    BY DEF ExactlyOnce
  <2>1. Of(todo, s) = 0
    <3>1. {c \in todo : c.via = s} = {}
      BY DEF Init
    <3>2. QED
      BY <3>1, FS_EmptySet DEF Of
  <2>2. IsFiniteSet(plan)
    BY PlansAssumption DEF Init
  <2>3. Of(plan, s) \in Nat
    BY <2>2, FS_Subset, FS_CardinalityType DEF Of
  <2>4. QED
    BY <2>1, <2>3 DEF Init
<1>2. TypeOK /\ TypeOK' /\ ExactlyOnce /\ [Next]_vars => ExactlyOnce'
  <2> SUFFICES ASSUME TypeOK, TypeOK', ExactlyOnce, [Next]_vars, NEW s \in Streams
               PROVE  copied'[s] + refused'[s] + Of(todo', s) = received' * Of(plan', s)
    BY DEF ExactlyOnce, Of
  <2>1. copied[s] + refused[s] + Of(todo, s) = received * Of(plan, s)
    BY DEF ExactlyOnce
  <2>2. IsFiniteSet(plan) /\ IsFiniteSet(todo)
    BY PlansAssumption, FS_Subset DEF TypeOK
  <2>3. Of(plan, s) \in Nat /\ Of(todo, s) \in Nat
    BY <2>2, FS_Subset, FS_CardinalityType DEF Of
  <2>4. CASE Accept
    <3>1. Of(todo, s) = 0 /\ todo' = plan /\ plan' = plan
      <4>1. {c \in todo : c.via = s} = {}
        BY <2>4 DEF Accept
      <4>2. QED
        BY <2>4, <4>1, FS_EmptySet DEF Accept, Of
    <3>2. received \in Nat /\ received' = received + 1
      BY <2>4 DEF Accept, TypeOK
    <3>3. /\ copied[s] \in Nat /\ refused[s] \in Nat
          /\ copied' = copied /\ refused' = refused
      BY <2>4 DEF Accept, TypeOK
    <3>4. (received + 1) * Of(plan, s) = received * Of(plan, s) + Of(plan, s)
      BY <2>3, <3>2
    <3>5. QED
      BY <2>1, <2>3, <3>1, <3>2, <3>3, <3>4
  <2>5. ASSUME NEW c \in todo, Copy(c)
        PROVE  copied'[s] + refused'[s] + Of(todo', s) = received' * Of(plan', s)
    <3>1. Of(todo', s) = IF c.via = s THEN Of(todo, s) - 1 ELSE Of(todo, s)
      BY <2>2, <2>5, OfWithout DEF Copy
    <3>2. /\ copied[s] \in Nat /\ refused[s] \in Nat
          /\ copied'[s] + refused'[s] = IF c.via = s THEN copied[s] + refused[s] + 1
                                                   ELSE copied[s] + refused[s]
      BY <2>5 DEF Copy, Handed, TypeOK
    <3>3. received' = received /\ plan' = plan
      BY <2>5 DEF Copy
    <3>4. copied'[s] \in Nat /\ refused'[s] \in Nat
      BY DEF TypeOK
    <3>5. copied'[s] + refused'[s] + Of(todo', s) = copied[s] + refused[s] + Of(todo, s)
      BY <2>3, <3>1, <3>2, <3>4
    <3>6. QED
      BY <2>1, <3>3, <3>5
  <2>6. CASE Stop
    BY <2>1, <2>6 DEF Stop
  <2>7. CASE UNCHANGED vars
    BY <2>1, <2>7 DEF vars
  <2>8. QED
    BY <2>4, <2>5, <2>6, <2>7 DEF Next, CopyOne
<1>3. QED
  BY <1>1, <1>2, TypesKept, PTL DEF Spec
=============================================================================
