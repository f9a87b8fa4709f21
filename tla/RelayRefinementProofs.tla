----------------------- MODULE RelayRefinementProofs -----------------------
(* Relay implements Replicator, and its handlers leave main's work alone,   *)
(* for every set of modes, every fan-out and every number of signals.       *)
EXTENDS RelayProofs

(* SIGUSR1 and SIGUSR2, the only handlers that return, ask for SA_RESTART.  *)
LEMMA NoCopyLost ==
  ASSUME Places, NEW s \in Sig, Return(s) PROVE ~CopyLost(s)
BY DEF Places, Return, At, CopyLost, SaFlags, Sig, Exiting

(* No step of a handler touches the stream, the destination, the tally or   *)
(* the counters that main is working with.                                  *)
LEMMA HandlersStep ==
  Places /\ [Next]_vars =>
    (running # "main" => UNCHANGED <<stream, sa_dest, tx_success, refused, counts>>)
<1> SUFFICES ASSUME Places, [Next]_vars, running # "main"
             PROVE  UNCHANGED <<stream, sa_dest, tx_success, refused, counts>>
  OBVIOUS
<1> USE DEF vars, proc, frames, sigs, fds, copies, counts, At
<1>1. ASSUME NEW c \in Ctx, LogEnter(c)
      PROVE  UNCHANGED <<stream, sa_dest, tx_success, refused, counts>>
  BY <1>1 DEF LogEnter
<1>2. ASSUME NEW c \in Ctx, LogLeave(c)
      PROVE  UNCHANGED <<stream, sa_dest, tx_success, refused, counts>>
  BY <1>2 DEF LogLeave
<1>3. ASSUME NEW c \in Ctx, Exit(c)
      PROVE  UNCHANGED <<stream, sa_dest, tx_success, refused, counts>>
  BY <1>3 DEF Exit
<1>4. ASSUME NEW fd \in 0..MaxFd, Socket(fd)
      PROVE  UNCHANGED <<stream, sa_dest, tx_success, refused, counts>>
  BY <1>4 DEF Socket
<1>5. CASE OpenFails
  BY <1>5 DEF OpenFails
<1>6. CASE Configured
  BY <1>6 DEF Configured
<1>7. CASE Recv
  BY <1>7 DEF Recv
<1>8. CASE RecvEmpty
  BY <1>8 DEF RecvEmpty
<1>9. CASE CountIn
  BY <1>9 DEF CountIn
<1>10. ASSUME NEW ok \in BOOLEAN, Sendto(ok)
      PROVE  UNCHANGED <<stream, sa_dest, tx_success, refused, counts>>
  BY <1>10 DEF Sendto
<1>11. CASE TxDone
  BY <1>11 DEF TxDone
<1>12. ASSUME NEW s \in Sig, Kill(s)
      PROVE  UNCHANGED <<stream, sa_dest, tx_success, refused, counts>>
  BY <1>12 DEF Kill
<1>13. ASSUME NEW s \in Sig, Deliver(s)
      PROVE  UNCHANGED <<stream, sa_dest, tx_success, refused, counts>>
  BY <1>13 DEF Deliver
<1>14. ASSUME NEW s \in Sig, Return(s)
      PROVE  UNCHANGED <<stream, sa_dest, tx_success, refused, counts>>
  BY <1>14, NoCopyLost DEF Return
<1>15. ASSUME NEW s \in Sig, CloseSockets(s)
      PROVE  UNCHANGED <<stream, sa_dest, tx_success, refused, counts>>
  BY <1>15 DEF CloseSockets
<1>16. ASSUME NEW s \in Sig, CleanupProgParms(s)
      PROVE  UNCHANGED <<stream, sa_dest, tx_success, refused, counts>>
  BY <1>16 DEF CleanupProgParms
<1>17. CASE UNCHANGED vars
  BY <1>17
<1>18. QED
  BY <1>1, <1>2, <1>3, <1>4, <1>5, <1>6, <1>7, <1>8, <1>9, <1>10, <1>11, <1>12,
     <1>13, <1>14, <1>15, <1>16, <1>17
  DEF Next, Progress, RecvError, Terminated

(* Wherever a signal falls, main goes on as if it had not been interrupted. *)
THEOREM HandlersInvisible == Spec => HandlersPreserveMain
<1>1. IInv /\ [Next]_vars =>
        [running # "main" => UNCHANGED <<stream, sa_dest, tx_success, refused, counts>>]_vars
  BY HandlersStep DEF IInv
<1>2. QED
  BY <1>1, InvariantHolds, PTL DEF Spec, HandlersPreserveMain

-----------------------------------------------------------------------------
(* The steps that change nothing Replicator sees. *)
LEMMA SameCopies ==
  UNCHANGED <<rc_mode, pc["main"], stream, sa_dest>> => UNCHANGED CopiesLeft
BY DEF CopiesLeft, PlanOf, CopiesOf

(* The program starts as Replicator does: nothing in hand, nothing counted. *)
LEMMA RefinementInit == Init => R!Init
<1> SUFFICES ASSUME Init PROVE R!Init
  OBVIOUS
<1>1. PlanOf(rc_mode) \in {PlanOf(m) : m \in Modes}
  BY DEF Init
<1>2. CopiesLeft = {}
  BY DEF Init, CopiesLeft, Ctx
<1>3. /\ wire[Rx(rc_mode)] = 0 /\ refused = [t \in TxStream |-> 0]
      /\ [t \in TxStream |-> wire[t]] = [t \in TxStream |-> 0]
  BY DEF Init, Rx, Stream, RxStream, TxStream
<1>4. (exited # "no") = FALSE
  BY DEF Init
<1>5. QED
  BY <1>1, <1>2, <1>3, <1>4 DEF R!Init

(* Every step is invisible, or accepts a datagram when no copy is           *)
(* outstanding, or offers one outstanding copy, or stops.                   *)
LEMMA RefinementStep == IInv /\ [Next]_vars => [R!Next]_R!vars
<1> SUFFICES ASSUME IInv, [Next]_vars PROVE [R!Next]_R!vars
  OBVIOUS
<1>0. TypeOK /\ Places /\ Frames /\ StreamAtHand
  BY DEF IInv
<1> USE DEF vars, proc, frames, sigs, fds, copies, counts, At, Goto, MoreDests,
            Tally
<1>m. rc_mode' = rc_mode
  BY DEF Next, Progress, RecvError, Terminated, LogEnter, LogLeave, Exit,
     Socket,
         OpenFails, Configured, Recv, RecvEmpty, CountIn, Sendto, TxDone, Kill,
         Deliver, Return, CloseSockets, CleanupProgParms
<1>u. UNCHANGED <<CopiesLeft, wire, refused, exited>> => UNCHANGED R!vars
  BY <1>m DEF R!vars
<1>s. pc["main"] \notin {"count_in", "send"} /\ pc'["main"] \notin {"count_in", "send"}
        => UNCHANGED CopiesLeft
  BY DEF CopiesLeft
<1>t. Rx(rc_mode) \in Stream \ TxStream /\ Tx(rc_mode) \subseteq TxStream
      /\ TxStream \subseteq Stream
  BY DEF Rx, Tx, Stream, RxStream, TxStream
<1>1. ASSUME NEW c \in Ctx, LogEnter(c) PROVE UNCHANGED R!vars
  BY <1>1, <1>u, SameCopies DEF LogEnter
<1>2. ASSUME NEW c \in Ctx, LogLeave(c) PROVE UNCHANGED R!vars
  <2>1. CASE c = "main"
    <3>1. pc["main"] \in LogPc /\ pc'["main"] = AfterLog("main", pc["main"])
      BY <1>0, <1>2, <2>1 DEF LogLeave, Places, TypeOK, Ctx
    <3>2. /\ pc["main"] \in {"log_parms", "exit_errno"}
          /\ pc'["main"] \in {"socket", "exit"}
      BY <1>0, <3>1 DEF Places, LogPc, MainPc, AfterLog
    <3>3. QED
      BY <1>2, <1>s, <1>u, <3>2 DEF LogLeave
  <2>2. CASE c # "main"
    BY <1>0, <1>2, <1>u, <2>2, SameCopies DEF LogLeave, TypeOK
  <2>3. QED
    BY <2>1, <2>2
<1>3. ASSUME NEW c \in Ctx, Exit(c) PROVE R!Stop
  <2>1. exited = "no" /\ exited' # "no" /\ UNCHANGED <<CopiesLeft, wire, refused>>
    BY <1>3, SameCopies DEF Exit
  <2>2. QED
    BY <1>m, <2>1 DEF R!Stop
<1>4. ASSUME NEW fd \in 0..MaxFd, Socket(fd) PROVE UNCHANGED R!vars
  BY <1>0, <1>4, <1>s, <1>u DEF Socket, TypeOK, Ctx
<1>5. CASE OpenFails
  BY <1>0, <1>5, <1>s, <1>u DEF OpenFails, TypeOK, Ctx
<1>6. CASE Configured
  BY <1>0, <1>6, <1>s, <1>u DEF Configured, TypeOK, Ctx
<1>7. CASE Recv
  <2>1. CopiesLeft = {} /\ CopiesLeft' = PlanOf(rc_mode)
    BY <1>0, <1>m, <1>7 DEF Recv, CopiesLeft, TypeOK, Ctx, PlanOf, CopiesOf
  <2>2. stream = Rx(rc_mode)
    BY <1>0, <1>7 DEF Recv, StreamAtHand
  <2>3. /\ wire'[Rx(rc_mode)] = wire[Rx(rc_mode)] + 1
        /\ \A t \in TxStream : wire'[t] = wire[t]
    BY <1>0, <1>7, <1>t, <2>2 DEF Recv, TypeOK
  <2>4. exited = "no" /\ exited' = "no" /\ refused' = refused
    BY <1>7 DEF Recv
  <2>5. R!Accept
    BY <1>m, <2>1, <2>3, <2>4 DEF R!Accept
  <2>6. QED
    BY <2>5 DEF R!Next
<1>8. CASE RecvEmpty
  BY <1>8, <1>u, SameCopies DEF RecvEmpty
<1>9. CASE CountIn
  <2>1. /\ stream = Rx(rc_mode) /\ pc["main"] = "count_in" /\ pc'["main"] = "send"
        /\ stream' = After(rc_mode, stream) /\ sa_dest' = 0
    BY <1>0, <1>9 DEF CountIn, StreamAtHand, TypeOK, Ctx
  <2>2. \A t \in Tx(rc_mode) : t # stream' => stream' = "inet_out"
    BY <2>1 DEF After, Rx, Tx, RxStream, TxStream
  <2>3. \A c \in PlanOf(rc_mode) : c.via \in Tx(rc_mode) /\ c.to > 0
    BY <1>t, FanoutAssumption DEF PlanOf, CopiesOf
  <2>4. CopiesLeft = PlanOf(rc_mode)
    BY <2>1 DEF CopiesLeft
  <2>5. CopiesLeft' = {c \in PlanOf(rc_mode) :
                         \/ c.via = stream' /\ c.to > sa_dest'
                         \/ c.via # stream' /\ stream' = "inet_out"}
    BY <1>m, <2>1 DEF CopiesLeft, PlanOf, CopiesOf
  <2>6. UNCHANGED CopiesLeft
    BY <2>1, <2>2, <2>3, <2>4, <2>5
  <2>7. QED
    BY <1>9, <1>u, <2>6 DEF CountIn
<1>10. ASSUME NEW ok \in BOOLEAN, Sendto(ok) PROVE R!Next
  <2> DEFINE c == [via |-> stream, to |-> sa_dest + 1]
  <2>1. /\ stream \in Tx(rc_mode) /\ pc["main"] = "send" /\ pc' = pc
        /\ stream' = stream /\ sa_dest \in Nat
        /\ sa_dest < Fanout[stream] /\ sa_dest' = sa_dest + 1
    BY <1>0, <1>10 DEF Sendto, StreamAtHand, TypeOK
  <2>2. c \in PlanOf(rc_mode)
    <3>1. sa_dest + 1 \in 1..Fanout[stream]
      BY <1>t, <2>1, FanoutAssumption
    <3>2. QED
      BY <2>1, <3>1 DEF PlanOf, CopiesOf
  <2>3. \A d \in PlanOf(rc_mode) :
          d.to \in Nat /\ (d.via = stream /\ d.to = sa_dest + 1 => d = c)
    BY <1>t, FanoutAssumption DEF PlanOf, CopiesOf
  <2>4. CopiesLeft = {d \in PlanOf(rc_mode) :
                        \/ d.via = stream /\ d.to > sa_dest
                        \/ d.via # stream /\ stream = "inet_out"}
    BY <2>1 DEF CopiesLeft
  <2>5. CopiesLeft' = {d \in PlanOf(rc_mode) :
                         \/ d.via = stream /\ d.to > sa_dest + 1
                         \/ d.via # stream /\ stream = "inet_out"}
    BY <1>m, <2>1 DEF CopiesLeft, PlanOf, CopiesOf
  <2>6. c \in CopiesLeft /\ CopiesLeft' = CopiesLeft \ {c}
    BY <2>1, <2>2, <2>3, <2>4, <2>5
  <2>7. \/ wire' = [wire EXCEPT ![stream] = @ + 1] /\ refused' = refused
        \/ wire' = wire /\ refused' = [refused EXCEPT ![stream] = @ + 1]
    BY <1>10 DEF Sendto
  <2>8. wire'[Rx(rc_mode)] = wire[Rx(rc_mode)]
    BY <1>0, <1>t, <2>1, <2>7 DEF TypeOK
  <2>9. exited = "no" /\ exited' = exited
    BY <1>10 DEF Sendto
  <2>10. \/ /\ [t \in TxStream |-> wire'[t]]
                  = [[t \in TxStream |-> wire[t]] EXCEPT ![c.via] = @ + 1]
            /\ refused' = refused
         \/ /\ [t \in TxStream |-> wire'[t]] = [t \in TxStream |-> wire[t]]
            /\ refused' = [refused EXCEPT ![c.via] = @ + 1]
    BY <1>0, <1>t, <2>1, <2>7 DEF TypeOK
  <2>11. R!Copy(c)
    BY <1>m, <2>6, <2>8, <2>9, <2>10 DEF R!Copy, R!Handed
  <2>12. R!CopyOne
    <3> HIDE DEF c
    <3> QED
      BY <2>6, <2>11 DEF R!CopyOne, R!Copy, R!Handed
  <2>13. QED
    BY <2>12 DEF R!Next
<1>11. CASE TxDone
  <2>1. /\ stream \in Tx(rc_mode) /\ pc["main"] = "send"
        /\ pc'["main"] = IF stream' \in TxStream THEN "send" ELSE "recv"
        /\ stream' = After(rc_mode, stream)
        /\ sa_dest' = 0
    BY <1>0, <1>11 DEF TxDone, StreamAtHand, TypeOK, Ctx
  <2>e. sa_dest = Fanout[stream]
    <3>1. sa_dest \in Nat /\ Fanout[stream] \in Nat /\ ~(sa_dest < Fanout[stream])
      BY <1>0, <1>t, <1>11, <2>1, FanoutAssumption DEF TxDone, TypeOK
    <3>2. sa_dest <= Fanout[stream]
      BY <2>1 DEF IInv, CopiesCounted
    <3>3. QED
      BY <3>1, <3>2
  <2>2. \A d \in PlanOf(rc_mode) :
          d.via \in Tx(rc_mode) /\ d.to > 0 /\ d.to <= Fanout[d.via]
    BY <1>t, FanoutAssumption DEF PlanOf, CopiesOf
  <2>3. CopiesLeft = {d \in PlanOf(rc_mode) : d.via # stream /\ stream = "inet_out"}
    <3>1. Fanout[stream] \in Nat /\ \A d \in PlanOf(rc_mode) : d.to \in Nat
      BY <1>t, <2>1, FanoutAssumption DEF PlanOf, CopiesOf
    <3>2. CopiesLeft = {d \in PlanOf(rc_mode) :
                          \/ d.via = stream /\ d.to > sa_dest
                          \/ d.via # stream /\ stream = "inet_out"}
      BY <2>1 DEF CopiesLeft
    <3>3. QED
      BY <2>1, <2>e, <2>2, <3>1, <3>2
  <2>4. CASE stream' \in TxStream
    <3>1. stream = "inet_out" /\ stream' = "inet6_out"
      BY <2>1, <2>4 DEF After, Rx, Tx, RxStream, TxStream
    <3>2. CopiesLeft' = {d \in PlanOf(rc_mode) : d.via = "inet6_out" /\ d.to > 0}
      BY <1>m, <2>1, <2>4, <3>1 DEF CopiesLeft, PlanOf, CopiesOf
    <3>3. \A d \in PlanOf(rc_mode) : d.via # "inet_out" => d.via = "inet6_out"
      BY <1>t, <2>2 DEF TxStream
    <3>4. UNCHANGED CopiesLeft
      BY <2>2, <2>3, <3>1, <3>2, <3>3
    <3>5. QED
      BY <1>11, <1>u, <3>4 DEF TxDone
  <2>5. CASE stream' \notin TxStream
    <3>1. \A t \in Tx(rc_mode) : t # stream => stream # "inet_out"
      BY <2>1, <2>5 DEF After, Rx, Tx, RxStream, TxStream
    <3>2. CopiesLeft = {}
      BY <2>2, <2>3, <3>1
    <3>3. CopiesLeft' = {}
      BY <2>1, <2>5 DEF CopiesLeft
    <3>4. QED
      BY <1>11, <1>u, <3>2, <3>3 DEF TxDone
  <2>6. QED
    BY <2>4, <2>5
<1>12. ASSUME NEW s \in Sig, Kill(s) PROVE UNCHANGED R!vars
  BY <1>12, <1>u, SameCopies DEF Kill
<1>13. ASSUME NEW s \in Sig, Deliver(s) PROVE UNCHANGED R!vars
  BY <1>0, <1>13, <1>u, SameCopies DEF Deliver, Sig, Exiting, TypeOK
<1>14. ASSUME NEW s \in Sig, Return(s) PROVE UNCHANGED R!vars
  <2>1. ~CopyLost(s)
    BY <1>0, <1>14, NoCopyLost
  <2>2. /\ UNCHANGED <<stream, sa_dest, wire, refused, exited>>
        /\ pc'["main"] = pc["main"]
    BY <1>0, <1>14, <2>1 DEF Return, Sig, Exiting, TypeOK
  <2>3. QED
    BY <1>m, <1>u, <2>2, SameCopies
<1>15. ASSUME NEW s \in Sig, CloseSockets(s) PROVE UNCHANGED R!vars
  BY <1>0, <1>15, <1>u, SameCopies DEF CloseSockets, Sig, Exiting, TypeOK
<1>16. ASSUME NEW s \in Sig, CleanupProgParms(s) PROVE UNCHANGED R!vars
  BY <1>0, <1>16, <1>u, SameCopies DEF CleanupProgParms, Sig, Exiting, TypeOK
<1>17. CASE UNCHANGED vars
  BY <1>17, <1>u, SameCopies
<1>18. QED
  BY <1>1, <1>2, <1>3, <1>4, <1>5, <1>6, <1>7, <1>8, <1>9, <1>10, <1>11, <1>12,
     <1>13, <1>14, <1>15, <1>16, <1>17
  DEF Next, Progress, RecvError, Terminated, R!Next

(* replicast takes one datagram at a time and offers each destination one   *)
(* copy of it, whatever the mode, the destinations and the signals.         *)
THEOREM RelayImplementsReplicator == Spec => ReplicatesSafely
<1>1. Init => R!Init
  BY RefinementInit
<1>2. IInv /\ [Next]_vars => [R!Next]_R!vars
  BY RefinementStep
<1>3. QED
  BY <1>1, <1>2, InvariantHolds, PTL DEF Spec, ReplicatesSafely, R!Spec
=============================================================================
