---------------------------- MODULE RelayProofs ----------------------------
(* Relay's invariants hold for all values of its constants. The initial     *)
(* state satisfies IInv, every action keeps each of its parts (one lemma    *)
(* per part, one step per action), and the invariants follow from IInv.     *)
EXTENDS RelayInvariant, TLAPS

(* The next socket main turns to is one of its mode's. *)
LEMMA AfterType ==
  ASSUME NEW m, NEW s PROVE After(m, s) \in StreamsOf(m) /\ After(m, s) \in Stream
BY DEF After, StreamsOf, Rx, Tx, Stream, RxStream, TxStream

(* Every step keeps the types. Sendto() and a return that loses a copy      *)
(* count by family of destinations, so the stream at hand must be one of    *)
(* those (StreamAtHand); a return restores the context it interrupted,      *)
(* which must be main (Frames).                                             *)
LEMMA TypeStep ==
  TypeOK /\ Places /\ Frames /\ StreamAtHand /\ [Next]_vars => TypeOK'
<1> SUFFICES ASSUME TypeOK, Places, Frames, StreamAtHand, [Next]_vars
             PROVE  TypeOK'
  OBVIOUS
<1> USE DaemonAssumption, ModesAssumption, FanoutAssumption, MaxFdAssumption,
        BoundsAssumption
    DEF TypeOK, vars, proc, frames, sigs, fds, copies, counts, At, Goto,
        MoreDests, Tally
<1>1. ASSUME NEW c \in Ctx, LogEnter(c) PROVE TypeOK'
  BY <1>1 DEF LogEnter
<1>2. ASSUME NEW c \in Ctx, LogLeave(c) PROVE TypeOK'
  BY <1>2, ZenonT(30)
  DEF LogLeave, AfterLog, Places, LogPc, MainPc, HandlerPc, Ctx, Sig, Exiting
<1>3. ASSUME NEW c \in Ctx, Exit(c) PROVE TypeOK'
  BY <1>3 DEF Exit
<1>4. ASSUME NEW fd \in 0..MaxFd, Socket(fd) PROVE TypeOK'
  BY <1>4 DEF Socket, MainPc, FdUse
<1>5. CASE OpenFails
  BY <1>5 DEF OpenFails, MainPc
<1>6. CASE Configured
  BY <1>6, AfterType DEF Configured, MainPc
<1>7. CASE Recv
  BY <1>7 DEF Recv, MainPc
<1>8. CASE RecvEmpty
  BY <1>8 DEF RecvEmpty
<1>9. CASE CountIn
  <2>1. pkt_counters' \in [Stream -> Nat]
    BY <1>9 DEF CountIn
  <2>2. pc' \in [Ctx -> MainPc \cup HandlerPc]
    BY <1>9 DEF CountIn, MainPc
  <2>3. QED
    BY <1>9, <2>1, <2>2, AfterType DEF CountIn
<1>10. ASSUME NEW ok \in BOOLEAN, Sendto(ok) PROVE TypeOK'
  <2>1. stream \in TxStream /\ stream \in Stream
    BY <1>10 DEF Sendto, StreamAtHand, Tx, Stream
  <2> DEFINE more(f) == [f EXCEPT ![stream] = @ + 1]
  <2>2. wire' \in {wire, more(wire)} /\ refused' \in {refused, more(refused)}
    BY <1>10 DEF Sendto
  <2>3. more(wire) \in [Stream -> Nat] /\ more(refused) \in [TxStream -> Nat]
    BY <2>1
  <2> HIDE DEF more
  <2>4. sa_dest' \in Nat /\ tx_success' \in Nat
    BY <1>10 DEF Sendto
  <2>5. QED
    BY <1>10, <2>2, <2>3, <2>4 DEF Sendto
<1>11. CASE TxDone
  <2>1. pkt_counters' \in [Stream -> Nat]
    BY <1>11 DEF TxDone
  <2>2. pc' \in [Ctx -> MainPc \cup HandlerPc]
    BY <1>11 DEF TxDone, MainPc
  <2>3. QED
    BY <1>11, <2>1, <2>2, AfterType DEF TxDone
<1>12. ASSUME NEW s \in Sig, Kill(s) PROVE TypeOK'
  BY <1>12 DEF Kill
<1>13. ASSUME NEW s \in Sig, Deliver(s) PROVE TypeOK'
  BY <1>13 DEF Deliver, SaHandler, SaMask, Sig, Exiting, HandlerPc, Ctx
<1>14. ASSUME NEW s \in Sig, Return(s) PROVE TypeOK'
  <2>1. CopyLost(s) => stream \in TxStream
    BY DEF CopyLost, StreamAtHand, Tx
  <2>2. refused' \in [TxStream -> Nat] /\ sa_dest' \in Nat
    BY <1>14, <2>1 DEF Return
  <2>3. running' = "main"
    BY <1>14 DEF Return, Places, Frames
  <2>4. QED
    BY <1>14, <2>2, <2>3 DEF Return, HandlerPc, Ctx
<1>15. ASSUME NEW s \in Sig, CloseSockets(s) PROVE TypeOK'
  BY <1>15 DEF CloseSockets, HandlerPc, FdUse
<1>16. ASSUME NEW s \in Sig, CleanupProgParms(s) PROVE TypeOK'
  BY <1>16 DEF CleanupProgParms, HandlerPc
<1>17. CASE UNCHANGED vars
  BY <1>17
<1>18. QED
  BY <1>1, <1>2, <1>3, <1>4, <1>5, <1>6, <1>7, <1>8, <1>9, <1>10, <1>11, <1>12,
     <1>13, <1>14, <1>15, <1>16, <1>17
  DEF Next, Progress, RecvError, Terminated

(* Every step keeps each context inside its own code and the contexts       *)
(* nested as the sa_mask of the handlers allow.                             *)
LEMMA FramesStep ==
  TypeOK /\ Places /\ Frames /\ [Next]_vars => Places' /\ Frames'
<1> SUFFICES ASSUME TypeOK, Places, Frames, [Next]_vars PROVE Places' /\ Frames'
  OBVIOUS
<1> USE DEF TypeOK, vars, proc, frames, sigs, fds, copies, counts, At, Goto,
            MoreDests, Tally, Places, Frames, Ctx, Sig, Exiting, LogPc, MainPc
<1>1. ASSUME NEW c \in Ctx, LogEnter(c) PROVE Places' /\ Frames'
  BY <1>1 DEF LogEnter
<1>2. ASSUME NEW c \in Ctx, LogLeave(c) PROVE Places' /\ Frames'
  BY <1>2, SMTT(30) DEF LogLeave, AfterLog
<1>3. ASSUME NEW c \in Ctx, Exit(c) PROVE Places' /\ Frames'
  BY <1>3 DEF Exit
<1>4. ASSUME NEW fd \in 0..MaxFd, Socket(fd) PROVE Places' /\ Frames'
  BY <1>4 DEF Socket
<1>5. CASE OpenFails
  BY <1>5 DEF OpenFails
<1>6. CASE Configured
  BY <1>6 DEF Configured
<1>7. CASE Recv
  BY <1>7 DEF Recv
<1>8. CASE RecvEmpty
  BY <1>8 DEF RecvEmpty
<1>9. CASE CountIn
  BY <1>9 DEF CountIn
<1>10. ASSUME NEW ok \in BOOLEAN, Sendto(ok) PROVE Places' /\ Frames'
  BY <1>10 DEF Sendto
<1>11. CASE TxDone
  BY <1>11 DEF TxDone
<1>12. ASSUME NEW s \in Sig, Kill(s) PROVE Places' /\ Frames'
  BY <1>12 DEF Kill
<1>13. ASSUME NEW s \in Sig, Deliver(s) PROVE Places' /\ Frames'
  BY <1>13 DEF Deliver, SaHandler, SaMask
<1>14. ASSUME NEW s \in Sig, Return(s) PROVE Places' /\ Frames'
  BY <1>14 DEF Return
<1>15. ASSUME NEW s \in Sig, CloseSockets(s) PROVE Places' /\ Frames'
  BY <1>15 DEF CloseSockets
<1>16. ASSUME NEW s \in Sig, CleanupProgParms(s) PROVE Places' /\ Frames'
  BY <1>16 DEF CleanupProgParms
<1>17. CASE UNCHANGED vars
  BY <1>17
<1>18. QED
  BY <1>1, <1>2, <1>3, <1>4, <1>5, <1>6, <1>7, <1>8, <1>9, <1>10, <1>11, <1>12,
     <1>13, <1>14, <1>15, <1>16, <1>17
  DEF Next, Progress, RecvError, Terminated

(* Only cleanup_prog_parms() frees the destinations, and nothing but exit() *)
(* comes after it.                                                          *)
LEMMA DestsStep ==
  TypeOK /\ Places /\ Frames /\ DestsLive /\ [Next]_vars => DestsLive'
<1> SUFFICES ASSUME TypeOK, Places, Frames, DestsLive, [Next]_vars
             PROVE  DestsLive'
  OBVIOUS
<1> USE DEF TypeOK, vars, proc, frames, sigs, fds, copies, counts, At, Goto,
            MoreDests, Tally, Places, Frames, DestsLive, Before, Ctx, Sig,
            Exiting, LogPc
<1>1. ASSUME NEW c \in Ctx, LogEnter(c) PROVE DestsLive'
  BY <1>1 DEF LogEnter
<1>2. ASSUME NEW c \in Ctx, LogLeave(c) PROVE DestsLive'
  BY <1>2 DEF LogLeave, AfterLog
<1>3. ASSUME NEW c \in Ctx, Exit(c) PROVE DestsLive'
  BY <1>3 DEF Exit
<1>4. ASSUME NEW fd \in 0..MaxFd, Socket(fd) PROVE DestsLive'
  BY <1>4 DEF Socket
<1>5. CASE OpenFails
  BY <1>5 DEF OpenFails
<1>6. CASE Configured
  BY <1>6 DEF Configured
<1>7. CASE Recv
  BY <1>7 DEF Recv
<1>8. CASE RecvEmpty
  BY <1>8 DEF RecvEmpty
<1>9. CASE CountIn
  BY <1>9 DEF CountIn
<1>10. ASSUME NEW ok \in BOOLEAN, Sendto(ok) PROVE DestsLive'
  BY <1>10 DEF Sendto
<1>11. CASE TxDone
  BY <1>11 DEF TxDone
<1>12. ASSUME NEW s \in Sig, Kill(s) PROVE DestsLive'
  BY <1>12 DEF Kill
<1>13. ASSUME NEW s \in Sig, Deliver(s) PROVE DestsLive'
  BY <1>13 DEF Deliver, SaHandler, SaMask
<1>14. ASSUME NEW s \in Sig, Return(s) PROVE DestsLive'
  BY <1>14 DEF Return
<1>15. ASSUME NEW s \in Sig, CloseSockets(s) PROVE DestsLive'
  BY <1>15 DEF CloseSockets
<1>16. ASSUME NEW s \in Sig, CleanupProgParms(s) PROVE DestsLive'
  BY <1>16 DEF CleanupProgParms
<1>17. CASE UNCHANGED vars
  BY <1>17
<1>18. QED
  BY <1>1, <1>2, <1>3, <1>4, <1>5, <1>6, <1>7, <1>8, <1>9, <1>10, <1>11, <1>12,
     <1>13, <1>14, <1>15, <1>16, <1>17
  DEF Next, Progress, RecvError, Terminated

(* main opens the sockets of its mode in order and then works through them  *)
(* in the same order: which of them are open follows from the one at hand.  *)
LEMMA StreamStep ==
  TypeOK /\ Places /\ Frames /\ StreamAtHand /\ FdsOwned /\ [Next]_vars
    => StreamAtHand'
<1> SUFFICES ASSUME TypeOK, Places, Frames, StreamAtHand, FdsOwned, [Next]_vars
             PROVE  StreamAtHand'
  OBVIOUS
<1> USE DEF TypeOK, vars, proc, frames, sigs, fds, copies, counts, At, Goto,
            MoreDests, Tally, Places, Frames, StreamAtHand, StreamsOf,
            OpenedBefore, InLoop, Ctx, Sig, Exiting, LogPc
<1>1. ASSUME NEW c \in Ctx, LogEnter(c) PROVE StreamAtHand'
  BY <1>1 DEF LogEnter
<1>2. ASSUME NEW c \in Ctx, LogLeave(c) PROVE StreamAtHand'
  BY <1>2, SMTT(30) DEF LogLeave, AfterLog
<1>3. ASSUME NEW c \in Ctx, Exit(c) PROVE StreamAtHand'
  BY <1>3 DEF Exit
<1>4. ASSUME NEW fd \in 0..MaxFd, Socket(fd) PROVE StreamAtHand'
  BY <1>4 DEF Socket
<1>5. CASE OpenFails
  BY <1>5, SMTT(30)
  DEF OpenFails, Stream, RxStream, TxStream, StreamsOf, Rx, Tx, OpenedBefore,
      InLoop
<1>6. CASE Configured
  <2> DEFINE next == After(rc_mode, stream)
  <2>1. sock_fd # -1 /\ ~InLoop
    BY <1>6 DEF Configured, FdsOwned, Before
  <2>2. \A s \in Stream :
          sock_fds'[s] # -1 <=> s \in OpenedBefore(stream) \cup {stream}
    BY <1>6, <2>1 DEF Configured
  <2>3. next \in StreamsOf(rc_mode)
    BY AfterType
  <2>4. CASE next \in TxStream
    <3>1. OpenedBefore(next) = OpenedBefore(stream) \cup {stream}
      BY <2>3, <2>4 DEF After, Rx, Tx, RxStream, TxStream
    <3>2. OpenedBefore(next) = OpenedBefore(stream)'
      BY <1>6 DEF Configured
    <3>3. pc'["main"] = "socket" /\ stream' = next /\ rc_mode' = rc_mode
      BY <1>6, <2>4 DEF Configured
    <3>4. QED
      BY <2>2, <2>3, <3>1, <3>2, <3>3
  <2>5. CASE next \notin TxStream
    <3>1. next = Rx(rc_mode) /\ StreamsOf(rc_mode) = OpenedBefore(stream) \cup {stream}
      BY <2>5 DEF After, Rx, Tx, RxStream, TxStream
    <3>2. pc'["main"] = "recv" /\ stream' = next /\ rc_mode' = rc_mode
      BY <1>6, <2>5 DEF Configured
    <3>3. QED
      BY <2>2, <2>3, <3>1, <3>2
  <2>6. QED
    BY <2>4, <2>5
<1>7. CASE Recv
  BY <1>7 DEF Recv
<1>8. CASE RecvEmpty
  BY <1>8 DEF RecvEmpty
<1>9. CASE CountIn
  BY <1>9, SMTT(30)
  DEF CountIn, After, Stream, RxStream, TxStream, StreamsOf, Rx, Tx,
      OpenedBefore, InLoop
<1>10. ASSUME NEW ok \in BOOLEAN, Sendto(ok) PROVE StreamAtHand'
  BY <1>10 DEF Sendto
<1>11. CASE TxDone
  BY <1>11, SMTT(30)
  DEF TxDone, After, Stream, RxStream, TxStream, StreamsOf, Rx, Tx,
      OpenedBefore, InLoop
<1>12. ASSUME NEW s \in Sig, Kill(s) PROVE StreamAtHand'
  BY <1>12 DEF Kill
<1>13. ASSUME NEW s \in Sig, Deliver(s) PROVE StreamAtHand'
  BY <1>13 DEF Deliver, SaHandler
<1>14. ASSUME NEW s \in Sig, Return(s) PROVE StreamAtHand'
  BY <1>14 DEF Return
<1>15. ASSUME NEW s \in Sig, CloseSockets(s) PROVE StreamAtHand'
  BY <1>15 DEF CloseSockets
<1>16. ASSUME NEW s \in Sig, CleanupProgParms(s) PROVE StreamAtHand'
  BY <1>16 DEF CleanupProgParms
<1>17. CASE UNCHANGED vars
  BY <1>17
<1>18. QED
  BY <1>1, <1>2, <1>3, <1>4, <1>5, <1>6, <1>7, <1>8, <1>9, <1>10, <1>11, <1>12,
     <1>13, <1>14, <1>15, <1>16, <1>17
  DEF Next, Progress, RecvError, Terminated

(* socket() never hands out a descriptor that is in use, so the descriptors *)
(* in sock_fds stay those of the sockets they were opened for until an exit *)
(* handler closes them.                                                     *)
LEMMA FdsOwnedStep ==
  TypeOK /\ Places /\ Frames /\ StreamAtHand /\ FdsOwned /\ [Next]_vars
    => FdsOwned'
<1> SUFFICES ASSUME TypeOK, Places, Frames, StreamAtHand, FdsOwned, [Next]_vars
             PROVE  FdsOwned'
  OBVIOUS
<1> USE DEF TypeOK, vars, proc, frames, sigs, fds, copies, counts, At, Goto,
            MoreDests, Tally, Places, Frames, FdsOwned, Before, Ctx, Sig,
            Exiting, LogPc
<1>1. ASSUME NEW c \in Ctx, LogEnter(c) PROVE FdsOwned'
  BY <1>1 DEF LogEnter
<1>2. ASSUME NEW c \in Ctx, LogLeave(c) PROVE FdsOwned'
  BY <1>2 DEF LogLeave, AfterLog
<1>3. ASSUME NEW c \in Ctx, Exit(c) PROVE FdsOwned'
  BY <1>3 DEF Exit
<1>4. ASSUME NEW fd \in 0..MaxFd, Socket(fd) PROVE FdsOwned'
  <2>1. fdtable[fd] = "free" /\ "free" \notin Stream /\ fd # -1
    BY <1>4 DEF Socket, LowestFree, Stream, RxStream, TxStream
  <2>2. /\ UNCHANGED <<sock_fds, stream>> /\ sock_fd' = fd
        /\ fdtable' = [fdtable EXCEPT ![fd] = stream]
        /\ \A s \in Exiting : pc'[s] = pc[s]
    BY <1>4 DEF Socket
  <2>3. ASSUME Before({"idle", "close_sockets"})', NEW s \in Stream,
               sock_fds[s] # -1
        PROVE  fdtable'[sock_fds[s]] = s
    <3>1. fdtable[sock_fds[s]] = s /\ sock_fds[s] \in 0..MaxFd
      BY <2>2, <2>3
    <3>2. sock_fds[s] # fd
      BY <2>1, <3>1
    <3>3. QED
      BY <2>2, <3>1, <3>2
  <2>4. fdtable'[sock_fd'] = stream' /\ sock_fd' # -1
    BY <2>1, <2>2
  <2>5. QED
    BY <2>2, <2>3, <2>4
<1>5. CASE OpenFails
  BY <1>5 DEF OpenFails
<1>6. CASE Configured
  BY <1>6 DEF Configured
<1>7. CASE Recv
  BY <1>7 DEF Recv
<1>8. CASE RecvEmpty
  BY <1>8 DEF RecvEmpty
<1>9. CASE CountIn
  BY <1>9 DEF CountIn
<1>10. ASSUME NEW ok \in BOOLEAN, Sendto(ok) PROVE FdsOwned'
  BY <1>10 DEF Sendto
<1>11. CASE TxDone
  BY <1>11 DEF TxDone
<1>12. ASSUME NEW s \in Sig, Kill(s) PROVE FdsOwned'
  BY <1>12 DEF Kill
<1>13. ASSUME NEW s \in Sig, Deliver(s) PROVE FdsOwned'
  BY <1>13 DEF Deliver, SaHandler
<1>14. ASSUME NEW s \in Sig, Return(s) PROVE FdsOwned'
  BY <1>14 DEF Return
<1>15. ASSUME NEW s \in Sig, CloseSockets(s) PROVE FdsOwned'
  BY <1>15 DEF CloseSockets
<1>16. ASSUME NEW s \in Sig, CleanupProgParms(s) PROVE FdsOwned'
  BY <1>16 DEF CleanupProgParms
<1>17. CASE UNCHANGED vars
  BY <1>17
<1>18. QED
  BY <1>1, <1>2, <1>3, <1>4, <1>5, <1>6, <1>7, <1>8, <1>9, <1>10, <1>11, <1>12,
     <1>13, <1>14, <1>15, <1>16, <1>17
  DEF Next, Progress, RecvError, Terminated

(* No open socket is forgotten, except the one a failing open_*_sock()      *)
(* leaves behind.                                                           *)
LEMMA FdsKnownStep ==
  TypeOK /\ Places /\ Frames /\ StreamAtHand /\ FdsOwned /\ FdsKnown /\ [Next]_vars
    => FdsKnown'
<1> SUFFICES ASSUME TypeOK, Places, Frames, StreamAtHand, FdsOwned, FdsKnown,
                    [Next]_vars
             PROVE  FdsKnown'
  OBVIOUS
<1> USE DEF TypeOK, vars, proc, frames, sigs, fds, copies, counts, At, Goto,
            MoreDests, Tally, Places, Frames, FdsKnown, Before, Ctx, Sig,
            Exiting, LogPc
<1>1. ASSUME NEW c \in Ctx, LogEnter(c) PROVE FdsKnown'
  BY <1>1 DEF LogEnter
<1>2. ASSUME NEW c \in Ctx, LogLeave(c) PROVE FdsKnown'
  BY <1>2, SMTT(30) DEF LogLeave, AfterLog
<1>3. ASSUME NEW c \in Ctx, Exit(c) PROVE FdsKnown'
  BY <1>3 DEF Exit
<1>4. ASSUME NEW fd \in 0..MaxFd, Socket(fd) PROVE FdsKnown'
  BY <1>4 DEF Socket, LowestFree
<1>5. CASE OpenFails
  BY <1>5 DEF OpenFails
<1>6. CASE Configured
  <2>1. ~InLoop /\ stream \notin OpenedBefore(stream)
    BY <1>6 DEF Configured, InLoop, OpenedBefore, RxStream, TxStream
  <2>2. sock_fds[stream] = -1
    BY <2>1 DEF StreamAtHand
  <2>3. ASSUME NEW f \in 0..MaxFd, fdtable[f] \in Stream
        PROVE  sock_fds'[fdtable[f]] = f
    BY <1>6, <2>2, <2>3 DEF Configured
  <2>4. QED
    BY <1>6, <2>3 DEF Configured
<1>7. CASE Recv
  BY <1>7 DEF Recv
<1>8. CASE RecvEmpty
  BY <1>8 DEF RecvEmpty
<1>9. CASE CountIn
  BY <1>9 DEF CountIn
<1>10. ASSUME NEW ok \in BOOLEAN, Sendto(ok) PROVE FdsKnown'
  BY <1>10 DEF Sendto
<1>11. CASE TxDone
  BY <1>11 DEF TxDone
<1>12. ASSUME NEW s \in Sig, Kill(s) PROVE FdsKnown'
  BY <1>12 DEF Kill
<1>13. ASSUME NEW s \in Sig, Deliver(s) PROVE FdsKnown'
  BY <1>13 DEF Deliver, SaHandler
<1>14. ASSUME NEW s \in Sig, Return(s) PROVE FdsKnown'
  BY <1>14 DEF Return
<1>15. ASSUME NEW s \in Sig, CloseSockets(s) PROVE FdsKnown'
  <2>1. ASSUME NEW f \in 0..MaxFd, fdtable'[f] \in Stream
        PROVE  fdtable'[f] = fdtable[f] /\ sock_fds[fdtable[f]] # f
    <3>1. fdtable'[f] = IF \E t \in Stream : sock_fds[t] = f /\ Closes(sock_fds[t])
                        THEN "free" ELSE fdtable[f]
      BY <1>15 DEF CloseSockets
    <3>2. fdtable'[f] # "free"
      BY <2>1 DEF Stream, RxStream, TxStream
    <3>3. fdtable'[f] = fdtable[f] /\ ~\E t \in Stream : sock_fds[t] = f /\ Closes(f)
      BY <3>1, <3>2
    <3>4. QED
      BY <2>1, <3>3 DEF Closes
  <2>2. QED
    BY <1>15, <2>1 DEF CloseSockets
<1>16. ASSUME NEW s \in Sig, CleanupProgParms(s) PROVE FdsKnown'
  BY <1>16 DEF CleanupProgParms
<1>17. CASE UNCHANGED vars
  BY <1>17
<1>18. QED
  BY <1>1, <1>2, <1>3, <1>4, <1>5, <1>6, <1>7, <1>8, <1>9, <1>10, <1>11, <1>12,
     <1>13, <1>14, <1>15, <1>16, <1>17
  DEF Next, Progress, RecvError, Terminated

(* Every step moves what the sockets carried, what the counters say and     *)
(* what main has in hand together.                                          *)
LEMMA CountersStep ==
  TypeOK /\ Places /\ Frames /\ StreamAtHand /\ CountersTrackTraffic /\ [Next]_vars
    => CountersTrackTraffic'
<1> SUFFICES ASSUME TypeOK, Places, Frames, StreamAtHand, CountersTrackTraffic,
                    [Next]_vars
             PROVE  CountersTrackTraffic'
  OBVIOUS
<1> USE DEF TypeOK, vars, proc, frames, sigs, fds, copies, counts, At, Goto,
            MoreDests, Tally, Places, Frames, Ctx, Sig, Exiting, LogPc,
            CountersTrackTraffic, InFlight
<1>1. ASSUME NEW c \in Ctx, LogEnter(c) PROVE CountersTrackTraffic'
  BY <1>1 DEF LogEnter
<1>2. ASSUME NEW c \in Ctx, LogLeave(c) PROVE CountersTrackTraffic'
  BY <1>2, SMTT(30) DEF LogLeave, AfterLog
<1>3. ASSUME NEW c \in Ctx, Exit(c) PROVE CountersTrackTraffic'
  BY <1>3 DEF Exit
<1>4. ASSUME NEW fd \in 0..MaxFd, Socket(fd) PROVE CountersTrackTraffic'
  BY <1>4 DEF Socket
<1>5. CASE OpenFails
  BY <1>5 DEF OpenFails
<1>6. CASE Configured
  BY <1>6 DEF Configured
<1>7. CASE Recv
  BY <1>7 DEF Recv
<1>8. CASE RecvEmpty
  BY <1>8 DEF RecvEmpty
<1>9. CASE CountIn
  BY <1>9 DEF CountIn
<1>10. ASSUME NEW ok \in BOOLEAN, Sendto(ok) PROVE CountersTrackTraffic'
  <2>1. CASE ok
    BY <1>10, <2>1, SMTT(30) DEF Sendto
  <2>2. CASE ~ok
    BY <1>10, <2>2 DEF Sendto
  <2>3. QED
    BY <2>1, <2>2
<1>11. CASE TxDone
  BY <1>11 DEF TxDone
<1>12. ASSUME NEW s \in Sig, Kill(s) PROVE CountersTrackTraffic'
  BY <1>12 DEF Kill
<1>13. ASSUME NEW s \in Sig, Deliver(s) PROVE CountersTrackTraffic'
  BY <1>13 DEF Deliver, SaHandler
<1>14. ASSUME NEW s \in Sig, Return(s) PROVE CountersTrackTraffic'
  BY <1>14 DEF Return
<1>15. ASSUME NEW s \in Sig, CloseSockets(s) PROVE CountersTrackTraffic'
  BY <1>15 DEF CloseSockets
<1>16. ASSUME NEW s \in Sig, CleanupProgParms(s) PROVE CountersTrackTraffic'
  BY <1>16 DEF CleanupProgParms
<1>17. CASE UNCHANGED vars
  BY <1>17
<1>18. QED
  BY <1>1, <1>2, <1>3, <1>4, <1>5, <1>6, <1>7, <1>8, <1>9, <1>10, <1>11, <1>12,
     <1>13, <1>14, <1>15, <1>16, <1>17
  DEF Next, Progress, RecvError, Terminated

(* One datagram more is one copy more for each destination. The product is  *)
(* behind a definition because the solver reasons poorly about it.          *)
LEMMA AllCopiesType ==
  \A t \in TxStream, n \in Int :
    /\ AllCopies(t, n) \in Int
    /\ AllCopies(t, n - 1) + Fanout[t] = AllCopies(t, n)
<1>1. \A f, n \in Int : f * n \in Int /\ f * (n - 1) + f = f * n
  OBVIOUS
<1>2. \A t \in TxStream : Fanout[t] \in Int
  BY FanoutAssumption
<1>3. QED
  BY <1>1, <1>2 DEF AllCopies

(* Every step of the loop keeps count of the copies tried: all those of the *)
(* datagrams before, and of the one in hand those up to sa_dest.            *)
LEMMA CopiesStep ==
  TypeOK /\ Places /\ Frames /\ StreamAtHand /\ CopiesCounted /\ [Next]_vars
    => CopiesCounted'
<1> SUFFICES ASSUME TypeOK, Places, Frames, StreamAtHand, CopiesCounted,
                    [Next]_vars
             PROVE  CopiesCounted'
  OBVIOUS
<1> USE DEF TypeOK, vars, proc, frames, sigs, fds, copies, counts, At, Goto,
            MoreDests, Tally, Places, Frames, Ctx, Sig, Exiting, LogPc,
            CopiesCounted, Tried
<1> DEFINE W == wire[Rx(rc_mode)]
<1>0. /\ Rx(rc_mode) \in Stream \ TxStream /\ Tx(rc_mode) \subseteq TxStream
      /\ TxStream \subseteq Stream /\ rc_mode' = rc_mode
      /\ W \in Nat /\ \A t \in TxStream : Fanout[t] \in Nat
  <2>1. Rx(rc_mode) \in Stream \ TxStream /\ TxStream \subseteq Stream
    BY DEF Rx, Stream, RxStream, TxStream
  <2>2. Tx(rc_mode) \subseteq TxStream
    BY DEF Tx
  <2>3. rc_mode' = rc_mode
    BY DEF Next, Progress, RecvError, Terminated, LogEnter, LogLeave, Exit,
       Socket,
           OpenFails, Configured, Recv, RecvEmpty, CountIn, Sendto, TxDone, Kill,
           Deliver, Return, CloseSockets, CleanupProgParms
  <2>4. QED
    BY <2>1, <2>2, <2>3, FanoutAssumption
<1>1. ASSUME NEW c \in Ctx, LogEnter(c) PROVE CopiesCounted'
  BY <1>1 DEF LogEnter
<1>2. ASSUME NEW c \in Ctx, LogLeave(c) PROVE CopiesCounted'
  BY <1>2 DEF LogLeave, AfterLog
<1>3. ASSUME NEW c \in Ctx, Exit(c) PROVE CopiesCounted'
  BY <1>3 DEF Exit
<1>4. ASSUME NEW fd \in 0..MaxFd, Socket(fd) PROVE CopiesCounted'
  BY <1>4 DEF Socket
<1>5. CASE OpenFails
  BY <1>5 DEF OpenFails
<1>6. CASE Configured
  BY <1>6
  DEF Configured, StreamAtHand, Stream, RxStream, TxStream, StreamsOf, Rx, Tx
<1>7. CASE Recv
  <2>1. stream = Rx(rc_mode) /\ pc["main"] = "recv" /\ pc'["main"] = "count_in"
    BY <1>7 DEF Recv, StreamAtHand
  <2>2. /\ wire'[Rx(rc_mode)] = W + 1 /\ refused' = refused
        /\ \A t \in TxStream : wire'[t] = wire[t]
    BY <1>7, <1>0, <2>1 DEF Recv
  <2>3. QED
    BY <1>0, <2>1, <2>2
<1>8. CASE RecvEmpty
  BY <1>8 DEF RecvEmpty
<1>9. CASE CountIn
  <2>1. /\ stream = Rx(rc_mode) /\ pc["main"] = "count_in" /\ pc'["main"] = "send"
        /\ stream' = After(rc_mode, stream) /\ sa_dest' = 0
        /\ wire' = wire /\ refused' = refused
    BY <1>9 DEF CountIn, StreamAtHand
  <2>2. /\ stream' \in TxStream
        /\ \A t \in Tx(rc_mode) : t # stream' => stream' = "inet_out"
    BY <2>1 DEF After, Rx, Tx, RxStream, TxStream
  <2>3. QED
    BY <1>0, <2>1, <2>2
<1>10. ASSUME NEW ok \in BOOLEAN, Sendto(ok) PROVE CopiesCounted'
  <2>1. /\ stream \in Tx(rc_mode) /\ pc["main"] = "send" /\ pc' = pc
        /\ stream' = stream /\ sa_dest < Fanout[stream] /\ sa_dest' = sa_dest + 1
        /\ sa_dest \in Nat
    BY <1>10 DEF Sendto, StreamAtHand
  <2>2. \A t \in TxStream :
          wire'[t] + refused'[t] = wire[t] + refused[t] + (IF t = stream THEN 1 ELSE 0)
    <3>1. \/ wire' = [wire EXCEPT ![stream] = @ + 1] /\ refused' = refused
          \/ wire' = wire /\ refused' = [refused EXCEPT ![stream] = @ + 1]
      BY <1>10 DEF Sendto
    <3>2. QED
      BY <1>0, <3>1, SMTT(30)
  <2>3. wire'[Rx(rc_mode)] = W
    BY <1>0, <1>10, <2>1 DEF Sendto
  <2> HIDE DEF TypeOK, Places, Frames, vars, Ctx, Sig, Exiting, LogPc
  <2>4. ASSUME NEW t \in Tx(rc_mode)
        PROVE  Tried(t)' = Tried(t) + (IF t = stream THEN 1 ELSE 0)
    <3>1. AllCopies(t, W - 1) \in Int /\ AllCopies(t, W) \in Int
      <4>1. t \in TxStream /\ W \in Int /\ W - 1 \in Int
        BY <1>0
      <4>2. QED
        BY <4>1, AllCopiesType
    <3>2. QED
      BY <1>0, <2>1, <2>3, <3>1
  <2>5. ASSUME NEW t \in Tx(rc_mode)
        PROVE  wire'[t] + refused'[t] = Tried(t)'
    BY <1>0, <2>2, <2>4, <2>5
  <2>6. sa_dest' <= Fanout[stream']
    BY <1>0, <2>1
  <2>7. QED
    BY <1>0, <2>5, <2>6
<1>11. CASE TxDone
  <2>1. /\ stream \in Tx(rc_mode) /\ pc["main"] = "send"
        /\ pc'["main"] = IF stream' \in TxStream THEN "send" ELSE "recv"
        /\ stream' = After(rc_mode, stream)
        /\ sa_dest' = 0 /\ wire' = wire /\ refused' = refused
    BY <1>11 DEF TxDone, StreamAtHand
  <2>e. sa_dest = Fanout[stream]
    <3>1. sa_dest \in Nat /\ Fanout[stream] \in Nat /\ ~(sa_dest < Fanout[stream])
      BY <1>0, <1>11, <2>1, FanoutAssumption DEF TxDone
    <3>2. sa_dest <= Fanout[stream]
      BY <2>1
    <3> HIDE DEF TypeOK, CopiesCounted, Tried
    <3>3. QED
      BY <3>1, <3>2
  <2>2. AllCopies(stream, W - 1) + Fanout[stream] = AllCopies(stream, W)
    BY <1>0, <2>1, AllCopiesType
  <2> HIDE DEF TypeOK, Places, Frames, vars, Ctx, Sig, Exiting, LogPc
  <2>3. CASE stream' \in TxStream
    <3>1. stream = "inet_out" /\ stream' = "inet6_out"
      BY <2>1, <2>3 DEF After, Rx, Tx, RxStream, TxStream
    <3>2. ASSUME NEW t \in Tx(rc_mode) PROVE Tried(t)' = Tried(t)
      <4>1. AllCopies(t, W - 1) \in Int
        <5>1. t \in TxStream /\ W - 1 \in Int
          BY <1>0
        <5>2. QED
          BY <5>1, AllCopiesType
      <4>2. t \in {"inet_out", "inet6_out"}
        BY <1>0 DEF TxStream
      <4>3. QED
        BY <1>0, <2>1, <2>e, <2>2, <2>3, <3>1, <4>1, <4>2
    <3>3. sa_dest' <= Fanout[stream']
      BY <1>0, <2>1, <2>3
    <3>4. QED
      BY <1>0, <2>1, <3>2, <3>3
  <2>4. CASE stream' \notin TxStream
    <3>1. \A t \in Tx(rc_mode) : t # stream => stream # "inet_out"
      BY <2>1, <2>4 DEF After, Rx, Tx, RxStream, TxStream
    <3>2. QED
      BY <1>0, <2>1, <2>e, <2>2, <2>4, <3>1
  <2>5. QED
    BY <2>3, <2>4
<1>12. ASSUME NEW s \in Sig, Kill(s) PROVE CopiesCounted'
  BY <1>12 DEF Kill
<1>13. ASSUME NEW s \in Sig, Deliver(s) PROVE CopiesCounted'
  BY <1>13, SMTT(30) DEF Deliver, SaHandler
<1>14. ASSUME NEW s \in Sig, Return(s) PROVE CopiesCounted'
  BY <1>14, SMTT(30) DEF Return, CopyLost, SaFlags
<1>15. ASSUME NEW s \in Sig, CloseSockets(s) PROVE CopiesCounted'
  BY <1>15 DEF CloseSockets
<1>16. ASSUME NEW s \in Sig, CleanupProgParms(s) PROVE CopiesCounted'
  BY <1>16 DEF CleanupProgParms
<1>17. CASE UNCHANGED vars
  BY <1>17
<1>18. QED
  BY <1>1, <1>2, <1>3, <1>4, <1>5, <1>6, <1>7, <1>8, <1>9, <1>10, <1>11, <1>12,
     <1>13, <1>14, <1>15, <1>16, <1>17
  DEF Next, Progress, RecvError, Terminated

(* log_packet_counters() names the streams of the mode, each mode its own. *)
LEMMA ReportFieldsType == \A m \in Mode : ReportFields(m) = StreamsOf(m)
BY DEF ReportFields, StreamsOf, Rx, Tx, TxStream, Mode

(* What an exit handler has logged stays true: main does not run again, so  *)
(* no counter and no traffic moves after log_packet_counters().             *)
LEMMA ReportStep ==
  TypeOK /\ Places /\ Frames /\ StreamAtHand /\ CountersTrackTraffic /\ ReportDone
  /\ [Next]_vars => ReportDone'
<1> SUFFICES ASSUME TypeOK, Places, Frames, StreamAtHand, CountersTrackTraffic,
                    ReportDone, [Next]_vars
             PROVE  ReportDone'
  OBVIOUS
<1> USE DEF TypeOK, vars, proc, frames, sigs, fds, copies, counts, At, Goto,
            MoreDests, Tally, Places, Frames, Ctx, Sig, Exiting, LogPc,
            ReportDone, Before, InFlight
<1>1. ASSUME NEW c \in Ctx, LogEnter(c) PROVE ReportDone'
  BY <1>1 DEF LogEnter
<1>2. ASSUME NEW c \in Ctx, LogLeave(c) PROVE ReportDone'
  <2>1. CASE c = "main"
    <3>1. reported' = reported /\ \A s \in Sig : pc'[s] = "idle"
      BY <1>2, <2>1 DEF LogLeave, MainPc
    <3>2. QED
      BY <1>2, <2>1, <3>1 DEF LogLeave
  <2>2. CASE c # "main" /\ pc[c] # "log_counters"
    BY <1>2, <2>2 DEF LogLeave, AfterLog
  <2>3. CASE c # "main" /\ pc[c] = "log_counters"
    <3>1. reported' = [s \in Stream |-> IF s \in StreamsOf(rc_mode)
                                        THEN pkt_counters[s] ELSE reported[s]]
      BY <1>2, <2>3, ReportFieldsType, ModesAssumption DEF LogLeave
    <3>2. \A s \in Stream : wire[s] - InFlight(s) = pkt_counters[s]
      BY DEF CountersTrackTraffic
    <3>3. StreamsOf(rc_mode) \subseteq Stream
      BY DEF StreamsOf, Rx, Tx, Stream, RxStream, TxStream
    <3>4. \A s \in Stream : InFlight(s)' = InFlight(s)
      BY <1>2, <2>3 DEF LogLeave
    <3>5. UNCHANGED <<rc_mode, wire, exited>> /\ exited = "no"
      BY <1>2 DEF LogLeave
    <3> HIDE DEF InFlight
    <3>6. QED
      BY <3>1, <3>2, <3>3, <3>4, <3>5
  <2>4. QED
    BY <2>1, <2>2, <2>3
<1>3. ASSUME NEW c \in Ctx, Exit(c) PROVE ReportDone'
  BY <1>3 DEF Exit
<1>4. ASSUME NEW fd \in 0..MaxFd, Socket(fd) PROVE ReportDone'
  BY <1>4 DEF Socket
<1>5. CASE OpenFails
  BY <1>5 DEF OpenFails
<1>6. CASE Configured
  BY <1>6 DEF Configured
<1>7. CASE Recv
  BY <1>7 DEF Recv
<1>8. CASE RecvEmpty
  BY <1>8 DEF RecvEmpty
<1>9. CASE CountIn
  BY <1>9 DEF CountIn
<1>10. ASSUME NEW ok \in BOOLEAN, Sendto(ok) PROVE ReportDone'
  BY <1>10 DEF Sendto
<1>11. CASE TxDone
  BY <1>11 DEF TxDone
<1>12. ASSUME NEW s \in Sig, Kill(s) PROVE ReportDone'
  BY <1>12 DEF Kill
<1>13. ASSUME NEW s \in Sig, Deliver(s) PROVE ReportDone'
  BY <1>13 DEF Deliver, SaHandler
<1>14. ASSUME NEW s \in Sig, Return(s) PROVE ReportDone'
  BY <1>14 DEF Return, CopyLost
<1>15. ASSUME NEW s \in Sig, CloseSockets(s) PROVE ReportDone'
  BY <1>15 DEF CloseSockets
<1>16. ASSUME NEW s \in Sig, CleanupProgParms(s) PROVE ReportDone'
  BY <1>16 DEF CleanupProgParms
<1>17. CASE UNCHANGED vars
  BY <1>17
<1>18. QED
  BY <1>1, <1>2, <1>3, <1>4, <1>5, <1>6, <1>7, <1>8, <1>9, <1>10, <1>11, <1>12,
     <1>13, <1>14, <1>15, <1>16, <1>17
  DEF Next, Progress, RecvError, Terminated

-----------------------------------------------------------------------------
(* The inductive invariant holds when the program starts. *)
THEOREM InitIInv == Init => IInv
<1> SUFFICES ASSUME Init PROVE IInv
  OBVIOUS
<1> USE DEF Init, Stream, RxStream, TxStream, Ctx, Sig, Exiting
<1>1. TypeOK
  BY MaxFdAssumption, BoundsAssumption DEF TypeOK, Rx, MainPc, HandlerPc, FdUse
<1>2. Places /\ Frames
  BY DEF Places, Frames, MainPc
<1>3. DestsLive /\ FdsOwned
  BY DEF DestsLive, FdsOwned, Before, Tx
<1>4. StreamAtHand
  BY DEF StreamAtHand, StreamsOf, Rx, Tx, OpenedBefore, InLoop
<1>5. FdsKnown
  BY DEF FdsKnown
<1>6. CountersTrackTraffic
  BY DEF CountersTrackTraffic, InFlight
<1>7. CopiesCounted
  <2>1. \A t \in TxStream : AllCopies(t, 0) = 0
    BY FanoutAssumption DEF AllCopies
  <2>2. \A t \in TxStream : Tried(t) = AllCopies(t, 0)
    BY DEF Tried, Rx
  <2>3. QED
    BY <2>1, <2>2 DEF CopiesCounted, Tx
<1>8. ReportDone
  BY DEF ReportDone, Before, StreamsOf, Rx, Tx
<1>9. QED
  BY <1>1, <1>2, <1>3, <1>4, <1>5, <1>6, <1>7, <1>8 DEF IInv

(* Every step of main, of a handler, of the kernel and of the network keeps *)
(* the inductive invariant.                                                 *)
THEOREM StepIInv == IInv /\ [Next]_vars => IInv'
BY TypeStep, FramesStep, DestsStep, StreamStep, FdsOwnedStep, FdsKnownStep,
   CountersStep, CopiesStep, ReportStep DEF IInv

(* The inductive invariant holds in every reachable state. *)
THEOREM InvariantHolds == Spec => []IInv
<1>1. Init => IInv
  BY InitIInv
<1>2. IInv /\ [Next]_vars => IInv'
  BY StepIInv
<1>3. QED
  BY <1>1, <1>2, PTL DEF Spec

-----------------------------------------------------------------------------
(* What follows from it. *)

(* Every state has its type, for all values of the constants. *)
THEOREM TypeCorrect == Spec => []TypeOK
<1>1. IInv => TypeOK
  BY DEF IInv
<1>2. QED
  BY <1>1, InvariantHolds, PTL

(* The packet counters lag the traffic by what main has in hand, no more. *)
THEOREM CountersCorrect == Spec => []CountersTrackTraffic
<1>1. IInv => CountersTrackTraffic
  BY DEF IInv
<1>2. QED
  BY <1>1, InvariantHolds, PTL

(* No datagram is taken before each earlier one was tried exactly once for  *)
(* each destination, however many destinations and signals there are.       *)
THEOREM CopiesCorrect == Spec => []EveryCopyTriedOnce
<1>1. IInv => EveryCopyTriedOnce
  BY DEF IInv, CopiesCounted, Tried, AllCopies, EveryCopyTriedOnce
<1>2. QED
  BY <1>1, InvariantHolds, PTL

(* The final report is the traffic, less what SIGTERM caught in flight. *)
THEOREM ReportCorrect == Spec => []FinalStatsAccurate
<1>1. IInv => FinalStatsAccurate
  BY DEF IInv, TypeOK, ReportDone, Before, FinalStatsAccurate
<1>2. QED
  BY <1>1, InvariantHolds, PTL

(* The signal masks keep every handler away from freed destinations. *)
THEOREM DestsSafe == Spec => []NoUseAfterFree
<1>1. IInv => NoUseAfterFree
  BY DEF IInv, TypeOK, Places, Frames, DestsLive, Before, NoUseAfterFree,
         Ctx, Sig, Exiting
<1>2. QED
  BY <1>1, InvariantHolds, PTL

(* The signal masks keep sockets from being closed twice. *)
THEOREM ClosesSafe == Spec => []NoBadClose
<1>1. IInv => NoBadClose
  BY DEF IInv, TypeOK, Places, Frames, FdsOwned, Before, NoBadClose,
         Ctx, Sig, Exiting, MainPc
<1>2. QED
  BY <1>1, InvariantHolds, PTL

(* Traffic leaves and enters by the sockets opened for it. *)
THEOREM TrafficSafe == Spec => []TrafficOnOwnSocket
<1>1. IInv => TrafficOnOwnSocket
  BY DEF IInv, TypeOK, Frames, FdsOwned, Before, StreamAtHand, InLoop,
         TrafficOnOwnSocket, Sig, Exiting
<1>2. QED
  BY <1>1, InvariantHolds, PTL

(* A program ended by a signal has closed what it had opened. *)
THEOREM ExitClosesSockets == Spec => []SocketsClosed
<1>1. IInv => SocketsClosed
  BY DEF IInv, ReportDone, FdsKnown, Before, SocketsClosed
<1>2. QED
  BY <1>1, InvariantHolds, PTL

-----------------------------------------------------------------------------
(* What can wait, and how the end comes nearer. *)

(* Only main or a handler it interrupted hold the log, and each at a place  *)
(* where it logs; the masks say which handler can have interrupted which.   *)
LEMMA WaitsBelow == IInv => WaitsOnlyForInterrupted
<1> SUFFICES ASSUME IInv, Waits
             PROVE  /\ running \in Sig
                    /\ \A c \in inlog : \/ c = "main" /\ ~InLoop
                                        \/ c \in Sig \ Exiting /\ running \in Exiting
  BY DEF WaitsOnlyForInterrupted
<1>1. /\ running \in Ctx /\ inlog \subseteq Ctx /\ running \notin inlog /\ inlog # {}
      /\ \A c \in inlog : pc[c] \in LogPc
  BY DEF IInv, TypeOK, Places, Waits, CanLog
<1>2. running # "main"
  BY <1>1 DEF IInv, Frames, LogPc, Ctx
<1>3. running \in Sig
  BY <1>1, <1>2 DEF Ctx
<1>4. ASSUME NEW c \in inlog
      PROVE  \/ c = "main" /\ ~InLoop
             \/ c \in Sig \ Exiting /\ running \in Exiting
  <2>1. c \in Ctx /\ c # running /\ pc[c] \in LogPc
    BY <1>1
  <2>2. c = "main" => ~InLoop
    BY <2>1 DEF InLoop, LogPc
  <2>3. CASE c \in Sig
    <3>1. pc[c] # "idle"
      BY <2>1 DEF LogPc
    <3>2. running \in Exiting
      BY <1>3, <2>1, <2>3, <3>1 DEF IInv, Frames
    <3>3. c \notin Exiting
      BY <2>1, <3>1, <3>2 DEF IInv, Frames
    <3>. QED
      BY <2>3, <3>2, <3>3
  <2>4. CASE c = "main"
    BY <2>2, <2>4
  <2>5. c \in Sig \/ c = "main"
    BY <2>1 DEF Ctx
  <2>. QED
    BY <2>3, <2>4, <2>5
<1>. QED
  BY <1>3, <1>4

(* A handler of SIGTERM or SIGINT that interrupted main in its loop finds   *)
(* the log free.                                                            *)
LEMMA EndingNeverWaits == IInv /\ EndInSight => ~Waits
<1> SUFFICES ASSUME IInv, EndInSight, Waits PROVE FALSE
  OBVIOUS
<1>1. /\ running \in Sig /\ running \notin inlog /\ inlog # {} /\ exited = "no"
      /\ \A c \in inlog : pc[c] \in LogPc
      /\ \A c \in inlog : (c = "main" /\ ~InLoop) \/ c \in Sig \ Exiting
  BY WaitsBelow DEF WaitsOnlyForInterrupted, Waits, CanLog, IInv, Places
<1>2. Ending
  BY <1>1 DEF EndInSight, ToldToEnd, Sig, Exiting
<1>3. PICK c \in inlog : TRUE
  BY <1>1
<1>4. c \in Sig /\ c # running /\ pc[c] # "idle"
  BY <1>1, <1>2, <1>3 DEF Ending, LogPc
<1>. QED
  BY <1>2, <1>4 DEF Ending

(* While main is told to end, its own steps leave the signal pending, and   *)
(* the only thing that happens to it besides is the signal's delivery.      *)
LEMMA ToldStep ==
  IInv /\ exited = "no" /\ ToldToEnd /\ Next =>
    exited' = "no" /\ (ToldToEnd' \/ (Ending' /\ ToEnd' = 5))
<1> SUFFICES ASSUME IInv, exited = "no", ToldToEnd, Next
             PROVE  exited' = "no" /\ (ToldToEnd' \/ (Ending' /\ ToEnd' = 5))
  OBVIOUS
<1>1. /\ running = "main" /\ pc["main"] \in {"recv", "count_in", "send"}
      /\ kills = MaxKills /\ pending # {} /\ pending \subseteq Exiting
  BY DEF ToldToEnd, InLoop
<1>2. /\ \A s \in Sig : pc[s] = "idle"
      /\ "main" \notin inlog /\ pc \in [Ctx -> MainPc \cup HandlerPc]
  BY <1>1 DEF IInv, TypeOK, Places, Frames, LogPc
<1> USE DEF At, Goto, vars, proc, frames, sigs, fds, copies, counts
<1>3. ASSUME NEW s \in Sig, Deliver(s) PROVE exited' = "no" /\ Ending' /\ ToEnd' = 5
  <2>1. /\ s \in Exiting /\ running' = s /\ exited' = "no" /\ kills' = MaxKills
        /\ pc' = [pc EXCEPT ![s] = "close_sockets"]
    <3>1. s \in Exiting
      BY <1>1, <1>3 DEF Deliver
    <3>2. SaHandler(s) = "close_sockets"
      BY <3>1 DEF SaHandler, Exiting
    <3>. QED
      BY <1>1, <1>3, <3>1, <3>2 DEF Deliver
  <2>2. s # "main" /\ s \in Ctx /\ "main" \in Ctx /\ \A o \in Sig : o \in Ctx
    BY <2>1 DEF Exiting, Sig, Ctx
  <2>3. /\ pc'[s] = "close_sockets" /\ pc'["main"] = pc["main"]
        /\ \A o \in Sig : o # s => pc'[o] = "idle"
    BY <1>2, <2>1, <2>2
  <2>. QED
    BY <1>1, <2>1, <2>3, <2>2 DEF Ending, InLoop, ToEnd
<1>4. CASE Recv \/ RecvEmpty \/ RecvError \/ CountIn \/ TxDone \/ \E ok \in BOOLEAN : Sendto(ok)
  <2>1. UNCHANGED <<frames, sigs, exited>> /\ pc'["main"] \in {"recv", "count_in", "send"}
    BY <1>1, <1>2, <1>4
    DEF Recv, RecvEmpty, RecvError, CountIn, TxDone, Sendto, Ctx
  <2>. QED
    BY <1>1, <2>1 DEF ToldToEnd, InLoop
<1>5. ~Terminated /\ \A s \in Sig : ~Kill(s)
  BY <1>1, BoundsAssumption DEF Terminated, Kill
<1>6. ASSUME NEW s \in Sig PROVE ~Return(s) /\ ~CloseSockets(s) /\ ~CleanupProgParms(s)
  BY <1>2 DEF Return, CloseSockets, CleanupProgParms
<1>7. ASSUME NEW c \in Ctx PROVE ~LogEnter(c) /\ ~LogLeave(c) /\ ~Exit(c)
  BY <1>1, <1>2 DEF LogEnter, LogLeave, Exit, LogPc
<1>8. /\ ~OpenFails /\ ~Configured /\ \A fd \in 0..MaxFd : ~Socket(fd)
  BY <1>1 DEF OpenFails, Configured, Socket
<1>. QED
  BY <1>3, <1>4, <1>5, <1>6, <1>7, <1>8 DEF Next, Progress

(* The exit handler of a program in its loop runs through its places.       *)
LEMMA EndingStep ==
  IInv /\ exited = "no" /\ Ending /\ Next =>
    (exited' # "no" \/ Ending') /\ ToEnd' < ToEnd
<1> SUFFICES ASSUME IInv, exited = "no", Ending, Next
             PROVE  (exited' # "no" \/ Ending') /\ ToEnd' < ToEnd
  OBVIOUS
<1>1. PICK h : h = running
  OBVIOUS
<1>2. /\ h \in Exiting /\ running = h /\ kills = MaxKills
      /\ pc["main"] \in {"recv", "count_in", "send"}
      /\ \A s \in Sig : s # h => pc[s] = "idle"
  BY <1>1 DEF Ending, InLoop
<1>3. /\ pc \in [Ctx -> MainPc \cup HandlerPc] /\ sigmask = Sig
      /\ pc[h] \in {"idle", "close_sockets", "log_counters", "cleanup", "exit"}
      /\ h \in inlog => pc[h] \in LogPc
  BY <1>2 DEF IInv, TypeOK, Places, Frames
<1>4. h \in Ctx /\ h \in Sig /\ h # "main"
  BY <1>2 DEF Ctx, Sig, Exiting
<1> USE DEF At, Goto, vars, proc, frames, sigs, fds, copies, counts
<1>5. ASSUME NEW at, pc' = [pc EXCEPT ![h] = at], UNCHANGED <<running, kills, exited>>
      PROVE  Ending' /\ pc'[h] = at /\ running' = h /\ exited' = "no"
  BY <1>2, <1>3, <1>4, <1>5 DEF Ending, InLoop, Ctx, Sig, Exiting
<1>6. ASSUME NEW c \in Ctx, LogEnter(c) PROVE Ending' /\ ToEnd' < ToEnd
  <2>1. /\ c = h /\ pc[h] = "log_counters" /\ h \notin inlog /\ h \in inlog'
        /\ UNCHANGED <<running, kills, exited, pc>>
    BY <1>2, <1>3, <1>6 DEF LogEnter, LogPc
  <2>2. Ending'
    BY <2>1 DEF Ending, InLoop
  <2>3. ToEnd = 4 /\ ToEnd' = 3
    BY <1>2, <1>4, <2>1 DEF ToEnd
  <2>. QED
    BY <2>2, <2>3
<1>7. ASSUME NEW c \in Ctx, LogLeave(c) PROVE Ending' /\ ToEnd' < ToEnd
  <2>1. /\ c = h /\ h \in inlog /\ pc[h] = "log_counters"
        /\ pc' = [pc EXCEPT ![h] = "cleanup"] /\ UNCHANGED <<running, kills, exited>>
    BY <1>2, <1>3, <1>7 DEF LogLeave, AfterLog, LogPc
  <2>2. Ending' /\ pc'[h] = "cleanup" /\ running' = h /\ exited' = "no"
    BY <1>5, <2>1
  <2>3. ToEnd = 3 /\ ToEnd' = 2
    BY <1>2, <1>4, <2>1, <2>2 DEF ToEnd
  <2>. QED
    BY <2>2, <2>3
<1>8. ASSUME NEW c \in Ctx, Exit(c) PROVE exited' # "no" /\ ToEnd' < ToEnd
  <2>1. c = h /\ pc[h] = "exit" /\ exited' # "no"
    BY <1>2, <1>8 DEF Exit
  <2>2. ToEnd = 1 /\ ToEnd' = 0
    BY <1>2, <1>4, <2>1 DEF ToEnd
  <2>. QED
    BY <2>1, <2>2
<1>9. ASSUME NEW s \in Sig, CloseSockets(s) PROVE Ending' /\ ToEnd' < ToEnd
  <2>1. /\ s = h /\ pc[h] = "close_sockets"
        /\ pc' = [pc EXCEPT ![h] = "log_counters"] /\ UNCHANGED <<running, kills, exited>>
    BY <1>2, <1>9 DEF CloseSockets
  <2>2. Ending' /\ pc'[h] = "log_counters" /\ running' = h /\ exited' = "no"
    BY <1>5, <2>1
  <2>3. ToEnd = 5 /\ ToEnd' \in {3, 4}
    BY <1>2, <1>4, <2>1, <2>2 DEF ToEnd
  <2>. QED
    BY <2>2, <2>3
<1>10. ASSUME NEW s \in Sig, CleanupProgParms(s) PROVE Ending' /\ ToEnd' < ToEnd
  <2>1. /\ s = h /\ pc[h] = "cleanup"
        /\ pc' = [pc EXCEPT ![h] = "exit"] /\ UNCHANGED <<running, kills, exited>>
    BY <1>2, <1>10 DEF CleanupProgParms
  <2>2. Ending' /\ pc'[h] = "exit" /\ running' = h /\ exited' = "no"
    BY <1>5, <2>1
  <2>3. ToEnd = 2 /\ ToEnd' = 1
    BY <1>2, <1>4, <2>1, <2>2 DEF ToEnd
  <2>. QED
    BY <2>2, <2>3
<1>11. ~Terminated /\ \A s \in Sig : ~Kill(s) /\ ~Deliver(s) /\ ~Return(s)
  BY <1>2, <1>3, BoundsAssumption DEF Terminated, Kill, Deliver, Return
<1>12. /\ ~OpenFails /\ ~Configured /\ ~CountIn /\ ~TxDone
       /\ ~Recv /\ ~RecvEmpty /\ ~RecvError
       /\ \A fd \in 0..MaxFd : ~Socket(fd)
       /\ \A ok \in BOOLEAN : ~Sendto(ok)
  BY <1>2, <1>4
  DEF OpenFails, Configured, CountIn, TxDone, Recv, RecvEmpty, RecvError, Socket, Sendto
<1>. QED
  BY <1>6, <1>7, <1>8, <1>9, <1>10, <1>11, <1>12 DEF Next, Progress

(* Nothing waits for the log lock but a handler for what it interrupted.    *)
THEOREM OnlyHandlersWait == Spec => []WaitsOnlyForInterrupted
<1>1. IInv => WaitsOnlyForInterrupted
  BY WaitsBelow
<1>2. QED
  BY <1>1, InvariantHolds, PTL

(* A program whose loop is told to end is past return: what liveness adds,  *)
(* and only TLC checks, is that the signal and the handler get their turn.  *)
THEOREM LoopNearsItsEnd == Spec => EndComesNearer
<1>1. ASSUME IInv, [Next]_vars
      PROVE  [EndInSight => /\ EndInSight'
                            /\ ToEnd' < ToEnd \/ (ToldToEnd /\ ToldToEnd')]_vars
  <2>1. SUFFICES ASSUME Next, vars' # vars, EndInSight
                 PROVE  EndInSight' /\ (ToEnd' < ToEnd \/ (ToldToEnd /\ ToldToEnd'))
    BY <1>1
  <2>2. exited = "no"
    <3>1. SUFFICES ASSUME exited # "no" PROVE FALSE
      OBVIOUS
    <3>. QED
      BY <2>1, <3>1
      DEF Next, Progress, At, LogEnter, LogLeave, Exit, Socket, OpenFails, Configured,
          Recv, RecvEmpty, RecvError, CountIn, Sendto, TxDone, Kill, Deliver, Return,
          CloseSockets, CleanupProgParms, Terminated
  <2>3. CASE ToldToEnd
    <3>1. ToEnd = 6
      BY <2>2, <2>3 DEF ToEnd, ToldToEnd, InLoop
    <3>2. exited' = "no" /\ (ToldToEnd' \/ (Ending' /\ ToEnd' = 5))
      BY <1>1, <2>1, <2>2, <2>3, ToldStep
    <3>. QED
      BY <2>3, <3>1, <3>2 DEF EndInSight
  <2>4. CASE Ending
    BY <1>1, <2>1, <2>2, <2>4, EndingStep DEF EndInSight
  <2>. QED
    BY <2>1, <2>2, <2>3, <2>4 DEF EndInSight
<1>2. IInv /\ EndInSight => ~Waits
  BY EndingNeverWaits
<1>. QED
  BY <1>1, <1>2, InvariantHolds, PTL DEF Spec, EndComesNearer
=============================================================================
