------------------------------- MODULE Relay -------------------------------
(* The running program of replicast.c: the main context, which logs its     *)
(* parameters, opens its sockets and then loops in one of the six           *)
(* *_to_*_rcast() functions, and the four signal handlers that interrupt it *)
(* (SIGTERM and SIGINT end the program, SIGUSR1 logs the packet counters,   *)
(* SIGUSR2 the parameters).  One action is one system call with the         *)
(* assignments that go with it, or one block of log messages; a signal can  *)
(* be delivered between any two of them.                                    *)
(*                                                                          *)
(* The model starts where main() has parsed its options, installed the      *)
(* handlers and, with become_daemon, detached from its terminal.            *)
EXTENDS RcMode, Integers

CONSTANTS
  Modes,        \* the rc_modes to start in
  Daemon,       \* the values of become_daemon to start with
  Fanout,       \* dests_num of inet_tx_sock_parms and inet6_tx_sock_parms
  MaxFd,        \* the process's highest file descriptor
  MaxDatagrams, \* bound: datagrams that reach the source socket
  MaxKills      \* bound: signals sent to the process

ASSUME ModesAssumption  == Modes \subseteq Mode
ASSUME DaemonAssumption == Daemon \subseteq BOOLEAN
ASSUME FanoutAssumption == Fanout \in [TxStream -> Nat]
ASSUME MaxFdAssumption  == MaxFd \in Nat
ASSUME BoundsAssumption == MaxDatagrams \in Nat /\ MaxKills \in Nat

-----------------------------------------------------------------------------
Exiting == {"SIGTERM", "SIGINT"}
Sig     == Exiting \cup {"SIGUSR1", "SIGUSR2"}
Ctx     == Sig \cup {"main"}

(* sa_mask of each handler; a signal's own handler also blocks the signal.  *)
(* Seeded errors: a signal left out of an exit handler's mask.              *)
SaMaskNoUsr2(s) ==
  IF s \in Exiting THEN {"SIGTERM", "SIGINT", "SIGUSR1"} ELSE Sig \ Exiting

SaMaskNoInt(s) ==
  IF s \in Exiting THEN {"SIGUSR1", "SIGUSR2"} ELSE Sig \ Exiting

SaMask(s) ==
  CASE s = "SIGTERM" -> {"SIGINT", "SIGUSR1", "SIGUSR2"}
    [] s = "SIGINT"  -> {"SIGTERM", "SIGUSR1", "SIGUSR2"}
    [] s = "SIGUSR1" -> {"SIGUSR2"}
    [] s = "SIGUSR2" -> {"SIGUSR1"}

(* Seeded error: no handler asks for SA_RESTART. *)
SaFlagsNone(s) == {}

SaFlags(s) == IF s \in Exiting THEN {} ELSE {"SA_RESTART"}

(* The handlers' bodies, as the places a context can be at. Seeded error:   *)
(* the two user signals have the same handler.                              *)
SaHandlerSame(s) == IF s \in Exiting THEN "close_sockets" ELSE "log_parms"

SaHandler(s) ==
  CASE s \in Exiting   -> "close_sockets"
    [] s = "SIGUSR1"   -> "log_counters"
    [] s = "SIGUSR2"   -> "log_parms"

LogPc     == {"log_parms", "log_counters", "exit_errno"}
MainPc    == {"log_parms", "socket", "configure", "exit_errno", "exit",
              "recv", "count_in", "send"}
HandlerPc == {"idle", "close_sockets", "log_counters", "cleanup",
              "log_parms", "return", "exit"}

(* Where a context goes after a block of log messages. Seeded error:        *)
(* exit_program() returns instead of calling exit().                        *)
AfterLogNoExit(c, at) ==
  CASE at = "exit_errno"   -> "exit"
    [] at = "log_parms"    -> IF c = "main" THEN "socket" ELSE "return"
    [] at = "log_counters" -> "return"

AfterLog(c, at) ==
  CASE at = "exit_errno"   -> "exit"
    [] at = "log_parms"    -> IF c = "main" THEN "socket" ELSE "return"
    [] at = "log_counters" -> IF c \in Exiting THEN "cleanup" ELSE "return"

-----------------------------------------------------------------------------
VARIABLES
  rc_mode, become_daemon,  \* prog_parms, fixed once the options are parsed
  running,                 \* the context the process executes
  pc,                      \* where each context is
  interrupted,             \* the context a handler interrupted, or "none"
  saved,                   \* the signal mask a handler's return restores
  sigmask, pending,        \* the process's blocked and pending signals
  kills,                   \* signals sent so far
  inlog,                   \* contexts inside a call of the C library's logging
  stream, sock_fd,         \* main: the socket at hand, and open_*_sock()'s local
  sa_dest, tx_success,     \* main: locals of inet_tx_rcast(), inet6_tx_rcast()
  sock_fds, fdtable,       \* the global, and what each descriptor refers to
  dests,                   \* the two arrays of destinations on the heap
  pkt_counters,            \* the global
  reported,                \* the counters last logged (-1: never logged)
  wire, refused, empties,  \* history: datagrams the kernel passed in and out,
                           \* copies it refused, datagrams without payload
  exited                   \* "no", or exit()'s status

proc   == <<rc_mode, become_daemon>>
frames == <<running, interrupted, saved, sigmask>>
sigs   == <<pending, kills>>
fds    == <<stream, sock_fd, sock_fds, fdtable>>
copies == <<sa_dest, tx_success, refused>>
counts == <<pkt_counters, wire, empties>>
vars   == <<proc, frames, sigs, fds, copies, counts, pc, inlog, dests,
            reported, exited>>

FdUse == {"free", "tty", "syslog"} \cup Stream

TypeOK ==
  /\ rc_mode \in Modes /\ become_daemon \in Daemon
  /\ running \in Ctx
  /\ pc \in [Ctx -> MainPc \cup HandlerPc]
  /\ interrupted \in [Sig -> Ctx \cup {"none"}]
  /\ saved \in [Sig -> SUBSET Sig]
  /\ sigmask \in SUBSET Sig /\ pending \in SUBSET Sig
  /\ kills \in 0..MaxKills
  /\ inlog \in SUBSET Ctx
  /\ stream \in Stream
  /\ sock_fd \in -1..MaxFd
  /\ sa_dest \in Nat /\ tx_success \in Nat
  /\ sock_fds \in [Stream -> -1..MaxFd]
  /\ fdtable \in [0..MaxFd -> FdUse]
  /\ dests \in [TxStream -> {"null", "live"}]
  /\ pkt_counters \in [Stream -> Nat]
  /\ reported \in [Stream -> Nat \cup {-1}]
  /\ wire \in [Stream -> Nat]
  /\ refused \in [TxStream -> Nat]
  /\ empties \in Nat
  /\ exited \in {"no", "success", "failure"}

(* A daemon has replaced its terminal, descriptors 0 to 2, by the connection *)
(* to syslogd that openlog(LOG_NDELAY) made before they were closed.         *)
Init ==
  /\ rc_mode \in Modes /\ become_daemon \in Daemon
  /\ running = "main"
  /\ pc = [c \in Ctx |-> IF c = "main" THEN "log_parms" ELSE "idle"]
  /\ interrupted = [s \in Sig |-> "none"]
  /\ saved = [s \in Sig |-> {}]
  /\ sigmask = {} /\ pending = {} /\ kills = 0
  /\ inlog = {}
  /\ stream = Rx(rc_mode) /\ sock_fd = -1
  /\ sa_dest = 0 /\ tx_success = 0
  /\ sock_fds = [s \in Stream |-> -1]
  /\ fdtable = [f \in 0..MaxFd |->
                  IF become_daemon THEN IF f = 3 THEN "syslog" ELSE "free"
                                   ELSE IF f < 3 THEN "tty" ELSE "free"]
  /\ dests = [t \in TxStream |-> IF t \in Tx(rc_mode) THEN "live" ELSE "null"]
  /\ pkt_counters = [s \in Stream |-> 0]
  /\ reported = [s \in Stream |-> -1]
  /\ wire = [s \in Stream |-> 0]
  /\ refused = [t \in TxStream |-> 0]
  /\ empties = 0
  /\ exited = "no"

At(c, at) == exited = "no" /\ running = c /\ pc[c] = at

Goto(c, at) == pc' = [pc EXCEPT ![c] = at]

-----------------------------------------------------------------------------
(* Logging.  The C library's syslog() holds a lock that its caller cannot   *)
(* take twice, and a handler that finds it held waits for a context that    *)
(* cannot run.  On a terminal the stream's lock lets its owner in again.    *)

CanLog == become_daemon => inlog = {}

(* The counters log_packet_counters() prints in each mode.  Seeded error:   *)
(* the family of the source is taken for that of the destinations.          *)
ReportFieldsSameFamily(m) ==
  IF Rx(m) = "inet_in" THEN {"inet_in", "inet_out"} ELSE {"inet6_in", "inet6_out"}

ReportFields(m) ==
  CASE m = "INET_TO_INET"        -> {"inet_in", "inet_out"}
    [] m = "INET_TO_INET6"       -> {"inet_in", "inet6_out"}
    [] m = "INET_TO_INET_INET6"  -> {"inet_in", "inet_out", "inet6_out"}
    [] m = "INET6_TO_INET6"      -> {"inet6_in", "inet6_out"}
    [] m = "INET6_TO_INET"       -> {"inet6_in", "inet_out"}
    [] m = "INET6_TO_INET_INET6" -> {"inet6_in", "inet_out", "inet6_out"}

LogEnter(c) ==
  /\ \E at \in LogPc : At(c, at)
  /\ c \notin inlog /\ CanLog
  /\ inlog' = inlog \cup {c}
  /\ UNCHANGED <<proc, frames, sigs, fds, copies, counts, pc, dests, reported,
                 exited>>

LogLeave(c) ==
  /\ exited = "no" /\ running = c
  /\ c \in inlog
  /\ inlog' = inlog \ {c}
  /\ Goto(c, AfterLog(c, pc[c]))
  /\ reported' = IF pc[c] = "log_counters"
                 THEN [s \in Stream |-> IF s \in ReportFields(rc_mode)
                                        THEN pkt_counters[s] ELSE reported[s]]
                 ELSE reported
  /\ UNCHANGED <<proc, frames, sigs, fds, copies, counts, dests, exited>>

-----------------------------------------------------------------------------
(* main: opening the sockets.  Every open_*_sock() keeps the descriptor in  *)
(* a local until the socket is configured; the global is assigned when it   *)
(* returns, and a failure leaves the descriptor open.                       *)

LowestFree(fd) == fdtable[fd] = "free" /\ \A f \in 0..(fd - 1) : fdtable[f] # "free"

Socket(fd) ==
  /\ At("main", "socket")
  /\ LowestFree(fd)
  /\ sock_fd' = fd
  /\ fdtable' = [fdtable EXCEPT ![fd] = stream]
  /\ Goto("main", "configure")
  /\ UNCHANGED <<proc, frames, sigs, stream, sock_fds, copies, counts, inlog,
                 dests, reported, exited>>

OpenFails ==
  /\ At("main", "socket") \/ At("main", "configure")
  /\ sock_fds' = [sock_fds EXCEPT ![stream] = -1]
  /\ sock_fd' = -1
  /\ Goto("main", "exit_errno")
  /\ UNCHANGED <<proc, frames, sigs, stream, fdtable, copies, counts, inlog,
                 dests, reported, exited>>

Configured ==
  /\ At("main", "configure")
  /\ sock_fds' = [sock_fds EXCEPT ![stream] = sock_fd]
  /\ sock_fd' = -1
  /\ stream' = After(rc_mode, stream)
  /\ Goto("main", IF After(rc_mode, stream) \in TxStream THEN "socket" ELSE "recv")
  /\ UNCHANGED <<proc, frames, sigs, fdtable, copies, counts, inlog, dests,
                 reported, exited>>

-----------------------------------------------------------------------------
(* main: the loop of the rcast functions.  The history variable wire counts *)
(* what really passes the socket, pkt_counters what the program believes.   *)

Arrives == wire[Rx(rc_mode)] + empties < MaxDatagrams

Recv ==
  /\ At("main", "recv")
  /\ Arrives
  /\ wire' = [wire EXCEPT ![stream] = @ + 1]
  /\ Goto("main", "count_in")
  /\ UNCHANGED <<proc, frames, sigs, fds, copies, pkt_counters, empties, inlog,
                 dests, reported, exited>>

(* recv() == 0 for a datagram without payload: the loop goes round. *)
RecvEmpty ==
  /\ At("main", "recv")
  /\ Arrives
  /\ empties' = empties + 1
  /\ UNCHANGED <<proc, frames, sigs, fds, copies, pkt_counters, wire, pc, inlog,
                 dests, reported, exited>>

(* recv() == -1: the loop goes round. *)
RecvError == At("main", "recv") /\ UNCHANGED vars

CountIn ==
  /\ At("main", "count_in")
  /\ pkt_counters' = [pkt_counters EXCEPT ![stream] = @ + 1]
  /\ stream' = After(rc_mode, stream)
  /\ sa_dest' = 0 /\ tx_success' = 0
  /\ Goto("main", "send")
  /\ UNCHANGED <<proc, frames, sigs, sock_fd, sock_fds, fdtable, refused, wire,
                 empties, inlog, dests, reported, exited>>

(* The loop of the tx_rcast functions stops at the sentinel that follows    *)
(* the last destination.  Seeded error: one too early.                      *)
MoreDestsShort == sa_dest + 1 < Fanout[stream]

MoreDests == sa_dest < Fanout[stream]

(* Seeded errors: sendto()'s result is added up, or not looked at. *)
TallyResult(ok) == IF ok THEN tx_success + 1 ELSE tx_success - 1
TallyAlways(ok) == tx_success + 1

Tally(ok) == IF ok THEN tx_success + 1 ELSE tx_success

Sendto(ok) ==
  /\ At("main", "send")
  /\ MoreDests
  /\ sa_dest' = sa_dest + 1
  /\ tx_success' = Tally(ok)
  /\ IF ok
     THEN wire' = [wire EXCEPT ![stream] = @ + 1] /\ UNCHANGED refused
     ELSE refused' = [refused EXCEPT ![stream] = @ + 1] /\ UNCHANGED wire
  /\ UNCHANGED <<proc, frames, sigs, fds, pkt_counters, empties, pc, inlog,
                 dests, reported, exited>>

(* The tx_rcast function met the sentinel and returns; its result is added  *)
(* to the counter, and the next family is served or the loop goes round.    *)
TxDone ==
  /\ At("main", "send")
  /\ ~MoreDests
  /\ pkt_counters' = [pkt_counters EXCEPT ![stream] = @ + tx_success]
  /\ stream' = After(rc_mode, stream)
  /\ sa_dest' = 0 /\ tx_success' = 0
  /\ Goto("main", IF After(rc_mode, stream) \in TxStream THEN "send" ELSE "recv")
  /\ UNCHANGED <<proc, frames, sigs, sock_fd, sock_fds, fdtable, refused, wire,
                 empties, inlog, dests, reported, exited>>

-----------------------------------------------------------------------------
(* Signals. *)

Kill(s) ==
  /\ exited = "no" /\ kills < MaxKills
  /\ s \notin pending
  /\ pending' = pending \cup {s}
  /\ kills' = kills + 1
  /\ UNCHANGED <<proc, frames, fds, copies, counts, pc, inlog, dests, reported,
                 exited>>

Deliver(s) ==
  /\ exited = "no"
  /\ s \in pending \ sigmask
  /\ pending' = pending \ {s}
  /\ running' = s
  /\ interrupted' = [interrupted EXCEPT ![s] = running]
  /\ saved' = [saved EXCEPT ![s] = sigmask]
  /\ sigmask' = sigmask \cup SaMask(s) \cup {s}
  /\ Goto(s, SaHandler(s))
  /\ UNCHANGED <<proc, kills, fds, copies, counts, inlog, dests, reported, exited>>

(* Without SA_RESTART a sendto() that was waiting fails with EINTR, and the *)
(* loop passes on to the next destination.                                  *)
CopyLost(s) ==
  /\ "SA_RESTART" \notin SaFlags(s)
  /\ interrupted[s] = "main" /\ pc["main"] = "send"
  /\ MoreDests

Return(s) ==
  /\ At(s, "return")
  /\ running' = interrupted[s]
  /\ interrupted' = [interrupted EXCEPT ![s] = "none"]
  /\ sigmask' = saved[s]
  /\ saved' = [saved EXCEPT ![s] = {}]
  /\ Goto(s, "idle")
  /\ sa_dest' = IF CopyLost(s) THEN sa_dest + 1 ELSE sa_dest
  /\ refused' = IF CopyLost(s) THEN [refused EXCEPT ![stream] = @ + 1] ELSE refused
  /\ UNCHANGED <<proc, sigs, fds, tx_success, counts, inlog, dests, reported, exited>>

-----------------------------------------------------------------------------
(* exit_program(), in the handler of SIGTERM or SIGINT.  Every signal that  *)
(* has a handler is blocked here, so the four close() are one step.         *)

(* Seeded error: descriptor 0 is taken for an unopened socket. *)
ClosesNotZero(fd) == fd > 0

Closes(fd) == fd # -1

CloseSockets(s) ==
  /\ At(s, "close_sockets")
  /\ fdtable' = [f \in 0..MaxFd |->
                   IF \E t \in Stream : sock_fds[t] = f /\ Closes(sock_fds[t])
                   THEN "free" ELSE fdtable[f]]
  /\ Goto(s, "log_counters")
  /\ UNCHANGED <<proc, frames, sigs, stream, sock_fd, sock_fds, copies, counts,
                 inlog, dests, reported, exited>>

CleanupProgParms(s) ==
  /\ At(s, "cleanup")
  /\ dests' = [t \in TxStream |-> "null"]
  /\ Goto(s, "exit")
  /\ UNCHANGED <<proc, frames, sigs, fds, copies, counts, inlog, reported, exited>>

(* exit(): from exit_errno() in main, or after log_close() in a handler. *)
Exit(c) ==
  /\ At(c, "exit")
  /\ c = "main" \/ CanLog
  /\ exited' = IF c = "main" THEN "failure" ELSE "success"
  /\ UNCHANGED <<proc, frames, sigs, fds, copies, counts, pc, inlog, dests, reported>>

Terminated == exited # "no" /\ UNCHANGED vars

-----------------------------------------------------------------------------
(* What the program does by itself, without waiting for the network. *)
Progress ==
  \/ \E c \in Ctx : LogEnter(c) \/ LogLeave(c) \/ Exit(c)
  \/ \E fd \in 0..MaxFd : Socket(fd)
  \/ OpenFails \/ Configured
  \/ CountIn \/ (\E ok \in BOOLEAN : Sendto(ok)) \/ TxDone
  \/ \E s \in Sig : Return(s) \/ CloseSockets(s) \/ CleanupProgParms(s)

Next ==
  \/ Progress
  \/ Recv \/ RecvEmpty \/ RecvError
  \/ \E s \in Sig : Kill(s) \/ Deliver(s)
  \/ Terminated

Spec == Init /\ [][Next]_vars

(* The operating system runs the process as long as it can run, and does    *)
(* not hold back a signal that is pending and not blocked.  Nothing makes   *)
(* a datagram or a signal arrive.                                           *)
Fairness == WF_vars(Progress) /\ \A s \in Sig : WF_vars(Deliver(s))

FairSpec == Spec /\ Fairness
-----------------------------------------------------------------------------
(* Properties. *)

InFlight(s) ==
  IF stream # s THEN 0
  ELSE IF pc["main"] = "count_in" THEN 1
  ELSE IF pc["main"] = "send" THEN tx_success ELSE 0

(* The packet counters account for every datagram with a payload that the   *)
(* kernel passed in and every copy it took: they lag by the one datagram in *)
(* hand between recv() and the increment, or by the copies of the family    *)
(* being sent, whose tx_rcast function has not returned its tx_success yet. *)
CountersTrackTraffic == \A s \in Stream : wire[s] = pkt_counters[s] + InFlight(s)

(* Before the program takes the next datagram, each earlier one has been    *)
(* offered to the network exactly once for each destination of each family. *)
EveryCopyTriedOnce ==
  pc["main"] = "recv" =>
    \A t \in Tx(rc_mode) : wire[t] + refused[t] = Fanout[t] * wire[Rx(rc_mode)]

(* What a program ended by SIGTERM or SIGINT logs last is the traffic of    *)
(* each of its sockets, short only of what main had in flight when it was   *)
(* interrupted for good, and it names no socket that its mode does not use. *)
FinalStatsAccurate ==
  exited = "success" =>
    \A s \in Stream : reported[s] = IF s \in StreamsOf(rc_mode)
                                    THEN wire[s] - InFlight(s) ELSE -1

(* No context reads the arrays of destinations, to log or to send to them,  *)
(* once cleanup_prog_parms() has freed them: nothing runs again after it.   *)
NoUseAfterFree ==
  (exited = "no" /\ pc[running] \in {"log_parms", "send"}) =>
    \A t \in Tx(rc_mode) : dests[t] = "live"

(* close_sockets() closes nothing twice and nothing else's: a descriptor    *)
(* in sock_fds still is the socket that was opened for its place.           *)
NoBadClose ==
  (exited = "no" /\ pc[running] = "close_sockets") =>
    \A s \in Stream : sock_fds[s] # -1 => fdtable[sock_fds[s]] = s

(* The loop receives from the source's socket and sends each family's       *)
(* copies through that family's, and all of them are open, however the      *)
(* descriptors were handed out.                                             *)
TrafficOnOwnSocket ==
  (exited = "no" /\ running = "main" /\ pc["main"] \in {"recv", "send"}) =>
    sock_fds[stream] # -1 /\ fdtable[sock_fds[stream]] = stream

(* A program that ends by a signal leaves no socket open, except the one    *)
(* open_*_sock() had not returned yet or had given up.                      *)
SocketsClosed ==
  exited = "success" =>
    \A f \in 0..MaxFd :
      fdtable[f] \in Stream => /\ fdtable[f] = stream
                               /\ pc["main"] \in {"configure", "exit_errno", "exit"}

(* Wherever a signal falls, its handler leaves main's work as it was: no    *)
(* copy is skipped or repeated, no counter moves under main's hands.        *)
HandlersPreserveMain ==
  [][running # "main" => UNCHANGED <<stream, sa_dest, tx_success, refused, counts>>]_vars

(* A SIGTERM or SIGINT ends the program, whatever it was doing. *)
ExitSignalEndsProgram ==
  (pending \cap Exiting # {}) ~> (exited # "no")

(* A daemon in its loop ends too, when no more signals follow: the log lock *)
(* that a SIGTERM needs is then free, or is freed before it is delivered.   *)
LoopEndsBySignal ==
  (/\ running = "main" /\ pc["main"] \in {"recv", "count_in", "send"}
   /\ kills = MaxKills /\ pending # {} /\ pending \subseteq Exiting)
    ~> (exited # "no")

(* A SIGUSR1 is answered: the counters are logged and its handler returns,  *)
(* unless the program ends first (help text: "log current UDP datagram rx   *)
(* and tx stats").                                                          *)
Usr1Answered ==
  /\ ("SIGUSR1" \in pending) ~> (pc["SIGUSR1"] = "log_counters" \/ exited # "no")
  /\ (pc["SIGUSR1"] = "log_counters") ~> (pc["SIGUSR1"] = "return" \/ exited # "no")

(* Every datagram the program takes from its source, one without payload    *)
(* included, is offered to the network for each destination (README: "copies *)
(* the payloads of UDP datagrams from one source to one or more             *)
(* destinations").                                                          *)
EveryDatagramRelayed ==
  pc["main"] = "recv" =>
    \A t \in Tx(rc_mode) :
      wire[t] + refused[t] = Fanout[t] * (wire[Rx(rc_mode)] + empties)
=============================================================================
