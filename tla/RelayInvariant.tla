--------------------------- MODULE RelayInvariant ---------------------------
(* Why Relay's invariants hold: an inductive invariant, in named parts.     *)
(* RelayProofs proves it, MCRelay has TLC check it.                         *)
EXTENDS RelayRefinement

(* Each context stays inside its own code. *)
Places ==
  /\ pc["main"] \in MainPc
  /\ \A s \in Exiting :
       pc[s] \in {"idle", "close_sockets", "log_counters", "cleanup", "exit"}
  /\ pc["SIGUSR1"] \in {"idle", "log_counters", "return"}
  /\ pc["SIGUSR2"] \in {"idle", "log_parms", "return"}
  /\ \A c \in inlog : pc[c] \in LogPc

(* What sa_mask allows: SIGUSR1 and SIGUSR2 interrupt only main, and an     *)
(* exit handler is interrupted by nothing.                                  *)
Frames ==
  /\ running = "main" => sigmask = {} /\ \A s \in Sig : pc[s] = "idle"
  /\ running \in Sig \ Exiting =>
       /\ interrupted[running] = "main" /\ saved[running] = {}
       /\ sigmask = Sig \ Exiting
       /\ \A s \in Sig : s # running => pc[s] = "idle"
  /\ running \in Exiting =>
       /\ sigmask = Sig
       /\ \A s \in Exiting : s # running => pc[s] = "idle"

Before(at) == \A s \in Exiting : pc[s] \in at

(* The destinations live until an exit handler has only exit() left. *)
DestsLive ==
  Before({"idle", "close_sockets", "log_counters", "cleanup"}) =>
    \A t \in Tx(rc_mode) : dests[t] = "live"

(* The sockets main has opened: in the loop all of its mode's, before that  *)
(* those that come before the one it is opening.                            *)
InLoop == pc["main"] \in {"recv", "count_in", "send"}

OpenedBefore(s) ==
  {t \in StreamsOf(rc_mode) :
     s \in TxStream /\ (t \in RxStream \/ (t = "inet_out" /\ s = "inet6_out"))}

StreamAtHand ==
  /\ stream \in StreamsOf(rc_mode)
  /\ pc["main"] \in {"recv", "count_in", "log_parms"} => stream = Rx(rc_mode)
  /\ pc["main"] = "send" => stream \in Tx(rc_mode)
  /\ \A s \in Stream :
       sock_fds[s] # -1 <=>
         s \in IF InLoop THEN StreamsOf(rc_mode) ELSE OpenedBefore(stream)

(* Until an exit handler has closed them, the sockets in sock_fds are open. *)
FdsOwned ==
  Before({"idle", "close_sockets"}) =>
    /\ \A s \in Stream : sock_fds[s] # -1 => fdtable[sock_fds[s]] = s
    /\ pc["main"] = "configure" => sock_fd # -1 /\ fdtable[sock_fd] = stream

(* An open socket is in sock_fds and not closed yet, or in the hands of     *)
(* open_*_sock(), or was left open when that failed.                        *)
FdsKnown ==
  \A f \in 0..MaxFd : fdtable[f] \in Stream =>
    \/ Before({"idle", "close_sockets"}) /\ sock_fds[fdtable[f]] = f
    \/ fdtable[f] = stream /\ pc["main"] = "configure" /\ sock_fd = f
    \/ fdtable[f] = stream /\ pc["main"] \in {"exit_errno", "exit"}

(* How many copies were tried by the time main is where it is. *)
AllCopies(t, datagrams) == Fanout[t] * datagrams

Tried(t) ==
  LET taken == wire[Rx(rc_mode)] IN
  IF pc["main"] = "send" /\ t = stream
  THEN AllCopies(t, taken - 1) + sa_dest
  ELSE IF \/ pc["main"] = "count_in"
          \/ pc["main"] = "send" /\ stream = "inet_out"
  THEN AllCopies(t, taken - 1)
  ELSE AllCopies(t, taken)

CopiesCounted ==
  /\ \A t \in Tx(rc_mode) : wire[t] + refused[t] = Tried(t)
  /\ pc["main"] = "send" => sa_dest <= Fanout[stream]

(* An exit handler past log_packet_counters() has logged the final counters. *)
ReportDone ==
  /\ \A s \in Stream \ StreamsOf(rc_mode) : reported[s] = -1
  /\ ~Before({"idle", "close_sockets", "log_counters"}) =>
       \A s \in StreamsOf(rc_mode) : reported[s] = wire[s] - InFlight(s)
  /\ exited = "success" => running \in Exiting /\ pc[running] = "exit"

IInv ==
  /\ TypeOK /\ Places /\ Frames /\ DestsLive
  /\ StreamAtHand /\ FdsOwned /\ FdsKnown
  /\ CountersTrackTraffic /\ CopiesCounted /\ ReportDone

-----------------------------------------------------------------------------
(* How a daemon ends, and what can keep it from that.                       *)

(* The running context is at a log message or at exit(), and another one,   *)
(* which cannot run, is inside the log.                                     *)
Waits ==
  /\ exited = "no" /\ pc[running] \in LogPc \cup {"exit"}
  /\ running \notin inlog /\ ~CanLog

(* Nothing waits for the log lock but a handler, and only for main before   *)
(* its loop or giving up, or, if the handler is SIGTERM's or SIGINT's, for  *)
(* that of SIGUSR1 or SIGUSR2: in the loop these two never wait.            *)
WaitsOnlyForInterrupted ==
  Waits => /\ running \in Sig
           /\ \A c \in inlog : \/ c = "main" /\ ~InLoop
                               \/ c \in Sig \ Exiting /\ running \in Exiting

(* The loop runs, what was sent last is SIGTERM or SIGINT, or its handler   *)
(* came in while main was in the loop.                                      *)
ToldToEnd ==
  /\ running = "main" /\ InLoop
  /\ kills = MaxKills /\ pending # {} /\ pending \subseteq Exiting

Ending ==
  /\ running \in Exiting /\ InLoop /\ kills = MaxKills
  /\ \A s \in Sig : s # running => pc[s] = "idle"

EndInSight == exited # "no" \/ ToldToEnd \/ Ending

(* How far the end is: the handler to come, its three parts, exit().        *)
ToEnd ==
  CASE exited # "no"                                    -> 0
    [] exited = "no" /\ running = "main"                -> 6
    [] exited = "no" /\ pc[running] = "close_sockets"   -> 5
    [] exited = "no" /\ pc[running] = "log_counters"    -> IF running \in inlog THEN 3 ELSE 4
    [] exited = "no" /\ pc[running] = "cleanup"         -> 2
    [] OTHER                                            -> 1

(* The end of a program in its loop cannot get out of sight any more: each  *)
(* step of main's keeps the signal pending, each step of the exit handler   *)
(* brings the end nearer, and none of them waits for the log lock.          *)
EndComesNearer ==
  [][EndInSight => /\ EndInSight'
                   /\ ~Waits'
                   /\ ToEnd' < ToEnd \/ (ToldToEnd /\ ToldToEnd')]_vars
=============================================================================
