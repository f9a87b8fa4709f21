------------------------------ MODULE Startup ------------------------------
(* main() up to the loop, where Relay starts: the installing of the signal   *)
(* handlers, get_prog_parms() as far as a handler can see it, and            *)
(* daemonise(), which leaves the terminal to a parent process and goes on in *)
(* its child.  A signal may come between any two steps; the handler that     *)
(* runs then is one step, since Relay has the nesting of handlers.  Standard *)
(* output is a terminal, to which a line is written at once.                 *)
EXTENDS RcMode, Integers

CONSTANTS
  Fanout,   \* dests_num of inet_tx_sock_parms and inet6_tx_sock_parms
  MaxFd,    \* the highest file descriptor of a process
  MaxKills  \* bound: signals sent to the two processes

ASSUME StartFanoutAssumption == Fanout \in [TxStream -> Nat]
ASSUME StartFdAssumption     == MaxFd \in Nat /\ MaxFd >= 3
ASSUME StartKillsAssumption  == MaxKills \in Nat

Proc    == {"parent", "child"}
Exiting == {"SIGTERM", "SIGINT"}
Sig     == Exiting \cup {"SIGUSR1", "SIGUSR2"}
Outcome == Mode \cup {"HELP", "LICENSE", "ERROR"}
StartPc == {"absent", "sigterm", "sigint", "options", "values", "message",
            "sigusr1", "sigusr2", "fork", "parent_exit", "setsid", "chdir",
            "log_dests", "openlog", "close", "exit_errno", "ready"}

VARIABLES
  proc,     \* the two processes; fork() copies one record into the other
  kills,    \* signals sent so far
  lost,     \* history: text was logged and ended nowhere
  misread   \* history: a handler listed destinations that were not complete

vars == <<proc, kills, lost, misread>>

ProcState ==
  [pc            : StartPc,
   rc_mode       : Outcome \cup {"UNKNOWN"},
   become_daemon : BOOLEAN,
   dests         : [TxStream -> {"null", "room", "filled"}],
   handlers      : SUBSET Sig,               \* signals that have theirs installed
   log_dests     : {"TTY", "SYSLOG", "none"},
   fds           : [0..MaxFd -> {"free", "tty", "syslog"}],
   terminal      : BOOLEAN,                  \* member of the terminal's session
   exited        : {"no", "success", "failure", "killed", "hangup"}]

StartupTypeOK ==
  /\ proc \in [Proc -> ProcState]
  /\ kills \in 0..MaxKills
  /\ lost \in BOOLEAN /\ misread \in BOOLEAN

Started(at) ==
  [pc |-> at, rc_mode |-> "UNKNOWN", become_daemon |-> TRUE,
   dests |-> [t \in TxStream |-> "null"], handlers |-> {}, log_dests |-> "TTY",
   fds |-> [f \in 0..MaxFd |-> IF f < 3 THEN "tty" ELSE "free"],
   terminal |-> TRUE, exited |-> "no"]

Init ==
  /\ proc = [p \in Proc |-> Started(IF p = "parent" THEN "sigterm" ELSE "absent")]
  /\ kills = 0 /\ lost = FALSE /\ misread = FALSE

Runs(p) == proc[p].pc # "absent" /\ proc[p].exited = "no"

At(p, at) == Runs(p) /\ proc[p].pc = at

-----------------------------------------------------------------------------
(* log_msg(): on the terminal the text goes to a standard file, if that is  *)
(* still open; syslog() connects by itself where openlog() has not.         *)

LowestFree(fds, fd) == fds[fd] = "free" /\ \A f \in 0..(fd - 1) : fds[f] # "free"

Connected(fds) ==
  IF \E f \in 0..MaxFd : fds[f] = "syslog" THEN fds
  ELSE [f \in 0..MaxFd |-> IF LowestFree(fds, f) THEN "syslog" ELSE fds[f]]

AfterMsg(q) == IF q.log_dests = "SYSLOG" THEN Connected(q.fds) ELSE q.fds

MsgLost(q) == q.log_dests = "TTY" /\ (q.fds[1] # "tty" \/ q.fds[2] # "tty")

-----------------------------------------------------------------------------
(* Where a process goes next, when nothing fails. *)

InTurn(at) ==
  CASE at = "sigterm"   -> "sigint"
    [] at = "sigint"    -> "options"
    [] at = "values"    -> "sigusr1"
    [] at = "sigusr1"   -> "sigusr2"
    [] at = "sigusr2"   -> "fork"
    [] at = "setsid"    -> "chdir"
    [] at = "chdir"     -> "log_dests"
    [] at = "log_dests" -> "openlog"
    [] at = "openlog"   -> "close"
    [] at = "close"     -> "ready"

(* Seeded errors: daemonise() before install_usr_signal_handlers(); that     *)
(* before get_prog_parms(); close_stdfiles() before open_syslog_log(); no    *)
(* daemonise() at all.                                                       *)
NextUsrInChild(q) ==
  IF q.pc = "values" THEN IF q.become_daemon THEN "fork" ELSE "sigusr1"
  ELSE IF q.pc = "close" THEN "sigusr1"
  ELSE IF q.pc = "sigusr2" THEN "ready" ELSE InTurn(q.pc)

NextUsrFirst(q) ==
  IF q.pc = "sigint" THEN "sigusr1"
  ELSE IF q.pc = "sigusr2" THEN "options"
  ELSE IF q.pc = "values" THEN IF q.become_daemon THEN "fork" ELSE "ready"
  ELSE InTurn(q.pc)

NextCloseFirst(q) ==
  IF q.pc = "sigusr2" /\ ~q.become_daemon THEN "ready"
  ELSE IF q.pc = "chdir" THEN "close"
  ELSE IF q.pc = "close" THEN "log_dests"
  ELSE IF q.pc = "openlog" THEN "ready" ELSE InTurn(q.pc)

NextStaysHere(q) == IF q.pc = "sigusr2" THEN "ready" ELSE InTurn(q.pc)

NextPlace(q) ==
  IF q.pc = "sigusr2" /\ ~q.become_daemon THEN "ready" ELSE InTurn(q.pc)

(* fork() returns twice.  Seeded errors: both go on; both exit. *)
AfterForkBothGo(p)   == "setsid"

AfterFork(p) == IF p = "parent" THEN "parent_exit" ELSE "setsid"

-----------------------------------------------------------------------------
(* main(), get_prog_parms(). *)

Quiet == UNCHANGED <<kills, lost, misread>>

Place(s) ==
  CASE s = "SIGTERM" -> "sigterm" [] s = "SIGINT"  -> "sigint"
    [] s = "SIGUSR1" -> "sigusr1" [] s = "SIGUSR2" -> "sigusr2"

Install(p, s) ==
  /\ At(p, Place(s))
  /\ proc' = [proc EXCEPT ![p].handlers = @ \cup {s}, ![p].pc = NextPlace(proc[p])]
  /\ Quiet

(* The options as such: help, license or an error, or a mode; its values    *)
(* are then parsed, -nodaemon first.                                        *)
Choose(p, outcome, daemon) ==
  /\ At(p, "options")
  /\ outcome \notin Mode => daemon
  /\ proc' = [proc EXCEPT ![p].rc_mode = outcome,
                          ![p].become_daemon = daemon,
                          ![p].pc = IF outcome \in Mode THEN "values" ELSE "message"]
  /\ Quiet

(* The values are wrong, or there is no memory for them. *)
Reject(p) ==
  /\ At(p, "values")
  /\ proc' = [proc EXCEPT ![p].pc = "message"]
  /\ Quiet

(* Room for a list of destinations, which is then parsed into it; inet      *)
(* destinations come first.                                                 *)
List(p, t) ==
  /\ At(p, "values")
  /\ t \in Tx(proc[p].rc_mode) /\ proc[p].dests[t] # "filled"
  /\ (t = "inet6_out" /\ "inet_out" \in Tx(proc[p].rc_mode))
       => proc[p].dests["inet_out"] = "filled"
  /\ proc' = [proc EXCEPT ![p].dests[t] = IF @ = "null" THEN "room" ELSE "filled"]
  /\ Quiet

Valid(p) ==
  /\ At(p, "values")
  /\ \A t \in Tx(proc[p].rc_mode) : proc[p].dests[t] = "filled"
  /\ proc' = [proc EXCEPT ![p].pc = NextPlace(proc[p])]
  /\ Quiet

(* The text of help, license, error or exit_errno(), and the end.  A value  *)
(* that is wrong is said so before rc_mode becomes RCMODE_ERROR.            *)
SayAndExit(p) ==
  /\ At(p, "message") \/ At(p, "exit_errno")
  /\ lost' = (lost \/ MsgLost(proc[p]))
  /\ proc' = [proc EXCEPT
       ![p].fds = AfterMsg(proc[p]),
       ![p].rc_mode = IF proc[p].pc = "message" /\ @ \in Mode THEN "ERROR" ELSE @,
       ![p].exited = "failure"]
  /\ UNCHANGED <<kills, misread>>

-----------------------------------------------------------------------------
(* daemonise(). *)

Fork(p) ==
  /\ At(p, "fork")
  /\ proc' = [r \in Proc |-> [proc[p] EXCEPT !.pc = AfterFork(r)]]
  /\ Quiet

ParentExit(p) ==
  /\ At(p, "parent_exit")
  /\ proc' = [proc EXCEPT ![p].exited = "success"]
  /\ Quiet

(* setsid() refuses the leader of a process group, which the parent is. *)
Setsid(p) ==
  /\ At(p, "setsid") /\ p # "parent"
  /\ proc' = [proc EXCEPT ![p].terminal = FALSE, ![p].pc = NextPlace(proc[p])]
  /\ Quiet

Chdir(p) == At(p, "chdir") /\ proc' = [proc EXCEPT ![p].pc = NextPlace(proc[p])] /\ Quiet

CallFails(p) ==
  /\ At(p, "fork") \/ At(p, "setsid") \/ At(p, "chdir")
  /\ proc' = [proc EXCEPT ![p].pc = "exit_errno"]
  /\ Quiet

(* log_open() assigns log_dests, then calls openlog(LOG_NDELAY). *)
LogDests(p) ==
  /\ At(p, "log_dests")
  /\ proc' = [proc EXCEPT ![p].log_dests = "SYSLOG", ![p].pc = NextPlace(proc[p])]
  /\ Quiet

Openlog(p) ==
  /\ At(p, "openlog")
  /\ proc' = [proc EXCEPT ![p].fds = Connected(@), ![p].pc = NextPlace(proc[p])]
  /\ Quiet

CloseStdfiles(p) ==
  /\ At(p, "close")
  /\ proc' = [proc EXCEPT ![p].fds = [f \in 0..MaxFd |-> IF f < 3 THEN "free" ELSE @[f]],
                          ![p].pc = NextPlace(proc[p])]
  /\ Quiet

-----------------------------------------------------------------------------
(* Signals. *)

(* Only a relaying mode has counters or parameters to log; the banner that  *)
(* SIGUSR2's handler logs first is always there.                            *)
Logs(q, s) == q.rc_mode \in Mode \/ s = "SIGUSR2"

Handled(p, s) ==
  /\ Runs(p) /\ proc[p].pc # "ready" /\ s \in proc[p].handlers
  /\ kills < MaxKills /\ kills' = kills + 1
  /\ lost' = (lost \/ (Logs(proc[p], s) /\ MsgLost(proc[p])))

Said(q, s) == IF Logs(q, s) THEN AfterMsg(q) ELSE q.fds

(* exit_program(): no socket is open yet; log_close() disconnects. *)
ExitProgram(p, s) ==
  /\ s \in Exiting /\ Handled(p, s)
  /\ proc' = [proc EXCEPT
       ![p].dests = [t \in TxStream |-> "null"],
       ![p].fds = [f \in 0..MaxFd |-> IF /\ Said(proc[p], s)[f] = "syslog"
                                         /\ proc[p].log_dests = "SYSLOG"
                                      THEN "free" ELSE Said(proc[p], s)[f]],
       ![p].log_dests = IF @ = "SYSLOG" THEN "none" ELSE @,
       ![p].exited = "success"]
  /\ UNCHANGED misread

UsrHandler(p, s) ==
  /\ s \notin Exiting /\ Handled(p, s)
  /\ proc' = [proc EXCEPT ![p].fds = Said(proc[p], s)]
  /\ misread' = (misread \/ /\ s = "SIGUSR2" /\ proc[p].rc_mode \in Mode
                            /\ \E t \in Tx(proc[p].rc_mode) : proc[p].dests[t] # "filled")

(* The default action of all four. *)
Killed(p, s) ==
  /\ Runs(p) /\ proc[p].pc # "ready" /\ s \notin proc[p].handlers
  /\ kills < MaxKills /\ kills' = kills + 1
  /\ proc' = [proc EXCEPT ![p].exited = "killed"]
  /\ UNCHANGED <<lost, misread>>

(* The terminal goes away, and with it all processes of its session. *)
Hangup ==
  /\ \E p \in Proc : Runs(p) /\ proc[p].terminal
  /\ proc' = [p \in Proc |-> IF Runs(p) /\ proc[p].terminal
                             THEN [proc[p] EXCEPT !.exited = "hangup"] ELSE proc[p]]
  /\ kills < MaxKills /\ kills' = kills + 1
  /\ UNCHANGED <<lost, misread>>

Settled == \A p \in Proc : Runs(p) => proc[p].pc = "ready"

Done == Settled /\ UNCHANGED vars

Step(p) ==
  \/ \E s \in Sig : Install(p, s)
  \/ Reject(p) \/ Valid(p) \/ SayAndExit(p)
  \/ \E outcome \in Outcome, daemon \in BOOLEAN : Choose(p, outcome, daemon)
  \/ \E t \in TxStream : List(p, t)
  \/ Fork(p) \/ ParentExit(p) \/ Setsid(p) \/ Chdir(p) \/ CallFails(p)
  \/ LogDests(p) \/ Openlog(p) \/ CloseStdfiles(p)

Next ==
  \/ \E p \in Proc : Step(p) \/ (\E s \in Sig : ExitProgram(p, s) \/ UsrHandler(p, s) \/ Killed(p, s))
  \/ Hangup
  \/ Done

Spec == Init /\ [][Next]_vars

(* The operating system runs a process that can run. *)
FairSpec == Spec /\ \A p \in Proc : WF_vars(Step(p))
-----------------------------------------------------------------------------
(* Properties. *)

(* Once it is alone, the daemon is never ended by the default action of a   *)
(* signal: it inherits all four handlers, and the only hangup that reaches  *)
(* it comes before its setsid(), or when that has failed.                   *)
DaemonNotKilled ==
  /\ proc["child"].exited # "killed"
  /\ proc["child"].exited = "hangup" => proc["child"].pc \in {"setsid", "exit_errno"}

(* However early SIGUSR2 comes, the destinations its handler lists are all  *)
(* there: none is listed from memory that was not filled yet.               *)
ListsCompleteDests == ~misread

(* Whatever is logged at start-up, by a handler too, reaches the terminal   *)
(* or syslog: the log leaves the terminal before its descriptors are closed. *)
LogNotLost == ~lost

(* The process that was started leaves the relaying to its child: it does   *)
(* not go on beside it, nor tell its shell that the start has failed.       *)
ParentLeaves ==
  proc["child"].pc # "absent" => /\ proc["parent"].pc = "parent_exit"
                                 /\ proc["parent"].exited # "failure"

(* The process that gets to the loop. *)
Relayer == proc[IF proc["child"].pc = "ready" THEN "child" ELSE "parent"]

R == INSTANCE Relay WITH
  Modes <- Mode, Daemon <- BOOLEAN, MaxDatagrams <- 0, MaxKills <- 0,
  rc_mode <- Relayer.rc_mode, become_daemon <- Relayer.become_daemon,
  running <- "main",
  pc <- [c \in Sig \cup {"main"} |-> IF c = "main" THEN "log_parms" ELSE "idle"],
  interrupted <- [s \in Sig |-> "none"], saved <- [s \in Sig |-> {}],
  sigmask <- {}, pending <- {}, kills <- 0, inlog <- {},
  stream <- Rx(Relayer.rc_mode), sock_fd <- -1, sa_dest <- 0, tx_success <- 0,
  sock_fds <- [s \in Stream |-> -1], fdtable <- Relayer.fds,
  dests <- [t \in TxStream |-> IF Relayer.dests[t] = "filled" THEN "live"
                                                             ELSE Relayer.dests[t]],
  pkt_counters <- [s \in Stream |-> 0], reported <- [s \in Stream |-> -1],
  wire <- [s \in Stream |-> 0], refused <- [t \in TxStream |-> 0],
  empties <- 0, exited <- Relayer.exited

(* The process that gets to the loop is what Relay starts from, whatever    *)
(* signals came before: a mode, its destinations, its descriptors; all four *)
(* handlers are installed, and a daemon has left its terminal.              *)
RelayStartsRight ==
  (Relayer.pc = "ready" /\ Relayer.exited = "no") =>
    /\ R!Init
    /\ Relayer.handlers = Sig
    /\ (Relayer.terminal <=> ~Relayer.become_daemon)

=============================================================================
