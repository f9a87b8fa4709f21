-------------------------- MODULE StartupInvariant --------------------------
(* The inductive invariant of Startup: what a process has done by the place  *)
(* it is at, and what its parent or child can be at then.                    *)
EXTENDS Startup

Early  == {"absent", "sigterm"}
Before == Early \cup {"sigint", "options", "values", "message", "sigusr1", "sigusr2"}
Alone  == {"setsid", "chdir", "log_dests", "openlog", "close"}  \* the child's places

(* The handlers are installed in their order, and all before fork(). *)
InstalledBy(at) ==
  IF at \in Early THEN {}
  ELSE IF at = "sigint" THEN {"SIGTERM"}
  ELSE IF at \in {"options", "values", "message", "sigusr1"} THEN Exiting
  ELSE IF at = "sigusr2" THEN Exiting \cup {"SIGUSR1"} ELSE Sig

HandlersInv(q) == q.handlers = InstalledBy(q.pc)

(* The parameters are a mode's, and complete once they are validated. *)
ParmsInv(q) ==
  /\ q.pc \in {"absent", "sigterm", "sigint", "options"} => q.dests = [t \in TxStream |-> "null"]
  /\ q.pc = "values" => /\ q.rc_mode \in Mode
                        /\ \A t \in TxStream \ Tx(q.rc_mode) : q.dests[t] = "null"
  /\ (q.pc \notin Before \/ q.pc \in {"sigusr1", "sigusr2"}) =>
       /\ q.rc_mode \in Mode
       /\ q.exited = "no" =>
            q.dests = [t \in TxStream |-> IF t \in Tx(q.rc_mode) THEN "filled" ELSE "null"]

(* The log, the standard files and the terminal are left in this order. *)
LogInv(q) ==
  q.exited = "no" =>
    q.log_dests = IF q.pc \in {"openlog", "close"} \/ (q.pc = "ready" /\ q.become_daemon)
                  THEN "SYSLOG" ELSE "TTY"

FdsInv(q) ==
  q.exited = "no" =>
    \A f \in 0..MaxFd :
      IF f < 3 THEN q.fds[f] = IF q.pc = "ready" /\ q.become_daemon THEN "free" ELSE "tty"
      ELSE IF f > 3 THEN q.fds[f] = "free"
      ELSE IF q.pc = "openlog" THEN q.fds[f] \in {"free", "syslog"}
      ELSE q.fds[f] = IF q.log_dests = "SYSLOG" THEN "syslog" ELSE "free"

TerminalInv(q) ==
  q.exited = "no" =>
    /\ q.pc \in Before \cup {"fork", "parent_exit", "setsid"} => q.terminal
    /\ q.pc \in Alone \ {"setsid"} => ~q.terminal
    /\ q.pc = "ready" => (q.terminal <=> ~q.become_daemon)

ProcInv(q) ==
  HandlersInv(q) /\ ParmsInv(q) /\ LogInv(q) /\ FdsInv(q) /\ TerminalInv(q)

ChildInv ==
  LET parent == proc["parent"]  child == proc["child"]
  IN  /\ parent.pc \notin Alone \cup {"absent"}
      /\ parent.pc = "ready" => ~parent.become_daemon
      /\ parent.pc \in {"fork", "parent_exit"} => parent.become_daemon
      /\ parent.exited = "failure" => parent.pc # "parent_exit"
      /\ child.pc \in Alone \cup {"absent", "exit_errno", "ready"}
      /\ child.pc = "absent" => /\ child.exited = "no"
                                 /\ parent.pc # "parent_exit"
      /\ child.pc # "absent" => /\ parent.pc = "parent_exit"
                                 /\ child.become_daemon

StartupInv ==
  /\ StartupTypeOK
  /\ \A p \in Proc : ProcInv(proc[p])
  /\ ChildInv
  /\ DaemonNotKilled /\ ListsCompleteDests /\ LogNotLost
=============================================================================
