---------------------------- MODULE StartupProofs ----------------------------
(* The safety properties of Startup hold for every number of destinations,  *)
(* descriptors and signals.                                                 *)
EXTENDS StartupInvariant, TLAPS

USE StartFanoutAssumption, StartFdAssumption, StartKillsAssumption

(* What is to be shown of a step of one process. *)
LEMMA OneProcess ==
  ASSUME StartupInv, NEW p \in Proc,
         \A o \in Proc : o # p => proc'[o] = proc[o],
         proc' \in [Proc -> ProcState], ProcInv(proc'[p]),
         ChildInv', DaemonNotKilled',
         kills' \in 0..MaxKills, lost' = FALSE, misread' = FALSE
  PROVE  StartupInv'
<1>1. StartupTypeOK' /\ ListsCompleteDests' /\ LogNotLost'
  BY DEF StartupTypeOK, ListsCompleteDests, LogNotLost
<1>2. ASSUME NEW o \in Proc
      PROVE  ProcInv(proc'[o])
  <2>1. CASE o = p
    BY <2>1
  <2>2. CASE o # p
    BY <2>2 DEF StartupInv
  <2>3. QED BY <2>1, <2>2
<1>3. QED
  BY <1>1, <1>2 DEF StartupInv, ProcInv, HandlersInv, ParmsInv, LogInv, FdsInv, TerminalInv

LEMMA InitInv == Init => StartupInv
<1> SUFFICES ASSUME Init PROVE StartupInv
  OBVIOUS
<1>1. ASSUME NEW at \in {"sigterm", "absent"}
      PROVE  Started(at) \in ProcState /\ ProcInv(Started(at))
  <2> DEFINE q == Started(at)
  <2>1. q \in ProcState
    BY DEF Started, ProcState, StartPc, Sig, Exiting
  <2>2. HandlersInv(q) /\ ParmsInv(q)
    BY DEF Started, HandlersInv, InstalledBy, Early, ParmsInv, Before
  <2>3. LogInv(q) /\ TerminalInv(q)
    BY DEF Started, LogInv, TerminalInv, Before, Early, Alone
  <2>4. FdsInv(q)
    BY DEF Started, FdsInv
  <2>5. QED BY <2>1, <2>2, <2>3, <2>4 DEF ProcInv
<1>2. proc["parent"] = Started("sigterm") /\ proc["child"] = Started("absent")
  BY DEF Init, Proc
<1>3. StartupTypeOK
  <2>1. \A p \in Proc : Started(IF p = "parent" THEN "sigterm" ELSE "absent") \in ProcState
    BY <1>1
  <2>2. proc \in [Proc -> ProcState]
    BY <2>1 DEF Init
  <2>3. kills \in 0..MaxKills
    BY DEF Init
  <2>4. lost \in BOOLEAN /\ misread \in BOOLEAN
    BY DEF Init
  <2>5. QED BY <2>2, <2>3, <2>4 DEF StartupTypeOK
<1>4. ChildInv /\ DaemonNotKilled /\ ListsCompleteDests /\ LogNotLost
  BY <1>2 DEF Init, ChildInv, Started, Alone, DaemonNotKilled, ListsCompleteDests, LogNotLost
<1>5. QED
  BY <1>1, <1>2, <1>3, <1>4 DEF StartupInv, Proc

LEMMA InstallKeeps ==
  ASSUME StartupInv, NEW p \in Proc, NEW s \in Sig, Install(p, s)
  PROVE  StartupInv'
<1> DEFINE q == proc[p]  r == proc'[p]
<1>1. q \in ProcState /\ ProcInv(q) /\ q.exited = "no"
  BY DEF StartupInv, StartupTypeOK, Install, At, Runs
<1>2. q.pc = Place(s) /\ q.pc \in {"sigterm", "sigint", "sigusr1", "sigusr2"}
  BY DEF Install, At, Place, Sig, Exiting
<1>3. NextPlace(q) = IF q.pc = "sigterm" THEN "sigint"
                     ELSE IF q.pc = "sigint" THEN "options"
                     ELSE IF q.pc = "sigusr1" THEN "sigusr2"
                     ELSE IF q.become_daemon THEN "fork" ELSE "ready"
  BY <1>2 DEF NextPlace, InTurn
<1>4. /\ proc' \in [Proc -> ProcState]
      /\ \A o \in Proc : o # p => proc'[o] = proc[o]
      /\ r.handlers = q.handlers \cup {s} /\ r.pc = NextPlace(q)
      /\ r.rc_mode = q.rc_mode /\ r.become_daemon = q.become_daemon
      /\ r.dests = q.dests /\ r.log_dests = q.log_dests
      /\ r.fds = q.fds /\ r.terminal = q.terminal /\ r.exited = q.exited
  BY <1>1, <1>2, <1>3 DEF ProcState, Install, StartPc, StartupInv, StartupTypeOK
<1>5. HandlersInv(r)
  BY <1>1, <1>2, <1>3, <1>4 DEF ProcInv, HandlersInv, InstalledBy, Early, Place, Sig, Exiting
<1>6. ParmsInv(r)
  BY <1>1, <1>2, <1>3, <1>4 DEF ProcInv, ParmsInv, Before, Early
<1>7. LogInv(r)
  BY <1>1, <1>2, <1>3, <1>4 DEF ProcInv, LogInv
<1>8. FdsInv(r)
  BY <1>1, <1>2, <1>3, <1>4 DEF ProcInv, LogInv, FdsInv
<1>9. TerminalInv(r)
  BY <1>1, <1>2, <1>3, <1>4 DEF ProcInv, TerminalInv, Before, Early, Alone
<1>10. ChildInv' /\ DaemonNotKilled'
  BY <1>1, <1>2, <1>3, <1>4 DEF StartupInv, ChildInv, DaemonNotKilled, Alone, Proc
<1>11. QED
  BY <1>4, <1>5, <1>6, <1>7, <1>8, <1>9, <1>10, OneProcess
     DEF ProcInv, Install, Quiet, StartupInv, StartupTypeOK, ListsCompleteDests, LogNotLost

(* get_prog_parms() only ever runs in the parent, before the usr handlers.  *)
LEMMA ParmsKeep ==
  ASSUME StartupInv, NEW p \in Proc,
         \/ \E outcome \in Outcome, daemon \in BOOLEAN : Choose(p, outcome, daemon)
         \/ Reject(p)
         \/ \E t \in TxStream : List(p, t)
         \/ Valid(p)
  PROVE  StartupInv'
<1> DEFINE q == proc[p]  r == proc'[p]
<1>1. q \in ProcState /\ ProcInv(q) /\ q.exited = "no" /\ q.pc \in {"options", "values"}
  BY DEF StartupInv, StartupTypeOK, Choose, Reject, List, Valid, At, Runs
<1>2. /\ \A o \in Proc : o # p => proc'[o] = proc[o]
      /\ r.handlers = q.handlers /\ r.log_dests = q.log_dests
      /\ r.fds = q.fds /\ r.terminal = q.terminal /\ r.exited = q.exited
      /\ kills' = kills /\ lost' = lost /\ misread' = misread
  <2>1. CASE \E outcome \in Outcome, daemon \in BOOLEAN : Choose(p, outcome, daemon)
    <3>1. PICK outcome \in Outcome, daemon \in BOOLEAN : Choose(p, outcome, daemon)
      BY <2>1
    <3>2. QED
      BY <1>1, <3>1 DEF ProcState, Choose, StartupInv, StartupTypeOK, Quiet
  <2>2. CASE Reject(p)
    BY <1>1, <2>2 DEF ProcState, Reject, StartupInv, StartupTypeOK, Quiet
  <2>3. CASE \E t \in TxStream : List(p, t)
    BY <1>1, <2>3 DEF ProcState, List, StartupInv, StartupTypeOK, Quiet
  <2>4. CASE Valid(p)
    BY <1>1, <2>4 DEF ProcState, Valid, StartupInv, StartupTypeOK, Quiet
  <2>5. QED BY <2>1, <2>2, <2>3, <2>4
<1>3. /\ proc' \in [Proc -> ProcState]
      /\ r.pc \in {"values", "message", "sigusr1"}
      /\ ParmsInv(r)
  <2>1. CASE \E outcome \in Outcome, daemon \in BOOLEAN : Choose(p, outcome, daemon)
    <3>1. PICK outcome \in Outcome, daemon \in BOOLEAN : Choose(p, outcome, daemon)
      BY <2>1
    <3>2. /\ proc' \in [Proc -> ProcState] /\ r.dests = q.dests /\ r.rc_mode = outcome
          /\ r.pc = IF outcome \in Mode THEN "values" ELSE "message"
      BY <1>1, <3>1, ZenonT(30) DEF ProcState, StartPc, Outcome, Choose, StartupInv, StartupTypeOK
    <3>3. q.dests = [t \in TxStream |-> "null"]
      BY <1>1, <3>1 DEF ProcInv, ParmsInv, Choose, At
    <3>4. QED
      BY <3>2, <3>3 DEF ParmsInv, Before, Early
  <2>2. CASE Reject(p)
    BY <1>1, <2>2 DEF ProcState, StartPc, Reject, At, StartupInv, StartupTypeOK, ParmsInv, Before, Early
  <2>3. CASE \E t \in TxStream : List(p, t)
    <3>1. PICK t \in TxStream : List(p, t)
      BY <2>3
    <3>2. q.pc = "values" /\ t \in Tx(q.rc_mode)
      BY <3>1 DEF List, At
    <3>3. /\ proc' \in [Proc -> ProcState] /\ r.pc = q.pc /\ r.rc_mode = q.rc_mode
          /\ \A u \in TxStream : u # t => r.dests[u] = q.dests[u]
      BY <1>1, <3>1 DEF ProcState, List, StartupInv, StartupTypeOK
    <3>4. QED
      BY <1>1, <3>2, <3>3 DEF ProcInv, ParmsInv, Before, Early
  <2>4. CASE Valid(p)
    <3>1. q.pc = "values" /\ \A t \in Tx(q.rc_mode) : q.dests[t] = "filled"
      BY <2>4 DEF Valid, At
    <3>2. NextPlace(q) = "sigusr1"
      BY <3>1 DEF NextPlace, InTurn
    <3>3. /\ proc' \in [Proc -> ProcState] /\ r.pc = "sigusr1" /\ r.rc_mode = q.rc_mode
          /\ r.dests = q.dests
      BY <1>1, <2>4, <3>2 DEF ProcState, StartPc, Valid, StartupInv, StartupTypeOK
    <3>4. /\ q.rc_mode \in Mode
          /\ \A t \in TxStream \ Tx(q.rc_mode) : q.dests[t] = "null"
          /\ q.dests \in [TxStream -> {"null", "room", "filled"}]
      BY <1>1, <3>1 DEF ProcInv, ParmsInv, ProcState
    <3>5. q.dests = [t \in TxStream |-> IF t \in Tx(q.rc_mode) THEN "filled" ELSE "null"]
      BY <3>1, <3>4
    <3>6. QED
      BY <3>3, <3>4, <3>5 DEF ParmsInv, Before, Early
  <2>5. QED BY <2>1, <2>2, <2>3, <2>4
<1>4. HandlersInv(r)
  BY <1>1, <1>2, <1>3 DEF ProcInv, HandlersInv, InstalledBy, Early
<1>5. LogInv(r) /\ FdsInv(r)
  BY <1>1, <1>2, <1>3 DEF ProcInv, LogInv, FdsInv
<1>6. TerminalInv(r)
  BY <1>1, <1>2, <1>3 DEF ProcInv, TerminalInv, Before, Early, Alone
<1>7. ChildInv' /\ DaemonNotKilled'
  BY <1>1, <1>2, <1>3 DEF StartupInv, ChildInv, DaemonNotKilled, Alone, Proc
<1>8. QED
  BY <1>2, <1>3, <1>4, <1>5, <1>6, <1>7, OneProcess
     DEF ProcInv, StartupInv, StartupTypeOK, ListsCompleteDests, LogNotLost

(* A connection to syslogd gets the first descriptor after the terminal's. *)
LEMMA ConnectedFds ==
  ASSUME NEW fds \in [0..MaxFd -> {"free", "tty", "syslog"}],
         \A f \in 0..MaxFd : /\ f < 3 => fds[f] = "tty"
                             /\ f = 3 => fds[f] \in {"free", "syslog"}
                             /\ f > 3 => fds[f] = "free"
  PROVE  Connected(fds) = [f \in 0..MaxFd |-> IF f < 3 THEN "tty"
                                              ELSE IF f = 3 THEN "syslog" ELSE "free"]
<1>1. CASE fds[3] = "syslog"
  BY <1>1 DEF Connected
<1>2. CASE fds[3] = "free"
  <2>1. ~ \E f \in 0..MaxFd : fds[f] = "syslog"
    BY <1>2
  <2>2. ASSUME NEW f \in 0..MaxFd
        PROVE  LowestFree(fds, f) <=> f = 3
    BY <1>2 DEF LowestFree
  <2>3. QED
    BY <2>1, <2>2 DEF Connected
<1>3. QED BY <1>1, <1>2

(* No message is lost at any place, and what it does to the descriptors.    *)
LEMMA MessageFds ==
  ASSUME NEW q \in ProcState, ProcInv(q), q.exited = "no", q.pc # "ready"
  PROVE  /\ ~MsgLost(q)
         /\ AfterMsg(q) = [f \in 0..MaxFd |-> IF f < 3 THEN "tty"
                              ELSE IF f = 3 /\ q.log_dests = "SYSLOG" THEN "syslog" ELSE "free"]
<1>1. /\ q.fds \in [0..MaxFd -> {"free", "tty", "syslog"}]
      /\ \A f \in 0..MaxFd : /\ f < 3 => q.fds[f] = "tty"
                             /\ f = 3 => q.fds[f] \in {"free", "syslog"}
                             /\ f > 3 => q.fds[f] = "free"
  BY DEF ProcState, ProcInv, FdsInv
<1>2. ~MsgLost(q)
  BY <1>1 DEF MsgLost
<1>3. CASE q.log_dests = "SYSLOG"
  <2>1. Connected(q.fds) = [f \in 0..MaxFd |-> IF f < 3 THEN "tty"
                                              ELSE IF f = 3 THEN "syslog" ELSE "free"]
    BY <1>1, ConnectedFds
  <2>2. AfterMsg(q) = Connected(q.fds)
    BY <1>3 DEF AfterMsg
  <2>3. QED
    BY <1>2, <1>3, <2>1, <2>2
<1>4. CASE q.log_dests # "SYSLOG"
  <2>1. q.pc # "openlog"
    BY <1>4 DEF ProcInv, LogInv
  <2>2. q.fds[3] = "free"
    BY <1>4, <2>1 DEF ProcInv, FdsInv
  <2>3. \A f \in 0..MaxFd : q.fds[f] = IF f < 3 THEN "tty"
               ELSE IF f = 3 /\ q.log_dests = "SYSLOG" THEN "syslog" ELSE "free"
    BY <1>1, <1>4, <2>2
  <2>4. AfterMsg(q) = q.fds
    BY <1>4 DEF AfterMsg
  <2>5. QED
    BY <1>1, <1>2, <2>3, <2>4
<1>5. QED BY <1>2, <1>3, <1>4

(* A process that ends has nothing more to keep but its place. *)
LEMMA EndKeeps ==
  ASSUME StartupInv, NEW p \in Proc,
         \/ SayAndExit(p) \/ ParentExit(p)
         \/ \E s \in Sig : ExitProgram(p, s) \/ Killed(p, s)
  PROVE  StartupInv'
<1> DEFINE q == proc[p]  r == proc'[p]
<1>1. q \in ProcState /\ ProcInv(q) /\ q.exited = "no" /\ q.pc # "absent"
  BY DEF StartupInv, StartupTypeOK, SayAndExit, ParentExit, ExitProgram, Handled, Killed, At, Runs
<1>2. q.pc # "ready"
  BY DEF SayAndExit, ParentExit, ExitProgram, Handled, Killed, At
<1>3. /\ ~MsgLost(q)
      /\ AfterMsg(q) \in [0..MaxFd -> {"free", "tty", "syslog"}]
  BY <1>1, <1>2, MessageFds
<1> DEFINE Ends ==
      /\ proc' \in [Proc -> ProcState]
      /\ \A o \in Proc : o # p => proc'[o] = proc[o]
      /\ r.handlers = q.handlers /\ r.pc = q.pc /\ r.become_daemon = q.become_daemon
      /\ r.exited # "no" /\ r.exited # "hangup"
      /\ r.rc_mode = q.rc_mode \/ q.pc = "message"
      /\ r.dests = q.dests \/ r.dests = [t \in TxStream |-> "null"]
      /\ r.exited = "failure" => q.pc \in {"message", "exit_errno"}
      /\ r.exited = "killed" => \E s \in Sig : s \notin q.handlers
<1>4. /\ Ends
      /\ kills' \in 0..MaxKills /\ lost' = FALSE /\ misread' = FALSE
  <2>1. kills \in 0..MaxKills /\ proc \in [Proc -> ProcState]
    BY DEF StartupInv, StartupTypeOK
  <2>2. lost = FALSE /\ misread = FALSE
    BY DEF StartupInv, StartupTypeOK, ListsCompleteDests, LogNotLost
  <2>3. CASE SayAndExit(p)
    <3>1. q.pc \in {"message", "exit_errno"} /\ kills' = kills
      BY <2>3 DEF SayAndExit, At
    <3>2. lost' = FALSE /\ misread' = FALSE
      BY <1>3, <2>2, <2>3 DEF SayAndExit
    <3>3. proc' \in [Proc -> ProcState]
      BY <1>1, <1>3, <2>1, <2>3 DEF SayAndExit, ProcState, Outcome
    <3>4. Ends
      BY <1>1, <2>1, <2>3, <3>1, <3>3, SMTT(60) DEF SayAndExit, ProcState
    <3>5. QED BY <2>1, <3>1, <3>2, <3>4, SMTT(30)
  <2>4. CASE ParentExit(p)
    <3>1. Ends
      BY <1>1, <2>1, <2>4 DEF ParentExit, ProcState
    <3>2. QED
      BY <2>1, <2>2, <2>4, <3>1 DEF ParentExit, Quiet
  <2>5. ASSUME NEW s \in Sig, ExitProgram(p, s)
        PROVE  Ends /\ kills' \in 0..MaxKills /\ lost' = FALSE /\ misread' = FALSE
    <3>1. kills' \in 0..MaxKills
      <4>1. kills < MaxKills /\ kills' = kills + 1
        BY <2>5 DEF ExitProgram, Handled
      <4>2. QED BY <2>1, <4>1
    <3>2. lost' = FALSE /\ misread' = FALSE
      BY <1>3, <2>2, <2>5 DEF ExitProgram, Handled
    <3>3. Said(q, s) \in [0..MaxFd -> {"free", "tty", "syslog"}]
      BY <1>1, <1>3 DEF Said, ProcState
    <3>4. proc' \in [Proc -> ProcState]
      BY <1>1, <2>1, <2>5, <3>3, ZenonT(30) DEF ExitProgram, ProcState
    <3>5. /\ \A o \in Proc : o # p => proc'[o] = proc[o]
          /\ r.handlers = q.handlers /\ r.pc = q.pc
          /\ r.become_daemon = q.become_daemon /\ r.rc_mode = q.rc_mode
          /\ r.exited = "success" /\ r.dests = [t \in TxStream |-> "null"]
      BY <1>1, <2>1, <2>5 DEF ExitProgram, ProcState
    <3>6. Ends
      BY <3>4, <3>5
    <3>7. QED BY <3>1, <3>2, <3>6
  <2>6. ASSUME NEW s \in Sig, Killed(p, s)
        PROVE  Ends /\ kills' \in 0..MaxKills /\ lost' = FALSE /\ misread' = FALSE
    <3>1. kills' \in 0..MaxKills
      BY <2>1, <2>6 DEF Killed
    <3>2. Ends
      BY <1>1, <2>1, <2>6 DEF Killed, ProcState
    <3>3. QED
      BY <2>2, <2>6, <3>1, <3>2 DEF Killed
  <2>7. QED BY <2>3, <2>4, <2>5, <2>6
<1>5. ProcInv(r)
  BY <1>1, <1>4 DEF ProcInv, HandlersInv, ParmsInv, LogInv, FdsInv, TerminalInv, Before, Early
<1>6. ChildInv' /\ DaemonNotKilled'
  BY <1>1, <1>4 DEF StartupInv, ChildInv, DaemonNotKilled, ProcInv, HandlersInv, InstalledBy, Early, Alone, Proc
<1>7. QED
  BY <1>4, <1>5, <1>6, OneProcess

(* fork(): the child is a copy of its parent but for its place. *)
LEMMA ForkKeeps ==
  ASSUME StartupInv, NEW p \in Proc, Fork(p)
  PROVE  StartupInv'
<1> DEFINE q == proc["parent"]
<1>1. /\ p = "parent" /\ q \in ProcState /\ ProcInv(q) /\ q.exited = "no" /\ q.pc = "fork"
      /\ q.become_daemon
  BY DEF StartupInv, StartupTypeOK, Fork, At, Runs, ChildInv, Alone, Proc
<1>2. /\ proc'["parent"] = [q EXCEPT !.pc = "parent_exit"]
      /\ proc'["child"] = [q EXCEPT !.pc = "setsid"]
  BY <1>1 DEF Fork, AfterFork, Proc
<1>3. ASSUME NEW at \in {"parent_exit", "setsid"}
      PROVE  [q EXCEPT !.pc = at] \in ProcState /\ ProcInv([q EXCEPT !.pc = at])
  <2> DEFINE r == [q EXCEPT !.pc = at]
  <2>1. r \in ProcState
    BY <1>1 DEF ProcState, StartPc
  <2>2. HandlersInv(r) /\ ParmsInv(r)
    BY <1>1 DEF ProcState, ProcInv, HandlersInv, InstalledBy, ParmsInv, Before, Early
  <2>3. LogInv(r) /\ FdsInv(r)
    BY <1>1 DEF ProcState, ProcInv, LogInv, FdsInv
  <2>4. TerminalInv(r)
    BY <1>1 DEF ProcState, ProcInv, TerminalInv, Before, Early, Alone
  <2>5. QED BY <2>1, <2>2, <2>3, <2>4 DEF ProcInv
<1>4. proc' \in [Proc -> ProcState]
  BY <1>1, <1>2, <1>3 DEF Fork, Proc
<1>5. \A o \in Proc : ProcInv(proc'[o])
  BY <1>2, <1>3 DEF Proc
<1>6. ChildInv' /\ DaemonNotKilled'
  BY <1>1, <1>2 DEF ProcState, ChildInv, DaemonNotKilled, Alone
<1>7. StartupTypeOK' /\ ListsCompleteDests' /\ LogNotLost'
  BY <1>4 DEF Fork, Quiet, StartupInv, StartupTypeOK, ListsCompleteDests, LogNotLost
<1>8. QED
  BY <1>5, <1>6, <1>7 DEF StartupInv, ProcInv, HandlersInv, ParmsInv, LogInv, FdsInv, TerminalInv

(* daemonise() after fork(): only the child is there, and nothing it keeps  *)
(* but its place, its session, its log or its descriptors changes.          *)
LEMMA DaemoniseKeeps ==
  ASSUME StartupInv, NEW p \in Proc,
         \/ Setsid(p) \/ Chdir(p) \/ CallFails(p)
         \/ LogDests(p) \/ Openlog(p) \/ CloseStdfiles(p)
  PROVE  StartupInv'
<1> DEFINE q == proc[p]  r == proc'[p]
<1>1. /\ q \in ProcState /\ ProcInv(q) /\ q.exited = "no"
      /\ proc \in [Proc -> ProcState]
  BY DEF StartupInv, StartupTypeOK, Setsid, Chdir, CallFails, LogDests, Openlog,
         CloseStdfiles, At, Runs
<1>2. /\ q.pc \in {"fork", "setsid", "chdir", "log_dests", "openlog", "close"}
      /\ q.pc = "fork" => CallFails(p)
  BY DEF Setsid, Chdir, CallFails, LogDests, Openlog, CloseStdfiles, At
<1>3. q.pc # "fork" =>
        NextPlace(q) = IF q.pc = "setsid" THEN "chdir"
                       ELSE IF q.pc = "chdir" THEN "log_dests"
                       ELSE IF q.pc = "log_dests" THEN "openlog"
                       ELSE IF q.pc = "openlog" THEN "close" ELSE "ready"
  BY <1>2 DEF NextPlace, InTurn
<1>4. /\ q.pc # "fork" => p = "child"
      /\ q.become_daemon
  <2>1. CASE p = "parent"
    BY <1>1, <1>2, <2>1 DEF StartupInv, ChildInv, Alone
  <2>2. CASE p = "child"
    BY <1>1, <1>2, <2>2 DEF StartupInv, ChildInv, Alone
  <2>3. QED BY <2>1, <2>2 DEF Proc
<1>5. q.fds \in [0..MaxFd -> {"free", "tty", "syslog"}]
  BY <1>1 DEF ProcState
<1>6. Connected(q.fds) = [f \in 0..MaxFd |-> IF f < 3 THEN "tty"
                                              ELSE IF f = 3 THEN "syslog" ELSE "free"]
  <2>1. \A f \in 0..MaxFd : /\ f < 3 => q.fds[f] = "tty"
                            /\ f = 3 => q.fds[f] \in {"free", "syslog"}
                            /\ f > 3 => q.fds[f] = "free"
    BY <1>1, <1>2 DEF ProcInv, FdsInv
  <2>2. QED
    BY <1>5, <2>1, ConnectedFds
<1>7. Connected(q.fds) \in [0..MaxFd -> {"free", "tty", "syslog"}]
  BY <1>6
<1> DEFINE Goes ==
      /\ proc' \in [Proc -> ProcState]
      /\ \A o \in Proc : o # p => proc'[o] = proc[o]
      /\ r.handlers = q.handlers /\ r.rc_mode = q.rc_mode /\ r.dests = q.dests
      /\ r.become_daemon = q.become_daemon /\ r.exited = q.exited
      /\ r.pc = NextPlace(q) \/ CallFails(p)
<1>8. Goes /\ LogInv(r) /\ FdsInv(r) /\ TerminalInv(r)
  <2>1. CASE Setsid(p)
    <3>1. q.pc = "setsid" BY <2>1 DEF Setsid, At
    <3>2. Goes /\ r.log_dests = q.log_dests /\ r.fds = q.fds /\ r.terminal = FALSE /\ r.pc = "chdir"
      BY <1>1, <1>3, <2>1, <3>1 DEF Setsid, ProcState, StartPc
    <3>3. LogInv(r) /\ FdsInv(r)
      BY <1>1, <3>1, <3>2 DEF ProcInv, LogInv, FdsInv
    <3>4. TerminalInv(r)
      BY <3>2 DEF TerminalInv, Before, Early
    <3>5. QED BY <3>2, <3>3, <3>4
  <2>2. CASE Chdir(p)
    <3>1. q.pc = "chdir" BY <2>2 DEF Chdir, At
    <3>2. Goes /\ r.log_dests = q.log_dests /\ r.fds = q.fds /\ r.terminal = q.terminal /\ r.pc = "log_dests"
      BY <1>1, <1>3, <2>2, <3>1, ZenonT(30) DEF Chdir, ProcState, StartPc
    <3>3. LogInv(r) /\ FdsInv(r)
      BY <1>1, <3>1, <3>2 DEF ProcInv, LogInv, FdsInv
    <3>4. TerminalInv(r)
      BY <1>1, <3>1, <3>2 DEF ProcInv, TerminalInv, Before, Early, Alone
    <3>5. QED BY <3>2, <3>3, <3>4
  <2>3. CASE CallFails(p)
    <3>1. q.pc \in {"fork", "setsid", "chdir"} BY <2>3 DEF CallFails, At
    <3>2. Goes /\ r.log_dests = q.log_dests /\ r.fds = q.fds /\ r.terminal = q.terminal /\ r.pc = "exit_errno"
      BY <1>1, <2>3, ZenonT(30) DEF CallFails, ProcState, StartPc
    <3>3. LogInv(r) /\ FdsInv(r)
      BY <1>1, <3>1, <3>2 DEF ProcInv, LogInv, FdsInv
    <3>4. TerminalInv(r)
      BY <3>2 DEF TerminalInv, Before, Early, Alone
    <3>5. QED BY <3>2, <3>3, <3>4
  <2>4. CASE LogDests(p)
    <3>1. q.pc = "log_dests" BY <2>4 DEF LogDests, At
    <3>2. Goes /\ r.log_dests = "SYSLOG" /\ r.fds = q.fds /\ r.terminal = q.terminal /\ r.pc = "openlog"
      BY <1>1, <1>3, <2>4, <3>1 DEF LogDests, ProcState, StartPc
    <3>3. LogInv(r) /\ FdsInv(r)
      BY <1>1, <3>1, <3>2 DEF ProcInv, LogInv, FdsInv
    <3>4. TerminalInv(r)
      BY <1>1, <3>1, <3>2 DEF ProcInv, TerminalInv, Before, Early, Alone
    <3>5. QED BY <3>2, <3>3, <3>4
  <2>5. CASE Openlog(p)
    <3>1. q.pc = "openlog" /\ q.log_dests = "SYSLOG"
      BY <1>1, <2>5 DEF Openlog, At, ProcInv, LogInv
    <3>2. Goes /\ r.log_dests = q.log_dests /\ r.fds = Connected(q.fds) /\ r.terminal = q.terminal /\ r.pc = "close"
      BY <1>1, <1>3, <1>7, <2>5, <3>1 DEF Openlog, ProcState, StartPc
    <3>3. LogInv(r) /\ FdsInv(r)
      BY <1>6, <3>1, <3>2 DEF LogInv, FdsInv
    <3>4. TerminalInv(r)
      BY <1>1, <3>1, <3>2 DEF ProcInv, TerminalInv, Before, Early, Alone
    <3>5. QED BY <3>2, <3>3, <3>4
  <2>6. CASE CloseStdfiles(p)
    <3>1. q.pc = "close" /\ q.log_dests = "SYSLOG"
      BY <1>1, <2>6 DEF CloseStdfiles, At, ProcInv, LogInv
    <3>2. /\ Goes /\ r.log_dests = q.log_dests /\ r.terminal = q.terminal /\ r.pc = "ready"
          /\ r.fds = [f \in 0..MaxFd |-> IF f < 3 THEN "free" ELSE q.fds[f]]
      BY <1>1, <1>3, <1>5, <2>6, <3>1 DEF CloseStdfiles, ProcState, StartPc
    <3>3. LogInv(r) /\ FdsInv(r)
      BY <1>1, <1>4, <3>1, <3>2 DEF ProcInv, LogInv, FdsInv
    <3>4. TerminalInv(r)
      BY <1>1, <1>4, <3>1, <3>2 DEF ProcInv, TerminalInv, Before, Early, Alone
    <3>5. QED BY <3>2, <3>3, <3>4
  <2>7. QED BY <2>1, <2>2, <2>3, <2>4, <2>5, <2>6
<1>9. r.pc \in {"chdir", "log_dests", "openlog", "close", "ready", "exit_errno"}
  <2>1. CASE CallFails(p)
    BY <1>1, <2>1 DEF CallFails, ProcState
  <2>2. CASE ~CallFails(p)
    BY <1>2, <1>3, <1>8, <2>2
  <2>3. QED BY <2>1, <2>2
<1>10. HandlersInv(r) /\ ParmsInv(r)
  BY <1>1, <1>2, <1>8, <1>9 DEF ProcInv, HandlersInv, InstalledBy, ParmsInv, Before, Early
<1>11. ChildInv' /\ DaemonNotKilled'
  <2>1. CASE q.pc = "fork"
    <3>1. r.pc = "exit_errno" /\ p = "parent"
      BY <1>1, <1>2, <2>1 DEF CallFails, ProcState, StartupInv, ChildInv, Alone, Proc
    <3>2. QED
      BY <1>1, <1>8, <2>1, <3>1 DEF StartupInv, ChildInv, DaemonNotKilled, Alone, Proc
  <2>2. CASE q.pc # "fork"
    BY <1>1, <1>2, <1>4, <1>8, <1>9, <2>2 DEF StartupInv, ChildInv, DaemonNotKilled, Alone, Proc
  <2>3. QED BY <2>1, <2>2
<1>12. kills' = kills /\ lost' = lost /\ misread' = misread
  BY DEF Setsid, Chdir, CallFails, LogDests, Openlog, CloseStdfiles, Quiet
<1>13. kills \in 0..MaxKills
  BY DEF StartupInv, StartupTypeOK
<1>14. lost = FALSE /\ misread = FALSE
  BY DEF StartupInv, StartupTypeOK, ListsCompleteDests, LogNotLost
<1>15. ProcInv(r)
  BY <1>8, <1>10 DEF ProcInv
<1>16. QED
  BY <1>8, <1>11, <1>12, <1>13, <1>14, <1>15, OneProcess

(* SIGUSR1 and SIGUSR2: the log may connect to syslogd, nothing else.       *)
LEMMA UsrKeeps ==
  ASSUME StartupInv, NEW p \in Proc, NEW s \in Sig, UsrHandler(p, s)
  PROVE  StartupInv'
<1> DEFINE q == proc[p]  r == proc'[p]
<1>1. /\ q \in ProcState /\ ProcInv(q) /\ q.exited = "no" /\ q.pc # "ready"
      /\ s \in q.handlers /\ s \in {"SIGUSR1", "SIGUSR2"}
      /\ kills < MaxKills /\ kills' = kills + 1
      /\ proc \in [Proc -> ProcState] /\ kills \in 0..MaxKills
  BY DEF StartupInv, StartupTypeOK, UsrHandler, Handled, Runs, Sig
<1>2. lost = FALSE /\ misread = FALSE
  BY DEF StartupInv, StartupTypeOK, ListsCompleteDests, LogNotLost
<1>3. /\ ~MsgLost(q)
      /\ AfterMsg(q) = [f \in 0..MaxFd |-> IF f < 3 THEN "tty"
                           ELSE IF f = 3 /\ q.log_dests = "SYSLOG" THEN "syslog" ELSE "free"]
  BY <1>1, MessageFds
<1>4. /\ Said(q, s) \in [0..MaxFd -> {"free", "tty", "syslog"}]
      /\ Said(q, s) = q.fds \/ Said(q, s) = AfterMsg(q)
  BY <1>1, <1>3 DEF Said, ProcState
<1>5. /\ proc' \in [Proc -> ProcState]
      /\ \A o \in Proc : o # p => proc'[o] = proc[o]
      /\ r.handlers = q.handlers /\ r.pc = q.pc /\ r.rc_mode = q.rc_mode
      /\ r.become_daemon = q.become_daemon /\ r.dests = q.dests
      /\ r.log_dests = q.log_dests /\ r.fds = Said(q, s)
      /\ r.terminal = q.terminal /\ r.exited = q.exited
  BY <1>1, <1>4 DEF UsrHandler, ProcState
<1>6. HandlersInv(r) /\ ParmsInv(r) /\ LogInv(r) /\ TerminalInv(r)
  BY <1>1, <1>5 DEF ProcInv, HandlersInv, ParmsInv, LogInv, TerminalInv
<1>7. FdsInv(r)
  <2>1. CASE Said(q, s) = q.fds
    BY <1>1, <1>5, <2>1 DEF ProcInv, FdsInv
  <2>2. CASE Said(q, s) = AfterMsg(q)
    <3>1. q.pc = "openlog" => q.log_dests = "SYSLOG"
      BY <1>1 DEF ProcInv, LogInv
    <3>2. r.fds = [f \in 0..MaxFd |-> IF f < 3 THEN "tty"
                     ELSE IF f = 3 /\ q.log_dests = "SYSLOG" THEN "syslog" ELSE "free"]
      BY <1>3, <1>5, <2>2
    <3>3. QED
      BY <1>1, <1>5, <3>1, <3>2 DEF FdsInv
  <2>3. QED BY <1>4, <2>1, <2>2
<1>8. ChildInv' /\ DaemonNotKilled'
  <2>1. CASE p = "parent"
    BY <1>1, <1>5, <2>1 DEF StartupInv, ChildInv, DaemonNotKilled, Proc
  <2>2. CASE p = "child"
    BY <1>1, <1>5, <2>2 DEF StartupInv, ChildInv, DaemonNotKilled, Proc
  <2>3. QED BY <2>1, <2>2 DEF Proc
<1>9. lost' = FALSE
  BY <1>2, <1>3 DEF UsrHandler, Handled
<1>10. misread' = FALSE
  <2>1. s = "SIGUSR2" => q.pc \notin Before
    BY <1>1 DEF ProcInv, HandlersInv, InstalledBy, Before, Early, Exiting
  <2>2. s = "SIGUSR2" => \A t \in Tx(q.rc_mode) : q.dests[t] = "filled"
    BY <1>1, <2>1 DEF ProcInv, ParmsInv, Tx
  <2>3. QED
    BY <1>2, <2>2 DEF UsrHandler
<1>11. kills' \in 0..MaxKills
  BY <1>1
<1>12. QED
  BY <1>5, <1>6, <1>7, <1>8, <1>9, <1>10, <1>11, OneProcess DEF ProcInv

(* A hangup ends those that are still in the terminal's session.            *)
LEMMA HangupKeeps ==
  ASSUME StartupInv, Hangup
  PROVE  StartupInv'
<1>1. proc \in [Proc -> ProcState] /\ kills \in 0..MaxKills
  BY DEF StartupInv, StartupTypeOK
<1>2. ASSUME NEW p \in Proc
      PROVE  /\ proc'[p] \in ProcState /\ ProcInv(proc'[p])
             /\ proc'[p].pc = proc[p].pc
             /\ proc'[p].become_daemon = proc[p].become_daemon
             /\ \/ proc'[p].exited = proc[p].exited
                \/ /\ proc'[p].exited = "hangup"
                   /\ proc[p].pc # "absent" /\ proc[p].pc \notin Alone \ {"setsid"}
                   /\ proc[p].pc = "ready" => ~proc[p].become_daemon
  <2> DEFINE q == proc[p]
  <2>1. q \in ProcState /\ ProcInv(q)
    BY <1>1 DEF StartupInv
  <2>2. CASE ~(Runs(p) /\ q.terminal)
    <3>1. proc'[p] = q
      BY <2>2 DEF Hangup
    <3>2. QED BY <2>1, <3>1
  <2>3. CASE Runs(p) /\ q.terminal
    <3>1. proc'[p] = [q EXCEPT !.exited = "hangup"]
      BY <2>3 DEF Hangup
    <3>2. [q EXCEPT !.exited = "hangup"] \in ProcState
      BY <2>1 DEF ProcState
    <3>3. /\ HandlersInv([q EXCEPT !.exited = "hangup"])
          /\ ParmsInv([q EXCEPT !.exited = "hangup"])
          /\ LogInv([q EXCEPT !.exited = "hangup"])
          /\ FdsInv([q EXCEPT !.exited = "hangup"])
          /\ TerminalInv([q EXCEPT !.exited = "hangup"])
      BY <2>1 DEF ProcState, ProcInv, HandlersInv, ParmsInv, LogInv, FdsInv, TerminalInv
    <3>4. q.pc # "absent" /\ q.exited = "no" /\ q.terminal = TRUE
      BY <2>1, <2>3 DEF Runs, ProcState
    <3>5. /\ q.pc \notin Alone \ {"setsid"}
          /\ q.pc = "ready" => ~q.become_daemon
      BY <2>1, <3>4 DEF ProcInv, TerminalInv
    <3>6. proc'[p] \in ProcState /\ ProcInv(proc'[p])
      BY <3>1, <3>2, <3>3 DEF ProcInv
    <3>7. /\ proc'[p].pc = q.pc /\ proc'[p].become_daemon = q.become_daemon
          /\ proc'[p].exited = "hangup"
      BY <2>1, <3>1 DEF ProcState
    <3>8. QED
      BY <3>4, <3>5, <3>6, <3>7
  <2>4. QED BY <2>2, <2>3
<1>3. proc' \in [Proc -> ProcState]
  <2>1. proc' = [p \in Proc |-> proc'[p]]
    BY DEF Hangup
  <2>2. QED BY <1>2, <2>1
<1>4. ChildInv' /\ DaemonNotKilled'
  BY <1>2 DEF StartupInv, ChildInv, DaemonNotKilled, Alone, Proc
<1>5. kills' \in 0..MaxKills
  BY <1>1 DEF Hangup
<1>6. StartupTypeOK'
  BY <1>3, <1>5 DEF Hangup, StartupInv, StartupTypeOK
<1>7. ListsCompleteDests' /\ LogNotLost'
  BY DEF Hangup, StartupInv, ListsCompleteDests, LogNotLost
<1>8. QED
  BY <1>2, <1>4, <1>6, <1>7
     DEF StartupInv, ProcInv, HandlersInv, ParmsInv, LogInv, FdsInv, TerminalInv

LEMMA NextInv == StartupInv /\ [Next]_vars => StartupInv'
<1> SUFFICES ASSUME StartupInv, [Next]_vars PROVE StartupInv'
  OBVIOUS
<1>1. ASSUME NEW p \in Proc, Step(p)
      PROVE  StartupInv'
  BY <1>1, InstallKeeps, ParmsKeep, EndKeeps, ForkKeeps, DaemoniseKeeps DEF Step
<1>2. ASSUME NEW p \in Proc, NEW s \in Sig,
             ExitProgram(p, s) \/ UsrHandler(p, s) \/ Killed(p, s)
      PROVE  StartupInv'
  BY <1>2, EndKeeps, UsrKeeps
<1>3. CASE Hangup
  BY <1>3, HangupKeeps
<1>4. CASE UNCHANGED vars
  BY <1>4 DEF vars, StartupInv, StartupTypeOK, ProcInv, HandlersInv, ParmsInv, LogInv,
              FdsInv, TerminalInv, ChildInv, DaemonNotKilled, ListsCompleteDests, LogNotLost
<1>5. QED
  BY <1>1, <1>2, <1>3, <1>4 DEF Next, Done

(* The invariant of a start: what a process has done by each of its places. *)
THEOREM StartupInvariantHolds == Spec => []StartupInv
<1>1. QED
  BY InitInv, NextInv, PTL DEF Spec

(* A daemon left alone is never ended by a signal's default action.         *)
THEOREM DaemonSafe == Spec => []DaemonNotKilled
<1>1. StartupInv => DaemonNotKilled
  BY DEF StartupInv
<1>2. QED
  BY <1>1, StartupInvariantHolds, PTL

(* SIGUSR2's handler never lists destinations that are not complete.        *)
THEOREM ListsSafe == Spec => []ListsCompleteDests
<1>1. StartupInv => ListsCompleteDests
  BY DEF StartupInv
<1>2. QED
  BY <1>1, StartupInvariantHolds, PTL

(* No text logged at start-up ends nowhere.                                 *)
THEOREM LogSafe == Spec => []LogNotLost
<1>1. StartupInv => LogNotLost
  BY DEF StartupInv
<1>2. QED
  BY <1>1, StartupInvariantHolds, PTL

(* The parent neither goes on beside its child nor reports a failure.       *)
THEOREM ParentGone == Spec => []ParentLeaves
<1>1. StartupInv => ParentLeaves
  BY DEF StartupInv, ChildInv, ParentLeaves
<1>2. QED
  BY <1>1, StartupInvariantHolds, PTL

(* A start that gets to the loop is an initial state of Relay, whatever     *)
(* signals came before.                                                     *)
THEOREM RelayFromStartup == Spec => []RelayStartsRight
<1>1. StartupInv => RelayStartsRight
  <2> SUFFICES ASSUME StartupInv, Relayer.pc = "ready", Relayer.exited = "no"
               PROVE  /\ R!Init
                      /\ Relayer.handlers = Sig
                      /\ (Relayer.terminal <=> ~Relayer.become_daemon)
    BY DEF RelayStartsRight
  <2> DEFINE q == Relayer
  <2>1. q \in ProcState /\ ProcInv(q)
    BY DEF StartupInv, StartupTypeOK, Relayer, Proc
  <2>2. q.handlers = Sig
    BY <2>1 DEF ProcInv, HandlersInv, InstalledBy, Early
  <2>3. q.terminal <=> ~q.become_daemon
    BY <2>1 DEF ProcInv, TerminalInv
  <2>4. /\ q.rc_mode \in Mode /\ q.become_daemon \in BOOLEAN
        /\ q.dests = [t \in TxStream |-> IF t \in Tx(q.rc_mode) THEN "filled" ELSE "null"]
    BY <2>1 DEF ProcState, ProcInv, ParmsInv, Before, Early
  <2>5. q.fds = [f \in 0..MaxFd |->
                   IF q.become_daemon THEN IF f = 3 THEN "syslog" ELSE "free"
                                      ELSE IF f < 3 THEN "tty" ELSE "free"]
    <3>1. q.fds \in [0..MaxFd -> {"free", "tty", "syslog"}]
      BY <2>1 DEF ProcState
    <3>2. ASSUME NEW f \in 0..MaxFd
          PROVE  q.fds[f] = IF q.become_daemon THEN IF f = 3 THEN "syslog" ELSE "free"
                                               ELSE IF f < 3 THEN "tty" ELSE "free"
      BY <2>1 DEF ProcInv, LogInv, FdsInv
    <3>3. QED BY <3>1, <3>2
  <2>6. [t \in TxStream |-> IF q.dests[t] = "filled" THEN "live" ELSE q.dests[t]]
          = [t \in TxStream |-> IF t \in Tx(q.rc_mode) THEN "live" ELSE "null"]
    BY <2>4
  <2>7. R!Init
    <3>1. R!Stream = Stream /\ R!TxStream = TxStream /\ R!Sig = Sig /\ R!Ctx = Sig \cup {"main"}
      BY DEF R!Stream, R!RxStream, R!TxStream, Stream, RxStream, TxStream, R!Ctx, R!Sig,
             R!Exiting, Sig, Exiting
    <3>2. R!Rx(q.rc_mode) = Rx(q.rc_mode) /\ R!Tx(q.rc_mode) = Tx(q.rc_mode)
      BY <3>1 DEF R!Rx, Rx, R!Tx, Tx
    <3>3. QED
      BY <2>4, <2>5, <2>6, <3>1, <3>2 DEF R!Init
  <2>8. QED BY <2>2, <2>3, <2>7
<1>2. QED
  BY <1>1, StartupInvariantHolds, PTL
=============================================================================
