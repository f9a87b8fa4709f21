-------------------------- MODULE SocketsInvariant --------------------------
(* The inductive invariant of Sockets: how far the values of the options     *)
(* have been read, what is in prog_parms by then and why, and what has been  *)
(* told to the kernel.                                                       *)
EXTENDS Sockets

(* Interfaces as some step has seen them: those there are, if none changed. *)
Seen(hosts) == hosts \in SUBSET Interfaces /\ (changes = 0 => hosts = ifs)

TxSteps == {"count", "fill", "ttl", "outif"}

Places ==
  /\ at = "getopt" => rc_mode = "UNKNOWN"
  /\ at \in {"source"} \cup TxSteps => rc_mode \in Mode
  /\ at = "source" => family = Rx(rc_mode)
  /\ at \in TxSteps => family \in Tx(rc_mode)
  /\ at = "done" => rc_mode \in Mode \cup {"HELP", "LICENSE", "ERROR"}

(* The mode is the one that the options given stand for. *)
ModeFits ==
  rc_mode \in Mode =>
    /\ ~Given("help") /\ ~Given("license") /\ ~Given("unknown")
    /\ \A r \in RxStream : r = Rx(rc_mode) <=> Given(InOpt(r))
    /\ \A t \in TxStream : t \in Tx(rc_mode) <=> Given(OutOpt(t))

(* How far the options of an outgoing family have been read. *)
Past(t) ==
  /\ rc_mode \in Mode /\ t \in Tx(rc_mode)
  /\ at = "done" \/ (at \in TxSteps /\ family = "inet6_out" /\ t = "inet_out")

Reached(t, steps) == Past(t) \/ (family = t /\ at \in steps)

Counted(t) == Reached(t, {"fill", "ttl", "outif"})
Filled(t)  == Reached(t, {"ttl", "outif"})
Tuned(t)   == Reached(t, {"outif"})

SourceRead ==
  LET r == Rx(rc_mode) IN
  (rc_mode \in Mode /\ at # "source") =>
    \E hosts \in SUBSET Interfaces :
      LET p == AipPtoh(FamilyOf(r), prog_opts[InOpt(r)], hosts) IN
      /\ Seen(hosts)
      /\ p.err = "NONE" /\ p.port # 0
      /\ rx_parms[r] = [rx_addr |-> p.addr, port |-> p.port, in_intf |-> p.if_addr]

(* The room made for a list, and the list. *)
RoomMade(t) ==
  IF Counted(t)
  THEN \E hosts \in SUBSET Interfaces :
         LET n == CsvCount(FamilyOf(t), prog_opts[OutOpt(t)], hosts) IN
         Seen(hosts) /\ n # -1 /\ room[t] = RoomFor(n)
  ELSE room[t] = 0

ListFilled(t) ==
  LET p == tx_parms[t] IN
  IF Filled(t)
  THEN /\ \E hosts \in SUBSET Interfaces :
            Seen(hosts) /\ p.dests = CsvFill(FamilyOf(t), prog_opts[OutOpt(t)], hosts)
       /\ p.dests_num = Len(p.dests) - 1
       /\ p.mc_dests_num = NumMcaddrs(p.dests, p.dests_num)
  ELSE p.dests = <<>>

TuningRead(t) ==
  LET p == tx_parms[t] IN
  /\ p.mc_ttl  = IF Tuned(t) THEN Asked(TtlOpt(t), 1) ELSE 1
  /\ p.mc_loop = IF Tuned(t) /\ Given(LoopOpt(t)) THEN 1 ELSE 0

OutIfRead(t) ==
  LET p == tx_parms[t] IN
  /\ p.out_intf = IF Past(t) THEN Asked(OutIfOpt(t), "any") ELSE "any"
  /\ (Past(t) /\ Given(OutIfOpt(t))) =>
       \E hosts \in SUBSET Interfaces : Seen(hosts) /\ OutIfFound(t, p.out_intf, hosts)

DestsRead ==
  rc_mode \in Mode \cup {"UNKNOWN"} =>
    \A t \in TxStream : RoomMade(t) /\ ListFilled(t) /\ TuningRead(t) /\ OutIfRead(t)

(* The sockets already open. *)
Opened(s) ==
  /\ s \in StreamsOf(rc_mode)
  /\ \/ opening = "loop"
     \/ opening \in TxStream /\ s \in RxStream
     \/ opening = "inet6_out" /\ s = "inet_out"

KernelTold ==
  /\ DOMAIN sock = Stream
  /\ opening \in Stream \cup {"none", "loop", "failed"}
  /\ opening # "none" => at = "done" /\ rc_mode \in Mode
  /\ opening \in Stream => opening \in StreamsOf(rc_mode)
  /\ \A r \in RxStream : Opened(r) => sock[r] = RxSocket(r)
  /\ \A t \in TxStream : Opened(t) => sock[t] = TxSocket(t)

SocketsInv ==
  /\ OptionsTypeOK
  /\ Places /\ ModeFits
  /\ SourceRead /\ DestsRead
  /\ FillFits
  /\ KernelTold
=============================================================================
