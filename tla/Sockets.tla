------------------------------ MODULE Sockets ------------------------------
(* From the command line to the kernel: Options, and then the opening and   *)
(* configuring of the sockets of the mode, which Relay takes step by step   *)
(* but without their parameters.                                            *)
EXTENDS Options

VARIABLES
  sock,   \* each socket's configuration in the kernel, or Unopened
  opening \* the socket to open next, "loop" once all are, "failed"

sockvars == <<sock, opening>>
vars     == <<optvars, sockvars>>

Unopened == [open |-> FALSE]

(* A new socket: multicasts go one hop, are looped back to the host, and    *)
(* leave by the interface the route table says.                             *)
NewSocket == [open |-> TRUE, ttl |-> 1, loop |-> 1, out_intf |-> "any"]

Init == OptionsInit /\ sock = [s \in Stream |-> Unopened] /\ opening = "none"

Parse ==
  /\ at # "done" /\ OptionsNext
  /\ opening' = IF at' = "done" /\ rc_mode' \in Mode THEN Rx(rc_mode') ELSE opening
  /\ UNCHANGED sock

(* The socket after a successful open_inet_rx_sock(), open_inet6_rx_sock(). *)
(* bind() is told the interface of a link-local inet6 address only.  Seeded *)
(* error: the group is joined wherever the route table says.                *)
RxSocketAnyIntf(r) ==
  LET p == rx_parms[r] IN
  [open |-> TRUE, addr |-> p.rx_addr, port |-> p.port, scope |-> "any",
   member |-> IsMulticast(p.rx_addr), member_intf |-> "any"]

RxSocket(r) ==
  LET p == rx_parms[r] IN
  [open |-> TRUE, addr |-> p.rx_addr, port |-> p.port,
   scope |-> IF r = "inet6_in" /\ IsLinkLocal(p.rx_addr) THEN p.in_intf ELSE "any",
   member |-> IsMulticast(p.rx_addr),
   member_intf |-> IF IsMulticast(p.rx_addr) THEN p.in_intf ELSE "any"]

(* And after open_inet_tx_sock(), open_inet6_tx_sock().  Seeded error: the  *)
(* loop is left as it is unless -4mcloop or -6mcloop asks for it.           *)
LoopIfAsked(p, new) == IF p.mc_loop = 1 THEN 1 ELSE new.loop

LoopOf(p, new) == IF p.mc_loop = 1 THEN 1 ELSE 0

TtlOf(p, new) == IF p.mc_ttl > 0 THEN p.mc_ttl ELSE new.ttl

TxSocket(t) ==
  LET p == tx_parms[t] IN
  IF p.mc_dests_num > 0
  THEN [NewSocket EXCEPT !.ttl = TtlOf(p, NewSocket), !.loop = LoopOf(p, NewSocket),
                         !.out_intf = p.out_intf]
  ELSE NewSocket

Open ==
  /\ opening \in Stream
  /\ sock' = [sock EXCEPT ![opening] = IF opening \in RxStream THEN RxSocket(opening)
                                       ELSE TxSocket(opening)]
  /\ opening' = IF After(rc_mode, opening) \in TxStream THEN After(rc_mode, opening)
                                                        ELSE "loop"
  /\ UNCHANGED optvars

(* socket(), setsockopt() or bind() fails: exit_errno(). The socket that was *)
(* half configured goes with the process.                                    *)
OpenFails == opening \in Stream /\ opening' = "failed" /\ UNCHANGED <<sock, optvars>>

(* An interface comes or goes while the program opens its sockets or relays. *)
IfChanges ==
  /\ at = "done" /\ rc_mode \in Mode
  /\ \E i \in Interfaces : IfChange(i)
  /\ UNCHANGED sockvars

(* The program relays, or has ended with a message.  *)
Settled ==
  /\ opening \in {"loop", "failed"} \/ (at = "done" /\ rc_mode \notin Mode)
  /\ UNCHANGED vars

Next == Parse \/ Open \/ OpenFails \/ IfChanges \/ Settled

Spec == Init /\ [][Next]_vars

-----------------------------------------------------------------------------
(* log_inet_rx_sock_parms() and the three like it: what a relay logs of its  *)
(* parameters when it starts, and for a SIGUSR2 at any time.  The name of an *)
(* inet6 interface that is gone is left unset, and printed all the same.     *)

LogRx(r) ==
  LET p == rx_parms[r] IN
  AipHtop(FamilyOf(r), p.rx_addr, p.in_intf, p.port, ifs)

LogTx(t) ==
  LET p == tx_parms[t] IN
  [dests    |-> [i \in 1..p.dests_num |->
                   ApHtop(FamilyOf(t), p.dests[i].addr, p.dests[i].port)],
   out_intf |-> IF p.out_intf = "any" THEN "rt table"
                ELSE IF t = "inet6_out" /\ p.out_intf \notin ifs THEN "unset"
                ELSE p.out_intf,
   loop     |-> p.mc_loop,
   ttl      |-> p.mc_ttl]

-----------------------------------------------------------------------------
Running == opening = "loop"

(* What a program that relays was asked for on the command line is what the *)
(* kernel does with its multicasts: the hops they may go, or one; whether   *)
(* the host hears them, by default not, against the kernel's own default;   *)
(* and the interface they leave by.                                         *)
Asked(o, default) == IF Given(o) THEN prog_opts[o] ELSE default

Multicasts(t) ==
  \E i \in DOMAIN tx_parms[t].dests : IsMulticast(tx_parms[t].dests[i].addr)

MulticastAsAsked ==
  Running =>
    \A t \in Tx(rc_mode) : Multicasts(t) =>
      /\ sock[t].loop = IF Given(LoopOpt(t)) THEN 1 ELSE 0
      /\ sock[t].out_intf = Asked(OutIfOpt(t), "any")
      /\ Asked(TtlOpt(t), 1) > 0 => sock[t].ttl = Asked(TtlOpt(t), 1)

(* The same of a time-to-live of 0, which the options allow (help text:     *)
(* "-4mcttl <ttl> - outgoing multicast TTL").                               *)
TtlAsAsked ==
  Running =>
    \A t \in Tx(rc_mode) : Multicasts(t) => sock[t].ttl = Asked(TtlOpt(t), 1)

(* A program that relays listens at the address and port it was given, and  *)
(* as a member of the group there, if it is one; it never listens on an     *)
(* interface other than the one it was given, and an inet source's is the   *)
(* one.                                                                     *)
SourceAsAsked ==
  Running =>
    LET r    == Rx(rc_mode)
        text == prog_opts[InOpt(r)]
    IN /\ sock[r].addr = text.addr /\ sock[r].port = text.port
       /\ sock[r].member <=> IsMulticast(text.addr)
       /\ sock[r].member_intf \in {"any", text.intf}
       /\ sock[r].scope \in {"any", text.intf}
       /\ (r = "inet_in" /\ sock[r].member /\ text.intf # "none") =>
            sock[r].member_intf = text.intf

(* What a relay logs of its parameters would, given as options to another    *)
(* start, be accepted and make the same relay, as long as the interfaces it  *)
(* uses are there: the printing functions and the parsers are inverse, and   *)
(* nothing the parameters hold is left out.                                  *)
InUse == {rx_parms[Rx(rc_mode)].in_intf} \cup {tx_parms[t].out_intf : t \in Tx(rc_mode)}

ListingRestarts ==
  (Running /\ InUse \subseteq ifs \cup {"any", IfAddr}) =>
    /\ LET r == Rx(rc_mode)
           p == AipPtoh(FamilyOf(r), LogRx(r), ifs)
       IN /\ p.err = "NONE"
          /\ rx_parms[r] = [rx_addr |-> p.addr, port |-> p.port, in_intf |-> p.if_addr]
    /\ \A t \in Tx(rc_mode) :
         LET log == LogTx(t)  p == tx_parms[t] IN
         p.dests_num > 0 =>
           /\ CsvCount(FamilyOf(t), log.dests, ifs) = p.dests_num
           /\ CsvFill(FamilyOf(t), log.dests, ifs) = p.dests
           /\ IF log.out_intf = "rt table" THEN p.out_intf = "any"
              ELSE OutIfFound(t, log.out_intf, ifs) /\ log.out_intf = p.out_intf
           /\ TtlInRange(log.ttl)

(* A multicast source with an interface is received on that interface       *)
(* (README: "the incoming interface can be specified, instead of the host's *)
(* route table being used").                                                *)
SourceInterfaceUsed ==
  Running =>
    LET r    == Rx(rc_mode)
        text == prog_opts[InOpt(r)]
    IN (IsMulticast(text.addr) /\ text.intf # "none") => sock[r].member_intf = text.intf
=============================================================================
