------------------------------ MODULE Options ------------------------------
(* From the command line to prog_parms: get_prog_parms() and what it calls. *)
(* getopt_long_only() hands the options over one by one; they are then      *)
(* checked against each other, which decides the mode, and their values one *)
(* after the other, the two lists of destinations in two passes each, one   *)
(* to count and one to fill.  The host's interfaces may change meanwhile.   *)
EXTENDS RcMode, Inetaddr

CONSTANTS
  Arguments,    \* for each option the arguments it may be given with
  Interfaces,   \* the names of interfaces the host may have
  MaxArgs,      \* bound: options on the command line
  MaxIfChanges  \* bound: interfaces that come and go

Switches == {"help", "license", "nodaemon", "4mcloop", "6mcloop",
             "unknown"}  \* unknown, ambiguous or without its argument
Ttl      == 0..255
OptName  == Switches \cup {"4in", "4out", "4mcttl", "4mcoutif",
                           "6in", "6out", "6mchops", "6mcoutif"}

ASSUME ArgumentsAssumption == DOMAIN Arguments = OptName
(* What getopt hands over is whatever was written: an address may be none,  *)
(* an interface unknown, a number anything.  An IPv4 address has no brackets. *)
Text(form) ==
  [addr : Addr \cup {"bad"}, intf : Interfaces \cup {"none", IfAddr},
   port : Int, form : form]

ASSUME InterfacesAssumption == Interfaces \cap {"none", "any", "rt table", IfAddr} = {}
ASSUME ArgumentTypesAssumption ==
  /\ Arguments["4in"]  \subseteq Text({"whole"})
  /\ Arguments["6in"]  \subseteq Text(Form)
  /\ Arguments["4out"] \subseteq Seq(Text({"whole"}))
  /\ Arguments["6out"] \subseteq Seq(Text(Form))
  /\ Arguments["4mcttl"] \subseteq Int /\ Arguments["6mchops"] \subseteq Int
  /\ Arguments["4mcoutif"] \subseteq Interfaces \cup {IfAddr}
  /\ Arguments["6mcoutif"] \subseteq Interfaces
ASSUME OptionBoundsAssumption == MaxArgs \in Nat /\ MaxIfChanges \in Nat

(* The option that feeds each parameter, and the family it is read as. *)
FamilyOf(s) == IF s \in {"inet_in", "inet_out"} THEN "inet" ELSE "inet6"
InOpt(r)    == IF r = "inet_in"  THEN "4in"      ELSE "6in"
OutOpt(t)   == IF t = "inet_out" THEN "4out"     ELSE "6out"
TtlOpt(t)   == IF t = "inet_out" THEN "4mcttl"   ELSE "6mchops"
LoopOpt(t)  == IF t = "inet_out" THEN "4mcloop"  ELSE "6mcloop"
OutIfOpt(t) == IF t = "inet_out" THEN "4mcoutif" ELSE "6mcoutif"

VARIABLES
  prog_opts,                \* the options given, each with its last argument
  nargs,                    \* how many getopt has returned
  at, family,               \* which check is next, for which stream
  rc_mode, become_daemon,   \* prog_parms, and below: its rx and tx sock_parms
  rx_parms, tx_parms,
  room,                     \* entries malloc()ed for dests, 0 while NULL
  err,                      \* the error log_opt_error() named, or "none"
  ifs, changes              \* the interfaces there are, and how often they changed

parms   == <<rc_mode, become_daemon, rx_parms, tx_parms, room>>
ifaces  == <<ifs, changes>>
optvars == <<prog_opts, nargs, at, family, parms, err, ifaces>>

Interface == Interfaces \cup {"any", IfAddr}
DestEntry == [addr : Addr \cup {"unspec"}, port : Port]
RxParms   == [rx_addr : Addr \cup {"none"}, port : Port, in_intf : Interface]
TxParms   == [mc_ttl : Ttl, mc_loop : {0, 1}, out_intf : Interface,
              dests : Seq(DestEntry), dests_num : Nat, mc_dests_num : Nat]

OptionsTypeOK ==
  /\ DOMAIN prog_opts \subseteq OptName
  /\ \A o \in DOMAIN prog_opts : prog_opts[o] \in Arguments[o]
  /\ nargs \in 0..MaxArgs
  /\ at \in {"getopt", "source", "count", "fill", "ttl", "outif", "done"}
  /\ family \in Stream
  /\ rc_mode \in Mode \cup {"UNKNOWN", "HELP", "LICENSE", "ERROR"}
  /\ become_daemon \in BOOLEAN
  /\ rx_parms \in [RxStream -> RxParms]
  /\ tx_parms \in [TxStream -> TxParms]
  /\ \A t \in TxStream : tx_parms[t].mc_dests_num <= tx_parms[t].dests_num
  /\ room \in [TxStream -> Nat]
  /\ ifs \subseteq Interfaces /\ changes \in 0..MaxIfChanges

(* init_prog_opts(), init_prog_parms(); the interfaces are the host's. *)
OptionsInit ==
  /\ prog_opts = [o \in {} |-> {}]
  /\ nargs = 0
  /\ at = "getopt" /\ family = "inet_in"
  /\ rc_mode = "UNKNOWN" /\ become_daemon = TRUE
  /\ rx_parms = [r \in RxStream |->
                   [rx_addr |-> "none", port |-> 0, in_intf |-> "any"]]
  /\ tx_parms = [t \in TxStream |->
                   [mc_ttl |-> 1, mc_loop |-> 0, out_intf |-> "any",
                    dests |-> <<>>, dests_num |-> 0, mc_dests_num |-> 0]]
  /\ room = [t \in TxStream |-> 0]
  /\ err = "none"
  /\ ifs \in SUBSET Interfaces /\ changes = 0

Given(o) == o \in DOMAIN prog_opts

-----------------------------------------------------------------------------
(* get_prog_opts_cmdline(): the last argument of an option counts, and       *)
(* nothing is read after -help, -license or an option it does not know.      *)

GetOpt(o, arg) ==
  /\ at = "getopt" /\ nargs < MaxArgs
  /\ ~Given("help") /\ ~Given("license") /\ ~Given("unknown")
  /\ prog_opts' = [p \in DOMAIN prog_opts \cup {o} |->
                     IF p = o THEN arg ELSE prog_opts[p]]
  /\ nargs' = nargs + 1
  /\ UNCHANGED <<at, family, parms, err, ifaces>>

(* validate_prog_opts(): what the options given make of the program.  Seeded *)
(* error: with an inet6 source, -4out and -6out are mixed up.                *)
RelayModeSwapped(in, out) ==
  IF Cardinality(out) = 2
  THEN IF in = "4in" THEN "INET_TO_INET_INET6" ELSE "INET6_TO_INET_INET6"
  ELSE IF in = "4in"
  THEN IF out = {"4out"} THEN "INET_TO_INET" ELSE "INET_TO_INET6"
  ELSE IF out = {"4out"} THEN "INET6_TO_INET6" ELSE "INET6_TO_INET"

RelayMode(in, out) ==
  CASE in = "4in" /\ out = {"4out", "6out"} -> "INET_TO_INET_INET6"
    [] in = "4in" /\ out = {"4out"}         -> "INET_TO_INET"
    [] in = "4in" /\ out = {"6out"}         -> "INET_TO_INET6"
    [] in = "6in" /\ out = {"4out", "6out"} -> "INET6_TO_INET_INET6"
    [] in = "6in" /\ out = {"4out"}         -> "INET6_TO_INET"
    [] in = "6in" /\ out = {"6out"}         -> "INET6_TO_INET6"

ValidateProgOpts(given) ==
  LET in  == given \cap {"4in", "6in"}
      out == given \cap {"4out", "6out"}
  IN IF "help" \in given THEN "HELP"
     ELSE IF "license" \in given THEN "LICENSE"
     ELSE IF "unknown" \in given THEN "UNKNOWN_OPT"
     ELSE IF in = {} THEN "NO_SRC_ADDR"
     ELSE IF in = {"4in", "6in"} THEN "MULTI_SRC_ADDRS"
     ELSE IF out = {} THEN "NO_DST_ADDRS"
     ELSE RelayMode(CHOOSE i \in in : TRUE, out)

Validate ==
  LET v == ValidateProgOpts(DOMAIN prog_opts) IN
  /\ at = "getopt"
  /\ rc_mode' = IF v \in Mode \cup {"HELP", "LICENSE"} THEN v ELSE "ERROR"
  /\ err' = IF rc_mode' = "ERROR" THEN v ELSE err
  /\ become_daemon' = IF v \in Mode /\ Given("nodaemon") THEN FALSE ELSE become_daemon
  /\ at' = IF v \in Mode THEN "source" ELSE "done"
  /\ family' = IF v \in Mode THEN Rx(v) ELSE family
  /\ UNCHANGED <<prog_opts, nargs, rx_parms, tx_parms, room, ifaces>>

-----------------------------------------------------------------------------
(* validate_prog_opts_vals() and, where it finds fault, the error message   *)
(* that validate_prog_opts_values() prints.  What a rejected command line    *)
(* has left in prog_parms is not looked at again.                            *)

Reject(e) == rc_mode' = "ERROR" /\ err' = e /\ at' = "done" /\ UNCHANGED family

(* The outgoing families whose option is given are read inet first. *)
NextFamily(s) ==
  IF s \in RxStream /\ Given("4out") THEN "inet_out"
  ELSE IF s # "inet6_out" /\ Given("6out") THEN "inet6_out" ELSE s

Proceed(s) ==
  /\ at' = IF NextFamily(s) = s THEN "done" ELSE "count"
  /\ family' = NextFamily(s)
  /\ UNCHANGED <<rc_mode, err>>

ParseSource ==
  LET p == AipPtoh(FamilyOf(family), prog_opts[InOpt(family)], ifs) IN
  /\ at = "source"
  /\ IF p.err = "NONE" /\ p.port # 0
     THEN /\ rx_parms' = [rx_parms EXCEPT ![family] =
                            [rx_addr |-> p.addr, port |-> p.port,
                             in_intf |-> p.if_addr]]
          /\ Proceed(family)
     ELSE /\ Reject(CASE p.err = "ADDR"   -> "SRC_GRP_ADDR"
                      [] p.err = "IFADDR" -> "IF_ADDR"
                      [] OTHER            -> "SRC_PORT")
          /\ UNCHANGED rx_parms
  /\ UNCHANGED <<prog_opts, nargs, become_daemon, tx_parms, room, ifaces>>

(* The first pass, and the malloc() of one entry more than it counted.      *)
(* Seeded error: no entry for the sentinel.                                 *)
RoomForDests(n) == n

RoomFor(n) == n + 1

CountDests(memory) ==
  LET n == CsvCount(FamilyOf(family), prog_opts[OutOpt(family)], ifs) IN
  /\ at = "count"
  /\ IF n = -1
     THEN /\ Reject(IF family = "inet_out" THEN "INET_DST_ADDR" ELSE "INET6_DST_ADDR")
          /\ UNCHANGED room
     ELSE IF memory
     THEN /\ room' = [room EXCEPT ![family] = RoomFor(n)]
          /\ at' = "fill"
          /\ UNCHANGED <<family, rc_mode, err>>
     ELSE Reject("MEMORY_ERROR") /\ UNCHANGED room
  /\ UNCHANGED <<prog_opts, nargs, become_daemon, rx_parms, tx_parms, ifaces>>

FillDests ==
  LET dests == CsvFill(FamilyOf(family), prog_opts[OutOpt(family)], ifs)
      num   == Len(dests) - 1
  IN
  /\ at = "fill"
  /\ tx_parms' = [tx_parms EXCEPT ![family].dests = dests,
                                  ![family].dests_num = num,
                                  ![family].mc_dests_num = NumMcaddrs(dests, num)]
  /\ at' = "ttl"
  /\ UNCHANGED <<prog_opts, nargs, family, rc_mode, become_daemon, rx_parms, room, err,
                 ifaces>>

(* -4mcttl or -6mchops, then -4mcloop or -6mcloop.  Seeded error: no check   *)
(* of the upper limit.                                                       *)
TtlNotNegative(ttl) == ttl >= 0

TtlInRange(ttl) == ttl >= 0 /\ ttl <= 255

SetTtl ==
  /\ at = "ttl"
  /\ IF Given(TtlOpt(family)) /\ ~TtlInRange(prog_opts[TtlOpt(family)])
     THEN /\ Reject(IF family = "inet_out" THEN "INET_TX_MCTTL_RANGE"
                                           ELSE "INET6_TX_HOPS_RANGE")
          /\ UNCHANGED tx_parms
     ELSE /\ tx_parms' =
               [tx_parms EXCEPT
                  ![family].mc_ttl = IF Given(TtlOpt(family))
                                     THEN prog_opts[TtlOpt(family)] ELSE @,
                  ![family].mc_loop = IF Given(LoopOpt(family)) THEN 1 ELSE @]
          /\ at' = "outif"
          /\ UNCHANGED <<family, rc_mode, err>>
  /\ UNCHANGED <<prog_opts, nargs, become_daemon, rx_parms, room, ifaces>>

OutIfFound(t, intf, hosts) ==
  IF t = "inet_out" THEN InetIfAddr(intf, hosts) ELSE intf \in hosts

SetOutIf ==
  /\ at = "outif"
  /\ IF ~Given(OutIfOpt(family))
     THEN Proceed(family) /\ UNCHANGED tx_parms
     ELSE LET intf == prog_opts[OutIfOpt(family)] IN
          IF OutIfFound(family, intf, ifs)
          THEN /\ tx_parms' = [tx_parms EXCEPT ![family].out_intf = intf]
               /\ Proceed(family)
          ELSE /\ Reject(IF family = "inet_out" THEN "INET_OUT_INTF"
                                                ELSE "INET6_OUT_INTF")
               /\ UNCHANGED tx_parms
  /\ UNCHANGED <<prog_opts, nargs, become_daemon, rx_parms, room, ifaces>>

-----------------------------------------------------------------------------
(* The host's administrator. *)
IfChange(i) ==
  /\ at # "getopt" /\ changes < MaxIfChanges
  /\ ifs' = IF i \in ifs THEN ifs \ {i} ELSE ifs \cup {i}
  /\ changes' = changes + 1
  /\ UNCHANGED <<prog_opts, nargs, at, family, parms, err>>

OptionsNext ==
  \/ \E o \in OptName : \E arg \in Arguments[o] : GetOpt(o, arg)
  \/ Validate \/ ParseSource
  \/ \E memory \in BOOLEAN : CountDests(memory)
  \/ FillDests \/ SetTtl \/ SetOutIf
  \/ \E i \in Interfaces : IfChange(i)

-----------------------------------------------------------------------------
(* Properties. *)

Accepted == at = "done" /\ rc_mode \in Mode

IntfKnown(text) == text.intf \in ifs \cup {"none", IfAddr}

WrittenPort(text) == IF text.form = "no_close" THEN 0 ELSE text.port

(* The mode, decided from the options given alone, agrees with what reading *)
(* their values has left behind: the source of the mode has a port, exactly *)
(* its outgoing families have destinations on the heap, and the sentinel    *)
(* that ends the loops of the tx_rcast functions follows the last of them.  *)
ParmsFitMode ==
  Accepted =>
    /\ rx_parms[Rx(rc_mode)].port \in Port \ {0}
    /\ \A t \in TxStream :
         /\ room[t] > 0 <=> t \in Tx(rc_mode)
         /\ t \in Tx(rc_mode) =>
              \A i \in DOMAIN tx_parms[t].dests :
                tx_parms[t].dests[i] = Sentinel <=> i = tx_parms[t].dests_num + 1

(* The destinations that one pass may drop and the other keep: the inet ones *)
(* that name an interface of the host.                                       *)
Wavering(t) ==
  IF t = "inet_out" /\ Given(OutOpt(t))
  THEN {i \in DOMAIN prog_opts[OutOpt(t)] : prog_opts[OutOpt(t)][i].intf \in Interfaces}
  ELSE {}

(* The second pass over a list stays inside what the first one made room    *)
(* for.  Only where interfaces change meanwhile may it run over, by no more  *)
(* than the inet destinations that name one; an inet6 list never does.       *)
FillFits ==
  \A t \in TxStream :
    Len(tx_parms[t].dests) <=
      room[t] + (IF changes = 0 THEN 0 ELSE Cardinality(Wavering(t)))

(* Every destination on the command line is kept, in order, and no other: *)
(* only an inet destination that names an interface which does not exist is *)
(* dropped, and only an inet6 one without its closing bracket loses its port. *)
ListedIsKept ==
  (Accepted /\ changes = 0) =>
    \A t \in Tx(rc_mode) :
      LET csv   == prog_opts[OutOpt(t)]
          known == Selected(csv, {i \in DOMAIN csv : t = "inet6_out" \/ IntfKnown(csv[i])})
      IN /\ tx_parms[t].dests_num = Len(known)
         /\ \A i \in DOMAIN known :
              tx_parms[t].dests[i] =
                [addr |-> known[i].addr, port |-> WrittenPort(known[i])]

(* What is wrong with the command line, each complaint on its own merits.   *)
(* Options that tune a family mean nothing without its destinations.        *)
Wrote(o)  == IF Given(o) THEN {prog_opts[o]} ELSE {}
Listed(o) == IF Given(o) THEN {prog_opts[o][i] : i \in DOMAIN prog_opts[o]} ELSE {}

NoAddr(x) == x.addr = "bad" \/ x.form = "no_open"
NoPort(x) == WrittenPort(x) \notin Port \/ x.form = "no_colon"
NoHost(x) == WrittenPort(x) = 0 \/ NoPort(x)

Complains(e) ==
  CASE e = "UNKNOWN_OPT"     -> Given("unknown")
    [] e = "NO_SRC_ADDR"     -> ~Given("4in") /\ ~Given("6in")
    [] e = "MULTI_SRC_ADDRS" -> Given("4in") /\ Given("6in")
    [] e = "NO_DST_ADDRS"    -> ~Given("4out") /\ ~Given("6out")
    [] e = "SRC_GRP_ADDR"    -> \E x \in Wrote("4in") \cup Wrote("6in") : NoAddr(x)
    [] e = "IF_ADDR"         -> \E x \in Wrote("4in") : ~IntfKnown(x)
    [] e = "SRC_PORT"        -> \E x \in Wrote("4in") \cup Wrote("6in") : NoHost(x)
    [] e = "INET_DST_ADDR"   ->
         \E x \in Listed("4out") : NoAddr(x) \/ (NoPort(x) /\ IntfKnown(x))
    [] e = "INET6_DST_ADDR"  -> \E x \in Listed("6out") : NoAddr(x) \/ NoPort(x)
    [] e = "INET_TX_MCTTL_RANGE" -> Given("4out") /\ ~(Wrote("4mcttl") \subseteq Ttl)
    [] e = "INET6_TX_HOPS_RANGE" -> Given("6out") /\ ~(Wrote("6mchops") \subseteq Ttl)
    [] e = "INET_OUT_INTF" ->
         Given("4out") /\ ~(Wrote("4mcoutif") \subseteq ifs \cup {IfAddr})
    [] e = "INET6_OUT_INTF"  -> Given("6out") /\ ~(Wrote("6mcoutif") \subseteq ifs)

Complaint == {"UNKNOWN_OPT", "NO_SRC_ADDR", "MULTI_SRC_ADDRS", "NO_DST_ADDRS",
              "SRC_GRP_ADDR", "IF_ADDR", "SRC_PORT", "INET_DST_ADDR", "INET6_DST_ADDR",
              "INET_TX_MCTTL_RANGE", "INET6_TX_HOPS_RANGE",
              "INET_OUT_INTF", "INET6_OUT_INTF"}

(* The error message printed is true of the command line, and a command     *)
(* line that is accepted gives no ground for any of them.                   *)
Diagnosed ==
  (changes = 0) =>
    /\ rc_mode = "ERROR" => err = "MEMORY_ERROR" \/ Complains(err)
    /\ Accepted => \A e \in Complaint : ~Complains(e)

(* A program that starts has someone to send to in every family it is told  *)
(* to serve (README: "to one or more destinations").                        *)
SomeDestination ==
  Accepted => \A t \in Tx(rc_mode) : tx_parms[t].dests_num > 0
=============================================================================
