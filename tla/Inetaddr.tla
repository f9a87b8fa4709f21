------------------------------ MODULE Inetaddr ------------------------------
(* inetaddr.c: what its parsers make of an address, and of a comma-separated *)
(* list of them.  A written address is a record: addr is its kind or "bad"   *)
(* where inet_pton() rejects it, intf what follows a '%' ("none" without     *)
(* one), port what atoi() makes of the port (0 where none is written), and   *)
(* form what the bracketed notation lacks, if anything.                      *)
EXTENDS Integers, Sequences, FiniteSets

Addr == {"unicast", "multicast", "linklocal", "mc_linklocal"}
Port == 0..65535
Form == {"whole", "no_open", "no_close", "no_colon"}

IsMulticast(addr) == addr \in {"multicast", "mc_linklocal"}
IsLinkLocal(addr) == addr \in {"linklocal", "mc_linklocal"}

(* inet_if_addr() takes an address of an interface as it stands, and a name *)
(* only while the interface is there; if_nametoindex() takes names only.    *)
IfAddr == "ifaddr"

InetIfAddr(intf, ifs) == intf = IfAddr \/ intf \in ifs

(* A negative number ends up far above 0xffff in an unsigned int. *)
BadPort(port) == port < 0 \/ port > 65535

AipPtohInet(text, ifs) ==
  [err     |-> IF text.addr = "bad" THEN "ADDR"
               ELSE IF text.intf # "none" /\ ~InetIfAddr(text.intf, ifs) THEN "IFADDR"
               ELSE IF BadPort(text.port) THEN "PORT" ELSE "NONE",
   addr    |-> text.addr,
   if_addr |-> IF text.intf = "none" THEN "any" ELSE text.intf,
   port    |-> text.port]

(* A name if_nametoindex() does not know gives index 0, any interface, and   *)
(* no error; what follows an address without its closing bracket is ignored. *)
AipPtohInet6(text, ifs) ==
  LET port == IF text.form = "no_close" THEN 0 ELSE text.port IN
  [err     |-> IF text.form = "no_open" THEN "ADDR"
               ELSE IF text.form = "no_colon" THEN "PORT"
               ELSE IF text.addr = "bad" THEN "ADDR"
               ELSE IF BadPort(port) THEN "PORT" ELSE "NONE",
   addr    |-> text.addr,
   if_addr |-> IF text.intf \in ifs THEN text.intf ELSE "any",
   port    |-> port]

AipPtoh(family, text, ifs) ==
  IF family = "inet" THEN AipPtohInet(text, ifs) ELSE AipPtohInet6(text, ifs)

(* The lists.  An entry that cannot be parsed is passed over, or ends the    *)
(* call with -1; the inet list never minds an unknown interface.             *)
Parses(family, text, ifs) == AipPtoh(family, text, ifs).err = "NONE"

Tolerated(family) == IF family = "inet" THEN {"NONE", "IFADDR"} ELSE {"NONE"}

(* The entries of a sequence at some of its indices, in their order. *)
Nth(indices, n) ==
  CHOOSE i \in indices : Cardinality({j \in indices : j <= i}) = n

Selected(seq, indices) ==
  [n \in 1..Cardinality(indices) |-> seq[Nth(indices, n)]]

Kept(family, csv, ifs) ==
  Selected(csv, {i \in DOMAIN csv : Parses(family, csv[i], ifs)})

(* ap_pton_inet_csv() and ap_pton_inet6_csv() counting, without a list.      *)
(* Seeded error: ignore_errors is set.                                       *)
CsvCountIgnoring(family, csv, ifs) == Len(Kept(family, csv, ifs))

CsvCount(family, csv, ifs) ==
  IF \A i \in DOMAIN csv : AipPtoh(family, csv[i], ifs).err \in Tolerated(family)
  THEN Len(Kept(family, csv, ifs))
  ELSE -1

(* The same filling a list, ignoring errors: family and interface are not    *)
(* kept, and AF_UNSPEC marks the end.                                        *)
Sentinel == [addr |-> "unspec", port |-> 0]

Entry(family, text, ifs) ==
  LET p == AipPtoh(family, text, ifs) IN [addr |-> p.addr, port |-> p.port]

(* Seeded error: the first entry that cannot be parsed ends the list.        *)
CsvFillToError(family, csv, ifs) ==
  LET good == {n \in 0..Len(csv) :
                 \A i \in 1..n : Parses(family, csv[i], ifs)}
      n    == CHOOSE n \in good : \A m \in good : m <= n
  IN [i \in 1..(n + 1) |->
        IF i > n THEN Sentinel
        ELSE Entry(family, csv[i], ifs)]

CsvFill(family, csv, ifs) ==
  LET kept == Kept(family, csv, ifs) IN
  Append([i \in 1..Len(kept) |-> Entry(family, kept[i], ifs)], Sentinel)

(* aip_htop_inet() and aip_htop_inet6() print an address as it would be      *)
(* written.  An inet interface is kept and printed as its address, for which *)
(* its name stands here; an inet6 one whose name is gone is left out.        *)
(* Seeded error: no interface is ever printed.                               *)
AipHtopNoIntf(family, addr, intf, port, ifs) ==
  [addr |-> addr, intf |-> "none", port |-> port, form |-> "whole"]

AipHtop(family, addr, intf, port, ifs) ==
  [addr |-> addr,
   intf |-> IF intf = "any" \/ (family = "inet6" /\ intf \notin ifs) THEN "none"
                                                                   ELSE intf,
   port |-> port, form |-> "whole"]

(* ap_htop_inet() and ap_htop_inet6(): without interface. *)
ApHtop(family, addr, port) == AipHtop(family, addr, "any", port, {})

(* num_inet_mcaddrs() and num_inet6_mcaddrs() *)
NumMcaddrs(dests, num) ==
  Cardinality({i \in 1..num : IsMulticast(dests[i].addr)})
=============================================================================
