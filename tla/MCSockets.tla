----------------------------- MODULE MCSockets -----------------------------
(* Command lines for TLC.  Each option has arguments that are right, that   *)
(* are wrong in one way, and that are right only while an interface exists. *)
EXTENDS SocketsInvariant

OneInterface == {"eth0"}

Written(addr, intf, port) ==
  [addr |-> addr, intf |-> intf, port |-> port, form |-> "whole"]

Bracketless(form, addr, port) == [Written(addr, "none", port) EXCEPT !.form = form]

Args4in ==
  {Written("unicast", "none", 1), Written("multicast", "eth0", 65535),
   Written("multicast", IfAddr, 1), Written("bad", "none", 1), Written("unicast", "none", 0)}

Args6in ==
  {Written("linklocal", "eth0", 1), Written("mc_linklocal", "eth0", 65535),
   Written("multicast", "none", 65536), Written("bad", "none", 1),
   Bracketless("no_close", "unicast", 1)}

Args4out ==
  {<<Written("unicast", "eth0", 1)>>,
   <<Written("multicast", "none", 1), Written("unicast", "eth0", 2),
     Written("unicast", "none", 65535)>>,
   <<Written("unicast", "none", 1), Written("bad", "none", 2)>>,
   <<Written("unicast", "eth0", -1), Written("unicast", "none", 0)>>}

Args6out ==
  {<<Written("multicast", "eth0", 1)>>,
   <<Bracketless("no_close", "unicast", 1), Written("mc_linklocal", "none", 2)>>,
   <<Written("unicast", "none", 1), Bracketless("no_open", "unicast", 2)>>,
   <<Bracketless("no_colon", "unicast", 1)>>}

CommandLines ==
  [o \in OptName |->
     CASE o = "4in"      -> Args4in
       [] o = "6in"      -> Args6in
       [] o = "4out"     -> Args4out
       [] o = "6out"     -> Args6out
       [] o = "4mcttl"   -> {0, 255, 256}
       [] o = "6mchops"  -> {-1, 0, 64}
       [] o = "4mcoutif" -> {"eth0", IfAddr}
       [] o = "6mcoutif" -> {"eth0"}
       [] OTHER          -> {"given"}]

(* Command lines without what the violations do not need. *)
Only(options, cl) == [o \in OptName |-> IF o \in options THEN cl[o] ELSE {}]

SimpleLines ==
  [Only({"4in", "6in", "4out", "4mcttl", "nodaemon"}, CommandLines) EXCEPT
     !["4in"] = {Written("unicast", "none", 1)},
     !["6in"] = {Written("multicast", "eth0", 1), Written("unicast", "none", 1)}]
=============================================================================
