---------------------------- MODULE SocketsProofs ----------------------------
(* From every command line to the kernel: SocketsInv holds for all arguments *)
(* of the options and all interfaces, and the properties of Options and      *)
(* Sockets that it is the strengthening of follow from it.                   *)
EXTENDS SocketsInvariant, FiniteSetTheorems, TLAPS

-----------------------------------------------------------------------------
(* Lists. *)

(* A finite set of numbers has an n-th element, up to its size: an element's *)
(* rank is an injection into as many ranks as there are elements.            *)
LEMMA NthIsMember ==
  ASSUME NEW S \in SUBSET Nat, IsFiniteSet(S), NEW n \in 1..Cardinality(S)
  PROVE  Nth(S, n) \in S
<1> DEFINE Upto(i) == {j \in S : j <= i}
           rank    == [i \in S |-> Cardinality(Upto(i))]
           Ranks   == 1..Cardinality(S)
<1>1. \A i \in S : IsFiniteSet(Upto(i)) /\ Cardinality(Upto(i)) \in Ranks
  <2> TAKE i \in S
  <2>1. Upto(i) \in SUBSET S /\ i \in Upto(i)
    OBVIOUS
  <2>2. IsFiniteSet(Upto(i)) /\ Cardinality(Upto(i)) <= Cardinality(S)
    BY <2>1, FS_Subset
  <2>3. Cardinality(Upto(i)) \in Nat /\ Cardinality(S) \in Nat
    BY <2>2, FS_CardinalityType
  <2>4. Cardinality(Upto(i)) # 0
    BY <2>1, <2>2, FS_EmptySet
  <2> HIDE DEF Upto
  <2>5. QED
    BY <2>2, <2>3, <2>4
<1>2. \A i, k \in S : i < k => Cardinality(Upto(i)) # Cardinality(Upto(k))
  <2> TAKE i, k \in S
  <2> HAVE i < k
  <2>1. /\ \A j \in Upto(i) : j \in S /\ j <= i
        /\ \A j \in S : j <= i => j <= k
        /\ k <= k /\ ~(k <= i)
    OBVIOUS
  <2>2. Upto(i) \in SUBSET Upto(k) /\ k \in Upto(k) /\ k \notin Upto(i)
    BY <2>1, Zenon
  <2> HIDE DEF Upto
  <2>3. QED
    BY <1>1, <2>2, FS_Subset
<1>3. rank \in [S -> Ranks]
  BY <1>1
<1>4. rank \in Injection(S, Ranks)
  <2>1. \A i, k \in S : rank[i] = rank[k] => i = k
    <3> SUFFICES ASSUME NEW i \in S, NEW k \in S, i # k PROVE rank[i] # rank[k]
      OBVIOUS
    <3>1. rank[i] = Cardinality(Upto(i)) /\ rank[k] = Cardinality(Upto(k))
      OBVIOUS
    <3>2. i < k \/ k < i
      OBVIOUS
    <3> HIDE DEF Upto, rank
    <3>3. QED
      BY <1>2, <3>1, <3>2
  <2> HIDE DEF rank
  <2>2. QED
    BY <1>3, <2>1 DEF Injection, IsInjective
<1>5. IsFiniteSet(Ranks) /\ Cardinality(Ranks) = Cardinality(S)
  <2>1. Cardinality(S) \in Nat
    BY FS_CardinalityType
  <2>2. QED
    BY <2>1, FS_Interval
<1>6. rank \in Surjection(S, Ranks)
  <2> HIDE DEF rank, Ranks
  <2>1. QED
    BY <1>4, <1>5, FS_Injection
<1>7. PICK i \in S : rank[i] = n
  <2> HIDE DEF rank
  <2>1. QED
    BY <1>6 DEF Surjection
<1>8. Cardinality({j \in S : j <= i}) = n
  BY <1>7
<1>9. QED
  BY <1>8 DEF Nth

(* Selected() makes a list as long as there are indices, of entries at them. *)
LEMMA SelectedEntries ==
  ASSUME NEW T, NEW seq \in Seq(T), NEW indices \in SUBSET DOMAIN seq
  PROVE  /\ Selected(seq, indices) \in Seq(T)
         /\ Cardinality(indices) \in Nat
         /\ Len(Selected(seq, indices)) = Cardinality(indices)
         /\ \A n \in 1..Cardinality(indices) :
              \E i \in indices : Selected(seq, indices)[n] = seq[i]
<1>1. DOMAIN seq = 1..Len(seq) /\ Len(seq) \in Nat
  OBVIOUS
<1>2. IsFiniteSet(indices) /\ indices \in SUBSET Nat
  <2>1. IsFiniteSet(1..Len(seq))
    BY <1>1, FS_Interval
  <2>2. QED
    BY <1>1, <2>1, FS_Subset
<1>3. Cardinality(indices) \in Nat
  BY <1>2, FS_CardinalityType
<1>4. \A n \in 1..Cardinality(indices) : Nth(indices, n) \in indices
  BY <1>2, NthIsMember
<1>5. \A n \in 1..Cardinality(indices) : seq[Nth(indices, n)] \in T
  BY <1>1, <1>4
<1>6. QED
  BY <1>3, <1>4, <1>5 DEF Selected

Family == {"inet", "inet6"}

LEMMA PortRange == \A n \in Int : n \in Port <=> ~BadPort(n)
<1>. DEFINE UpTo(n) == 0..n
<1>1. Port = UpTo(65535)
  BY DEF Port
<1>2. \A last, n \in Int : n \in UpTo(last) <=> ~(n < 0 \/ n > last)
  OBVIOUS
<1>. HIDE DEF UpTo
<1>. QED
  BY <1>1, <1>2 DEF BadPort

LEMMA PortNumber == \A n \in Port : n \in Int
<1>. DEFINE UpTo(n) == 0..n
<1>1. Port = UpTo(65535)
  BY DEF Port
<1>2. \A last \in Int : \A n \in UpTo(last) : n \in Int
  OBVIOUS
<1>. HIDE DEF UpTo
<1>. QED
  BY <1>1, <1>2

LEMMA TtlRange == \A n \in Int : n \in Ttl <=> TtlInRange(n)
BY DEF Ttl, TtlInRange

(* What a parser accepts has an address and a port, so it is not the entry  *)
(* that ends a list.                                                        *)
LEMMA ParsedAddress ==
  ASSUME NEW fam \in Family, NEW hosts, NEW text \in Text(Form), Parses(fam, text, hosts)
  PROVE  LET p == AipPtoh(fam, text, hosts) IN
         /\ p.addr = text.addr /\ p.addr \in Addr
         /\ p.port = (IF fam = "inet6" /\ text.form = "no_close" THEN 0 ELSE text.port)
         /\ p.port \in Port
         /\ Entry(fam, text, hosts) \in DestEntry /\ Entry(fam, text, hosts) # Sentinel
<1> DEFINE p == AipPtoh(fam, text, hosts)
<1>1. text.addr \in Addr \cup {"bad"} /\ text.port \in Int
  BY DEF Text
<1>2. p.err = "NONE"
  BY DEF Parses
<1>3. /\ p.addr = text.addr /\ text.addr # "bad"
      /\ p.port = (IF fam = "inet6" /\ text.form = "no_close" THEN 0 ELSE text.port)
      /\ ~BadPort(p.port)
  <2>1. CASE fam = "inet"
    BY <1>2, <2>1 DEF AipPtoh, AipPtohInet
  <2>2. CASE fam = "inet6"
    BY <1>2, <2>2 DEF AipPtoh, AipPtohInet6
  <2>3. QED
    BY <2>1, <2>2 DEF Family
<1> HIDE DEF p
<1>4. p.port \in Int /\ p.port \in Port /\ p.addr \in Addr
  <2>1. p.port \in Int
    BY <1>1, <1>3
  <2>2. p.port \in Port
    BY <1>3, <2>1, PortRange
  <2>3. p.addr \in Addr
    BY <1>1, <1>3
  <2>4. QED
    BY <2>1, <2>2, <2>3
<1>5. Entry(fam, text, hosts) = [addr |-> p.addr, port |-> p.port]
  BY DEF Entry, p
<1>6. Entry(fam, text, hosts) \in DestEntry /\ Entry(fam, text, hosts) # Sentinel
  <2>1. [addr |-> p.addr, port |-> p.port] \in DestEntry
    BY <1>4 DEF DestEntry
  <2>2. p.addr # "unspec"
    BY <1>4 DEF Addr
  <2>3. [addr |-> p.addr, port |-> p.port] # [addr |-> "unspec", port |-> 0]
    BY <2>2
  <2>4. QED
    BY <1>5, <2>1, <2>3 DEF Sentinel
<1>7. QED
  BY <1>3, <1>4, <1>6 DEF p

(* A list of destinations is as long as what is kept of the option, and has *)
(* its end marked there and nowhere before.                                 *)
LEMMA FilledList ==
  ASSUME NEW fam \in Family, NEW hosts, NEW csv \in Seq(Text(Form))
  PROVE  LET kept  == Kept(fam, csv, hosts)
             dests == CsvFill(fam, csv, hosts) IN
         /\ kept \in Seq(Text(Form)) /\ Len(kept) \in Nat
         /\ dests \in Seq(DestEntry)
         /\ Len(dests) = Len(kept) + 1
         /\ \A i \in 1..Len(kept) :
              dests[i] = Entry(fam, kept[i], hosts) /\ Parses(fam, kept[i], hosts)
         /\ \A i \in DOMAIN dests : dests[i] = Sentinel <=> i = Len(kept) + 1
<1> DEFINE kept  == Kept(fam, csv, hosts)
           good  == {i \in DOMAIN csv : Parses(fam, csv[i], hosts)}
           list  == [i \in 1..Len(kept) |-> Entry(fam, kept[i], hosts)]
           dests == CsvFill(fam, csv, hosts)
<1>1. /\ kept \in Seq(Text(Form)) /\ Len(kept) = Cardinality(good)
      /\ \A n \in 1..Cardinality(good) : \E i \in good : kept[n] = csv[i]
  <2>1. good \in SUBSET DOMAIN csv /\ kept = Selected(csv, good)
    BY DEF Kept
  <2> HIDE DEF good, kept
  <2>2. QED
    BY <2>1, SelectedEntries
<1>2. Len(kept) \in Nat
  <2> HIDE DEF kept
  <2>1. QED
    BY <1>1
<1>3. \A n \in 1..Len(kept) : kept[n] \in Text(Form) /\ Parses(fam, kept[n], hosts)
  <2>1. \A i \in good : csv[i] \in Text(Form) /\ Parses(fam, csv[i], hosts)
    OBVIOUS
  <2> HIDE DEF good, kept
  <2>2. QED
    BY <1>1, <2>1
<1> HIDE DEF kept, good
<1>4. \A n \in 1..Len(kept) : /\ Entry(fam, kept[n], hosts) \in DestEntry
                             /\ Entry(fam, kept[n], hosts) # Sentinel
  <2> TAKE n \in 1..Len(kept)
  <2>1. QED
    BY <1>3, ParsedAddress
<1>5. Sentinel \in DestEntry
  <2>1. 0 \in Port
    BY PortRange DEF BadPort
  <2>2. QED
    BY <2>1 DEF Sentinel, DestEntry
<1>6. list \in Seq(DestEntry) /\ Len(list) = Len(kept)
  BY <1>2, <1>4
<1>7. dests = Append(list, Sentinel)
  BY DEF CsvFill, kept
<1>8. \A n \in 1..Len(kept) : list[n] = Entry(fam, kept[n], hosts)
  OBVIOUS
<1> HIDE DEF list, dests
<1>9. /\ dests \in Seq(DestEntry) /\ Len(dests) = Len(kept) + 1
      /\ DOMAIN dests = 1..(Len(kept) + 1)
      /\ dests[Len(kept) + 1] = Sentinel
      /\ \A n \in 1..Len(kept) : dests[n] = list[n]
  BY <1>2, <1>5, <1>6, <1>7
<1>10. \A i \in 1..Len(kept) : dests[i] = Entry(fam, kept[i], hosts)
  BY <1>8, <1>9
<1>11. \A i \in DOMAIN dests : dests[i] = Sentinel <=> i = Len(kept) + 1
  BY <1>2, <1>4, <1>9, <1>10
<1>12. QED
  BY <1>1, <1>2, <1>3, <1>9, <1>10, <1>11 DEF kept, dests

(* The first pass counts what the second keeps, if it has no complaint. *)
LEMMA CountedList ==
  ASSUME NEW fam \in Family, NEW hosts, NEW csv \in Seq(Text(Form))
  PROVE  LET n == CsvCount(fam, csv, hosts) IN
         /\ n \in Nat \cup {-1}
         /\ n # -1 => /\ n = Len(Kept(fam, csv, hosts))
                     /\ \A i \in DOMAIN csv :
                          AipPtoh(fam, csv[i], hosts).err \in Tolerated(fam)
BY FilledList DEF CsvCount

(* Two passes over the same list, each by the interfaces of its time: where  *)
(* the first has no complaint, the second keeps at most the inet entries     *)
(* that name an interface besides those that the first kept.                 *)
LEMMA PassesDiffer ==
  ASSUME NEW fam \in Family, NEW csv \in Seq(Text(Form)),
         NEW before, NEW after \in SUBSET Interfaces, CsvCount(fam, csv, before) # -1
  PROVE  Len(Kept(fam, csv, after)) <=
           Len(Kept(fam, csv, before)) +
             Cardinality({i \in DOMAIN csv : fam = "inet" /\ csv[i].intf \in Interfaces})
<1> DEFINE good(hosts) == {i \in DOMAIN csv : Parses(fam, csv[i], hosts)}
           named       == {i \in DOMAIN csv : fam = "inet" /\ csv[i].intf \in Interfaces}
<1>1. \A i \in DOMAIN csv : AipPtoh(fam, csv[i], before).err \in Tolerated(fam)
  BY DEF CsvCount
<1>2. good(after) \subseteq good(before) \cup named
  <2> SUFFICES ASSUME NEW i \in good(after), i \notin named PROVE i \in good(before)
    OBVIOUS
  <2>1. i \in DOMAIN csv /\ AipPtoh(fam, csv[i], after).err = "NONE"
    BY DEF Parses
  <2>2. AipPtoh(fam, csv[i], before).err \in Tolerated(fam)
    BY <1>1, <2>1
  <2>3. AipPtoh(fam, csv[i], before).err = "NONE"
    <3>1. CASE fam = "inet"
      <4>1. csv[i].intf \notin Interfaces
        BY <2>1, <3>1
      <4>2. csv[i].intf = "none" \/ csv[i].intf = IfAddr
        BY <2>1, <3>1, <4>1 DEF AipPtoh, AipPtohInet, InetIfAddr
      <4>3. AipPtoh(fam, csv[i], before).err # "IFADDR"
        BY <3>1, <4>2 DEF AipPtoh, AipPtohInet, InetIfAddr
      <4>4. QED
        BY <2>2, <4>3 DEF Tolerated
    <3>2. CASE fam = "inet6"
      BY <2>2, <3>2 DEF Tolerated
    <3>3. QED
      BY <3>1, <3>2 DEF Family
  <2>4. QED
    BY <2>1, <2>3 DEF Parses
<1>3. IsFiniteSet(DOMAIN csv)
  <2>1. DOMAIN csv = 1..Len(csv) /\ Len(csv) \in Nat
    OBVIOUS
  <2>2. QED
    BY <2>1, FS_Interval
<1>4. /\ good(before) \in SUBSET DOMAIN csv /\ good(after) \in SUBSET DOMAIN csv
      /\ named \in SUBSET DOMAIN csv
  OBVIOUS
<1>5. /\ Len(Kept(fam, csv, before)) = Cardinality(good(before))
      /\ Len(Kept(fam, csv, after)) = Cardinality(good(after))
  <2>1. /\ Kept(fam, csv, before) = Selected(csv, good(before))
        /\ Kept(fam, csv, after) = Selected(csv, good(after))
    BY DEF Kept
  <2> HIDE DEF good
  <2>2. QED
    BY <1>4, <2>1, SelectedEntries
<1> HIDE DEF good, named
<1>6. IsFiniteSet(good(before)) /\ IsFiniteSet(named) /\ IsFiniteSet(good(after))
  BY <1>3, <1>4, FS_Subset
<1>7. /\ IsFiniteSet(good(before) \cup named)
      /\ Cardinality(good(before) \cup named) =
           Cardinality(good(before)) + Cardinality(named)
             - Cardinality(good(before) \cap named)
  BY <1>6, FS_Union
<1>8. Cardinality(good(after)) <= Cardinality(good(before) \cup named)
  BY <1>2, <1>7, FS_Subset
<1>9. IsFiniteSet(good(before) \cap named)
  BY <1>6, FS_Subset
<1>10. /\ Cardinality(good(before)) \in Nat /\ Cardinality(named) \in Nat
       /\ Cardinality(good(after)) \in Nat
       /\ Cardinality(good(before) \cap named) \in Nat
  BY <1>6, <1>9, FS_CardinalityType
<1>11. Cardinality(good(after)) <= Cardinality(good(before)) + Cardinality(named)
  BY <1>7, <1>8, <1>10
<1>12. QED
  BY <1>5, <1>11 DEF named

(* The destinations that one pass may drop and the other keep are finitely   *)
(* many.                                                                     *)
LEMMA WaveringCounted ==
  ASSUME NEW t, Given(OutOpt(t)) => prog_opts[OutOpt(t)] \in Seq(Text(Form))
  PROVE  Cardinality(Wavering(t)) \in Nat
<1>1. CASE Given(OutOpt(t))
  <2> DEFINE csv == prog_opts[OutOpt(t)]
  <2>1. DOMAIN csv = 1..Len(csv) /\ Len(csv) \in Nat
    BY <1>1
  <2>2. IsFiniteSet(DOMAIN csv)
    BY <2>1, FS_Interval
  <2>3. Wavering(t) \in SUBSET DOMAIN csv
    BY <1>1 DEF Wavering
  <2>4. IsFiniteSet(Wavering(t))
    BY <2>2, <2>3, FS_Subset
  <2>5. QED
    BY <2>4, FS_CardinalityType
<1>2. CASE ~Given(OutOpt(t))
  BY <1>2, FS_EmptySet DEF Wavering
<1>3. QED
  BY <1>1, <1>2

(* The destinations that are groups, among those in a list. *)
LEMMA GroupsCounted ==
  ASSUME NEW num \in Nat, NEW dests
  PROVE  /\ NumMcaddrs(dests, num) \in 0..num
         /\ NumMcaddrs(dests, num) > 0 <=> \E i \in 1..num : IsMulticast(dests[i].addr)
<1> DEFINE groups == {i \in 1..num : IsMulticast(dests[i].addr)}
<1>1. IsFiniteSet(1..num) /\ Cardinality(1..num) = num
  BY FS_Interval
<1>2. groups \in SUBSET (1..num)
  OBVIOUS
<1>3. groups = {} <=> ~\E i \in 1..num : IsMulticast(dests[i].addr)
  OBVIOUS
<1>4. NumMcaddrs(dests, num) = Cardinality(groups)
  BY DEF NumMcaddrs
<1> HIDE DEF groups
<1>5. IsFiniteSet(groups) /\ Cardinality(groups) <= num
  BY <1>1, <1>2, FS_Subset
<1>6. Cardinality(groups) \in Nat /\ (Cardinality(groups) = 0 <=> groups = {})
  BY <1>5, FS_CardinalityType, FS_EmptySet
<1>7. QED
  BY <1>3, <1>4, <1>5, <1>6

-----------------------------------------------------------------------------
(* The arguments of the options, as the code that reads them finds them. *)

LEMMA FamilyType == \A s \in Stream : FamilyOf(s) \in Family
BY DEF FamilyOf, Family

LEMMA ArgumentTypes ==
  ASSUME OptionsTypeOK
  PROVE  /\ \A r \in RxStream : Given(InOpt(r)) => prog_opts[InOpt(r)] \in Text(Form)
         /\ Given("4in") => prog_opts["4in"].form = "whole"
         /\ \A t \in TxStream : Given(OutOpt(t)) => prog_opts[OutOpt(t)] \in Seq(Text(Form))
         /\ Given("4out") => \A i \in DOMAIN prog_opts["4out"] :
                              prog_opts["4out"][i].form = "whole"
         /\ \A t \in TxStream : Given(TtlOpt(t)) => prog_opts[TtlOpt(t)] \in Int
         /\ \A t \in TxStream :
              Given(OutIfOpt(t)) => prog_opts[OutIfOpt(t)] \in Interfaces \cup {IfAddr}
<1>1. \A o \in OptName : Given(o) => prog_opts[o] \in Arguments[o]
  <2>1. \A o \in DOMAIN prog_opts : prog_opts[o] \in Arguments[o]
    BY DEF OptionsTypeOK
  <2>2. QED
    BY <2>1 DEF Given
<1>2. Text({"whole"}) \subseteq Text(Form)
  BY DEF Text, Form
<1>3. Seq(Text({"whole"})) \subseteq Seq(Text(Form))
  <2>1. \A csv \in Seq(Text({"whole"})) : \A i \in 1..Len(csv) : csv[i] \in Text(Form)
    BY <1>2
  <2> SUFFICES ASSUME NEW csv \in Seq(Text({"whole"})) PROVE csv \in Seq(Text(Form))
    OBVIOUS
  <2>2. csv = [i \in 1..Len(csv) |-> csv[i]] /\ Len(csv) \in Nat
    OBVIOUS
  <2>3. QED
    BY <2>1, <2>2
<1>4. \A x \in Text({"whole"}) : x.form = "whole"
  BY DEF Text
<1>5. \A csv \in Seq(Text({"whole"})) : \A i \in DOMAIN csv : csv[i].form = "whole"
  BY <1>4
<1>6. QED
  BY <1>1, <1>2, <1>3, <1>4, <1>5, ArgumentTypesAssumption
  DEF InOpt, OutOpt, TtlOpt, OutIfOpt, OptName, Switches, RxStream, TxStream

(* The source's interface is the one that was written, or any: an inet one   *)
(* never is another.                                                         *)
LEMMA ParsedInterface ==
  ASSUME NEW fam \in Family, NEW hosts \in SUBSET Interfaces, NEW text \in Text(Form),
         Parses(fam, text, hosts)
  PROVE  LET p == AipPtoh(fam, text, hosts) IN
         /\ p.if_addr \in Interface
         /\ p.if_addr \in {"any", text.intf}
         /\ (fam = "inet" /\ text.intf # "none") =>
              p.if_addr = text.intf /\ InetIfAddr(text.intf, hosts)
<1> DEFINE p == AipPtoh(fam, text, hosts)
<1>1. text.intf \in Interfaces \cup {"none", IfAddr}
  BY DEF Text
<1>2. p.err = "NONE"
  BY DEF Parses
<1>3. CASE fam = "inet"
  <2>1. /\ p.if_addr = (IF text.intf = "none" THEN "any" ELSE text.intf)
        /\ text.intf # "none" => InetIfAddr(text.intf, hosts)
    BY <1>2, <1>3 DEF AipPtoh, AipPtohInet
  <2>2. QED
    BY <1>1, <2>1 DEF Interface
<1>4. CASE fam = "inet6"
  <2>1. p.if_addr = IF text.intf \in hosts THEN text.intf ELSE "any"
    BY <1>4 DEF AipPtoh, AipPtohInet6
  <2>2. QED
    BY <1>1, <1>4, <2>1 DEF Interface
<1>5. QED
  BY <1>3, <1>4 DEF Family

(* The options given decide the mode, and with it the families to serve. *)
LEMMA ChosenMode ==
  ASSUME NEW given, ValidateProgOpts(given) \in Mode
  PROVE  LET v == ValidateProgOpts(given) IN
         /\ "help" \notin given /\ "license" \notin given /\ "unknown" \notin given
         /\ \A r \in RxStream : r = Rx(v) <=> InOpt(r) \in given
         /\ \A t \in TxStream : t \in Tx(v) <=> OutOpt(t) \in given
<1> DEFINE v   == ValidateProgOpts(given)
           in  == given \cap {"4in", "6in"}
           out == given \cap {"4out", "6out"}
<1>1. /\ "help" \notin given /\ "license" \notin given /\ "unknown" \notin given
      /\ in # {} /\ in # {"4in", "6in"} /\ out # {}
      /\ v = RelayMode(CHOOSE i \in in : TRUE, out)
  BY DEF ValidateProgOpts, Mode
<1>2. PICK i \in {"4in", "6in"} : in = {i}
  BY <1>1
<1>3. v = RelayMode(i, out)
  BY <1>1, <1>2
<1>4. "4in" \in given <=> i = "4in"
  BY <1>2
<1>5. "6in" \in given <=> i = "6in"
  BY <1>2
<1>6. \/ out = {"4out"} /\ "4out" \in given /\ "6out" \notin given
      \/ out = {"6out"} /\ "4out" \notin given /\ "6out" \in given
      \/ out = {"4out", "6out"} /\ "4out" \in given /\ "6out" \in given
  BY <1>1
<1>7. {"4out"} # {"6out"} /\ {"4out"} # {"4out", "6out"} /\ {"6out"} # {"4out", "6out"}
  OBVIOUS
<1> HIDE DEF v, in, out
<1>8. /\ Rx(v) = IF i = "4in" THEN "inet_in" ELSE "inet6_in"
      /\ "inet_out" \in Tx(v) <=> "4out" \in given
      /\ "inet6_out" \in Tx(v) <=> "6out" \in given
  BY <1>3, <1>6, <1>7, i \in {"4in", "6in"} DEF RelayMode, Rx, Tx, TxStream
<1>9. QED
  BY <1>1, <1>4, <1>5, <1>8 DEF v, InOpt, OutOpt, RxStream, TxStream

-----------------------------------------------------------------------------
(* What a step is. *)

Stays == UNCHANGED vars

LEMMA StepCases ==
  ASSUME [Next]_vars
  PROVE  \/ /\ at # "done" /\ UNCHANGED sock
            /\ opening' = IF at' = "done" /\ rc_mode' \in Mode THEN Rx(rc_mode') ELSE opening
            /\ \/ \E o \in OptName : \E arg \in Arguments[o] : GetOpt(o, arg)
               \/ Validate
               \/ ParseSource
               \/ \E memory \in BOOLEAN : CountDests(memory)
               \/ FillDests
               \/ SetTtl
               \/ SetOutIf
               \/ \E i \in Interfaces : IfChange(i)
         \/ IfChanges
         \/ Open
         \/ OpenFails
         \/ Stays
BY DEF Next, Parse, OptionsNext, Settled, Stays

LEMMA ParmsReplaced ==
  ASSUME OptionsTypeOK, NEW t \in TxStream,
         NEW new \in TxParms, new.mc_dests_num <= new.dests_num,
         tx_parms' = [tx_parms EXCEPT ![t] = new]
  PROVE  /\ tx_parms' \in [TxStream -> TxParms]
         /\ \A u \in TxStream : tx_parms'[u].mc_dests_num <= tx_parms'[u].dests_num
<1>1. /\ tx_parms \in [TxStream -> TxParms]
      /\ \A u \in TxStream : tx_parms[u].mc_dests_num <= tx_parms[u].dests_num
  BY DEF OptionsTypeOK
<1>2. \A u \in TxStream : tx_parms'[u] = IF u = t THEN new ELSE tx_parms[u]
  BY <1>1
<1>3. QED
  BY <1>1, <1>2

(* Every step keeps the types: what is stored of a value was parsed. *)
LEMMA TypeStep == OptionsTypeOK /\ Places /\ ModeFits /\ [Next]_vars => OptionsTypeOK'
<1> SUFFICES ASSUME OptionsTypeOK, Places, ModeFits, [Next]_vars PROVE OptionsTypeOK'
  OBVIOUS
<1> USE DEF parms, ifaces
<1>1. ASSUME NEW o \in OptName, NEW arg \in Arguments[o], GetOpt(o, arg)
      PROVE  OptionsTypeOK'
  <2>1. /\ DOMAIN prog_opts' = DOMAIN prog_opts \cup {o}
        /\ \A p \in DOMAIN prog_opts' : prog_opts'[p] = IF p = o THEN arg ELSE prog_opts[p]
    BY <1>1 DEF GetOpt
  <2>2. nargs' \in 0..MaxArgs
    BY <1>1, OptionBoundsAssumption DEF GetOpt, OptionsTypeOK
  <2>3. QED
    BY <1>1, <2>1, <2>2 DEF GetOpt, OptionsTypeOK
<1>2. CASE Validate
  <2>1. family' \in Stream
    BY <1>2 DEF Validate, OptionsTypeOK, Rx, Stream, RxStream
  <2>2. QED
    BY <1>2, <2>1 DEF Validate, OptionsTypeOK
<1>3. CASE ParseSource
  <2> DEFINE text == prog_opts[InOpt(family)]
             p    == AipPtoh(FamilyOf(family), text, ifs)
  <2>1. family \in RxStream /\ Given(InOpt(family))
    BY <1>3 DEF ParseSource, Places, ModeFits, Rx, RxStream
  <2>2. text \in Text(Form) /\ FamilyOf(family) \in Family
    BY <2>1, ArgumentTypes, FamilyType DEF Stream
  <2>3. ifs \in SUBSET Interfaces
    BY DEF OptionsTypeOK
  <2>4. ASSUME p.err = "NONE"
        PROVE  [rx_addr |-> p.addr, port |-> p.port, in_intf |-> p.if_addr] \in RxParms
    <3>1. Parses(FamilyOf(family), text, ifs)
      BY <2>4 DEF Parses
    <3>2. p.addr \in Addr /\ p.port \in Port /\ p.if_addr \in Interface
      BY <2>2, <2>3, <3>1, ParsedAddress, ParsedInterface
    <3> HIDE DEF p
    <3>3. QED
      BY <3>2 DEF RxParms
  <2>5. rx_parms' \in [RxStream -> RxParms]
    BY <1>3, <2>1, <2>4 DEF ParseSource, OptionsTypeOK
  <2>6. /\ at' \in {"count", "done"} /\ family' \in Stream
        /\ rc_mode' \in Mode \cup {"UNKNOWN", "HELP", "LICENSE", "ERROR"}
    BY <1>3 DEF ParseSource, Proceed, Reject, NextFamily, OptionsTypeOK, Stream, TxStream
  <2>7. QED
    BY <1>3, <2>5, <2>6 DEF ParseSource, OptionsTypeOK
<1>4. ASSUME NEW memory \in BOOLEAN, CountDests(memory) PROVE OptionsTypeOK'
  <2> DEFINE n == CsvCount(FamilyOf(family), prog_opts[OutOpt(family)], ifs)
  <2>1. family \in TxStream /\ Given(OutOpt(family))
    BY <1>4 DEF CountDests, Places, ModeFits, TxSteps, Tx
  <2>2. n \in Nat \cup {-1}
    BY <2>1, ArgumentTypes, FamilyType, CountedList DEF Stream
  <2> HIDE DEF n
  <2>3. \/ UNCHANGED room
        \/ n # -1 /\ room' = [room EXCEPT ![family] = RoomFor(n)]
    BY <1>4 DEF CountDests, n
  <2>4. room' \in [TxStream -> Nat]
    BY <2>1, <2>2, <2>3 DEF RoomFor, OptionsTypeOK
  <2>5. /\ at' \in {"fill", "done"} /\ family' = family /\ rc_mode' \in {rc_mode, "ERROR"}
    BY <1>4 DEF CountDests, Reject
  <2>6. UNCHANGED <<prog_opts, nargs, become_daemon, rx_parms, tx_parms, ifs, changes>>
    BY <1>4 DEF CountDests
  <2>7. QED
    BY <2>4, <2>5, <2>6 DEF OptionsTypeOK
<1>5. CASE FillDests
  <2> DEFINE dests == CsvFill(FamilyOf(family), prog_opts[OutOpt(family)], ifs)
             num   == Len(dests) - 1
  <2>1. family \in TxStream /\ Given(OutOpt(family))
    BY <1>5 DEF FillDests, Places, ModeFits, TxSteps, Tx
  <2>2. dests \in Seq(DestEntry) /\ num \in Nat
    BY <2>1, ArgumentTypes, FamilyType, FilledList DEF Stream
  <2> HIDE DEF dests
  <2>3. NumMcaddrs(dests, num) \in 0..num
    BY <2>2, GroupsCounted
  <2>4. tx_parms' = [tx_parms EXCEPT ![family].dests = dests,
                                     ![family].dests_num = num,
                                     ![family].mc_dests_num = NumMcaddrs(dests, num)]
    BY <1>5 DEF FillDests, dests
  <2> HIDE DEF num
  <2> DEFINE old == tx_parms[family]
             new == [old EXCEPT !.dests = dests, !.dests_num = num,
                                !.mc_dests_num = NumMcaddrs(dests, num)]
  <2>5. tx_parms \in [TxStream -> TxParms] /\ old \in TxParms
    BY <2>1 DEF OptionsTypeOK
  <2>6. /\ new \in TxParms /\ new.mc_dests_num <= new.dests_num
        /\ tx_parms' = [tx_parms EXCEPT ![family] = new]
    <3>1. NumMcaddrs(dests, num) \in Nat /\ NumMcaddrs(dests, num) <= num
      BY <2>2, <2>3
    <3>2. new \in TxParms
      BY <2>2, <2>5, <3>1 DEF TxParms
    <3>3. new.mc_dests_num = NumMcaddrs(dests, num) /\ new.dests_num = num
      BY <2>5 DEF TxParms
    <3>4. tx_parms' = [tx_parms EXCEPT ![family] = new]
      BY <2>1, <2>4, <2>5
    <3>5. QED
      BY <3>1, <3>2, <3>3, <3>4
  <2>7. /\ at' = "ttl"
        /\ UNCHANGED <<prog_opts, nargs, family, rc_mode, become_daemon, rx_parms, room,
                       ifs, changes>>
    BY <1>5 DEF FillDests
  <2> HIDE DEF new
  <2>8. QED
    BY <2>1, <2>6, <2>7, ParmsReplaced DEF OptionsTypeOK
<1>6. CASE SetTtl
  <2>1. family \in TxStream
    BY <1>6 DEF SetTtl, Places, TxSteps, Tx
  <2> DEFINE ttl  == IF Given(TtlOpt(family)) THEN prog_opts[TtlOpt(family)]
                                              ELSE tx_parms[family].mc_ttl
             loop == IF Given(LoopOpt(family)) THEN 1 ELSE tx_parms[family].mc_loop
  <2>2. \/ UNCHANGED tx_parms
        \/ /\ Given(TtlOpt(family)) => TtlInRange(prog_opts[TtlOpt(family)])
           /\ tx_parms' = [tx_parms EXCEPT ![family].mc_ttl = ttl, ![family].mc_loop = loop]
    BY <1>6 DEF SetTtl
  <2>3. tx_parms[family] \in TxParms
    BY <2>1 DEF OptionsTypeOK
  <2>4. Given(TtlOpt(family)) => prog_opts[TtlOpt(family)] \in Int
    BY <2>1, ArgumentTypes
  <2>5. (Given(TtlOpt(family)) => TtlInRange(prog_opts[TtlOpt(family)])) => ttl \in Ttl
    BY <2>3, <2>4, TtlRange DEF TxParms
  <2>6. loop \in {0, 1}
    BY <2>3 DEF TxParms
  <2> HIDE DEF ttl, loop
  <2> DEFINE old == tx_parms[family]
             new == [old EXCEPT !.mc_ttl = ttl, !.mc_loop = loop]
  <2>7. tx_parms \in [TxStream -> TxParms] /\ old.mc_dests_num <= old.dests_num
    BY <2>1 DEF OptionsTypeOK
  <2>8. \/ UNCHANGED tx_parms
        \/ /\ new \in TxParms /\ new.mc_dests_num <= new.dests_num
           /\ tx_parms' = [tx_parms EXCEPT ![family] = new]
    <3>1. ASSUME ttl \in Ttl PROVE new \in TxParms
      BY <2>3, <2>6, <3>1 DEF TxParms
    <3>2. new.mc_dests_num = old.mc_dests_num /\ new.dests_num = old.dests_num
      BY <2>3 DEF TxParms
    <3>3. \/ UNCHANGED tx_parms
          \/ ttl \in Ttl /\ tx_parms' = [tx_parms EXCEPT ![family] = new]
      BY <2>1, <2>2, <2>5, <2>7
    <3> HIDE DEF old, new
    <3>4. QED
      BY <2>7, <3>1, <3>2, <3>3
  <2>9. /\ at' \in {"outif", "done"} /\ family' = family /\ rc_mode' \in {rc_mode, "ERROR"}
        /\ UNCHANGED <<prog_opts, nargs, become_daemon, rx_parms, room, ifs, changes>>
    BY <1>6 DEF SetTtl, Reject
  <2> HIDE DEF new
  <2>10. CASE UNCHANGED tx_parms
    BY <2>9, <2>10 DEF OptionsTypeOK
  <2>11. CASE ~UNCHANGED tx_parms
    BY <2>1, <2>8, <2>9, <2>11, ParmsReplaced DEF OptionsTypeOK
  <2>12. QED
    BY <2>10, <2>11
<1>7. CASE SetOutIf
  <2>1. family \in TxStream
    BY <1>7 DEF SetOutIf, Places, TxSteps, Tx
  <2> DEFINE intf == prog_opts[OutIfOpt(family)]
  <2>2. Given(OutIfOpt(family)) => intf \in Interface
    BY <2>1, ArgumentTypes DEF Interface
  <2>3. \/ UNCHANGED tx_parms
        \/ /\ Given(OutIfOpt(family))
           /\ tx_parms' = [tx_parms EXCEPT ![family].out_intf = intf]
    BY <1>7 DEF SetOutIf
  <2> HIDE DEF intf
  <2> DEFINE new == [tx_parms[family] EXCEPT !.out_intf = intf]
  <2>4. /\ tx_parms \in [TxStream -> TxParms] /\ tx_parms[family] \in TxParms
        /\ tx_parms[family].mc_dests_num <= tx_parms[family].dests_num
    BY <2>1 DEF OptionsTypeOK
  <2>5. \/ UNCHANGED tx_parms
        \/ /\ new \in TxParms /\ new.mc_dests_num <= new.dests_num
           /\ tx_parms' = [tx_parms EXCEPT ![family] = new]
    <3>1. ASSUME intf \in Interface PROVE new \in TxParms
      BY <2>4, <3>1 DEF TxParms
    <3>2. /\ new.mc_dests_num = tx_parms[family].mc_dests_num
          /\ new.dests_num = tx_parms[family].dests_num
      BY <2>4 DEF TxParms
    <3>3. \/ UNCHANGED tx_parms
          \/ intf \in Interface /\ tx_parms' = [tx_parms EXCEPT ![family] = new]
      BY <2>1, <2>2, <2>3, <2>4
    <3> HIDE DEF new
    <3>4. QED
      BY <2>4, <3>1, <3>2, <3>3
  <2>6. /\ at' \in {"count", "done"} /\ family' \in Stream
        /\ rc_mode' \in Mode \cup {"UNKNOWN", "HELP", "LICENSE", "ERROR"}
        /\ UNCHANGED <<prog_opts, nargs, become_daemon, rx_parms, room, ifs, changes>>
    BY <1>7 DEF SetOutIf, Proceed, Reject, NextFamily, OptionsTypeOK, Stream, TxStream
  <2> HIDE DEF new
  <2>7. CASE UNCHANGED tx_parms
    BY <2>6, <2>7 DEF OptionsTypeOK
  <2>8. CASE ~UNCHANGED tx_parms
    BY <2>1, <2>5, <2>6, <2>8, ParmsReplaced DEF OptionsTypeOK
  <2>9. QED
    BY <2>7, <2>8
<1>8. ASSUME NEW i \in Interfaces, IfChange(i) PROVE OptionsTypeOK'
  <2>1. changes' \in 0..MaxIfChanges /\ ifs' \subseteq Interfaces
    BY <1>8, OptionBoundsAssumption DEF IfChange, OptionsTypeOK
  <2>2. QED
    BY <1>8, <2>1 DEF IfChange, OptionsTypeOK
<1>9. UNCHANGED optvars => OptionsTypeOK'
  BY DEF OptionsTypeOK, optvars
<1>10. QED
  BY <1>1, <1>2, <1>3, <1>4, <1>5, <1>6, <1>7, <1>8, <1>9, StepCases
  DEF IfChanges, Open, OpenFails, Stays, vars

(* The code's place goes with the mode, and the mode with the options.       *)
LEMMA PlacesStep ==
  OptionsTypeOK /\ Places /\ ModeFits /\ [Next]_vars => Places' /\ ModeFits'
<1> SUFFICES ASSUME OptionsTypeOK, Places, ModeFits, [Next]_vars PROVE Places' /\ ModeFits'
  OBVIOUS
<1> USE DEF parms, ifaces, TxSteps
<1>1. ASSUME NEW o \in OptName, NEW arg \in Arguments[o], GetOpt(o, arg)
      PROVE  Places' /\ ModeFits'
  BY <1>1 DEF GetOpt, Places, ModeFits, Mode
<1>2. CASE Validate
  <2> DEFINE v == ValidateProgOpts(DOMAIN prog_opts)
  <2>1. /\ rc_mode' = IF v \in Mode \cup {"HELP", "LICENSE"} THEN v ELSE "ERROR"
        /\ at' = IF v \in Mode THEN "source" ELSE "done"
        /\ v \in Mode => family' = Rx(v)
        /\ UNCHANGED prog_opts
    BY <1>2 DEF Validate
  <2>2. v \in Mode =>
          /\ "help" \notin DOMAIN prog_opts /\ "license" \notin DOMAIN prog_opts
          /\ "unknown" \notin DOMAIN prog_opts
          /\ \A r \in RxStream : r = Rx(v) <=> InOpt(r) \in DOMAIN prog_opts
          /\ \A t \in TxStream : t \in Tx(v) <=> OutOpt(t) \in DOMAIN prog_opts
    BY ChosenMode
  <2> HIDE DEF v
  <2>3. rc_mode' \in Mode => v = rc_mode' /\ v \in Mode
    BY <2>1 DEF Mode
  <2>4. Places'
    BY <2>1, <2>3 DEF Places, Mode
  <2>5. ModeFits'
    BY <2>1, <2>2, <2>3 DEF ModeFits, Given
  <2>6. QED
    BY <2>4, <2>5
<1>3. CASE ParseSource
  <2>1. rc_mode \in Mode /\ family \in RxStream
    BY <1>3 DEF ParseSource, Places, Rx, RxStream
  <2>2. /\ UNCHANGED prog_opts
        /\ \/ /\ rc_mode' = rc_mode
              /\ family' = NextFamily(family)
              /\ at' = IF NextFamily(family) = family THEN "done" ELSE "count"
           \/ rc_mode' = "ERROR" /\ at' = "done"
    BY <1>3 DEF ParseSource, Proceed, Reject
  <2>3. NextFamily(family) = family \/ NextFamily(family) \in Tx(rc_mode)
    BY <2>1 DEF NextFamily, ModeFits, OutOpt, TxStream
  <2>4. Places'
    BY <2>1, <2>2, <2>3 DEF Places, Mode
  <2>5. ModeFits'
    BY <2>1, <2>2 DEF ModeFits, Given, Mode
  <2>6. QED
    BY <2>4, <2>5
<1>4. ASSUME NEW memory \in BOOLEAN, CountDests(memory) PROVE Places' /\ ModeFits'
  BY <1>4 DEF CountDests, Reject, Places, ModeFits, Given, Mode
<1>5. CASE FillDests
  BY <1>5 DEF FillDests, Places, ModeFits, Given
<1>6. CASE SetTtl
  BY <1>6 DEF SetTtl, Reject, Places, ModeFits, Given, Mode
<1>7. CASE SetOutIf
  <2>1. rc_mode \in Mode /\ family \in Tx(rc_mode) /\ family \in TxStream
    BY <1>7 DEF SetOutIf, Places, Tx
  <2>2. /\ UNCHANGED prog_opts
        /\ \/ /\ rc_mode' = rc_mode
              /\ family' = NextFamily(family)
              /\ at' = IF NextFamily(family) = family THEN "done" ELSE "count"
           \/ rc_mode' = "ERROR" /\ at' = "done"
    BY <1>7 DEF SetOutIf, Proceed, Reject
  <2>3. NextFamily(family) = family \/ NextFamily(family) \in Tx(rc_mode)
    BY <2>1 DEF NextFamily, ModeFits, OutOpt, TxStream, RxStream
  <2>4. Places'
    BY <2>1, <2>2, <2>3 DEF Places, Mode
  <2>5. ModeFits'
    BY <2>1, <2>2 DEF ModeFits, Given, Mode
  <2>6. QED
    BY <2>4, <2>5
<1>8. ASSUME NEW i \in Interfaces, IfChange(i) PROVE Places' /\ ModeFits'
  BY <1>8 DEF IfChange, Places, ModeFits, Given
<1>9. UNCHANGED optvars => Places' /\ ModeFits'
  BY DEF Places, ModeFits, Given, optvars
<1>10. QED
  BY <1>1, <1>2, <1>3, <1>4, <1>5, <1>6, <1>7, <1>8, <1>9, StepCases
  DEF IfChanges, Open, OpenFails, Stays, vars

(* What the interfaces were like when a value was read stays what they may   *)
(* have been.                                                                *)
LEMMA SeenKept ==
  ASSUME OptionsTypeOK,
         UNCHANGED ifaces \/ \E i \in Interfaces : IfChange(i)
  PROVE  \A hosts \in SUBSET Interfaces : Seen(hosts) => Seen(hosts)'
<1>1. CASE UNCHANGED ifaces
  BY <1>1 DEF ifaces, Seen
<1>2. CASE \E i \in Interfaces : IfChange(i)
  <2>1. changes \in Nat /\ changes' = changes + 1
    BY <1>2 DEF IfChange, OptionsTypeOK
  <2>2. changes' # 0
    BY <2>1
  <2>3. QED
    BY <2>2 DEF Seen
<1>3. QED
  BY <1>1, <1>2

(* The steps after the source was parsed leave it alone. *)
LEMMA SourceStep ==
  OptionsTypeOK /\ Places /\ ModeFits /\ SourceRead /\ [Next]_vars => SourceRead'
<1> SUFFICES ASSUME OptionsTypeOK, Places, ModeFits, SourceRead, [Next]_vars
             PROVE  SourceRead'
  OBVIOUS
<1> USE DEF parms, ifaces
<1> DEFINE Leaves ==
             /\ UNCHANGED <<prog_opts, rx_parms>>
             /\ rc_mode' \in Mode => rc_mode' = rc_mode /\ at # "source"
             /\ UNCHANGED ifaces \/ \E i \in Interfaces : IfChange(i)
<1>1. ASSUME Leaves PROVE SourceRead'
  <2>1. \A hosts \in SUBSET Interfaces : Seen(hosts) => Seen(hosts)'
    BY <1>1, SeenKept
  <2> SUFFICES ASSUME rc_mode' \in Mode, at' # "source"
               PROVE \E hosts \in SUBSET Interfaces :
                 LET r == Rx(rc_mode')
                     p == AipPtoh(FamilyOf(r), prog_opts'[InOpt(r)], hosts) IN
                 /\ Seen(hosts)'
                 /\ p.err = "NONE" /\ p.port # 0
                 /\ rx_parms'[r] = [rx_addr |-> p.addr, port |-> p.port,
                                    in_intf |-> p.if_addr]
    BY DEF SourceRead
  <2>2. PICK hosts \in SUBSET Interfaces :
          LET r == Rx(rc_mode)
              p == AipPtoh(FamilyOf(r), prog_opts[InOpt(r)], hosts) IN
          /\ Seen(hosts)
          /\ p.err = "NONE" /\ p.port # 0
          /\ rx_parms[r] = [rx_addr |-> p.addr, port |-> p.port, in_intf |-> p.if_addr]
    BY <1>1 DEF SourceRead
  <2>3. Seen(hosts)'
    BY <2>1, <2>2
  <2>4. QED
    BY <1>1, <2>2, <2>3
<1>2. ASSUME NEW o \in OptName, NEW arg \in Arguments[o], GetOpt(o, arg)
      PROVE  SourceRead'
  BY <1>2 DEF GetOpt, Places, SourceRead, Mode
<1>3. CASE Validate
  <2>1. at' = "source" \/ rc_mode' \notin Mode
    BY <1>3 DEF Validate, Mode
  <2>2. QED
    BY <2>1 DEF SourceRead
<1>4. CASE ParseSource
  <2> DEFINE r == family
             p == AipPtoh(FamilyOf(r), prog_opts[InOpt(r)], ifs)
  <2>1. r \in RxStream /\ r = Rx(rc_mode) /\ rc_mode \in Mode
    BY <1>4 DEF ParseSource, Places, Rx, RxStream
  <2>2. rc_mode' \in Mode =>
          /\ p.err = "NONE" /\ p.port # 0 /\ rc_mode' = rc_mode
          /\ rx_parms' = [rx_parms EXCEPT ![r] = [rx_addr |-> p.addr, port |-> p.port,
                                                  in_intf |-> p.if_addr]]
    BY <1>4 DEF ParseSource, Proceed, Reject, Mode
  <2>3. rx_parms \in [RxStream -> RxParms] /\ ifs \in SUBSET Interfaces
    BY DEF OptionsTypeOK
  <2>4. Seen(ifs)' /\ UNCHANGED <<ifs, prog_opts>>
    BY <1>4, <2>3 DEF ParseSource, Seen
  <2>5. ASSUME rc_mode' \in Mode
        PROVE  /\ rc_mode' = rc_mode /\ p.err = "NONE" /\ p.port # 0
               /\ rx_parms'[r] = [rx_addr |-> p.addr, port |-> p.port,
                                  in_intf |-> p.if_addr]
    BY <2>1, <2>2, <2>3, <2>5
  <2>6. QED
    BY <2>1, <2>3, <2>4, <2>5 DEF SourceRead
<1>5. ASSUME NEW memory \in BOOLEAN, CountDests(memory) PROVE Leaves
  BY <1>5 DEF CountDests, Reject, Mode
<1>6. CASE FillDests
  BY <1>1, <1>6 DEF FillDests
<1>7. CASE SetTtl
  <2>1. Leaves
    BY <1>7 DEF SetTtl, Reject, Mode
  <2>2. QED
    BY <1>1, <2>1
<1>8. CASE SetOutIf
  <2>1. Leaves
    BY <1>8 DEF SetOutIf, Proceed, Reject, Mode
  <2>2. QED
    BY <1>1, <2>1
<1>9. ASSUME NEW i \in Interfaces, IfChange(i) PROVE SourceRead'
  <2>1. CASE at = "source"
    BY <1>9, <2>1 DEF IfChange, SourceRead
  <2>2. CASE at # "source"
    BY <1>1, <1>9, <2>2 DEF IfChange
  <2>3. QED
    BY <2>1, <2>2
<1>10. ASSUME UNCHANGED optvars PROVE SourceRead'
  BY <1>10 DEF SourceRead, Seen, optvars
<1>11. QED
  BY <1>1, <1>2, <1>3, <1>4, <1>5, <1>6, <1>7, <1>8, <1>9, <1>10, StepCases
  DEF IfChanges, Open, OpenFails, Stays, vars

-----------------------------------------------------------------------------
(* The outgoing families. What is known of a family stays known as long as   *)
(* its own values are not at hand.                                           *)

SeenOn == \A hosts \in SUBSET Interfaces : Seen(hosts) => Seen(hosts)'

LEMMA RoomKept ==
  ASSUME NEW t, RoomMade(t), Counted(t)' <=> Counted(t), room'[t] = room[t], SeenOn,
         Counted(t) => UNCHANGED prog_opts
  PROVE  RoomMade(t)'
<1>1. CASE Counted(t)
  <2>1. PICK hosts \in SUBSET Interfaces :
          LET n == CsvCount(FamilyOf(t), prog_opts[OutOpt(t)], hosts) IN
          Seen(hosts) /\ n # -1 /\ room[t] = RoomFor(n)
    BY <1>1 DEF RoomMade
  <2>2. Seen(hosts)' /\ UNCHANGED prog_opts
    BY <1>1, <2>1 DEF SeenOn
  <2>3. QED
    BY <1>1, <2>1, <2>2 DEF RoomMade
<1>2. CASE ~Counted(t)
  BY <1>2 DEF RoomMade
<1>3. QED
  BY <1>1, <1>2

LEMMA ListKept ==
  ASSUME NEW t, ListFilled(t), Filled(t)' <=> Filled(t), SeenOn,
         tx_parms'[t].dests = tx_parms[t].dests,
         tx_parms'[t].dests_num = tx_parms[t].dests_num,
         tx_parms'[t].mc_dests_num = tx_parms[t].mc_dests_num,
         Filled(t) => UNCHANGED prog_opts
  PROVE  ListFilled(t)'
<1>1. CASE Filled(t)
  <2>1. PICK hosts \in SUBSET Interfaces :
          Seen(hosts) /\ tx_parms[t].dests = CsvFill(FamilyOf(t), prog_opts[OutOpt(t)], hosts)
    BY <1>1 DEF ListFilled
  <2>2. Seen(hosts)' /\ UNCHANGED prog_opts
    BY <1>1, <2>1 DEF SeenOn
  <2>3. QED
    BY <1>1, <2>1, <2>2 DEF ListFilled
<1>2. CASE ~Filled(t)
  BY <1>2 DEF ListFilled
<1>3. QED
  BY <1>1, <1>2

LEMMA TuningKept ==
  ASSUME NEW t, TuningRead(t), Tuned(t)' <=> Tuned(t),
         tx_parms'[t].mc_ttl = tx_parms[t].mc_ttl,
         tx_parms'[t].mc_loop = tx_parms[t].mc_loop,
         Tuned(t) => UNCHANGED prog_opts
  PROVE  TuningRead(t)'
<1>1. CASE Tuned(t)
  BY <1>1 DEF TuningRead, Asked, Given
<1>2. CASE ~Tuned(t)
  BY <1>2 DEF TuningRead
<1>3. QED
  BY <1>1, <1>2

LEMMA OutIfKept ==
  ASSUME NEW t, OutIfRead(t), Past(t)' <=> Past(t), SeenOn,
         tx_parms'[t].out_intf = tx_parms[t].out_intf,
         Past(t) => UNCHANGED prog_opts
  PROVE  OutIfRead(t)'
<1>1. CASE Past(t)
  <2>1. CASE Given(OutIfOpt(t))
    <3>1. PICK hosts \in SUBSET Interfaces :
            Seen(hosts) /\ OutIfFound(t, tx_parms[t].out_intf, hosts)
      BY <1>1, <2>1 DEF OutIfRead
    <3>2. Seen(hosts)' /\ UNCHANGED prog_opts
      BY <1>1, <3>1 DEF SeenOn
    <3>3. QED
      BY <1>1, <2>1, <3>1, <3>2 DEF OutIfRead, Asked, Given
  <2>2. CASE ~Given(OutIfOpt(t))
    BY <1>1, <2>2 DEF OutIfRead, Asked, Given
  <2>3. QED
    BY <2>1, <2>2
<1>2. CASE ~Past(t)
  BY <1>2 DEF OutIfRead
<1>3. QED
  BY <1>1, <1>2

(* How each step moves on: past the count, the fill, the tuning and the      *)
(* interface of the family at hand, and of no other.                         *)
Moves(t, counted, filled, tuned, past) ==
  /\ Counted(t)' <=> Counted(t) \/ (counted /\ t = family)
  /\ Filled(t)' <=> Filled(t) \/ (filled /\ t = family)
  /\ Tuned(t)' <=> Tuned(t) \/ (tuned /\ t = family)
  /\ Past(t)' <=> Past(t) \/ (past /\ t = family)

LEMMA ProgressSteps ==
  ASSUME OptionsTypeOK, Places, ModeFits, rc_mode' \in Mode \cup {"UNKNOWN"},
         NEW t \in TxStream
  PROVE  /\ at' = at /\ UNCHANGED <<rc_mode, family>> => Moves(t, FALSE, FALSE, FALSE, FALSE)
         /\ Validate => Moves(t, FALSE, FALSE, FALSE, FALSE)
         /\ ParseSource => Moves(t, FALSE, FALSE, FALSE, FALSE)
         /\ \A memory \in BOOLEAN :
              CountDests(memory) => Moves(t, TRUE, FALSE, FALSE, FALSE)
         /\ FillDests => Moves(t, FALSE, TRUE, FALSE, FALSE)
         /\ SetTtl => Moves(t, FALSE, FALSE, TRUE, FALSE)
         /\ SetOutIf => Moves(t, FALSE, FALSE, FALSE, TRUE)
<1> USE DEF Moves, Counted, Filled, Tuned, Past, Reached, TxSteps
<1>1. ASSUME at' = at, UNCHANGED <<rc_mode, family>>
      PROVE  Moves(t, FALSE, FALSE, FALSE, FALSE)
  BY <1>1
<1>2. ASSUME Validate PROVE Moves(t, FALSE, FALSE, FALSE, FALSE)
  <2>1. at = "getopt" /\ at' = "source"
    BY <1>2 DEF Validate, Mode
  <2>2. QED
    BY <2>1
<1>3. ASSUME ParseSource PROVE Moves(t, FALSE, FALSE, FALSE, FALSE)
  <2>1. /\ at = "source" /\ rc_mode \in Mode /\ family \in RxStream
        /\ rc_mode' = rc_mode /\ family' = NextFamily(family)
        /\ at' = IF NextFamily(family) = family THEN "done" ELSE "count"
    BY <1>3 DEF ParseSource, Proceed, Reject, Places, Rx, RxStream, Mode
  <2>2. "inet_out" \in Tx(rc_mode) \/ "inet6_out" \in Tx(rc_mode)
    BY <2>1 DEF Tx, TxStream, Mode
  <2>3. /\ "inet_out" \in Tx(rc_mode) <=> Given("4out")
        /\ "inet6_out" \in Tx(rc_mode) <=> Given("6out")
    BY <2>1 DEF ModeFits, OutOpt, TxStream
  <2>4. /\ at' = "count"
        /\ "inet_out" \in Tx(rc_mode) => family' = "inet_out"
    BY <2>1, <2>2, <2>3 DEF NextFamily, RxStream
  <2>5. QED
    BY <2>1, <2>4
<1>4. ASSUME NEW memory \in BOOLEAN, CountDests(memory)
      PROVE  Moves(t, TRUE, FALSE, FALSE, FALSE)
  <2>1. /\ at = "count" /\ at' = "fill" /\ UNCHANGED <<rc_mode, family>>
    BY <1>4 DEF CountDests, Reject, Mode
  <2>2. QED
    BY <2>1
<1>5. ASSUME FillDests PROVE Moves(t, FALSE, TRUE, FALSE, FALSE)
  <2>1. /\ at = "fill" /\ at' = "ttl" /\ UNCHANGED <<rc_mode, family>>
    BY <1>5 DEF FillDests
  <2>2. QED
    BY <2>1
<1>6. ASSUME SetTtl PROVE Moves(t, FALSE, FALSE, TRUE, FALSE)
  <2>1. /\ at = "ttl" /\ at' = "outif" /\ UNCHANGED <<rc_mode, family>>
    BY <1>6 DEF SetTtl, Reject, Mode
  <2>2. QED
    BY <2>1
<1>7. ASSUME SetOutIf PROVE Moves(t, FALSE, FALSE, FALSE, TRUE)
  <2>1. /\ at = "outif" /\ rc_mode \in Mode /\ family \in Tx(rc_mode) /\ family \in TxStream
        /\ rc_mode' = rc_mode /\ family' = NextFamily(family)
        /\ at' = IF NextFamily(family) = family THEN "done" ELSE "count"
    BY <1>7 DEF SetOutIf, Proceed, Reject, Places, Tx, Mode
  <2>2. "inet6_out" \in Tx(rc_mode) <=> Given("6out")
    BY <2>1 DEF ModeFits, OutOpt, TxStream
  <2>3. CASE family = "inet6_out"
    <3>1. at' = "done"
      BY <2>1, <2>3 DEF NextFamily, RxStream
    <3>2. QED
      BY <2>1, <2>3, <3>1 DEF TxStream
  <2>4. CASE family = "inet_out" /\ "inet6_out" \in Tx(rc_mode)
    <3>1. at' = "count" /\ family' = "inet6_out"
      BY <2>1, <2>2, <2>4 DEF NextFamily, RxStream
    <3>2. QED
      BY <2>1, <2>4, <3>1 DEF TxStream
  <2>5. CASE family = "inet_out" /\ "inet6_out" \notin Tx(rc_mode)
    <3>1. at' = "done"
      BY <2>1, <2>2, <2>5 DEF NextFamily, RxStream
    <3>2. QED
      BY <2>1, <2>5, <3>1 DEF TxStream
  <2>6. QED
    BY <2>1, <2>3, <2>4, <2>5 DEF TxStream
<1>8. QED
  BY <1>1, <1>2, <1>3, <1>4, <1>5, <1>6, <1>7

DestsKept(t) == RoomMade(t) /\ ListFilled(t) /\ TuningRead(t) /\ OutIfRead(t)

(* A step that touches neither the parameters nor the room of a family.      *)
LEMMA DestsLeft ==
  ASSUME NEW t, DestsKept(t), Moves(t, FALSE, FALSE, FALSE, FALSE), SeenOn,
         tx_parms'[t] = tx_parms[t], room'[t] = room[t],
         Counted(t) \/ Filled(t) \/ Tuned(t) \/ Past(t) => UNCHANGED prog_opts
  PROVE  DestsKept(t)'
<1>1. RoomMade(t)'
  BY RoomKept DEF DestsKept, Moves
<1>2. ListFilled(t)'
  BY ListKept DEF DestsKept, Moves
<1>3. TuningRead(t)'
  BY TuningKept DEF DestsKept, Moves
<1>4. OutIfRead(t)'
  BY OutIfKept DEF DestsKept, Moves
<1>5. QED
  BY <1>1, <1>2, <1>3, <1>4 DEF DestsKept

(* Each step on a family's options establishes its own part. *)
LEMMA DestsStep ==
  OptionsTypeOK /\ Places /\ ModeFits /\ DestsRead /\ [Next]_vars => DestsRead'
<1> SUFFICES ASSUME OptionsTypeOK, Places, ModeFits, DestsRead, [Next]_vars,
                    rc_mode' \in Mode \cup {"UNKNOWN"}, NEW t \in TxStream
             PROVE  DestsKept(t)'
  BY DEF DestsRead, DestsKept
<1> USE DEF parms, ifaces
<1>1. rc_mode \in Mode \cup {"UNKNOWN"}
  BY StepCases DEF GetOpt, Validate, ParseSource, CountDests, FillDests, SetTtl, SetOutIf,
     IfChange, IfChanges, Open, OpenFails, Stays, vars, optvars, Places, TxSteps
<1>2. DestsKept(t)
  BY <1>1 DEF DestsRead, DestsKept
<1>3. /\ tx_parms \in [TxStream -> TxParms] /\ room \in [TxStream -> Nat]
      /\ ifs \in SUBSET Interfaces
  BY DEF OptionsTypeOK
<1>4. ASSUME UNCHANGED ifaces \/ \E i \in Interfaces : IfChange(i) PROVE SeenOn
  BY <1>4, SeenKept DEF SeenOn
<1>5. ASSUME UNCHANGED <<at, rc_mode, family, prog_opts, tx_parms, room>>, SeenOn
      PROVE  DestsKept(t)'
  BY <1>2, <1>5, DestsLeft, ProgressSteps
<1>6. ASSUME NEW o \in OptName, NEW arg \in Arguments[o], GetOpt(o, arg)
      PROVE  DestsKept(t)'
  <2>1. /\ UNCHANGED <<at, rc_mode, family, tx_parms, room, ifs, changes>>
        /\ at = "getopt"
    BY <1>6 DEF GetOpt
  <2>2. ~(Counted(t) \/ Filled(t) \/ Tuned(t) \/ Past(t))
    BY <2>1 DEF Counted, Filled, Tuned, Past, Reached, TxSteps
  <2>3. Moves(t, FALSE, FALSE, FALSE, FALSE)
    BY <2>1, ProgressSteps
  <2>4. SeenOn
    BY <1>4, <2>1
  <2>5. QED
    BY <1>2, <2>1, <2>2, <2>3, <2>4, DestsLeft
<1>7. CASE Validate
  <2>1. Moves(t, FALSE, FALSE, FALSE, FALSE)
    BY <1>7, ProgressSteps
  <2>2. UNCHANGED <<prog_opts, tx_parms, room, ifs, changes>>
    BY <1>7 DEF Validate
  <2>3. SeenOn
    BY <1>4, <2>2
  <2>4. QED
    BY <1>2, <2>1, <2>2, <2>3, DestsLeft
<1>8. CASE ParseSource
  <2>1. Moves(t, FALSE, FALSE, FALSE, FALSE)
    BY <1>8, ProgressSteps
  <2>2. UNCHANGED <<prog_opts, tx_parms, room, ifs, changes>>
    BY <1>8 DEF ParseSource
  <2>3. SeenOn
    BY <1>4, <2>2
  <2>4. QED
    BY <1>2, <2>1, <2>2, <2>3, DestsLeft
<1>9. ASSUME NEW memory \in BOOLEAN, CountDests(memory) PROVE DestsKept(t)'
  <2> DEFINE n == CsvCount(FamilyOf(family), prog_opts[OutOpt(family)], ifs)
  <2>1. Moves(t, TRUE, FALSE, FALSE, FALSE)
    BY <1>9, ProgressSteps
  <2>2. /\ n # -1 /\ room' = [room EXCEPT ![family] = RoomFor(n)]
        /\ UNCHANGED <<prog_opts, family, tx_parms, ifs, changes>>
    BY <1>9 DEF CountDests, Reject, Mode
  <2>3. SeenOn
    BY <1>4, <2>2
  <2>4. RoomMade(t)'
    <3>1. CASE t = family
      <4>1. Seen(ifs)'
        BY <1>3, <2>2 DEF Seen
      <4>2. room'[t] = RoomFor(n)
        BY <1>3, <2>2, <3>1
      <4>3. Counted(t)'
        BY <2>1, <3>1 DEF Moves
      <4>4. QED
        BY <1>3, <2>2, <3>1, <4>1, <4>2, <4>3 DEF RoomMade
    <3>2. CASE t # family
      <4>1. room'[t] = room[t]
        BY <1>3, <2>2, <3>2
      <4>2. QED
        BY <1>2, <2>1, <2>2, <2>3, <3>2, <4>1, RoomKept DEF Moves, DestsKept
    <3>3. QED
      BY <3>1, <3>2
  <2>5. ListFilled(t)'
    BY <1>2, <2>1, <2>2, <2>3, ListKept DEF Moves, DestsKept
  <2>6. TuningRead(t)'
    BY <1>2, <2>1, <2>2, <2>3, TuningKept DEF Moves, DestsKept
  <2>7. OutIfRead(t)'
    BY <1>2, <2>1, <2>2, <2>3, OutIfKept DEF Moves, DestsKept
  <2>8. QED
    BY <2>4, <2>5, <2>6, <2>7 DEF DestsKept
<1>10. CASE FillDests
  <2> DEFINE dests == CsvFill(FamilyOf(family), prog_opts[OutOpt(family)], ifs)
             num   == Len(dests) - 1
  <2>1. Moves(t, FALSE, TRUE, FALSE, FALSE)
    BY <1>10, ProgressSteps
  <2>2. /\ tx_parms' = [tx_parms EXCEPT ![family].dests = dests,
                                        ![family].dests_num = num,
                                        ![family].mc_dests_num = NumMcaddrs(dests, num)]
        /\ UNCHANGED <<prog_opts, family, room, ifs, changes>>
    BY <1>10 DEF FillDests
  <2>3. SeenOn
    BY <1>4, <2>2
  <2>4. /\ tx_parms'[t].mc_ttl = tx_parms[t].mc_ttl
        /\ tx_parms'[t].mc_loop = tx_parms[t].mc_loop
        /\ tx_parms'[t].out_intf = tx_parms[t].out_intf
        /\ t # family => tx_parms'[t] = tx_parms[t]
        /\ t = family => /\ tx_parms'[t].dests = dests
                         /\ tx_parms'[t].dests_num = num
                         /\ tx_parms'[t].mc_dests_num = NumMcaddrs(dests, num)
    <3> HIDE DEF dests, num
    <3>1. tx_parms[t] \in TxParms
      BY <1>3
    <3>2. QED
      BY <1>3, <2>2, <3>1 DEF TxParms
  <2>5. ListFilled(t)'
    <3>1. CASE t = family
      <4>1. Seen(ifs)'
        BY <1>3, <2>2 DEF Seen
      <4>2. Filled(t)'
        BY <2>1, <3>1 DEF Moves
      <4>3. QED
        BY <1>3, <2>2, <2>4, <3>1, <4>1, <4>2 DEF ListFilled
    <3>2. CASE t # family
      BY <1>2, <2>1, <2>2, <2>3, <2>4, <3>2, ListKept DEF Moves, DestsKept
    <3>3. QED
      BY <3>1, <3>2
  <2>6. RoomMade(t)'
    BY <1>2, <2>1, <2>2, <2>3, RoomKept DEF Moves, DestsKept
  <2>7. TuningRead(t)'
    BY <1>2, <2>1, <2>2, <2>3, <2>4, TuningKept DEF Moves, DestsKept
  <2>8. OutIfRead(t)'
    BY <1>2, <2>1, <2>2, <2>3, <2>4, OutIfKept DEF Moves, DestsKept
  <2>9. QED
    BY <2>5, <2>6, <2>7, <2>8 DEF DestsKept
<1>11. CASE SetTtl
  <2> DEFINE ttl  == IF Given(TtlOpt(family)) THEN prog_opts[TtlOpt(family)]
                                              ELSE tx_parms[family].mc_ttl
             loop == IF Given(LoopOpt(family)) THEN 1 ELSE tx_parms[family].mc_loop
  <2>1. Moves(t, FALSE, FALSE, TRUE, FALSE)
    BY <1>11, ProgressSteps
  <2>2. /\ tx_parms' = [tx_parms EXCEPT ![family].mc_ttl = ttl, ![family].mc_loop = loop]
        /\ UNCHANGED <<prog_opts, family, room, ifs, changes>>
        /\ at = "ttl"
    BY <1>11 DEF SetTtl, Reject, Mode
  <2>3. SeenOn
    BY <1>4, <2>2
  <2>4. /\ tx_parms'[t].dests = tx_parms[t].dests
        /\ tx_parms'[t].dests_num = tx_parms[t].dests_num
        /\ tx_parms'[t].mc_dests_num = tx_parms[t].mc_dests_num
        /\ tx_parms'[t].out_intf = tx_parms[t].out_intf
        /\ t # family => tx_parms'[t] = tx_parms[t]
        /\ t = family => tx_parms'[t].mc_ttl = ttl /\ tx_parms'[t].mc_loop = loop
    <3> HIDE DEF ttl, loop
    <3>1. tx_parms[t] \in TxParms
      BY <1>3
    <3>2. QED
      BY <1>3, <2>2, <3>1 DEF TxParms
  <2>5. TuningRead(t)'
    <3>1. CASE t = family
      <4>1. Tuned(t)'
        BY <2>1, <3>1 DEF Moves
      <4>2. ~Tuned(t)
        BY <2>2, <3>1 DEF Tuned, Reached, Past, TxSteps
      <4>3. tx_parms[t].mc_ttl = 1 /\ tx_parms[t].mc_loop = 0
        BY <1>2, <4>2 DEF TuningRead, DestsKept
      <4>4. QED
        BY <2>2, <2>4, <3>1, <4>1, <4>3 DEF TuningRead, Asked, Given
    <3>2. CASE t # family
      BY <1>2, <2>1, <2>2, <2>3, <2>4, <3>2, TuningKept DEF Moves, DestsKept
    <3>3. QED
      BY <3>1, <3>2
  <2>6. RoomMade(t)'
    BY <1>2, <2>1, <2>2, <2>3, RoomKept DEF Moves, DestsKept
  <2>7. ListFilled(t)'
    BY <1>2, <2>1, <2>2, <2>3, <2>4, ListKept DEF Moves, DestsKept
  <2>8. OutIfRead(t)'
    BY <1>2, <2>1, <2>2, <2>3, <2>4, OutIfKept DEF Moves, DestsKept
  <2>9. QED
    BY <2>5, <2>6, <2>7, <2>8 DEF DestsKept
<1>12. CASE SetOutIf
  <2> DEFINE intf == prog_opts[OutIfOpt(family)]
  <2>1. Moves(t, FALSE, FALSE, FALSE, TRUE)
    BY <1>12, ProgressSteps
  <2>2. /\ \/ ~Given(OutIfOpt(family)) /\ UNCHANGED tx_parms
           \/ /\ Given(OutIfOpt(family)) /\ OutIfFound(family, intf, ifs)
              /\ tx_parms' = [tx_parms EXCEPT ![family].out_intf = intf]
        /\ UNCHANGED <<prog_opts, room, ifs, changes>>
        /\ at = "outif"
    BY <1>12 DEF SetOutIf, Reject, Mode
  <2>3. SeenOn
    BY <1>4, <2>2
  <2>4. /\ tx_parms'[t].dests = tx_parms[t].dests
        /\ tx_parms'[t].dests_num = tx_parms[t].dests_num
        /\ tx_parms'[t].mc_dests_num = tx_parms[t].mc_dests_num
        /\ tx_parms'[t].mc_ttl = tx_parms[t].mc_ttl
        /\ tx_parms'[t].mc_loop = tx_parms[t].mc_loop
        /\ t # family => tx_parms'[t] = tx_parms[t]
        /\ t = family => \/ ~Given(OutIfOpt(family)) /\ tx_parms'[t] = tx_parms[t]
                         \/ Given(OutIfOpt(family)) /\ tx_parms'[t].out_intf = intf
    <3> HIDE DEF intf
    <3>1. tx_parms[t] \in TxParms
      BY <1>3
    <3>2. CASE UNCHANGED tx_parms /\ ~Given(OutIfOpt(family))
      BY <3>2
    <3>3. CASE /\ Given(OutIfOpt(family))
               /\ tx_parms' = [tx_parms EXCEPT ![family].out_intf = intf]
      BY <1>3, <3>1, <3>3 DEF TxParms
    <3>4. QED
      BY <2>2, <3>2, <3>3
  <2>5. OutIfRead(t)'
    <3>1. CASE t = family
      <4>1. Past(t)'
        BY <2>1, <3>1 DEF Moves
      <4>2. ~Past(t)
        BY <2>2, <3>1 DEF Past, TxSteps
      <4>3. tx_parms[t].out_intf = "any"
        BY <1>2, <4>2 DEF OutIfRead, DestsKept
      <4>4. Seen(ifs)'
        BY <1>3, <2>2 DEF Seen
      <4>5. tx_parms'[t].out_intf = Asked(OutIfOpt(t), "any")
        BY <2>4, <3>1, <4>3 DEF Asked, Given
      <4>6. Given(OutIfOpt(t)) => OutIfFound(t, tx_parms'[t].out_intf, ifs)
        BY <2>2, <2>4, <3>1
      <4>7. QED
        BY <1>3, <2>2, <4>1, <4>4, <4>5, <4>6 DEF OutIfRead, Asked, Given
    <3>2. CASE t # family
      BY <1>2, <2>1, <2>2, <2>3, <2>4, <3>2, OutIfKept DEF Moves, DestsKept
    <3>3. QED
      BY <3>1, <3>2
  <2>6. RoomMade(t)'
    BY <1>2, <2>1, <2>2, <2>3, RoomKept DEF Moves, DestsKept
  <2>7. ListFilled(t)'
    BY <1>2, <2>1, <2>2, <2>3, <2>4, ListKept DEF Moves, DestsKept
  <2>8. TuningRead(t)'
    BY <1>2, <2>1, <2>2, <2>3, <2>4, TuningKept DEF Moves, DestsKept
  <2>9. QED
    BY <2>5, <2>6, <2>7, <2>8 DEF DestsKept
<1>13. ASSUME NEW i \in Interfaces, IfChange(i) PROVE DestsKept(t)'
  <2>1. UNCHANGED <<at, rc_mode, family, prog_opts, tx_parms, room>>
    BY <1>13 DEF IfChange
  <2>2. SeenOn
    BY <1>4, <1>13
  <2>3. QED
    BY <1>5, <2>1, <2>2
<1>14. ASSUME UNCHANGED optvars PROVE DestsKept(t)'
  BY <1>4, <1>5, <1>14 DEF optvars
<1>15. QED
  BY <1>6, <1>7, <1>8, <1>9, <1>10, <1>11, <1>12, <1>13, <1>14, StepCases
  DEF IfChanges, Open, OpenFails, Stays, vars

(* The room made and the list filled, each by the interfaces of its pass.    *)
LEMMA ListBound ==
  ASSUME OptionsTypeOK, Places, ModeFits, DestsRead, rc_mode \in Mode \cup {"UNKNOWN"}
  PROVE  FillFits
<1> SUFFICES ASSUME NEW t \in TxStream
             PROVE  Len(tx_parms[t].dests) <=
                      room[t] + (IF changes = 0 THEN 0 ELSE Cardinality(Wavering(t)))
  BY DEF FillFits
<1> DEFINE csv   == prog_opts[OutOpt(t)]
           fam   == FamilyOf(t)
           slack == IF changes = 0 THEN 0 ELSE Cardinality(Wavering(t))
<1>1. Given(OutOpt(t)) => csv \in Seq(Text(Form))
  BY ArgumentTypes
<1>2. fam \in Family /\ (fam = "inet" <=> t = "inet_out")
  BY DEF FamilyOf, Family, TxStream
<1>3. Cardinality(Wavering(t)) \in Nat
  BY <1>1, WaveringCounted
<1>4. room[t] \in Nat /\ slack \in Nat
  BY <1>3 DEF OptionsTypeOK
<1>5. CASE ~Filled(t)
  <2>1. tx_parms[t].dests = <<>>
    BY <1>5 DEF DestsRead, ListFilled
  <2> HIDE DEF slack
  <2>2. QED
    BY <1>4, <2>1 DEF slack
<1>6. CASE Filled(t)
  <2>1. Counted(t) /\ Given(OutOpt(t))
    BY <1>6 DEF Counted, Filled, Reached, Past, Places, TxSteps, ModeFits
  <2>2. PICK before \in SUBSET Interfaces :
          Seen(before) /\ CsvCount(fam, csv, before) # -1
          /\ room[t] = RoomFor(CsvCount(fam, csv, before))
    BY <2>1 DEF DestsRead, RoomMade
  <2>3. PICK after \in SUBSET Interfaces :
          Seen(after) /\ tx_parms[t].dests = CsvFill(fam, csv, after)
    BY <1>6 DEF DestsRead, ListFilled
  <2>4. csv \in Seq(Text(Form))
    BY <1>1, <2>1
  <2>5. /\ room[t] = Len(Kept(fam, csv, before)) + 1
        /\ Len(Kept(fam, csv, before)) \in Nat
    BY <1>2, <2>2, <2>4, CountedList, FilledList DEF RoomFor
  <2>6. /\ Len(tx_parms[t].dests) = Len(Kept(fam, csv, after)) + 1
        /\ Len(Kept(fam, csv, after)) \in Nat
    BY <1>2, <2>3, <2>4, FilledList
  <2>7. CASE changes = 0
    <3>1. before = after /\ slack = 0
      BY <2>2, <2>3, <2>7 DEF Seen
    <3> HIDE DEF slack, csv, fam
    <3>2. QED
      BY <2>5, <2>6, <3>1 DEF slack
  <2>8. CASE changes # 0
    <3>1. slack = Cardinality(Wavering(t))
      BY <2>8
    <3>2. Wavering(t) = {i \in DOMAIN csv : fam = "inet" /\ csv[i].intf \in Interfaces}
      BY <1>2, <2>1 DEF Wavering
    <3> DEFINE named == {i \in DOMAIN csv : fam = "inet" /\ csv[i].intf \in Interfaces}
    <3>3. Len(Kept(fam, csv, after)) <= Len(Kept(fam, csv, before)) + Cardinality(named)
      BY <1>2, <2>2, <2>4, PassesDiffer
    <3> HIDE DEF slack, csv, fam, named
    <3>4. QED
      BY <1>4, <2>5, <2>6, <3>1, <3>2, <3>3 DEF slack, named
  <2>9. QED
    BY <2>7, <2>8
<1>7. QED
  BY <1>5, <1>6

(* A command line that is rejected, or only asks for help, keeps the lists   *)
(* and the room that it had.                                                 *)
LEMMA RejectedFits ==
  OptionsTypeOK /\ Places /\ FillFits /\ [Next]_vars
    => rc_mode' \in Mode \cup {"UNKNOWN"} \/ FillFits'
<1> SUFFICES ASSUME OptionsTypeOK, Places, FillFits, [Next]_vars,
                    rc_mode' \notin Mode \cup {"UNKNOWN"}
             PROVE  FillFits'
  OBVIOUS
<1> USE DEF parms, ifaces
<1>1. ASSUME UNCHANGED <<prog_opts, tx_parms, room, changes>> PROVE FillFits'
  BY <1>1 DEF FillFits, Wavering, Given
<1>2. ASSUME NEW o \in OptName, NEW arg \in Arguments[o], GetOpt(o, arg) PROVE FALSE
  BY <1>2 DEF GetOpt, Places
<1>3. CASE Validate
  BY <1>1, <1>3 DEF Validate
<1>4. CASE ParseSource
  BY <1>1, <1>4 DEF ParseSource
<1>5. ASSUME NEW memory \in BOOLEAN, CountDests(memory) PROVE FillFits'
  <2>1. at = "count" /\ rc_mode \in Mode
    BY <1>5 DEF CountDests, Places, TxSteps
  <2>2. UNCHANGED <<prog_opts, tx_parms, room, changes>>
    BY <1>5, <2>1 DEF CountDests
  <2>3. QED
    BY <1>1, <2>2
<1>6. CASE FillDests
  BY <1>6 DEF FillDests, Places, TxSteps
<1>7. CASE SetTtl
  <2>1. at = "ttl" /\ rc_mode \in Mode
    BY <1>7 DEF SetTtl, Places, TxSteps
  <2>2. UNCHANGED <<prog_opts, tx_parms, room, changes>>
    BY <1>7, <2>1 DEF SetTtl
  <2>3. QED
    BY <1>1, <2>2
<1>8. CASE SetOutIf
  <2>1. at = "outif" /\ rc_mode \in Mode
    BY <1>8 DEF SetOutIf, Places, TxSteps
  <2>2. UNCHANGED <<prog_opts, tx_parms, room, changes>>
    BY <1>8, <2>1 DEF SetOutIf, Proceed
  <2>3. QED
    BY <1>1, <2>2
<1>9. ASSUME NEW i \in Interfaces, IfChange(i) PROVE FillFits'
  <2> SUFFICES ASSUME NEW t \in TxStream
               PROVE  Len(tx_parms'[t].dests) <=
                        room'[t] + (IF changes' = 0 THEN 0
                                                    ELSE Cardinality(Wavering(t)'))
    BY DEF FillFits
  <2>1. /\ UNCHANGED <<prog_opts, tx_parms, room>>
        /\ changes \in Nat /\ changes' = changes + 1
    BY <1>9 DEF IfChange, OptionsTypeOK
  <2>2. Wavering(t)' = Wavering(t)
    BY <2>1 DEF Wavering, Given
  <2>3. Cardinality(Wavering(t)) \in Nat
    BY ArgumentTypes, WaveringCounted
  <2>4. /\ tx_parms[t].dests \in Seq(DestEntry) /\ room[t] \in Nat
        /\ Len(tx_parms[t].dests) <=
             room[t] + (IF changes = 0 THEN 0 ELSE Cardinality(Wavering(t)))
    BY DEF OptionsTypeOK, TxParms, FillFits
  <2>5. Len(tx_parms[t].dests) <= room[t] + Cardinality(Wavering(t))
    <3>1. Len(tx_parms[t].dests) \in Nat
      BY <2>4
    <3>2. QED
      BY <2>3, <2>4, <3>1
  <2>6. QED
    BY <2>1, <2>2, <2>5
<1>10. ASSUME UNCHANGED optvars PROVE FillFits'
  BY <1>1, <1>10 DEF optvars
<1>11. QED
  BY <1>2, <1>3, <1>4, <1>5, <1>6, <1>7, <1>8, <1>9, <1>10, StepCases
  DEF IfChanges, Open, OpenFails, Stays, vars

-----------------------------------------------------------------------------
(* The sockets. *)

(* The source first, then the outgoing families in their order. *)
LEMMA OpeningOrder ==
  ASSUME NEW m \in Mode, NEW s \in StreamsOf(m)
  PROVE  LET next == IF After(m, s) \in TxStream THEN After(m, s) ELSE "loop" IN
         /\ next \in Stream \cup {"loop"}
         /\ next \in Stream => next \in StreamsOf(m)
         /\ next # "loop" => next \in TxStream
         /\ next = "loop" =>
              \A u \in StreamsOf(m) : u = s \/ (s \in TxStream /\ u \in RxStream)
                                            \/ (s = "inet6_out" /\ u = "inet_out")
         /\ (next \in TxStream /\ s \notin TxStream) =>
              \A u \in StreamsOf(m) : u \in RxStream => u = s
         /\ next = "inet6_out" =>
              \A u \in StreamsOf(m) : u = "inet_out" => u = s
<1>1. Rx(m) \in RxStream /\ Tx(m) \in SUBSET TxStream /\ Tx(m) # {}
  <2>1. "inet_out" \in Tx(m) \/ "inet6_out" \in Tx(m)
    BY DEF Tx, TxStream, Mode
  <2>2. QED
    BY <2>1 DEF Rx, RxStream, Tx
<1>2. Rx(m) \notin TxStream /\ RxStream \cap TxStream = {}
  BY <1>1 DEF RxStream, TxStream
<1>3. CASE s = Rx(m)
  BY <1>1, <1>2, <1>3 DEF After, StreamsOf, Stream, RxStream, TxStream
<1>4. CASE s \in Tx(m)
  BY <1>1, <1>2, <1>4 DEF After, StreamsOf, Stream, RxStream, TxStream
<1>5. QED
  BY <1>3, <1>4 DEF StreamsOf

LEMMA KernelStep ==
  OptionsTypeOK /\ Places /\ KernelTold /\ [Next]_vars => KernelTold'
<1> SUFFICES ASSUME OptionsTypeOK, Places, KernelTold, [Next]_vars PROVE KernelTold'
  OBVIOUS
<1> USE DEF parms, ifaces
<1>1. CASE /\ at # "done" /\ UNCHANGED sock
           /\ opening' = IF at' = "done" /\ rc_mode' \in Mode THEN Rx(rc_mode') ELSE opening
  <2>1. opening = "none"
    BY <1>1 DEF KernelTold
  <2>2. \/ opening' = "none"
        \/ /\ at' = "done" /\ rc_mode' \in Mode
           /\ opening' = Rx(rc_mode') /\ opening' \in RxStream
    BY <1>1, <2>1 DEF Rx, RxStream
  <2>3. opening' \notin TxStream /\ opening' # "loop" /\ opening' # "inet6_out"
    BY <2>2 DEF RxStream, TxStream
  <2>4. \A s \in Stream : ~Opened(s)'
    BY <2>3 DEF Opened
  <2>5. opening' \in Stream => opening' \in StreamsOf(rc_mode')
    BY <2>2 DEF StreamsOf, Stream, RxStream, TxStream
  <2>6. QED
    BY <1>1, <2>2, <2>4, <2>5 DEF KernelTold, Stream
<1>2. CASE IfChanges
  BY <1>2 DEF IfChanges, IfChange, sockvars, KernelTold, Opened, RxSocket, TxSocket
<1>3. CASE Open
  <2>1. /\ opening \in StreamsOf(rc_mode) /\ opening \in Stream
        /\ at = "done" /\ rc_mode \in Mode
    BY <1>3 DEF Open, KernelTold, Stream, RxStream, TxStream
  <2>2. /\ UNCHANGED <<at, rc_mode, rx_parms, tx_parms>>
        /\ opening' = IF After(rc_mode, opening) \in TxStream THEN After(rc_mode, opening)
                                                              ELSE "loop"
        /\ sock' = [sock EXCEPT ![opening] = IF opening \in RxStream THEN RxSocket(opening)
                                             ELSE TxSocket(opening)]
    BY <1>3 DEF Open, optvars
  <2>3. \A s \in Stream : Opened(s)' => s = opening \/ Opened(s)
    <3> TAKE s \in Stream
    <3> HAVE Opened(s)'
    <3>1. s \in StreamsOf(rc_mode)
      BY <2>2 DEF Opened
    <3>2. \/ opening' = "loop"
          \/ opening' \in TxStream /\ s \in RxStream
          \/ opening' = "inet6_out" /\ s = "inet_out"
      BY DEF Opened
    <3>3. \/ s = opening
          \/ opening \in TxStream /\ s \in RxStream
          \/ opening = "inet6_out" /\ s = "inet_out"
      BY <2>1, <2>2, <3>1, <3>2, OpeningOrder
    <3>4. QED
      BY <3>1, <3>3 DEF Opened
  <2>4. /\ DOMAIN sock' = Stream
        /\ sock'[opening] = IF opening \in RxStream THEN RxSocket(opening)
                            ELSE TxSocket(opening)
        /\ \A s \in Stream : s # opening => sock'[s] = sock[s]
    BY <2>1, <2>2 DEF KernelTold
  <2>5. \A r \in RxStream : Opened(r)' => sock'[r] = RxSocket(r)'
    BY <2>2, <2>3, <2>4 DEF KernelTold, RxSocket, Stream
  <2>6. \A t \in TxStream : Opened(t)' => sock'[t] = TxSocket(t)'
    <3>1. RxStream \cap TxStream = {}
      BY DEF RxStream, TxStream
    <3>2. QED
      BY <2>2, <2>3, <2>4, <3>1 DEF KernelTold, TxSocket, Stream
  <2>7. /\ opening' \in Stream \cup {"loop"}
        /\ opening' \in Stream => opening' \in StreamsOf(rc_mode)
    BY <2>1, <2>2, OpeningOrder
  <2>8. QED
    BY <2>1, <2>2, <2>4, <2>5, <2>6, <2>7 DEF KernelTold
<1>4. CASE OpenFails
  <2>1. opening' = "failed" /\ UNCHANGED <<sock, at, rc_mode>> /\ opening \in Stream
    BY <1>4 DEF OpenFails, optvars
  <2>2. opening # "none" /\ opening' \notin Stream /\ \A s \in Stream : ~Opened(s)'
    BY <2>1 DEF Opened, Stream, RxStream, TxStream
  <2>3. QED
    BY <2>1, <2>2 DEF KernelTold, Stream
<1>5. CASE Stays
  BY <1>5 DEF Stays, vars, optvars, sockvars, KernelTold, Opened, RxSocket, TxSocket
<1>6. QED
  BY <1>1, <1>2, <1>3, <1>4, <1>5, StepCases

-----------------------------------------------------------------------------
LEMMA StartsSo == Init => SocketsInv
<1> SUFFICES ASSUME Init PROVE SocketsInv
  OBVIOUS
<1> USE DEF Init, OptionsInit
<1>1. OptionsTypeOK
  <2>1. 0 \in Port /\ 1 \in Ttl
    BY PortRange, TtlRange DEF BadPort, TtlInRange
  <2>2. [rx_addr |-> "none", port |-> 0, in_intf |-> "any"] \in RxParms
    BY <2>1 DEF RxParms, Interface
  <2>3. [mc_ttl |-> 1, mc_loop |-> 0, out_intf |-> "any",
         dests |-> <<>>, dests_num |-> 0, mc_dests_num |-> 0] \in TxParms
    BY <2>1 DEF TxParms, Interface
  <2>4. /\ rx_parms \in [RxStream -> RxParms] /\ tx_parms \in [TxStream -> TxParms]
        /\ \A t \in TxStream : tx_parms[t].mc_dests_num <= tx_parms[t].dests_num
    BY <2>2, <2>3
  <2>5. room \in [TxStream -> Nat] /\ nargs \in 0..MaxArgs /\ changes \in 0..MaxIfChanges
    BY OptionBoundsAssumption
  <2>6. DOMAIN prog_opts = {} /\ family \in Stream
    BY DEF Stream, RxStream
  <2>7. QED
    BY <2>4, <2>5, <2>6 DEF OptionsTypeOK
<1>2. Places /\ ModeFits /\ SourceRead
  BY DEF Places, ModeFits, SourceRead, TxSteps, Mode
<1>3. DestsRead
  <2>1. \A t \in TxStream : ~Counted(t) /\ ~Filled(t) /\ ~Tuned(t) /\ ~Past(t)
    BY DEF Counted, Filled, Tuned, Past, Reached, TxSteps
  <2>2. QED
    BY <2>1 DEF DestsRead, RoomMade, ListFilled, TuningRead, OutIfRead
<1>4. FillFits
  BY <1>1, <1>2, <1>3, ListBound
<1>5. KernelTold
  BY DEF KernelTold, Opened, TxStream, Stream, RxStream
<1>6. QED
  BY <1>1, <1>2, <1>3, <1>4, <1>5 DEF SocketsInv

(* At every point of every start, whatever the command line and whatever     *)
(* becomes of the interfaces, the parameters are what the options read so    *)
(* far say, and the sockets opened so far what the parameters say.           *)
THEOREM SocketsInvariantHolds == Spec => []SocketsInv
<1>1. Init => SocketsInv
  BY StartsSo
<1> DEFINE Read      == OptionsTypeOK /\ Places /\ ModeFits /\ DestsRead
           Accepting == rc_mode \in Mode \cup {"UNKNOWN"}
<1>2. SocketsInv /\ [Next]_vars => Read' /\ SourceRead' /\ KernelTold'
  BY TypeStep, PlacesStep, SourceStep, DestsStep, KernelStep DEF SocketsInv
<1>3. Read /\ Accepting => FillFits
  BY ListBound
<1>4. SocketsInv /\ [Next]_vars => Accepting' \/ FillFits'
  BY RejectedFits DEF SocketsInv
<1>5. Read /\ SourceRead /\ FillFits /\ KernelTold => SocketsInv
  BY DEF SocketsInv
<1> HIDE DEF Read, Accepting
<1>6. QED
  BY <1>1, <1>2, <1>3, <1>4, <1>5, PTL DEF Spec

(* Every parameter has its type, and no list counts more groups than entries. *)
THEOREM OptionsTyped == Spec => []OptionsTypeOK
<1>1. SocketsInv => OptionsTypeOK
  BY DEF SocketsInv
<1>2. QED
  BY <1>1, SocketsInvariantHolds, PTL

(* No list is filled beyond the room that malloc() made for it while the     *)
(* interfaces stay, and never by more than the destinations that name one.   *)
THEOREM ListsFit == Spec => []FillFits
<1>1. SocketsInv => FillFits
  BY DEF SocketsInv
<1>2. QED
  BY <1>1, SocketsInvariantHolds, PTL

-----------------------------------------------------------------------------
(* What an accepted command line has left in prog_parms. *)
LEMMA AcceptedDests ==
  ASSUME SocketsInv, at = "done", rc_mode \in Mode, NEW t \in Tx(rc_mode)
  PROVE  /\ t \in TxStream /\ Given(OutOpt(t)) /\ FamilyOf(t) \in Family
         /\ prog_opts[OutOpt(t)] \in Seq(Text(Form))
         /\ Counted(t) /\ Filled(t) /\ Tuned(t) /\ Past(t)
         /\ tx_parms[t] \in TxParms
         /\ RoomMade(t) /\ ListFilled(t) /\ TuningRead(t) /\ OutIfRead(t)
<1>1. t \in TxStream
  BY DEF Tx
<1>2. Given(OutOpt(t))
  BY <1>1 DEF SocketsInv, ModeFits
<1>3. prog_opts[OutOpt(t)] \in Seq(Text(Form)) /\ FamilyOf(t) \in Family
  BY <1>1, <1>2, ArgumentTypes, FamilyType DEF SocketsInv, Stream
<1>4. Counted(t) /\ Filled(t) /\ Tuned(t) /\ Past(t)
  BY DEF Counted, Filled, Tuned, Past, Reached
<1>5. tx_parms[t] \in TxParms
  BY <1>1 DEF SocketsInv, OptionsTypeOK
<1>6. RoomMade(t) /\ ListFilled(t) /\ TuningRead(t) /\ OutIfRead(t)
  BY <1>1 DEF SocketsInv, DestsRead
<1>7. QED
  BY <1>1, <1>2, <1>3, <1>4, <1>5, <1>6

(* The list of an accepted family, by what the option says. *)
LEMMA AcceptedList ==
  ASSUME SocketsInv, at = "done", rc_mode \in Mode, NEW t \in Tx(rc_mode)
  PROVE  \E hosts \in SUBSET Interfaces :
           LET fam   == FamilyOf(t)
               csv   == prog_opts[OutOpt(t)]
               kept  == Kept(fam, csv, hosts)
               dests == tx_parms[t].dests
               num   == tx_parms[t].dests_num
           IN /\ Seen(hosts)
              /\ num = Len(kept) /\ num \in Nat
              /\ DOMAIN dests = 1..(num + 1)
              /\ \A i \in 1..num : dests[i] = Entry(fam, kept[i], hosts)
              /\ \A i \in DOMAIN dests : dests[i] = Sentinel <=> i = num + 1
<1> DEFINE fam   == FamilyOf(t)
           csv   == prog_opts[OutOpt(t)]
           dests == tx_parms[t].dests
           num   == tx_parms[t].dests_num
<1>1. fam \in Family /\ csv \in Seq(Text(Form)) /\ Filled(t) /\ ListFilled(t)
  BY AcceptedDests
<1>2. PICK hosts \in SUBSET Interfaces :
        /\ Seen(hosts) /\ dests = CsvFill(fam, csv, hosts)
        /\ num = Len(dests) - 1
  BY <1>1 DEF ListFilled
<1> DEFINE kept == Kept(fam, csv, hosts)
<1>3. /\ Len(kept) \in Nat
      /\ CsvFill(fam, csv, hosts) \in Seq(DestEntry)
      /\ Len(CsvFill(fam, csv, hosts)) = Len(kept) + 1
      /\ \A i \in 1..Len(kept) :
           CsvFill(fam, csv, hosts)[i] = Entry(fam, kept[i], hosts)
      /\ \A i \in DOMAIN CsvFill(fam, csv, hosts) :
           CsvFill(fam, csv, hosts)[i] = Sentinel <=> i = Len(kept) + 1
  BY <1>1, FilledList
<1>4. /\ Len(kept) \in Nat
      /\ dests \in Seq(DestEntry)
      /\ Len(dests) = Len(kept) + 1
      /\ \A i \in 1..Len(kept) : dests[i] = Entry(fam, kept[i], hosts)
      /\ \A i \in DOMAIN dests : dests[i] = Sentinel <=> i = Len(kept) + 1
  BY <1>2, <1>3
<1> HIDE DEF kept, dests
<1>5. num = Len(kept) /\ num \in Nat /\ DOMAIN dests = 1..(num + 1)
  BY <1>2, <1>4
<1>6. QED
  BY <1>2, <1>4, <1>5 DEF kept, dests

(* A mode accepted is one that its parameters can serve: a source with a     *)
(* port, and exactly the families of the mode with a list that ends where    *)
(* the loops over it end.                                                    *)
THEOREM ParmsServeMode == Spec => []ParmsFitMode
<1>1. SocketsInv => ParmsFitMode
  <2> SUFFICES ASSUME SocketsInv, at = "done", rc_mode \in Mode PROVE
        /\ rx_parms[Rx(rc_mode)].port \in Port \ {0}
        /\ \A t \in TxStream :
             /\ room[t] > 0 <=> t \in Tx(rc_mode)
             /\ t \in Tx(rc_mode) =>
                  \A i \in DOMAIN tx_parms[t].dests :
                    tx_parms[t].dests[i] = Sentinel <=> i = tx_parms[t].dests_num + 1
    BY DEF ParmsFitMode, Accepted
  <2>1. rx_parms[Rx(rc_mode)].port \in Port \ {0}
    <3>1. Rx(rc_mode) \in RxStream
      BY DEF Rx, RxStream
    <3>2. rx_parms[Rx(rc_mode)].port \in Port
      BY <3>1 DEF SocketsInv, OptionsTypeOK, RxParms
    <3>3. rx_parms[Rx(rc_mode)].port # 0
      <4>1. PICK hosts \in SUBSET Interfaces :
              LET r == Rx(rc_mode)
                  p == AipPtoh(FamilyOf(r), prog_opts[InOpt(r)], hosts)
              IN p.port # 0 /\ rx_parms[r] = [rx_addr |-> p.addr, port |-> p.port,
                                              in_intf |-> p.if_addr]
        BY DEF SocketsInv, SourceRead
      <4>2. QED
        BY <4>1
    <3>4. QED
      BY <3>2, <3>3
  <2>2. ASSUME NEW t \in Tx(rc_mode)
        PROVE  /\ room[t] > 0
               /\ \A i \in DOMAIN tx_parms[t].dests :
                    tx_parms[t].dests[i] = Sentinel <=> i = tx_parms[t].dests_num + 1
    <3>1. PICK hosts \in SUBSET Interfaces :
            LET n == CsvCount(FamilyOf(t), prog_opts[OutOpt(t)], hosts) IN
            n # -1 /\ room[t] = RoomFor(n)
      BY AcceptedDests DEF RoomMade
    <3> DEFINE n == CsvCount(FamilyOf(t), prog_opts[OutOpt(t)], hosts)
    <3>2. n \in Nat \cup {-1}
      BY AcceptedDests, CountedList
    <3>3. room[t] > 0
      <4>1. n # -1 /\ room[t] = RoomFor(n)
        BY <3>1
      <4> HIDE DEF n
      <4>2. QED
        BY <3>2, <4>1 DEF RoomFor
    <3>4. QED
      BY <3>3, AcceptedList
  <2>3. ASSUME NEW t \in TxStream, t \notin Tx(rc_mode) PROVE ~(room[t] > 0)
    <3>1. ~Counted(t)
      BY <2>3 DEF Counted, Reached, Past
    <3>2. RoomMade(t)
      BY DEF SocketsInv, DestsRead
    <3>3. QED
      BY <3>1, <3>2 DEF RoomMade
  <2>4. QED
    BY <2>1, <2>2, <2>3
<1>2. QED
  BY <1>1, SocketsInvariantHolds, PTL

(* Hops, loop and interface of a relay's multicasts are those of the command *)
(* line, in the kernel as well.                                              *)
THEOREM MulticastTold == Spec => []MulticastAsAsked
<1>1. SocketsInv => MulticastAsAsked
  <2> SUFFICES ASSUME SocketsInv, opening = "loop", NEW t \in Tx(rc_mode), Multicasts(t)
               PROVE  /\ sock[t].loop = IF Given(LoopOpt(t)) THEN 1 ELSE 0
                      /\ sock[t].out_intf = Asked(OutIfOpt(t), "any")
                      /\ Asked(TtlOpt(t), 1) > 0 => sock[t].ttl = Asked(TtlOpt(t), 1)
    BY DEF MulticastAsAsked, Running
  <2>1. at = "done" /\ rc_mode \in Mode /\ t \in TxStream
    BY DEF SocketsInv, KernelTold, Tx
  <2>2. sock[t] = TxSocket(t)
    BY <2>1 DEF SocketsInv, KernelTold, Opened, StreamsOf
  <2>3. PICK hosts \in SUBSET Interfaces :
          LET dests == tx_parms[t].dests
              num   == tx_parms[t].dests_num
          IN /\ num \in Nat /\ DOMAIN dests = 1..(num + 1)
             /\ \A i \in DOMAIN dests : dests[i] = Sentinel <=> i = num + 1
    BY <2>1, AcceptedList
  <2>4. tx_parms[t].mc_dests_num > 0
    <3> DEFINE dests == tx_parms[t].dests
               num   == tx_parms[t].dests_num
    <3>1. PICK i \in DOMAIN dests : IsMulticast(dests[i].addr)
      BY DEF Multicasts
    <3>2. dests[i] # Sentinel
      BY <3>1 DEF Sentinel, IsMulticast
    <3>3. tx_parms[t].mc_dests_num = NumMcaddrs(dests, num)
      BY <2>1, AcceptedDests DEF ListFilled
    <3> HIDE DEF dests, num
    <3>4. num \in Nat /\ i \in 1..num
      BY <2>3, <3>2 DEF dests, num
    <3>5. QED
      BY <3>1, <3>3, <3>4, GroupsCounted
  <2>5. /\ tx_parms[t].mc_ttl = Asked(TtlOpt(t), 1)
        /\ tx_parms[t].mc_loop = (IF Given(LoopOpt(t)) THEN 1 ELSE 0)
        /\ tx_parms[t].out_intf = Asked(OutIfOpt(t), "any")
    BY <2>1, AcceptedDests DEF TuningRead, OutIfRead
  <2>6. /\ sock[t].ttl = TtlOf(tx_parms[t], NewSocket)
        /\ sock[t].loop = LoopOf(tx_parms[t], NewSocket)
        /\ sock[t].out_intf = tx_parms[t].out_intf
    BY <2>2, <2>4 DEF TxSocket, NewSocket
  <2>7. QED
    BY <2>5, <2>6 DEF TtlOf, LoopOf
<1>2. QED
  BY <1>1, SocketsInvariantHolds, PTL

(* A relay listens where it was told to, and nowhere else. *)
THEOREM SourceTold == Spec => []SourceAsAsked
<1>1. SocketsInv => SourceAsAsked
  <2> DEFINE r    == Rx(rc_mode)
             text == prog_opts[InOpt(r)]
  <2> SUFFICES ASSUME SocketsInv, opening = "loop"
               PROVE  /\ sock[r].addr = text.addr /\ sock[r].port = text.port
                      /\ sock[r].member <=> IsMulticast(text.addr)
                      /\ sock[r].member_intf \in {"any", text.intf}
                      /\ sock[r].scope \in {"any", text.intf}
                      /\ (r = "inet_in" /\ sock[r].member /\ text.intf # "none") =>
                           sock[r].member_intf = text.intf
    BY DEF SourceAsAsked, Running
  <2>1. at = "done" /\ rc_mode \in Mode /\ r \in RxStream
    BY DEF SocketsInv, KernelTold, Rx, RxStream
  <2>2. Given(InOpt(r))
    BY <2>1 DEF SocketsInv, ModeFits
  <2>3. text \in Text(Form) /\ FamilyOf(r) \in Family
    BY <2>1, <2>2, ArgumentTypes, FamilyType DEF SocketsInv, Stream
  <2>4. PICK hosts \in SUBSET Interfaces :
          LET p == AipPtoh(FamilyOf(r), text, hosts) IN
          /\ p.err = "NONE" /\ p.port # 0
          /\ rx_parms[r] = [rx_addr |-> p.addr, port |-> p.port, in_intf |-> p.if_addr]
    BY <2>1 DEF SocketsInv, SourceRead
  <2> DEFINE p == AipPtoh(FamilyOf(r), text, hosts)
  <2>5. Parses(FamilyOf(r), text, hosts)
    BY <2>4 DEF Parses
  <2>6. p.addr = text.addr /\ p.port = text.port
    <3>1. /\ p.addr = text.addr
          /\ p.port = (IF FamilyOf(r) = "inet6" /\ text.form = "no_close"
                       THEN 0 ELSE text.port)
      BY <2>3, <2>5, ParsedAddress
    <3>2. p.port # 0
      BY <2>4
    <3> HIDE DEF p
    <3>3. QED
      BY <3>1, <3>2
  <2>7. /\ p.if_addr \in {"any", text.intf}
        /\ (r = "inet_in" /\ text.intf # "none") => p.if_addr = text.intf
    <3>1. r = "inet_in" => FamilyOf(r) = "inet"
      BY DEF FamilyOf
    <3>2. QED
      BY <2>3, <2>5, <3>1, ParsedInterface
  <2>8. sock[r] = RxSocket(r)
    BY <2>1 DEF SocketsInv, KernelTold, Opened, StreamsOf
  <2>9. /\ rx_parms[r].rx_addr = p.addr /\ rx_parms[r].port = p.port
        /\ rx_parms[r].in_intf = p.if_addr
    BY <2>4
  <2> HIDE DEF p, text, r
  <2>10. /\ sock[r].addr = p.addr /\ sock[r].port = p.port
         /\ sock[r].scope \in {"any", p.if_addr}
         /\ sock[r].member = IsMulticast(p.addr)
         /\ sock[r].member_intf = IF IsMulticast(p.addr) THEN p.if_addr ELSE "any"
    BY <2>8, <2>9 DEF RxSocket
  <2>11. QED
    BY <2>6, <2>7, <2>10
<1>2. QED
  BY <1>1, SocketsInvariantHolds, PTL

-----------------------------------------------------------------------------
(* Error messages. *)

(* Each complaint by its name. *)
LEMMA Complaints ==
  /\ Complains("UNKNOWN_OPT") <=> Given("unknown")
  /\ Complains("NO_SRC_ADDR") <=> ~Given("4in") /\ ~Given("6in")
  /\ Complains("MULTI_SRC_ADDRS") <=> Given("4in") /\ Given("6in")
  /\ Complains("NO_DST_ADDRS") <=> ~Given("4out") /\ ~Given("6out")
  /\ Complains("SRC_GRP_ADDR") <=> \E x \in Wrote("4in") \cup Wrote("6in") : NoAddr(x)
  /\ Complains("IF_ADDR") <=> \E x \in Wrote("4in") : ~IntfKnown(x)
  /\ Complains("SRC_PORT") <=> \E x \in Wrote("4in") \cup Wrote("6in") : NoHost(x)
  /\ Complains("INET_DST_ADDR") <=>
       \E x \in Listed("4out") : NoAddr(x) \/ (NoPort(x) /\ IntfKnown(x))
  /\ Complains("INET6_DST_ADDR") <=> \E x \in Listed("6out") : NoAddr(x) \/ NoPort(x)
  /\ Complains("INET_TX_MCTTL_RANGE") <=> Given("4out") /\ ~(Wrote("4mcttl") \subseteq Ttl)
  /\ Complains("INET6_TX_HOPS_RANGE") <=> Given("6out") /\ ~(Wrote("6mchops") \subseteq Ttl)
  /\ Complains("INET_OUT_INTF") <=>
       Given("4out") /\ ~(Wrote("4mcoutif") \subseteq ifs \cup {IfAddr})
  /\ Complains("INET6_OUT_INTF") <=> Given("6out") /\ ~(Wrote("6mcoutif") \subseteq ifs)
BY DEF Complains

LEMMA ComplaintKept ==
  ASSUME UNCHANGED <<prog_opts, ifs>>, NEW e \in Complaint, Complains(e), err' = e
  PROVE  Complains(err)'
BY DEF Complains, Complaint, Wrote, Listed, Given, IntfKnown

(* What a parser makes of an address, in the terms of the complaints. *)
LEMMA Diagnosis ==
  ASSUME NEW fam \in Family, NEW text \in Text(Form), fam = "inet" => text.form = "whole"
  PROVE  LET p == AipPtoh(fam, text, ifs) IN
         /\ p.err \in {"NONE", "ADDR", "IFADDR", "PORT"}
         /\ p.port = WrittenPort(text)
         /\ p.err = "ADDR" => NoAddr(text)
         /\ p.err = "IFADDR" => fam = "inet" /\ ~IntfKnown(text) /\ ~NoAddr(text)
         /\ p.err = "PORT" => NoPort(text) /\ (fam = "inet" => IntfKnown(text))
         /\ p.err = "NONE" => /\ ~NoAddr(text) /\ ~NoPort(text)
                              /\ fam = "inet" => IntfKnown(text)
<1> DEFINE p == AipPtoh(fam, text, ifs)
<1>1. NoPort(text) <=> BadPort(WrittenPort(text)) \/ text.form = "no_colon"
  <2>1. WrittenPort(text) \in Int
    BY DEF WrittenPort, Text
  <2>2. QED
    BY <2>1, PortRange DEF NoPort
<1>2. CASE fam = "inet"
  <2>1. text.form = "whole" /\ WrittenPort(text) = text.port
    BY <1>2 DEF WrittenPort
  <2>2. /\ p.port = text.port
        /\ p.err = IF text.addr = "bad" THEN "ADDR"
                   ELSE IF text.intf # "none" /\ ~InetIfAddr(text.intf, ifs) THEN "IFADDR"
                   ELSE IF BadPort(text.port) THEN "PORT" ELSE "NONE"
    BY <1>2 DEF AipPtoh, AipPtohInet
  <2>3. IntfKnown(text) <=> ~(text.intf # "none" /\ ~InetIfAddr(text.intf, ifs))
    BY DEF IntfKnown, InetIfAddr
  <2>4. NoAddr(text) <=> text.addr = "bad"
    BY <2>1 DEF NoAddr
  <2> HIDE DEF p
  <2>5. NoPort(text) <=> BadPort(text.port)
    BY <1>1, <2>1
  <2>6. QED
    BY <1>2, <2>1, <2>2, <2>3, <2>4, <2>5 DEF p
<1>3. CASE fam = "inet6"
  <2>1. /\ p.port = WrittenPort(text)
        /\ p.err = IF text.form = "no_open" THEN "ADDR"
                   ELSE IF text.form = "no_colon" THEN "PORT"
                   ELSE IF text.addr = "bad" THEN "ADDR"
                   ELSE IF BadPort(p.port) THEN "PORT" ELSE "NONE"
    BY <1>3 DEF AipPtoh, AipPtohInet6, WrittenPort
  <2> HIDE DEF p
  <2>2. QED
    BY <1>1, <1>3, <2>1 DEF NoAddr, p
<1>4. QED
  BY <1>2, <1>3 DEF Family

(* While the interfaces stay, the error that ends the start is in the        *)
(* command line, or there was no memory.                                     *)
RejectedTruly ==
  (changes = 0 /\ rc_mode = "ERROR") => err = "MEMORY_ERROR" \/ Complains(err)

LEMMA RejectedStep == SocketsInv /\ RejectedTruly /\ [Next]_vars => RejectedTruly'
<1> SUFFICES ASSUME SocketsInv, RejectedTruly, [Next]_vars, changes' = 0, rc_mode' = "ERROR"
             PROVE  (err = "MEMORY_ERROR" \/ Complains(err))'
  BY DEF RejectedTruly
<1> USE DEF parms, ifaces
<1>1. OptionsTypeOK /\ Places /\ ModeFits
  BY DEF SocketsInv
<1>2. ASSUME NEW e \in Complaint, UNCHANGED <<prog_opts, ifs>>, Complains(e), err' = e
      PROVE  (err = "MEMORY_ERROR" \/ Complains(err))'
  BY <1>2, ComplaintKept
<1>3. ASSUME UNCHANGED <<prog_opts, ifs, changes, rc_mode, err>>
      PROVE  (err = "MEMORY_ERROR" \/ Complains(err))'
  <2>1. err = "MEMORY_ERROR" \/ Complains(err)
    BY <1>3 DEF RejectedTruly
  <2>2. QED
    BY <1>3, <2>1 DEF Complains, Wrote, Listed, Given, IntfKnown
<1>4. ASSUME NEW o \in OptName, NEW arg \in Arguments[o], GetOpt(o, arg) PROVE FALSE
  BY <1>1, <1>4 DEF GetOpt, Places
<1>5. CASE Validate
  <2> DEFINE v == ValidateProgOpts(DOMAIN prog_opts)
  <2>1. /\ v \notin Mode \cup {"HELP", "LICENSE"} /\ err' = v
        /\ UNCHANGED <<prog_opts, ifs>>
    BY <1>5 DEF Validate, Mode
  <2>2. v \in Complaint /\ Complains(v)
    <3> DEFINE given == DOMAIN prog_opts
               in  == given \cap {"4in", "6in"}
               out == given \cap {"4out", "6out"}
    <3>1. \/ v = "UNKNOWN_OPT" /\ Given("unknown")
          \/ v = "NO_SRC_ADDR" /\ in = {}
          \/ v = "MULTI_SRC_ADDRS" /\ in = {"4in", "6in"}
          \/ v = "NO_DST_ADDRS" /\ out = {}
          \/ /\ in # {} /\ in # {"4in", "6in"} /\ out # {}
             /\ v = RelayMode(CHOOSE i \in in : TRUE, out)
      BY <2>1 DEF ValidateProgOpts, Given
    <3>2. ASSUME in # {}, in # {"4in", "6in"}, out # {},
                 v = RelayMode(CHOOSE i \in in : TRUE, out)
          PROVE  FALSE
      <4>1. PICK i \in {"4in", "6in"} : in = {i}
        BY <3>2
      <4>2. v = RelayMode(i, out)
        BY <3>2, <4>1
      <4>3. out \in {{"4out"}, {"6out"}, {"4out", "6out"}}
        BY <3>2
      <4>4. {"4out"} # {"6out"} /\ {"4out"} # {"4out", "6out"} /\ {"6out"} # {"4out", "6out"}
        OBVIOUS
      <4> HIDE DEF v, in, out
      <4>5. v \in Mode
        BY <4>2, <4>3, <4>4, i \in {"4in", "6in"} DEF RelayMode, Mode
      <4>6. QED
        BY <2>1, <4>5
    <3>3. /\ in = {} => ~Given("4in") /\ ~Given("6in")
          /\ in = {"4in", "6in"} => Given("4in") /\ Given("6in")
          /\ out = {} => ~Given("4out") /\ ~Given("6out")
      BY DEF Given
    <3> HIDE DEF v, in, out
    <3>4. QED
      BY <3>1, <3>2, <3>3, Complaints DEF Complaint
  <2> HIDE DEF v
  <2>3. QED
    BY <1>2, <2>1, <2>2
<1>6. CASE ParseSource
  <2> DEFINE o    == InOpt(family)
             text == prog_opts[o]
             p    == AipPtoh(FamilyOf(family), text, ifs)
  <2>1. /\ rc_mode \in Mode /\ family = Rx(rc_mode) /\ family \in RxStream /\ Given(o)
    BY <1>1, <1>6 DEF ParseSource, Places, ModeFits, Rx, RxStream
  <2>2. /\ text \in Text(Form) /\ FamilyOf(family) \in Family
        /\ FamilyOf(family) = "inet" => o = "4in" /\ text.form = "whole"
        /\ o \in {"4in", "6in"} /\ text \in Wrote(o)
    <3>1. FamilyOf(family) = "inet" => o = "4in"
      BY <2>1 DEF FamilyOf, InOpt, RxStream
    <3>2. o \in {"4in", "6in"} /\ text \in Wrote(o)
      BY <2>1 DEF InOpt, Wrote
    <3>3. QED
      BY <1>1, <2>1, <3>1, <3>2, ArgumentTypes, FamilyType DEF Stream
  <2>3. /\ ~(p.err = "NONE" /\ p.port # 0)
        /\ err' = CASE p.err = "ADDR"   -> "SRC_GRP_ADDR"
                    [] p.err = "IFADDR" -> "IF_ADDR"
                    [] OTHER            -> "SRC_PORT"
        /\ UNCHANGED <<prog_opts, ifs>>
    BY <1>6, <2>1 DEF ParseSource, Proceed, Reject, Mode
  <2>4. /\ p.err \in {"NONE", "ADDR", "IFADDR", "PORT"} /\ p.port = WrittenPort(text)
        /\ p.err = "ADDR" => NoAddr(text)
        /\ p.err = "IFADDR" => FamilyOf(family) = "inet" /\ ~IntfKnown(text)
        /\ p.err = "PORT" => NoPort(text)
    BY <2>2, Diagnosis
  <2> HIDE DEF p, text, o
  <2>5. text \in Wrote("4in") \cup Wrote("6in")
    BY <2>2
  <2>6. CASE p.err = "ADDR"
    BY <1>2, <2>3, <2>4, <2>5, <2>6, Complaints DEF Complaint
  <2>7. CASE p.err = "IFADDR"
    <3>1. err' = "IF_ADDR" /\ text \in Wrote("4in") /\ ~IntfKnown(text)
      BY <2>2, <2>3, <2>4, <2>7
    <3>2. QED
      BY <1>2, <2>3, <3>1, Complaints DEF Complaint
  <2>8. CASE p.err \notin {"ADDR", "IFADDR"}
    <3>1. err' = "SRC_PORT" /\ NoHost(text)
      BY <2>3, <2>4, <2>8 DEF NoHost
    <3>2. QED
      BY <1>2, <2>3, <2>5, <3>1, Complaints DEF Complaint
  <2>9. QED
    BY <2>6, <2>7, <2>8
<1>7. ASSUME NEW memory \in BOOLEAN, CountDests(memory)
      PROVE  (err = "MEMORY_ERROR" \/ Complains(err))'
  <2> DEFINE o   == OutOpt(family)
             csv == prog_opts[o]
             fam == FamilyOf(family)
             n   == CsvCount(fam, csv, ifs)
  <2>1. rc_mode \in Mode /\ family \in TxStream /\ Given(o)
    BY <1>1, <1>7 DEF CountDests, Places, ModeFits, TxSteps, Tx
  <2>2. /\ UNCHANGED <<prog_opts, ifs>>
        /\ \/ err' = "MEMORY_ERROR"
           \/ /\ n = -1
              /\ err' = IF family = "inet_out" THEN "INET_DST_ADDR" ELSE "INET6_DST_ADDR"
    BY <1>7, <2>1 DEF CountDests, Reject, Mode
  <2>3. CASE n = -1
    <3>1. csv \in Seq(Text(Form)) /\ fam \in Family
      BY <1>1, <2>1, ArgumentTypes, FamilyType DEF Stream
    <3>2. PICK i \in DOMAIN csv : AipPtoh(fam, csv[i], ifs).err \notin Tolerated(fam)
      <4>1. Len(Kept(fam, csv, ifs)) # -1
        <5>1. Len(Kept(fam, csv, ifs)) \in Nat
          BY <3>1, FilledList
        <5>2. QED
          BY <5>1
      <4>2. QED
        BY <2>3, <4>1 DEF CsvCount
    <3> DEFINE x == csv[i]
    <3>3. /\ x \in Text(Form) /\ x \in Listed(o)
          /\ fam = "inet" => o = "4out" /\ family = "inet_out" /\ x.form = "whole"
          /\ fam = "inet6" => o = "6out" /\ family # "inet_out"
      <4>1. x \in Text(Form) /\ x \in Listed(o)
        BY <2>1, <3>1 DEF Listed
      <4>2. /\ fam = "inet" => o = "4out" /\ family = "inet_out"
            /\ fam = "inet6" => o = "6out" /\ family # "inet_out"
        BY <2>1 DEF FamilyOf, OutOpt, TxStream
      <4>3. Given("4out") => \A k \in DOMAIN prog_opts["4out"] :
                               prog_opts["4out"][k].form = "whole"
        BY <1>1, ArgumentTypes
      <4> HIDE DEF fam
      <4>4. fam = "inet" => x.form = "whole"
        BY <2>1, <4>2, <4>3
      <4>5. QED
        BY <4>1, <4>2, <4>4
    <3> HIDE DEF fam, x, o
    <3>4. fam = "inet" => NoAddr(x) \/ (NoPort(x) /\ IntfKnown(x))
      BY <3>1, <3>2, <3>3, Diagnosis DEF Tolerated, x
    <3>5. fam = "inet6" => NoAddr(x) \/ NoPort(x)
      BY <3>1, <3>2, <3>3, Diagnosis DEF Tolerated, x
    <3>6. CASE fam = "inet"
      <4>1. Complains("INET_DST_ADDR")
        BY <3>3, <3>4, <3>6, Complaints
      <4>2. QED
        BY <1>2, <2>2, <3>3, <3>6, <4>1 DEF Complaint
    <3>7. CASE fam = "inet6"
      <4>1. Complains("INET6_DST_ADDR")
        BY <3>3, <3>5, <3>7, Complaints
      <4>2. QED
        BY <1>2, <2>2, <3>3, <3>7, <4>1 DEF Complaint
    <3>8. QED
      BY <3>1, <3>6, <3>7 DEF Family
  <2>4. QED
    BY <2>2, <2>3
<1>8. CASE FillDests
  <2>1. rc_mode \in Mode /\ UNCHANGED rc_mode
    BY <1>1, <1>8 DEF FillDests, Places, TxSteps
  <2>2. QED
    BY <2>1 DEF Mode
<1>9. CASE SetTtl
  <2>1. rc_mode \in Mode /\ family \in TxStream /\ Given(OutOpt(family))
    BY <1>1, <1>9 DEF SetTtl, Places, ModeFits, TxSteps, Tx
  <2>2. /\ Given(TtlOpt(family)) /\ ~TtlInRange(prog_opts[TtlOpt(family)])
        /\ err' = IF family = "inet_out" THEN "INET_TX_MCTTL_RANGE"
                                         ELSE "INET6_TX_HOPS_RANGE"
        /\ UNCHANGED <<prog_opts, ifs>>
    BY <1>9, <2>1 DEF SetTtl, Reject, Mode
  <2>3. ~(Wrote(TtlOpt(family)) \subseteq Ttl)
    <3>1. prog_opts[TtlOpt(family)] \in Int
      BY <1>1, <2>1, <2>2, ArgumentTypes
    <3>2. prog_opts[TtlOpt(family)] \notin Ttl
      BY <2>2, <3>1, TtlRange
    <3>3. QED
      BY <2>2, <3>2 DEF Wrote
  <2>4. CASE family = "inet_out"
    BY <1>2, <2>1, <2>2, <2>3, <2>4, Complaints DEF Complaint, TtlOpt, OutOpt
  <2>5. CASE family = "inet6_out"
    BY <1>2, <2>1, <2>2, <2>3, <2>5, Complaints DEF Complaint, TtlOpt, OutOpt
  <2>6. QED
    BY <2>1, <2>4, <2>5 DEF TxStream
<1>10. CASE SetOutIf
  <2>1. rc_mode \in Mode /\ family \in TxStream /\ Given(OutOpt(family))
    BY <1>1, <1>10 DEF SetOutIf, Places, ModeFits, TxSteps, Tx
  <2>2. /\ Given(OutIfOpt(family))
        /\ ~OutIfFound(family, prog_opts[OutIfOpt(family)], ifs)
        /\ err' = IF family = "inet_out" THEN "INET_OUT_INTF" ELSE "INET6_OUT_INTF"
        /\ UNCHANGED <<prog_opts, ifs>>
    BY <1>10, <2>1 DEF SetOutIf, Proceed, Reject, Mode
  <2>3. prog_opts[OutIfOpt(family)] \in Wrote(OutIfOpt(family))
    BY <2>2 DEF Wrote
  <2>4. CASE family = "inet_out"
    <3>1. ~(Wrote("4mcoutif") \subseteq ifs \cup {IfAddr})
      BY <2>2, <2>3, <2>4 DEF OutIfOpt, OutIfFound, InetIfAddr
    <3>2. QED
      BY <1>2, <2>1, <2>2, <2>4, <3>1, Complaints DEF Complaint, OutOpt
  <2>5. CASE family = "inet6_out"
    <3>1. ~(Wrote("6mcoutif") \subseteq ifs)
      BY <2>2, <2>3, <2>5 DEF OutIfOpt, OutIfFound
    <3>2. QED
      BY <1>2, <2>1, <2>2, <2>5, <3>1, Complaints DEF Complaint, OutOpt
  <2>6. QED
    BY <2>1, <2>4, <2>5 DEF TxStream
<1>11. ASSUME NEW i \in Interfaces, IfChange(i) PROVE FALSE
  BY <1>1, <1>11 DEF IfChange, OptionsTypeOK
<1>12. ASSUME UNCHANGED optvars PROVE (err = "MEMORY_ERROR" \/ Complains(err))'
  BY <1>3, <1>12 DEF optvars
<1>13. QED
  BY <1>4, <1>5, <1>6, <1>7, <1>8, <1>9, <1>10, <1>11, <1>12, StepCases
  DEF IfChanges, Open, OpenFails, Stays, vars

(* And an accepted command line has nothing wrong with it. *)
LEMMA AcceptedTruly ==
  ASSUME SocketsInv, changes = 0, at = "done", rc_mode \in Mode
  PROVE  \A e \in Complaint : ~Complains(e)
<1> DEFINE r    == Rx(rc_mode)
           text == prog_opts[InOpt(r)]
<1>1. OptionsTypeOK /\ ModeFits
  BY DEF SocketsInv
<1>2. r \in RxStream /\ Given(InOpt(r))
  BY <1>1 DEF ModeFits, Rx, RxStream
<1>3. /\ ~Given("unknown")
      /\ Given("4in") <=> r = "inet_in"
      /\ Given("6in") <=> r = "inet6_in"
  BY <1>1 DEF ModeFits, InOpt, RxStream
<1>4. /\ Given("4out") <=> "inet_out" \in Tx(rc_mode)
      /\ Given("6out") <=> "inet6_out" \in Tx(rc_mode)
      /\ "inet_out" \in Tx(rc_mode) \/ "inet6_out" \in Tx(rc_mode)
  <2>1. "inet_out" \in Tx(rc_mode) \/ "inet6_out" \in Tx(rc_mode)
    BY DEF Tx, TxStream, Mode
  <2>2. QED
    BY <1>1, <2>1 DEF ModeFits, OutOpt, TxStream
<1>5. /\ text \in Text(Form) /\ FamilyOf(r) \in Family
      /\ FamilyOf(r) = "inet" => text.form = "whole"
      /\ r = "inet_in" => FamilyOf(r) = "inet"
      /\ Wrote("4in") \cup Wrote("6in") = {text}
      /\ r # "inet_in" => Wrote("4in") = {}
  <2>1. FamilyOf(r) = "inet" => r = "inet_in"
    BY <1>2 DEF FamilyOf, RxStream
  <2>2. r = "inet_in" => FamilyOf(r) = "inet" /\ InOpt(r) = "4in"
    BY DEF FamilyOf, InOpt
  <2>3. r = "inet6_in" => InOpt(r) = "6in"
    BY DEF InOpt
  <2>4. text \in Text(Form) /\ FamilyOf(r) \in Family
    BY <1>1, <1>2, ArgumentTypes, FamilyType DEF Stream
  <2>5. r = "inet_in" => text.form = "whole"
    BY <1>1, <1>3, <2>2, ArgumentTypes
  <2> HIDE DEF r
  <2>6. Wrote("4in") \cup Wrote("6in") = {text} /\ (r # "inet_in" => Wrote("4in") = {})
    BY <1>2, <1>3, <2>2, <2>3 DEF Wrote, RxStream
  <2>7. QED
    BY <2>1, <2>2, <2>4, <2>5, <2>6
<1>6. /\ ~NoAddr(text) /\ ~NoHost(text)
      /\ r = "inet_in" => IntfKnown(text)
  <2> DEFINE p == AipPtoh(FamilyOf(r), text, ifs)
  <2>1. p.err = "NONE" /\ p.port # 0
    BY DEF SocketsInv, SourceRead, Seen
  <2>2. /\ ~NoAddr(text) /\ ~NoPort(text) /\ p.port = WrittenPort(text)
        /\ FamilyOf(r) = "inet" => IntfKnown(text)
    BY <1>5, <2>1, Diagnosis
  <2> HIDE DEF p, text, r
  <2>3. QED
    BY <1>5, <2>1, <2>2 DEF NoHost
<1>7. ASSUME NEW t \in Tx(rc_mode), NEW x \in Listed(OutOpt(t))
      PROVE  /\ ~NoAddr(x)
             /\ t = "inet_out" => ~(NoPort(x) /\ IntfKnown(x))
             /\ t # "inet_out" => ~NoPort(x)
  <2> DEFINE fam == FamilyOf(t)
             csv == prog_opts[OutOpt(t)]
  <2>1. fam \in Family /\ csv \in Seq(Text(Form)) /\ t \in TxStream /\ Given(OutOpt(t))
    BY AcceptedDests
  <2>2. CsvCount(fam, csv, ifs) # -1
    BY AcceptedDests DEF RoomMade, Seen
  <2>3. PICK i \in DOMAIN csv : x = csv[i]
    BY <2>1, <1>7 DEF Listed
  <2>4. AipPtoh(fam, x, ifs).err \in Tolerated(fam)
    BY <2>1, <2>2, <2>3, CountedList
  <2>5. /\ x \in Text(Form)
        /\ fam = "inet" <=> t = "inet_out"
        /\ fam = "inet" => x.form = "whole"
    <3>1. x \in Text(Form)
      BY <2>1, <2>3
    <3>2. /\ fam = "inet" <=> t = "inet_out"
          /\ t = "inet_out" => OutOpt(t) = "4out"
      BY <2>1 DEF FamilyOf, OutOpt, TxStream
    <3>3. Given("4out") => \A k \in DOMAIN prog_opts["4out"] :
                             prog_opts["4out"][k].form = "whole"
      BY <1>1, ArgumentTypes
    <3> HIDE DEF fam
    <3>4. t = "inet_out" => x.form = "whole"
      BY <2>1, <2>3, <3>2, <3>3
    <3>5. QED
      BY <3>1, <3>2, <3>4
  <2> HIDE DEF fam, csv
  <2>6. QED
    BY <2>1, <2>4, <2>5, Diagnosis DEF Tolerated
<1>8. ASSUME NEW t \in Tx(rc_mode) PROVE Wrote(TtlOpt(t)) \subseteq Ttl
  <2>1. tx_parms[t] \in TxParms /\ tx_parms[t].mc_ttl = Asked(TtlOpt(t), 1)
    BY AcceptedDests DEF TuningRead
  <2>2. Asked(TtlOpt(t), 1) \in Ttl
    BY <2>1 DEF TxParms
  <2>3. QED
    BY <2>2 DEF Asked, Wrote
<1>9. ASSUME NEW t \in Tx(rc_mode), Given(OutIfOpt(t))
      PROVE  OutIfFound(t, prog_opts[OutIfOpt(t)], ifs)
  <2>1. OutIfRead(t) /\ Past(t)
    BY AcceptedDests
  <2>2. QED
    BY <1>9, <2>1 DEF OutIfRead, Asked, Seen
<1> HIDE DEF r, text
<1>10. /\ ~Complains("UNKNOWN_OPT") /\ ~Complains("NO_SRC_ADDR")
       /\ ~Complains("MULTI_SRC_ADDRS") /\ ~Complains("NO_DST_ADDRS")
  BY <1>2, <1>3, <1>4, Complaints DEF RxStream
<1>11. ~Complains("SRC_GRP_ADDR") /\ ~Complains("SRC_PORT")
  BY <1>5, <1>6, Complaints
<1>12. ~Complains("IF_ADDR")
  BY <1>5, <1>6, Complaints
<1>13. ~Complains("INET_DST_ADDR") /\ ~Complains("INET6_DST_ADDR")
  <2>1. \A x \in Listed("4out") : ~NoAddr(x) /\ ~(NoPort(x) /\ IntfKnown(x))
    BY <1>4, <1>7 DEF OutOpt, Listed
  <2>2. \A x \in Listed("6out") : ~NoAddr(x) /\ ~NoPort(x)
    BY <1>4, <1>7 DEF OutOpt, Listed
  <2>3. QED
    BY <2>1, <2>2, Complaints
<1>14. ~Complains("INET_TX_MCTTL_RANGE") /\ ~Complains("INET6_TX_HOPS_RANGE")
  BY <1>4, <1>8, Complaints DEF TtlOpt
<1>15. ~Complains("INET_OUT_INTF") /\ ~Complains("INET6_OUT_INTF")
  <2>1. Given("4out") => Wrote("4mcoutif") \subseteq ifs \cup {IfAddr}
    BY <1>4, <1>9 DEF OutIfOpt, OutIfFound, InetIfAddr, Wrote
  <2>2. Given("6out") => Wrote("6mcoutif") \subseteq ifs
    BY <1>4, <1>9 DEF OutIfOpt, OutIfFound, Wrote
  <2>3. QED
    BY <2>1, <2>2, Complaints
<1>16. QED
  BY <1>10, <1>11, <1>12, <1>13, <1>14, <1>15 DEF Complaint

(* The message that rejects a command line is true of it, and what is        *)
(* accepted deserves none, as long as no interface comes or goes meanwhile.  *)
THEOREM ErrorsDiagnosed == Spec => []Diagnosed
<1>1. Init => RejectedTruly
  BY DEF Init, OptionsInit, RejectedTruly
<1>2. SocketsInv /\ RejectedTruly /\ [Next]_vars => RejectedTruly'
  BY RejectedStep
<1>3. SocketsInv /\ RejectedTruly => Diagnosed
  BY AcceptedTruly DEF RejectedTruly, Diagnosed, Accepted
<1>4. QED
  BY <1>1, <1>2, <1>3, SocketsInvariantHolds, PTL DEF Spec

(* No destination is lost, added or moved, as long as no interface comes or  *)
(* goes meanwhile.                                                           *)
THEOREM ListsKept == Spec => []ListedIsKept
<1>1. SocketsInv => ListedIsKept
  <2> SUFFICES ASSUME SocketsInv, changes = 0, at = "done", rc_mode \in Mode,
                      NEW t \in Tx(rc_mode)
               PROVE
      LET csv   == prog_opts[OutOpt(t)]
          known == Selected(csv, {i \in DOMAIN csv : t = "inet6_out" \/ IntfKnown(csv[i])})
      IN /\ tx_parms[t].dests_num = Len(known)
         /\ \A i \in DOMAIN known :
              tx_parms[t].dests[i] =
                [addr |-> known[i].addr, port |-> WrittenPort(known[i])]
    BY DEF ListedIsKept, Accepted
  <2> DEFINE fam   == FamilyOf(t)
             csv   == prog_opts[OutOpt(t)]
             known == {i \in DOMAIN csv : t = "inet6_out" \/ IntfKnown(csv[i])}
             kept  == Kept(fam, csv, ifs)
  <2>1. fam \in Family /\ csv \in Seq(Text(Form)) /\ t \in TxStream /\ Given(OutOpt(t))
    BY AcceptedDests
  <2>2. \A i \in DOMAIN csv :
          /\ csv[i] \in Text(Form)
          /\ fam = "inet" => csv[i].form = "whole"
          /\ AipPtoh(fam, csv[i], ifs).err \in Tolerated(fam)
    <3>1. \A i \in DOMAIN csv : csv[i] \in Text(Form)
      BY <2>1
    <3>2. \A i \in DOMAIN csv : AipPtoh(fam, csv[i], ifs).err \in Tolerated(fam)
      <4>1. CsvCount(fam, csv, ifs) # -1
        BY AcceptedDests DEF RoomMade, Seen
      <4>2. QED
        BY <2>1, <4>1, CountedList
    <3>3. fam = "inet" => \A i \in DOMAIN csv : csv[i].form = "whole"
      <4>1. fam = "inet" => OutOpt(t) = "4out"
        BY <2>1 DEF FamilyOf, OutOpt, TxStream
      <4>2. Given("4out") => \A k \in DOMAIN prog_opts["4out"] :
                               prog_opts["4out"][k].form = "whole"
        BY ArgumentTypes DEF SocketsInv
      <4>3. QED
        BY <2>1, <4>1, <4>2
    <3>4. QED
      BY <3>1, <3>2, <3>3
  <2>3. fam = "inet6" <=> t = "inet6_out"
    BY <2>1 DEF FamilyOf, TxStream
  <2>4. \A i \in DOMAIN csv : Parses(fam, csv[i], ifs) <=> i \in known
    <3> TAKE i \in DOMAIN csv
    <3> DEFINE e == AipPtoh(fam, csv[i], ifs).err
    <3>1. /\ e \in Tolerated(fam)
          /\ e = "IFADDR" => fam = "inet" /\ ~IntfKnown(csv[i])
          /\ e = "NONE" => (fam = "inet" => IntfKnown(csv[i]))
      BY <2>1, <2>2, Diagnosis
    <3>2. Parses(fam, csv[i], ifs) <=> e = "NONE"
      BY DEF Parses
    <3>3. i \in known <=> t = "inet6_out" \/ IntfKnown(csv[i])
      OBVIOUS
    <3>4. fam = "inet" \/ fam = "inet6"
      BY <2>1 DEF Family
    <3> HIDE DEF e, fam, known
    <3>5. QED
      BY <2>3, <3>1, <3>2, <3>3, <3>4 DEF Tolerated
  <2>5. kept = Selected(csv, known)
    <3>1. {i \in DOMAIN csv : Parses(fam, csv[i], ifs)} = known
      BY <2>4
    <3>2. QED
      BY <3>1 DEF Kept
  <2>6. \A i \in 1..Len(kept) :
          Entry(fam, kept[i], ifs) = [addr |-> kept[i].addr, port |-> WrittenPort(kept[i])]
    <3> TAKE i \in 1..Len(kept)
    <3>1. kept \in Seq(Text(Form)) /\ Parses(fam, kept[i], ifs)
      BY <2>1, FilledList
    <3>2. kept[i] \in Text(Form)
      BY <3>1
    <3>3. fam = "inet" => kept[i].form = "whole"
      <4>1. \E k \in known : kept[i] = csv[k]
        <5>1. known \in SUBSET DOMAIN csv
          OBVIOUS
        <5> HIDE DEF known, kept, csv
        <5>2. /\ Len(Selected(csv, known)) = Cardinality(known)
              /\ \A n \in 1..Cardinality(known) :
                   \E k \in known : Selected(csv, known)[n] = csv[k]
          BY <2>1, <5>1, SelectedEntries
        <5>3. QED
          BY <2>5, <5>2
      <4>2. QED
        BY <2>2, <4>1
    <3>4. AipPtoh(fam, kept[i], ifs).port = WrittenPort(kept[i])
      BY <2>1, <3>2, <3>3, Diagnosis
    <3>5. AipPtoh(fam, kept[i], ifs).addr = kept[i].addr
      BY <2>1, <3>1, <3>2, ParsedAddress
    <3> HIDE DEF kept
    <3>6. QED
      BY <3>4, <3>5 DEF Entry
  <2>7. /\ tx_parms[t].dests_num = Len(kept)
        /\ \A i \in 1..Len(kept) : tx_parms[t].dests[i] = Entry(fam, kept[i], ifs)
    BY AcceptedList DEF Seen
  <2>8. DOMAIN Selected(csv, known) = 1..Len(kept)
    <3>1. kept \in Seq(Text(Form))
      BY <2>1, FilledList
    <3> HIDE DEF kept, known
    <3>2. QED
      BY <2>5, <3>1
  <2> HIDE DEF kept, known, csv, fam
  <2>9. /\ tx_parms[t].dests_num = Len(Selected(csv, known))
        /\ \A i \in DOMAIN Selected(csv, known) :
             tx_parms[t].dests[i] = [addr |-> Selected(csv, known)[i].addr,
                                     port |-> WrittenPort(Selected(csv, known)[i])]
    BY <2>5, <2>6, <2>7, <2>8
  <2>10. QED
    BY <2>9 DEF csv, known
<1>2. QED
  BY <1>1, SocketsInvariantHolds, PTL

-----------------------------------------------------------------------------
(* The listing of the parameters. *)

(* All of a sequence is selected by all of its indices. *)
LEMMA AllSelected ==
  ASSUME NEW T, NEW seq \in Seq(T)
  PROVE  Selected(seq, DOMAIN seq) = seq
<1> DEFINE n == Len(seq)
<1>1. n \in Nat /\ DOMAIN seq = 1..n /\ seq = [k \in 1..n |-> seq[k]]
  OBVIOUS
<1>2. Cardinality(1..n) = n
  BY <1>1, FS_Interval
<1>3. \A k \in 1..n : Cardinality({j \in 1..n : j <= k}) = k
  <2> TAKE k \in 1..n
  <2>1. {j \in 1..n : j <= k} = 1..k
    BY <1>1
  <2>2. Cardinality(1..k) = k
    BY FS_Interval
  <2>3. QED
    BY <2>1, <2>2
<1>4. \A k \in 1..n : Nth(1..n, k) = k
  BY <1>3 DEF Nth
<1> HIDE DEF n
<1>5. Selected(seq, 1..n) = [k \in 1..n |-> seq[k]]
  BY <1>2, <1>4 DEF Selected
<1>6. QED
  BY <1>1, <1>5

(* What is printed is read again as what it was, if its interface is there. *)
LEMMA PrintedParses ==
  ASSUME NEW fam \in Family, NEW addr \in Addr, NEW port \in Port,
         NEW intf \in ifs \cup {"any"} \cup (IF fam = "inet" THEN {IfAddr} ELSE {}),
         ifs \in SUBSET Interfaces
  PROVE  LET p == AipPtoh(fam, AipHtop(fam, addr, intf, port, ifs), ifs) IN
         p.err = "NONE" /\ p.addr = addr /\ p.port = port /\ p.if_addr = intf
<1> DEFINE text == AipHtop(fam, addr, intf, port, ifs)
<1>1. /\ text.addr = addr /\ text.port = port /\ text.form = "whole"
      /\ text.intf = IF intf = "any" THEN "none" ELSE intf
  BY DEF AipHtop
<1>2. "none" \notin ifs /\ "any" \notin ifs /\ IfAddr # "none" /\ IfAddr # "any"
  BY InterfacesAssumption DEF IfAddr
<1>3. ~BadPort(port) /\ addr # "bad"
  <2>1. port \in Int
    BY PortNumber
  <2>2. QED
    BY <2>1, PortRange DEF Addr
<1> HIDE DEF text
<1>4. CASE fam = "inet"
  BY <1>1, <1>2, <1>3, <1>4 DEF AipPtoh, AipPtohInet, InetIfAddr, text
<1>5. CASE fam = "inet6"
  BY <1>1, <1>2, <1>3, <1>5 DEF AipPtoh, AipPtohInet6, text
<1>6. QED
  BY <1>4, <1>5 DEF Family

(* The listing of a relay is a command line for the same relay.              *)
THEOREM ListingTrue == Spec => []ListingRestarts
<1>1. SocketsInv => ListingRestarts
  <2> SUFFICES ASSUME SocketsInv, opening = "loop", InUse \subseteq ifs \cup {"any", IfAddr}
               PROVE
      /\ LET r == Rx(rc_mode)
             p == AipPtoh(FamilyOf(r), LogRx(r), ifs)
         IN /\ p.err = "NONE"
            /\ rx_parms[r] = [rx_addr |-> p.addr, port |-> p.port, in_intf |-> p.if_addr]
      /\ \A t \in Tx(rc_mode) :
           LET log == LogTx(t)  p == tx_parms[t] IN
           p.dests_num > 0 =>
             /\ CsvCount(FamilyOf(t), log.dests, ifs) = p.dests_num
             /\ CsvFill(FamilyOf(t), log.dests, ifs) = p.dests
             /\ IF log.out_intf = "rt table" THEN p.out_intf = "any"
                ELSE OutIfFound(t, log.out_intf, ifs) /\ log.out_intf = p.out_intf
             /\ TtlInRange(log.ttl)
    BY DEF ListingRestarts, Running
  <2>1. at = "done" /\ rc_mode \in Mode /\ ifs \in SUBSET Interfaces
    BY DEF SocketsInv, KernelTold, OptionsTypeOK
  <2>2. ASSUME NEW r, r = Rx(rc_mode)
        PROVE  LET p == AipPtoh(FamilyOf(r), LogRx(r), ifs) IN
               /\ p.err = "NONE"
               /\ rx_parms[r] = [rx_addr |-> p.addr, port |-> p.port, in_intf |-> p.if_addr]
    <3> DEFINE text == prog_opts[InOpt(r)]
               fam  == FamilyOf(r)
    <3>1. r \in RxStream /\ Given(InOpt(r))
      BY <2>1, <2>2 DEF SocketsInv, ModeFits, Rx, RxStream
    <3>2. text \in Text(Form) /\ fam \in Family
      BY <3>1, ArgumentTypes, FamilyType DEF SocketsInv, Stream
    <3>3. PICK hosts \in SUBSET Interfaces :
            LET q == AipPtoh(fam, text, hosts) IN
            /\ q.err = "NONE"
            /\ rx_parms[r] = [rx_addr |-> q.addr, port |-> q.port, in_intf |-> q.if_addr]
      BY <2>1, <2>2 DEF SocketsInv, SourceRead
    <3> DEFINE q == AipPtoh(fam, text, hosts)
    <3>4. q.addr \in Addr /\ q.port \in Port
      BY <3>2, <3>3, ParsedAddress DEF Parses
    <3>5. fam = "inet6" => q.if_addr \in Interfaces \cup {"any"}
      BY <3>3 DEF AipPtoh, AipPtohInet6
    <3> HIDE DEF q, fam
    <3>6. /\ rx_parms[r] = [rx_addr |-> q.addr, port |-> q.port, in_intf |-> q.if_addr]
          /\ LogRx(r) = AipHtop(fam, q.addr, q.if_addr, q.port, ifs)
      BY <3>3 DEF LogRx, q, fam
    <3>7. q.if_addr \in ifs \cup {"any", IfAddr}
      BY <2>2, <3>6 DEF InUse
    <3>8. q.if_addr \in ifs \cup {"any"} \cup (IF fam = "inet" THEN {IfAddr} ELSE {})
      <4>1. IfAddr \notin Interfaces /\ IfAddr # "any"
        BY InterfacesAssumption DEF IfAddr
      <4>2. QED
        BY <3>2, <3>5, <3>7, <4>1 DEF Family
    <3>9. LET p == AipPtoh(fam, LogRx(r), ifs) IN
          p.err = "NONE" /\ p.addr = q.addr /\ p.port = q.port /\ p.if_addr = q.if_addr
      BY <2>1, <3>2, <3>4, <3>6, <3>8, PrintedParses
    <3>10. QED
      BY <3>6, <3>9 DEF fam
  <2>3. ASSUME NEW t \in Tx(rc_mode)
        PROVE  LET log == LogTx(t)  p == tx_parms[t] IN
               /\ CsvCount(FamilyOf(t), log.dests, ifs) = p.dests_num
               /\ CsvFill(FamilyOf(t), log.dests, ifs) = p.dests
    <3> DEFINE fam   == FamilyOf(t)
               dests == tx_parms[t].dests
               num   == tx_parms[t].dests_num
               texts == LogTx(t).dests
    <3>1. fam \in Family /\ tx_parms[t] \in TxParms
      BY <2>1, AcceptedDests
    <3>2. dests \in Seq(DestEntry)
      BY <3>1 DEF TxParms
    <3>3. /\ num \in Nat /\ DOMAIN dests = 1..(num + 1)
          /\ \A i \in DOMAIN dests : dests[i] = Sentinel <=> i = num + 1
      BY <2>1, AcceptedList
    <3>4. \A i \in 1..num : dests[i].addr \in Addr
      <4>1. prog_opts[OutOpt(t)] \in Seq(Text(Form))
        BY <2>1, AcceptedDests
      <4>2. PICK hosts \in SUBSET Interfaces :
              LET kept == Kept(fam, prog_opts[OutOpt(t)], hosts) IN
              num = Len(kept) /\ \A i \in 1..num : dests[i] = Entry(fam, kept[i], hosts)
        BY <2>1, AcceptedList
      <4> DEFINE kept == Kept(fam, prog_opts[OutOpt(t)], hosts)
      <4>3. kept \in Seq(Text(Form)) /\ \A i \in 1..Len(kept) : Parses(fam, kept[i], hosts)
        BY <3>1, <4>1, FilledList
      <4>4. \A i \in 1..num : kept[i] \in Text(Form) /\ Parses(fam, kept[i], hosts)
        <5> HIDE DEF kept
        <5>1. QED
          BY <4>2, <4>3 DEF kept
      <4>5. \A i \in 1..num : AipPtoh(fam, kept[i], hosts).addr \in Addr
        BY <3>1, <4>4, ParsedAddress
      <4>6. \A i \in 1..num : dests[i].addr = AipPtoh(fam, kept[i], hosts).addr
        <5>1. \A i \in 1..num : dests[i] = Entry(fam, kept[i], hosts)
          BY <4>2
        <5> HIDE DEF kept, fam, dests, num
        <5> SUFFICES ASSUME NEW i \in 1..num
                     PROVE  dests[i].addr = AipPtoh(fam, kept[i], hosts).addr
          OBVIOUS
        <5>2. dests[i] = Entry(fam, kept[i], hosts)
          BY <5>1
        <5> DEFINE read == AipPtoh(fam, kept[i], hosts)
        <5>3. dests[i] = [addr |-> read.addr, port |-> read.port]
          BY <5>2 DEF Entry
        <5> HIDE DEF read
        <5>4. dests[i].addr = read.addr
          BY <5>3
        <5>5. QED
          BY <5>4 DEF read
      <4>7. QED
        BY <4>5, <4>6
    <3>5. \A i \in 1..num : /\ dests[i] = [addr |-> dests[i].addr, port |-> dests[i].port]
                            /\ dests[i].port \in Port
      <4>1. \A i \in 1..num : dests[i] \in DestEntry
        BY <3>2, <3>3
      <4>2. QED
        BY <4>1 DEF DestEntry
    <3>6. texts = [i \in 1..num |-> ApHtop(fam, dests[i].addr, dests[i].port)]
      BY DEF LogTx
    <3> HIDE DEF fam, dests, num, texts
    <3>7. \A i \in 1..num : /\ texts[i] \in Text(Form)
                            /\ Parses(fam, texts[i], ifs)
                            /\ AipPtoh(fam, texts[i], ifs).err = "NONE"
                            /\ Entry(fam, texts[i], ifs) = dests[i]
      <4> TAKE i \in 1..num
      <4> DEFINE a == dests[i].addr
                 o == dests[i].port
      <4>1. a \in Addr /\ o \in Port /\ dests[i] = [addr |-> a, port |-> o]
        BY <3>4, <3>5
      <4> HIDE DEF a, o
      <4>2. /\ texts[i] = [addr |-> a, intf |-> "none", port |-> o, form |-> "whole"]
            /\ texts[i] = AipHtop(fam, a, "any", o, ifs)
        <5>1. texts[i] = ApHtop(fam, a, o)
          BY <3>6 DEF a, o
        <5>2. ApHtop(fam, a, o) = AipHtop(fam, a, "any", o, {})
          BY DEF ApHtop
        <5>3. \A hosts : AipHtop(fam, a, "any", o, hosts) =
                           [addr |-> a, intf |-> "none", port |-> o, form |-> "whole"]
          BY DEF AipHtop
        <5>4. QED
          BY <5>1, <5>2, <5>3
      <4>3. o \in Int
        BY <4>1, PortNumber
      <4>4. texts[i] \in Text(Form)
        <5>1. a \in Addr \cup {"bad"} /\ "whole" \in Form
          BY <4>1 DEF Form
        <5>2. QED
          BY <4>2, <4>3, <5>1 DEF Text
      <4>5. LET p == AipPtoh(fam, texts[i], ifs) IN
            p.err = "NONE" /\ p.addr = a /\ p.port = o
        BY <2>1, <3>1, <4>1, <4>2, PrintedParses
      <4>6. Entry(fam, texts[i], ifs) = [addr |-> a, port |-> o]
        BY <4>5 DEF Entry
      <4>7. QED
        BY <4>1, <4>4, <4>5, <4>6 DEF Parses
    <3>8. texts \in Seq(Text(Form)) /\ DOMAIN texts = 1..num /\ Len(texts) = num
      <4>1. texts = [i \in 1..num |-> texts[i]]
        BY <3>6
      <4>2. \A i \in 1..num : texts[i] \in Text(Form)
        BY <3>7
      <4>3. QED
        BY <3>3, <4>1, <4>2
    <3>9. Kept(fam, texts, ifs) = texts
      <4>1. {i \in DOMAIN texts : Parses(fam, texts[i], ifs)} = DOMAIN texts
        BY <3>7, <3>8
      <4>2. QED
        BY <3>8, <4>1, AllSelected DEF Kept
    <3>10. CsvCount(fam, texts, ifs) = num
      <4>1. \A i \in DOMAIN texts : AipPtoh(fam, texts[i], ifs).err \in Tolerated(fam)
        BY <3>7, <3>8 DEF Tolerated
      <4>2. QED
        BY <3>8, <3>9, <4>1 DEF CsvCount
    <3>11. CsvFill(fam, texts, ifs) = dests
      <4> DEFINE list == [i \in 1..num |-> Entry(fam, texts[i], ifs)]
      <4>1. CsvFill(fam, texts, ifs) = Append(list, Sentinel)
        BY <3>8, <3>9 DEF CsvFill
      <4>2. /\ \A i \in 1..num : list[i] = dests[i] /\ dests[i] \in DestEntry
            /\ dests[num + 1] = Sentinel /\ Sentinel \in DestEntry
        BY <3>2, <3>3, <3>7
      <4>3. list \in Seq(DestEntry) /\ Len(list) = num
        BY <3>3, <4>2
      <4> HIDE DEF list
      <4>4. /\ DOMAIN Append(list, Sentinel) = 1..(num + 1)
            /\ \A i \in 1..num : Append(list, Sentinel)[i] = list[i]
            /\ Append(list, Sentinel)[num + 1] = Sentinel
        BY <3>3, <4>2, <4>3
      <4>5. Append(list, Sentinel) \in Seq(DestEntry)
        BY <4>2, <4>3
      <4>6. \A i \in 1..(num + 1) : Append(list, Sentinel)[i] = dests[i]
        <5> TAKE i \in 1..(num + 1)
        <5>1. i \in 1..num \/ i = num + 1
          BY <3>3
        <5>2. QED
          BY <4>2, <4>4, <5>1
      <4>7. Append(list, Sentinel) = dests
        <5> DEFINE full == Append(list, Sentinel)
        <5> HIDE DEF full
        <5>1. /\ full \in Seq(DestEntry) /\ DOMAIN full = DOMAIN dests
              /\ \A i \in DOMAIN full : full[i] = dests[i]
          BY <3>3, <4>4, <4>5, <4>6 DEF full
        <5>2. full = dests
          BY <3>2, <5>1
        <5>3. QED
          BY <5>2 DEF full
      <4>8. QED
        BY <4>1, <4>7
    <3>12. QED
      BY <3>10, <3>11 DEF fam, dests, num, texts
  <2>4. ASSUME NEW t \in Tx(rc_mode)
        PROVE  LET log == LogTx(t)  p == tx_parms[t] IN
               /\ IF log.out_intf = "rt table" THEN p.out_intf = "any"
                  ELSE OutIfFound(t, log.out_intf, ifs) /\ log.out_intf = p.out_intf
               /\ TtlInRange(log.ttl)
    <3> DEFINE out == tx_parms[t].out_intf
               log == LogTx(t)
    <3>1. /\ t \in TxStream /\ tx_parms[t] \in TxParms /\ Past(t) /\ OutIfRead(t)
      BY <2>1, AcceptedDests
    <3>2. /\ log.ttl = tx_parms[t].mc_ttl
          /\ log.out_intf = IF out = "any" THEN "rt table"
                            ELSE IF t = "inet6_out" /\ out \notin ifs THEN "unset" ELSE out
      BY DEF LogTx
    <3>3. TtlInRange(log.ttl)
      <4>1. log.ttl \in Ttl
        BY <3>1, <3>2 DEF TxParms
      <4>2. log.ttl \in Int
        BY <4>1 DEF Ttl
      <4>3. QED
        BY <4>1, <4>2, TtlRange
    <3>4. out \in ifs \cup {"any", IfAddr}
      BY DEF InUse
    <3>5. (t = "inet6_out" /\ out # "any") => out \in Interfaces
      <4> SUFFICES ASSUME t = "inet6_out", out # "any" PROVE out \in Interfaces
        OBVIOUS
      <4>1. Given(OutIfOpt(t))
        BY <3>1 DEF OutIfRead, Asked
      <4>2. PICK hosts \in SUBSET Interfaces : OutIfFound(t, out, hosts)
        BY <3>1, <4>1 DEF OutIfRead
      <4>3. QED
        BY <4>2 DEF OutIfFound
    <3>6. /\ IfAddr \notin Interfaces /\ "rt table" \notin Interfaces
          /\ IfAddr # "rt table" /\ IfAddr # "any"
      BY InterfacesAssumption DEF IfAddr
    <3> HIDE DEF out, log
    <3>7. IF log.out_intf = "rt table" THEN out = "any"
          ELSE OutIfFound(t, log.out_intf, ifs) /\ log.out_intf = out
      <4>1. CASE out = "any"
        BY <3>2, <4>1
      <4>2. CASE out # "any"
        <5>1. t = "inet6_out" => out \in ifs
          BY <3>4, <3>5, <3>6, <4>2
        <5>2. log.out_intf = out /\ out # "rt table"
          BY <2>1, <3>2, <3>4, <3>6, <4>2, <5>1
        <5>3. OutIfFound(t, out, ifs)
          BY <3>1, <3>4, <4>2, <5>1 DEF OutIfFound, InetIfAddr, TxStream
        <5>4. QED
          BY <5>2, <5>3
      <4>3. QED
        BY <4>1, <4>2
    <3>8. QED
      BY <3>3, <3>7 DEF out, log
  <2>5. QED
    BY <2>2, <2>3, <2>4
<1>2. QED
  BY <1>1, SocketsInvariantHolds, PTL
=============================================================================
