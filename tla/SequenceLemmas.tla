--------------------------- MODULE SequenceLemmas ---------------------------
(* What the proofs about log_msg_syslog_va() need to know of sequences: a    *)
(* least element takes the place of induction, and FlattenSeq, which the     *)
(* community modules define recursively, is computed from it.                *)
EXTENDS SequencesExt, SequenceTheorems, WellFoundedInduction, TLAPS

LEMMA LessThan == \E R : IsWellFoundedOn(R, Nat) /\ \A m, n \in Nat : m < n => <<m, n>> \in R
<1>. DEFINE R == {ss \in Nat \X Nat : ss[1] < ss[2]}
<1>1. IsWellFoundedOn(R, Nat)
  BY NatLessThanWellFounded DEF OpToRel
<1>2. \A m, n \in Nat : m < n => <<m, n>> \in R
  OBVIOUS
<1>. HIDE DEF R
<1>. QED
  BY <1>1, <1>2

LEMMA LeastElement ==
  ASSUME NEW T \in SUBSET Nat, T # {}
  PROVE  \E m \in T : \A n \in T : m <= n
<1>1. PICK R : IsWellFoundedOn(R, Nat) /\ \A m, n \in Nat : m < n => <<m, n>> \in R
  BY LessThan
<1>2. PICK x \in T : \A y \in T : ~ (<<y, x>> \in R)
  <2>1. IsWellFoundedOn(R, Nat)
    BY <1>1
  <2>2. T \subseteq Nat /\ T # {}
    OBVIOUS
  <2>. QED
    BY <2>1, <2>2, WFMin, Zenon
<1>3. x \in Nat /\ \A n \in T : n \in Nat
  OBVIOUS
<1>4. \A n \in T : ~(n < x)
  BY <1>1, <1>2, <1>3
<1>. QED
  BY <1>3, <1>4

(* Induction, for a set of numbers in place of a predicate.                  *)
LEMMA SetInduction ==
  ASSUME NEW T, 0 \in T, \A n \in Nat : n \in T => n + 1 \in T
  PROVE  Nat \subseteq T
<1>. DEFINE Rest == Nat \ T
<1>1. SUFFICES ASSUME Rest # {} PROVE FALSE
  OBVIOUS
<1>2. PICK m \in Rest : \A n \in Rest : m <= n
  <2>. HIDE DEF Rest
  <2>1. Rest \in SUBSET Nat
    BY DEF Rest
  <2>. QED
    BY <1>1, <2>1, LeastElement
<1>3. m # 0 /\ m - 1 \in Nat /\ m - 1 \in T
  BY <1>2
<1>. QED
  BY <1>2, <1>3

LEMMA GreatestElement ==
  ASSUME NEW T \in SUBSET Nat, T # {}, NEW b \in Nat, \A n \in T : n <= b
  PROVE  \E m \in T : \A n \in T : n <= m
<1>. DEFINE Mirror == {b - n : n \in T}
<1>1. Mirror \in SUBSET Nat /\ Mirror # {}
  <2>1. \A n \in T : n \in Nat /\ b - n \in Nat
    OBVIOUS
  <2>. QED
    BY <2>1
<1>2. PICK x \in Mirror : \A y \in Mirror : x <= y
  <2>. HIDE DEF Mirror
  <2>. QED
    BY <1>1, LeastElement
<1>3. PICK m \in T : x = b - m
  OBVIOUS
<1>4. ASSUME NEW n \in T PROVE n <= m
  <2>1. b - m <= b - n
    BY <1>2, <1>3
  <2>. QED
    BY <2>1
<1>. QED
  BY <1>4

-----------------------------------------------------------------------------
(* f[k] is what the first k sequences of seqs come to.                       *)
Flattening(f, seqs) ==
  f = [k \in 1..Len(seqs) |-> IF k = 1 THEN seqs[k] ELSE f[k - 1] \o seqs[k]]

LEMMA FlatteningOne ==
  ASSUME NEW S, NEW x \in Seq(S)
  PROVE  \E f : Flattening(f, <<x>>) /\ f[1] = x
<1>. DEFINE f == [k \in 1..1 |-> x]
<1>1. f = [k \in 1..Len(<<x>>) |-> IF k = 1 THEN <<x>>[k] ELSE f[k - 1] \o <<x>>[k]]
  OBVIOUS
<1>. QED
  BY <1>1 DEF Flattening

(* One more sequence adds one more value.                                    *)
LEMMA FlatteningMore ==
  ASSUME NEW S, NEW seqs \in Seq(Seq(S)), seqs # <<>>, NEW x \in Seq(S),
         NEW f, Flattening(f, seqs)
  PROVE  \E g : Flattening(g, Append(seqs, x)) /\ g[Len(seqs) + 1] = f[Len(seqs)] \o x
<1>. DEFINE n == Len(seqs)
            more == Append(seqs, x)
            g == [k \in 1..(n + 1) |-> IF k = n + 1 THEN f[n] \o x ELSE f[k]]
<1>1. n \in Nat /\ n >= 1 /\ Len(more) = n + 1 /\ more[n + 1] = x
      /\ \A k \in 1..n : more[k] = seqs[k]
  OBVIOUS
<1>2. \A k \in 1..n : f[k] = IF k = 1 THEN seqs[k] ELSE f[k - 1] \o seqs[k]
  BY DEF Flattening
<1>. HIDE DEF n, more
<1>3. ASSUME NEW k \in 1..(n + 1)
      PROVE  g[k] = IF k = 1 THEN more[k] ELSE g[k - 1] \o more[k]
  <2>1. CASE k = n + 1
    <3>1. n \in 1..(n + 1) /\ n # n + 1 /\ n + 1 # 1 /\ (n + 1) - 1 = n
      BY <1>1
    <3>2. g[n] = f[n] /\ g[n + 1] = f[n] \o x
      BY <1>1, <3>1
    <3>. HIDE DEF g
    <3>. QED
      BY <1>1, <2>1, <3>1, <3>2
  <2>2. CASE k # n + 1 /\ k # 1
    <3>1. k \in 1..n /\ k - 1 \in 1..n /\ g[k] = f[k] /\ g[k - 1] = f[k - 1]
      BY <1>1, <2>2
    <3>. QED
      BY <1>1, <1>2, <2>2, <3>1
  <2>3. CASE k = 1
    BY <1>1, <1>2, <2>3
  <2>. QED
    BY <2>1, <2>2, <2>3
<1>4. g = [k \in 1..Len(more) |-> IF k = 1 THEN more[k] ELSE g[k - 1] \o more[k]]
  <2>1. g = [k \in 1..(n + 1) |-> g[k]]
    OBVIOUS
  <2>. HIDE DEF g
  <2>2. 1..Len(more) = 1..(n + 1)
    BY <1>1
  <2>. QED
    BY <1>3, <2>1, <2>2
<1>5. g[n + 1] = f[n] \o x
  BY <1>1
<1>. QED
  BY <1>4, <1>5 DEF Flattening, n, more

(* Where seqs is not empty, its flattening exists, and what FlattenSeq picks *)
(* is one; two of them agree.                                                *)
LEMMA FlatteningExists ==
  ASSUME NEW S
  PROVE  \A seqs \in Seq(Seq(S)) : seqs # <<>> => \E f : Flattening(f, seqs) /\ f[Len(seqs)] \in Seq(S)
<1>. DEFINE Good(seqs) == \E f : Flattening(f, seqs) /\ f[Len(seqs)] \in Seq(S)
            T == {n \in Nat : \A seqs \in Seq(Seq(S)) : Len(seqs) = n + 1 => Good(seqs)}
<1>1. ASSUME NEW s \in Seq(Seq(S)), NEW x \in Seq(S), s # <<>> => Good(s)
      PROVE  Good(Append(s, x))
  <2>1. CASE s = <<>>
    <3>1. Append(s, x) = <<x>> /\ Len(<<x>>) = 1
      BY <2>1
    <3>2. PICK f : Flattening(f, <<x>>) /\ f[1] = x
      BY FlatteningOne
    <3>. QED
      BY <3>1, <3>2
  <2>2. CASE s # <<>>
    <3>1. PICK f : Flattening(f, s) /\ f[Len(s)] \in Seq(S)
      BY <1>1, <2>2
    <3>2. PICK g : Flattening(g, Append(s, x)) /\ g[Len(s) + 1] = f[Len(s)] \o x
      BY <2>2, <3>1, FlatteningMore
    <3>3. g[Len(Append(s, x))] \in Seq(S)
      <4>1. Len(Append(s, x)) = Len(s) + 1
        OBVIOUS
      <4>2. f[Len(s)] \o x \in Seq(S)
        BY <3>1, ConcatProperties
      <4>. QED
        BY <3>2, <4>1, <4>2
    <3>. QED
      BY <3>2, <3>3
  <2>. QED
    BY <2>1, <2>2
<1>2. ASSUME NEW seqs \in Seq(Seq(S)), seqs # <<>>
      PROVE  \E s \in Seq(Seq(S)), x \in Seq(S) : seqs = Append(s, x) /\ Len(seqs) = Len(s) + 1
  <2>1. PICK s \in Seq(Seq(S)), x \in Seq(S) : seqs = Append(s, x)
    BY <1>2, SequenceEmptyOrAppend
  <2>. QED
    BY <2>1
<1>. HIDE DEF Good
<1>3. 0 \in T
  <2>1. SUFFICES ASSUME NEW seqs \in Seq(Seq(S)), Len(seqs) = 1 PROVE Good(seqs)
    OBVIOUS
  <2>2. seqs # <<>>
    BY <2>1
  <2>3. PICK s \in Seq(Seq(S)), x \in Seq(S) : seqs = Append(s, x) /\ Len(seqs) = Len(s) + 1
    BY <1>2, <2>2
  <2>4. s = <<>>
    BY <2>1, <2>3
  <2>. QED
    BY <1>1, <2>3, <2>4
<1>4. ASSUME NEW n \in Nat, n \in T PROVE n + 1 \in T
  <2>1. SUFFICES ASSUME NEW seqs \in Seq(Seq(S)), Len(seqs) = n + 1 + 1 PROVE Good(seqs)
    OBVIOUS
  <2>2. seqs # <<>>
    BY <2>1
  <2>3. PICK s \in Seq(Seq(S)), x \in Seq(S) : seqs = Append(s, x) /\ Len(seqs) = Len(s) + 1
    BY <1>2, <2>2
  <2>4. Len(s) = n + 1
    BY <2>1, <2>3
  <2>5. Good(s)
    BY <1>4, <2>4
  <2>. QED
    BY <1>1, <2>3, <2>5
<1>5. Nat \subseteq T
  <2>. HIDE DEF T
  <2>. QED
    BY <1>3, <1>4, SetInduction
<1>6. SUFFICES ASSUME NEW seqs \in Seq(Seq(S)), seqs # <<>> PROVE Good(seqs)
  BY DEF Good
<1>7. Len(seqs) - 1 \in Nat /\ Len(seqs) = (Len(seqs) - 1) + 1
  BY <1>6
<1>. QED
  BY <1>5, <1>7

LEMMA FlatteningUnique ==
  ASSUME NEW S, NEW seqs \in Seq(Seq(S)),
         NEW f, Flattening(f, seqs), NEW g, Flattening(g, seqs)
  PROVE  f = g
<1>. DEFINE T == {n \in Nat : n + 1 \in 1..Len(seqs) => f[n + 1] = g[n + 1]}
<1>1. ASSUME NEW h, Flattening(h, seqs)
      PROVE  /\ h = [k \in 1..Len(seqs) |-> h[k]]
             /\ 1 \in 1..Len(seqs) => h[1] = seqs[1]
             /\ \A k \in 1..Len(seqs) : k # 1 => h[k] = h[k - 1] \o seqs[k]
  <2>1. h = [k \in 1..Len(seqs) |-> IF k = 1 THEN seqs[k] ELSE h[k - 1] \o seqs[k]]
    BY <1>1 DEF Flattening
  <2>. QED
    BY <2>1, Zenon
<1>2. 0 \in T
  <2>1. 0 + 1 = 1
    OBVIOUS
  <2>. QED
    BY <1>1, <2>1
<1>3. ASSUME NEW n \in Nat, n \in T PROVE n + 1 \in T
  <2>1. SUFFICES ASSUME n + 1 + 1 \in 1..Len(seqs) PROVE f[n + 1 + 1] = g[n + 1 + 1]
    OBVIOUS
  <2>2. n + 1 \in 1..Len(seqs) /\ (n + 1 + 1) - 1 = n + 1 /\ n + 1 + 1 # 1
    BY <2>1
  <2>3. f[n + 1] = g[n + 1]
    BY <1>3, <2>2
  <2>4. /\ f[n + 1 + 1] = f[(n + 1 + 1) - 1] \o seqs[n + 1 + 1]
        /\ g[n + 1 + 1] = g[(n + 1 + 1) - 1] \o seqs[n + 1 + 1]
    BY <1>1, <2>1, <2>2, Zenon
  <2>. QED
    BY <2>2, <2>3, <2>4
<1>4. Nat \subseteq T
  <2>. HIDE DEF T
  <2>. QED
    BY <1>2, <1>3, SetInduction
<1>5. ASSUME NEW k \in 1..Len(seqs) PROVE f[k] = g[k]
  <2>1. k - 1 \in Nat /\ k = (k - 1) + 1
    OBVIOUS
  <2>. QED
    BY <1>4, <2>1
<1>6. f = [k \in 1..Len(seqs) |-> f[k]] /\ g = [k \in 1..Len(seqs) |-> g[k]]
  BY <1>1, Zenon
<1>. HIDE DEF T
<1>. QED
  BY <1>5, <1>6

LEMMA FlattenIs ==
  ASSUME NEW S, NEW seqs \in Seq(Seq(S)), seqs # <<>>, NEW f, Flattening(f, seqs)
  PROVE  FlattenSeq(seqs) = f[Len(seqs)]
<1>. DEFINE g == CHOOSE h : Flattening(h, seqs)
<1>1. Flattening(g, seqs)
  OBVIOUS
<1>2. FlattenSeq(seqs) = g[Len(seqs)]
  <2>1. Len(seqs) # 0
    OBVIOUS
  <2>. QED
    BY <2>1, Zenon DEF FlattenSeq, Flattening
<1>. HIDE DEF g
<1>3. g = f
  BY <1>1, FlatteningUnique
<1>. QED
  BY <1>2, <1>3

(* What FlattenSeq returns, and what one more sequence adds to it.           *)
LEMMA FlattenEmpty == FlattenSeq(<<>>) = <<>>
BY DEF FlattenSeq

LEMMA FlattenType ==
  ASSUME NEW S, NEW seqs \in Seq(Seq(S))
  PROVE  FlattenSeq(seqs) \in Seq(S)
<1>1. CASE seqs = <<>>
  <2>1. <<>> \in Seq(S)
    OBVIOUS
  <2>. QED
    BY <1>1, <2>1, FlattenEmpty, Zenon
<1>2. CASE seqs # <<>>
  <2>1. PICK f : Flattening(f, seqs) /\ f[Len(seqs)] \in Seq(S)
    BY <1>2, FlatteningExists
  <2>. QED
    BY <1>2, <2>1, FlattenIs
<1>. QED
  BY <1>1, <1>2

LEMMA FlattenAppend ==
  ASSUME NEW S, NEW seqs \in Seq(Seq(S)), NEW x \in Seq(S)
  PROVE  FlattenSeq(Append(seqs, x)) = FlattenSeq(seqs) \o x
<1>. DEFINE more == Append(seqs, x)
<1>1. more \in Seq(Seq(S)) /\ more # <<>> /\ Len(more) = Len(seqs) + 1
  <2>. DEFINE Q == Seq(S)
  <2>1. seqs \in Seq(Q) /\ x \in Q
    OBVIOUS
  <2>. HIDE DEF Q
  <2>2. more \in Seq(Q) /\ more # <<>> /\ Len(more) = Len(seqs) + 1
    BY <2>1, AppendProperties
  <2>. QED
    BY <2>2 DEF Q
<1>. HIDE DEF more
<1>2. CASE seqs = <<>>
  <2>1. more = <<x>> /\ Len(<<x>>) = 1
    BY <1>2 DEF more
  <2>2. PICK f : Flattening(f, <<x>>) /\ f[1] = x
    BY FlatteningOne
  <2>3. FlattenSeq(more) = x
    BY <1>1, <2>1, <2>2, FlattenIs
  <2>4. <<>> \o x = x
    OBVIOUS
  <2>. QED
    BY <1>2, <2>3, <2>4, FlattenEmpty DEF more
<1>3. CASE seqs # <<>>
  <2>1. PICK f : Flattening(f, seqs)
    BY <1>3, FlatteningExists
  <2>2. PICK g : Flattening(g, more) /\ g[Len(seqs) + 1] = f[Len(seqs)] \o x
    BY <1>3, <2>1, FlatteningMore DEF more
  <2>3. FlattenSeq(seqs) = f[Len(seqs)]
    BY <1>3, <2>1, FlattenIs
  <2>4. FlattenSeq(more) = g[Len(more)]
    BY <1>1, <2>2, FlattenIs
  <2>. QED
    BY <1>1, <2>2, <2>3, <2>4 DEF more
<1>. QED
  BY <1>2, <1>3
=============================================================================
