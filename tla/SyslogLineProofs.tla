-------------------------- MODULE SyslogLineProofs --------------------------
(* The buffer of log_msg_syslog_va() is never overrun, and syslog gets the  *)
(* text that was logged, for any size of the buffer and whatever is logged. *)
EXTENDS SyslogLine, SequenceLemmas

(* What vsnprintf() leaves in the buffer is text of the piece after text    *)
(* that was kept; it leaves room for the zero and counts what it cuts off.  *)
LEMMA WrittenFits ==
  ASSUME IndexInBuffer, NEW piece \in Seq(Char)
  PROVE  /\ Written(piece) \in Seq(Char)
         /\ Len(Written(piece)) < Size
         /\ Len(Written(piece)) <= i + Len(piece)
         /\ ~Cut(piece) => Len(Written(piece)) = i + Len(piece)
<1>. USE SizeAssumption
<1>. DEFINE kept == SubSeq(syslog_str, 1, i)
            added == IF Len(piece) < Room THEN piece ELSE SubSeq(piece, 1, Room - 1)
<1>1. i \in Nat /\ i <= Size - 2 /\ Room \in Nat /\ Room >= 2
  BY DEF IndexInBuffer, Room
<1>2. kept \in Seq(Char) /\ Len(kept) = i
  BY <1>1 DEF IndexInBuffer
<1>3. Written(piece) = kept \o added
  BY DEF Written
<1>4. /\ added \in Seq(Char)
      /\ Len(added) < Room /\ Len(added) <= Len(piece)
      /\ Len(piece) < Room => Len(added) = Len(piece)
  BY <1>1
<1>. HIDE DEF kept, added
<1>5. /\ kept \o added \in Seq(Char)
      /\ Len(kept \o added) = Len(kept) + Len(added)
  BY <1>2, <1>4, ConcatProperties
<1>6. Written(piece) \in Seq(Char)
  BY <1>3, <1>5
<1>7. Len(Written(piece)) = i + Len(added)
  BY <1>2, <1>3, <1>5
<1>. QED
  BY <1>1, <1>4, <1>6, <1>7, SMTT(30) DEF Cut, Room

(* The buffer after a call that found a newline is what follows the last.   *)
LEMMA LogLinesSafe ==
  ASSUME IndexInBuffer, NEW piece \in Seq(Char), LogLines(piece)
  PROVE  IndexInBuffer'
<1>. USE SizeAssumption
<1>. DEFINE str == Written(piece)
<1>1. str \in Seq(Char) /\ Len(str) < Size
  BY WrittenFits
<1>. HIDE DEF str
<1>2. PICK n \in DOMAIN str : /\ IsLastNewline(n, str)
                              /\ syslog_str' = SubSeq(str, n + 1, Len(str))
                              /\ i' = Len(str) - n
  BY DEF LogLines, str
<1>3. n \in 1..Len(str)
  BY <1>1, <1>2
<1>4. syslog_str' \in Seq(Char) /\ Len(syslog_str') = i'
  BY <1>1, <1>2, <1>3
<1>5. ASSUME NEW k \in 1..i' PROVE syslog_str'[k] # "newline"
  <2>1. k + n \in (n + 1)..Len(str)
    BY <1>1, <1>2, <1>3, <1>5
  <2>2. syslog_str'[k] = str[k + n]
    BY <1>1, <1>2, <1>3, <1>5
  <2>. QED
    BY <1>2, <2>1, <2>2 DEF IsLastNewline
<1>6. SubSeq(syslog_str', 1, i') = syslog_str'
  BY <1>4, SubSeqFull
<1>7. i' \in 0..(Size - 2) /\ Len(syslog_str') < Size
  BY <1>1, <1>2, <1>3, <1>4
<1>. QED
  BY <1>4, <1>5, <1>6, <1>7 DEF IndexInBuffer, NoNewline

(* A call that found none keeps all of it, as long as it is not too much.   *)
LEMMA KeepSafe ==
  ASSUME IndexInBuffer, NEW piece \in Seq(Char), Keep(piece)
  PROVE  IndexInBuffer'
<1>. USE SizeAssumption
<1>1. i \in Nat /\ i' = i + Len(piece) /\ i' \in 0..(Size - 2)
  BY DEF IndexInBuffer, Keep
<1>2. ~Cut(piece)
  BY <1>1 DEF Keep, Cut, Room, IndexInBuffer
<1>3. syslog_str' \in Seq(Char) /\ Len(syslog_str') = i'
  BY <1>1, <1>2, WrittenFits DEF Keep
<1>4. SubSeq(syslog_str', 1, i') = syslog_str'
  BY <1>3, SubSeqFull
<1>5. NoNewline(SubSeq(syslog_str', 1, i'))
  BY <1>4 DEF Keep, NoNewline
<1>6. Len(syslog_str') < Size /\ i' <= Len(syslog_str')
  BY <1>1, <1>3, SizeAssumption
<1>. QED
  BY <1>1, <1>3, <1>5, <1>6 DEF IndexInBuffer, NoNewline

(* The rest is forgotten, or the buffer is left alone.                      *)
LEMMA LoseSafe ==
  ASSUME IndexInBuffer, NEW piece \in Seq(Char), Lose(piece)
  PROVE  IndexInBuffer'
<1>1. i' = 0 /\ syslog_str' \in Seq(Char) /\ Len(syslog_str') < Size
  BY WrittenFits DEF Lose
<1>2. SubSeq(syslog_str', 1, 0) = <<>>
  BY <1>1
<1>. QED
  BY <1>1, <1>2, SizeAssumption DEF IndexInBuffer, NoNewline

LEMMA IndexStep ==
  ASSUME IndexInBuffer, [Next]_vars
  PROVE  IndexInBuffer'
<1>1. CASE UNCHANGED vars
  BY <1>1 DEF vars, IndexInBuffer, NoNewline
<1>2. CASE Next
  <2>1. PICK piece \in Pieces : Log(piece)
    BY <1>2 DEF Next
  <2>2. piece \in Seq(Char)
    BY PiecesAssumption
  <2>. QED
    BY <2>1, <2>2, LogLinesSafe, KeepSafe, LoseSafe DEF Log
<1>. QED
  BY <1>1, <1>2

(* Whatever is logged, the index and the text stay inside the buffer, and   *)
(* what is kept holds no newline.                                           *)
THEOREM IndexSafe == Spec => []IndexInBuffer
<1>1. Init => IndexInBuffer
  BY SizeAssumption DEF Init, IndexInBuffer, NoNewline
<1>2. IndexInBuffer /\ [Next]_vars => IndexInBuffer'
  BY IndexStep
<1>. QED
  BY <1>1, <1>2, PTL DEF Spec

-----------------------------------------------------------------------------
(* The lines syslog got, each with the newline that ended it.                *)
Ended(ls) == [l \in DOMAIN ls |-> Append(ls[l], "newline")]

TextInv ==
  /\ said \in Seq(Char) /\ lines \in Seq(Seq(Char))
  /\ LinesAreText

LEMMA EndedAppend ==
  ASSUME NEW ls \in Seq(Seq(Char)), NEW l \in Seq(Char)
  PROVE  /\ Ended(ls) \in Seq(Seq(Char))
         /\ Ended(Append(ls, l)) = Append(Ended(ls), Append(l, "newline"))
<1>. DEFINE Text == Seq(Char)
            more == Append(ls, l)
<1>1. \A t \in Text : Append(t, "newline") \in Text
  BY DEF Char
<1>. HIDE DEF Text
<1>2. /\ ls \in Seq(Text) /\ l \in Text /\ Len(ls) \in Nat /\ DOMAIN ls = 1..Len(ls)
      /\ \A k \in 1..Len(ls) : ls[k] \in Text
  BY LenProperties, ElementOfSeq DEF Text
<1>3. /\ Len(more) = Len(ls) + 1 /\ DOMAIN more = 1..(Len(ls) + 1)
      /\ \A k \in 1..Len(ls) : more[k] = ls[k]
      /\ more[Len(ls) + 1] = l
  BY <1>2
<1>4. /\ Ended(ls) \in Seq(Text) /\ Len(Ended(ls)) = Len(ls)
      /\ \A k \in 1..Len(ls) : Ended(ls)[k] = Append(ls[k], "newline")
  BY <1>1, <1>2 DEF Ended
<1>5. /\ Ended(more) \in Seq(Text) /\ Len(Ended(more)) = Len(ls) + 1
      /\ \A k \in 1..Len(ls) : Ended(more)[k] = Append(ls[k], "newline")
      /\ Ended(more)[Len(ls) + 1] = Append(l, "newline")
  <2>. HIDE DEF more
  <2>1. \A k \in 1..(Len(ls) + 1) : more[k] \in Text
    BY <1>2, <1>3
  <2>. QED
    BY <1>1, <1>2, <1>3, <2>1 DEF Ended
<1>. HIDE DEF more
<1>6. Append(l, "newline") \in Text
  BY <1>1, <1>2
<1>7. Ended(more) = Append(Ended(ls), Append(l, "newline"))
  <2>. DEFINE e == Ended(ls)  a == Append(l, "newline")  m == Ended(more)
  <2>1. e \in Seq(Text) /\ a \in Text /\ m \in Seq(Text)
    BY <1>4, <1>5, <1>6
  <2>2. /\ Len(e) = Len(ls) /\ Len(m) = Len(e) + 1 /\ m[Len(e) + 1] = a
        /\ \A k \in 1..Len(e) : m[k] = e[k]
    BY <1>4, <1>5
  <2>. HIDE DEF e, a, m
  <2>3. m = Append(e, a)
    BY <2>1, <2>2
  <2>. QED
    BY <2>3 DEF e, a, m
<1>. QED
  BY <1>4, <1>7 DEF Text, more

(* Nothing that was kept, or all of it, at the front of the buffer.          *)
LEMMA KeptText ==
  ASSUME IndexInBuffer
  PROVE  SubSeq(syslog_str, 1, i) \in Seq(Char)
BY DEF IndexInBuffer

(* A call that is not cut off puts the whole piece behind what was kept.     *)
LEMMA UncutWritten ==
  ASSUME NEW piece, ~Cut(piece), IndexInBuffer, piece \in Seq(Char)
  PROVE  Written(piece) = SubSeq(syslog_str, 1, i) \o piece
<1>1. Len(piece) < Room
  BY SizeAssumption DEF Cut, Room, IndexInBuffer
<1>. QED
  BY <1>1 DEF Written

(* The text that was logged goes on with the piece.                          *)
LEMMA SaidGoesOn ==
  ASSUME IndexInBuffer, TextInv, NEW piece \in Seq(Char), ~Cut(piece)
  PROVE  /\ FlattenSeq(Ended(lines)) \in Seq(Char) /\ Written(piece) \in Seq(Char)
         /\ said \o piece = FlattenSeq(Ended(lines)) \o Written(piece)
<1>. DEFINE kept == SubSeq(syslog_str, 1, i)
            F == FlattenSeq(Ended(lines))
<1>1. F \in Seq(Char)
  BY EndedAppend, FlattenType DEF TextInv
<1>2. kept \in Seq(Char)
  BY KeptText
<1>3. said = F \o kept
  BY DEF TextInv, LinesAreText, Ended
<1>4. Written(piece) = kept \o piece
  BY UncutWritten
<1>. HIDE DEF kept, F
<1>5. (F \o kept) \o piece = F \o (kept \o piece)
  BY <1>1, <1>2, ConcatAssociative
<1>6. Written(piece) \in Seq(Char)
  BY WrittenFits
<1>. QED
  BY <1>1, <1>3, <1>4, <1>5, <1>6 DEF F

(* A line, its newline and what follows are the whole.                       *)
LEMMA CutAtNewline ==
  ASSUME NEW str \in Seq(Char), NEW n \in 1..Len(str), str[n] = "newline"
  PROVE  /\ SubSeq(str, 1, n - 1) \in Seq(Char)
         /\ SubSeq(str, n + 1, Len(str)) \in Seq(Char)
         /\ Len(SubSeq(str, n + 1, Len(str))) = Len(str) - n
         /\ Append(SubSeq(str, 1, n - 1), "newline") \o SubSeq(str, n + 1, Len(str)) = str
<1>1. /\ SubSeq(str, 1, n - 1) \in Seq(Char) /\ Len(SubSeq(str, 1, n - 1)) = n - 1
      /\ SubSeq(str, n + 1, Len(str)) \in Seq(Char)
      /\ Len(SubSeq(str, n + 1, Len(str))) = Len(str) - n
  OBVIOUS
<1>2. Append(SubSeq(str, 1, n - 1), "newline") = SubSeq(str, 1, n)
  <2>. DEFINE a == Append(SubSeq(str, 1, n - 1), "newline")  b == SubSeq(str, 1, n)
  <2>1. a \in Seq(Char) /\ b \in Seq(Char) /\ Len(a) = n /\ Len(b) = n
    BY <1>1 DEF Char
  <2>2. \A k \in 1..n : a[k] = b[k]
    BY <1>1
  <2>. HIDE DEF a, b
  <2>3. a = b
    BY <2>1, <2>2, SeqEqual
  <2>. QED
    BY <2>3 DEF a, b
<1>3. SubSeq(str, 1, n) \o SubSeq(str, n + 1, Len(str)) = SubSeq(str, 1, Len(str))
  BY ConcatAdjacentSubSeq
<1>4. SubSeq(str, 1, Len(str)) = str
  BY SubSeqFull
<1>. QED
  BY <1>1, <1>2, <1>3, <1>4

LEMMA TextLogLines ==
  ASSUME IndexInBuffer, TextInv, NEW piece \in Seq(Char), LogLines(piece)
  PROVE  TextInv'
<1>. DEFINE str == Written(piece)
            Moves(n) == /\ IsLastNewline(n, str)
                        /\ syslog_str' = SubSeq(str, n + 1, Len(str))
                        /\ i' = Len(str) - n
                        /\ said' = IF Cut(piece) THEN syslog_str' ELSE said \o piece
                        /\ lines' = IF Cut(piece) THEN <<>> ELSE Append(lines, SubSeq(str, 1, n - 1))
<1>1. str \in Seq(Char)
  BY WrittenFits
<1>2. PICK n \in DOMAIN str : Moves(n)
  BY DEF LogLines
<1>. HIDE DEF str
<1>3. n \in 1..Len(str) /\ str[n] = "newline"
  BY <1>1, <1>2 DEF IsLastNewline
<1>. DEFINE head == SubSeq(str, 1, n - 1)
            rest == SubSeq(str, n + 1, Len(str))
<1>4. /\ head \in Seq(Char) /\ rest \in Seq(Char) /\ Len(rest) = Len(str) - n
      /\ Append(head, "newline") \o rest = str
  BY <1>1, <1>3, CutAtNewline
<1>5. syslog_str' = rest /\ i' = Len(rest)
  BY <1>2, <1>4
<1>6. SubSeq(syslog_str', 1, i') = rest
  BY <1>4, <1>5, SubSeqFull
<1>7. NoNewline(SubSeq(syslog_str', 1, i'))
  BY LogLinesSafe DEF IndexInBuffer, NoNewline
<1>. HIDE DEF head, rest
<1>8. CASE Cut(piece)
  <2>1. said' = rest /\ lines' = <<>>
    BY <1>2, <1>5, <1>8
  <2>2. Ended(lines') = <<>>
    BY <2>1 DEF Ended
  <2>3. FlattenSeq(Ended(lines')) = <<>>
    BY <2>2, FlattenEmpty
  <2>4. said' = <<>> \o rest
    BY <1>4, <2>1, ConcatEmptySeq
  <2>5. said' \in Seq(Char) /\ lines' \in Seq(Seq(Char))
    BY <1>4, <2>1
  <2>. QED
    BY <1>6, <1>7, <2>3, <2>4, <2>5 DEF TextInv, LinesAreText, Ended, NoNewline
<1>9. CASE ~Cut(piece)
  <2>. DEFINE F == FlattenSeq(Ended(lines))
              ended == Append(head, "newline")
  <2>1. said' = said \o piece /\ lines' = Append(lines, head)
    BY <1>2, <1>9 DEF head
  <2>2. F \in Seq(Char) /\ said \o piece = F \o str
    BY <1>9, SaidGoesOn DEF str
  <2>3. lines \in Seq(Seq(Char)) /\ said \in Seq(Char)
    BY DEF TextInv
  <2>4. Ended(lines) \in Seq(Seq(Char)) /\ Ended(lines') = Append(Ended(lines), ended)
    BY <1>4, <2>1, <2>3, EndedAppend
  <2>5. ended \in Seq(Char)
    BY <1>4 DEF Char
  <2>. HIDE DEF ended
  <2>6. FlattenSeq(Ended(lines')) = F \o ended
    <3>1. FlattenSeq(Append(Ended(lines), ended)) = FlattenSeq(Ended(lines)) \o ended
      BY <2>4, <2>5, FlattenAppend
    <3>. QED
      BY <2>4, <3>1
  <2>. HIDE DEF F
  <2>7. F \o (ended \o rest) = (F \o ended) \o rest
    <3>1. F \in Seq(Char) /\ ended \in Seq(Char) /\ rest \in Seq(Char)
      BY <1>4, <2>2, <2>5
    <3>. QED
      BY <3>1, ConcatAssociative, SMTT(30)
  <2>8. said' = FlattenSeq(Ended(lines')) \o rest
    <3>1. ended \o rest = str
      BY <1>4 DEF ended
    <3>. QED
      BY <2>1, <2>2, <2>6, <2>7, <3>1
  <2>9. said' \in Seq(Char)
    BY <2>1, <2>3, ConcatProperties
  <2>10. lines' \in Seq(Seq(Char))
    <3>. DEFINE Text == Seq(Char)
    <3>1. lines \in Seq(Text) /\ head \in Text
      BY <1>4, <2>3
    <3>. HIDE DEF Text
    <3>2. Append(lines, head) \in Seq(Text)
      BY <3>1
    <3>. QED
      BY <2>1, <3>2 DEF Text
  <2>. QED
    BY <1>6, <1>7, <2>8, <2>9, <2>10 DEF TextInv, LinesAreText, Ended, NoNewline
<1>. QED
  BY <1>8, <1>9

LEMMA TextKeep ==
  ASSUME IndexInBuffer, TextInv, NEW piece \in Seq(Char), Keep(piece)
  PROVE  TextInv'
<1>1. ~Cut(piece) /\ i \in Nat
  BY SizeAssumption DEF Keep, Cut, Room, IndexInBuffer
<1>2. /\ FlattenSeq(Ended(lines)) \in Seq(Char) /\ Written(piece) \in Seq(Char)
      /\ said \o piece = FlattenSeq(Ended(lines)) \o Written(piece)
  BY <1>1, SaidGoesOn
<1>3. Len(Written(piece)) = i + Len(piece)
  BY <1>1, WrittenFits
<1>4. syslog_str' = Written(piece) /\ i' = Len(Written(piece)) /\ said' = said \o piece /\ lines' = lines
  BY <1>3 DEF Keep
<1>5. SubSeq(syslog_str', 1, i') = Written(piece)
  BY <1>2, <1>4, SubSeqFull
<1>6. NoNewline(SubSeq(syslog_str', 1, i'))
  BY <1>5 DEF Keep, NoNewline
<1>7. said' \in Seq(Char) /\ lines' \in Seq(Seq(Char))
  BY <1>4, ConcatProperties DEF TextInv
<1>8. said' = FlattenSeq(Ended(lines')) \o SubSeq(syslog_str', 1, i')
  BY <1>2, <1>4, <1>5
<1>. QED
  BY <1>6, <1>7, <1>8 DEF TextInv, LinesAreText, Ended, NoNewline

LEMMA TextLose ==
  ASSUME IndexInBuffer, NEW piece \in Seq(Char), Lose(piece)
  PROVE  TextInv'
<1>1. i' = 0 /\ syslog_str' \in Seq(Char) /\ said' = <<>> /\ lines' = <<>>
  BY WrittenFits DEF Lose
<1>2. SubSeq(syslog_str', 1, i') = <<>>
  BY <1>1
<1>3. Ended(lines') = <<>>
  BY <1>1 DEF Ended
<1>4. <<>> = <<>> \o <<>>
  OBVIOUS
<1>. QED
  BY <1>1, <1>2, <1>3, <1>4, FlattenEmpty DEF TextInv, LinesAreText, Ended, NoNewline

(* What syslog was handed, line by line, and what is kept for the next line *)
(* are the text that was logged, none of it lost, doubled or out of order;  *)
(* only a line that does not fit into the buffer is lost, and only itself.  *)
THEOREM TextReachesSyslog == Spec => []LinesAreText
<1>1. Init => TextInv
  <2>1. SUFFICES ASSUME Init PROVE TextInv
    OBVIOUS
  <2>2. SubSeq(syslog_str, 1, i) = <<>> /\ said = <<>> /\ lines = <<>>
    BY <2>1 DEF Init
  <2>3. Ended(lines) = <<>> /\ <<>> = <<>> \o <<>>
    BY <2>2 DEF Ended
  <2>4. said = FlattenSeq(Ended(lines)) \o SubSeq(syslog_str, 1, i)
    BY <2>2, <2>3, FlattenEmpty
  <2>5. said \in Seq(Char) /\ lines \in Seq(Seq(Char))
    BY <2>2
  <2>6. NoNewline(SubSeq(syslog_str, 1, i))
    <3>1. NoNewline(<<>>)
      BY DEF NoNewline
    <3>. QED
      BY <2>2, <3>1
  <2>7. LinesAreText
    BY <2>4, <2>6 DEF LinesAreText, Ended
  <2>. QED
    BY <2>5, <2>7 DEF TextInv
<1>2. IndexInBuffer /\ TextInv /\ [Next]_vars => TextInv'
  <2>1. SUFFICES ASSUME IndexInBuffer, TextInv, [Next]_vars PROVE TextInv'
    OBVIOUS
  <2>2. CASE UNCHANGED vars
    BY <2>1, <2>2 DEF vars, TextInv, LinesAreText, NoNewline
  <2>3. CASE Next
    <3>1. PICK piece \in Pieces : Log(piece)
      BY <2>3 DEF Next
    <3>2. piece \in Seq(Char)
      BY PiecesAssumption
    <3>. QED
      BY <2>1, <3>1, <3>2, TextLogLines, TextKeep, TextLose DEF Log
  <2>. QED
    BY <2>1, <2>2, <2>3
<1>3. TextInv => LinesAreText
  BY DEF TextInv
<1>. QED
  BY <1>1, <1>2, <1>3, IndexSafe, PTL DEF Spec
=============================================================================
