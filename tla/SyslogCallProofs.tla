-------------------------- MODULE SyslogCallProofs --------------------------
(* Proofs about log_msg_syslog_va() taken apart: undisturbed it is one step  *)
(* of SyslogLine, and disturbed by handlers that log it neither overruns the *)
(* buffer nor loses the first handler's line, while the text fits.           *)
EXTENDS SyslogCallInvariant, SyslogLineProofs

-----------------------------------------------------------------------------
(* The C library on a buffer that ends in a zero.                            *)

LEMMA StrEndIs ==
  ASSUME NEW b, BufOK(b), NEW from \in 0..(Size - 1)
  PROVE  /\ StrEnd(b, from) \in from..(Size - 1)
         /\ b[StrEnd(b, from)] = "nul"
         /\ \A m \in from..(StrEnd(b, from) - 1) : b[m] # "nul"
<1>. USE SizeAssumption
<1>. DEFINE Zeros == {k \in from..(Size - 1) : b[k] = "nul"}
            Ends(k) == b[k] = "nul" /\ \A m \in from..(k - 1) : b[m] # "nul"
<1>1. Size - 1 \in Zeros /\ Zeros \in SUBSET Nat
  BY DEF BufOK
<1>2. PICK k \in Zeros : \A m \in Zeros : k <= m
  <2>. HIDE DEF Zeros
  <2>. QED
    BY <1>1, LeastElement
<1>3. k \in from..(Size - 1) /\ Ends(k)
  BY <1>2
<1>4. StrEnd(b, from) = CHOOSE n \in from..(Size - 1) : Ends(n)
  BY DEF StrEnd
<1>. HIDE DEF Ends
<1>5. StrEnd(b, from) \in from..(Size - 1) /\ Ends(StrEnd(b, from))
  BY <1>3, <1>4
<1>. QED
  BY <1>5 DEF Ends

LEMMA StrLenIs ==
  ASSUME NEW b, BufOK(b)
  PROVE  /\ StrLen(b) \in 0..(Size - 1)
         /\ b[StrLen(b)] = "nul"
         /\ \A m \in 0..(StrLen(b) - 1) : b[m] # "nul"
BY SizeAssumption, StrEndIs DEF StrLen

LEMMA StrLenAtLeast ==
  ASSUME NEW b, BufOK(b), NEW n \in Nat, n <= Size - 1, \A m \in 0..(n - 1) : b[m] # "nul"
  PROVE  StrLen(b) >= n
BY StrLenIs

LEMMA StrLenEquals ==
  ASSUME NEW b, BufOK(b), NEW n \in Nat, n <= Size - 1,
         \A m \in 0..(n - 1) : b[m] # "nul", b[n] = "nul"
  PROVE  StrLen(b) = n
BY StrLenIs, SizeAssumption

(* strrchr() finds the last newline of the string, if it has one.            *)
LEMMA StrRChrIs ==
  ASSUME NEW b, BufOK(b), Newlines(b) # {}
  PROVE  /\ StrRChr(b) \in Newlines(b)
         /\ \A m \in Newlines(b) : m <= StrRChr(b)
         /\ StrRChr(b) \in 0..(StrLen(b) - 1) /\ StrRChr(b) \in 0..(Size - 2)
         /\ b[StrRChr(b)] = "newline"
<1>1. /\ Newlines(b) \in SUBSET Nat
      /\ \A m \in Newlines(b) : m <= Size /\ m \in 0..(StrLen(b) - 1) /\ m \in 0..(Size - 2)
      /\ \A m \in Newlines(b) : b[m] = "newline"
  BY StrLenIs, SizeAssumption DEF Newlines
<1>. HIDE DEF Newlines
<1>2. \E k \in Newlines(b) : \A m \in Newlines(b) : m <= k
  BY <1>1, SizeAssumption, GreatestElement
<1>3. StrRChr(b) \in Newlines(b) /\ \A m \in Newlines(b) : m <= StrRChr(b)
  BY <1>2 DEF StrRChr
<1>. QED
  BY <1>1, <1>3

LEMMA CopiedIs ==
  ASSUME NEW b, BufOK(b), NEW at \in Nat, NEW str \in Seq(Char), at + Len(str) <= Size - 1
  PROVE  /\ BufOK(Copied(b, at, str))
         /\ Copied(b, at, str)[at + Len(str)] = "nul"
         /\ \A k \in 1..Len(str) : Copied(b, at, str)[at + k - 1] = str[k]
         /\ \A k \in 0..(at - 1) : Copied(b, at, str)[k] = b[k]
<1>. USE SizeAssumption
<1>. DEFINE c == Copied(b, at, str)
<1>1. /\ DOMAIN b = 0..(Size - 1) /\ Len(str) \in Nat /\ "nul" \in Cell
      /\ \A k \in 0..(Size - 1) : b[k] \in Cell
      /\ \A k \in 1..Len(str) : str[k] \in Cell
  BY DEF BufOK, Cell
<1>2. \A k \in 0..(Size - 1) :
        /\ k < at \/ k > at + Len(str) => c[k] = b[k]
        /\ k = at + Len(str) => c[k] = "nul"
        /\ (at <= k /\ k < at + Len(str)) => c[k] = str[k - at + 1]
  BY <1>1 DEF Copied
<1>3. c = [k \in 0..(Size - 1) |-> c[k]]
  BY <1>1 DEF Copied
<1>. HIDE DEF c
<1>4. ASSUME NEW k \in 0..(Size - 1) PROVE c[k] \in Cell
  <2>1. CASE k < at \/ k > at + Len(str)
    BY <1>1, <1>2, <2>1
  <2>2. CASE k = at + Len(str)
    BY <1>1, <1>2, <2>2
  <2>3. CASE at <= k /\ k < at + Len(str)
    <3>1. k - at + 1 \in 1..Len(str)
      BY <1>1, <2>3
    <3>. QED
      BY <1>1, <1>2, <2>3, <3>1
  <2>. QED
    BY <1>1, <2>1, <2>2, <2>3
<1>5. c[Size - 1] = "nul"
  <2>1. Size - 1 = at + Len(str) \/ Size - 1 > at + Len(str)
    BY <1>1
  <2>. QED
    BY <1>2, <2>1 DEF BufOK
<1>6. BufOK(c)
  BY <1>3, <1>4, <1>5 DEF BufOK
<1>7. \A k \in 1..Len(str) : c[at + k - 1] = str[k]
  BY <1>1, <1>2
<1>8. c[at + Len(str)] = "nul" /\ \A k \in 0..(at - 1) : c[k] = b[k]
  BY <1>1, <1>2
<1>. QED
  BY <1>6, <1>7, <1>8 DEF c

(* What vsnprintf() does, whether or not there is room for all.              *)
LEMMA PrintedIs ==
  ASSUME NEW b, BufOK(b), NEW at \in 0..(Size - 1), NEW piece \in Seq(Char)
  PROVE  /\ BufOK(Printed(b, at, piece))
         /\ \A k \in 0..(at - 1) : Printed(b, at, piece)[k] = b[k]
         /\ at + Len(piece) <= Size - 1 =>
              /\ Printed(b, at, piece)[at + Len(piece)] = "nul"
              /\ \A k \in 1..Len(piece) : Printed(b, at, piece)[at + k - 1] = piece[k]
<1>. USE SizeAssumption
<1>. DEFINE str == IF Len(piece) < Size - at THEN piece ELSE SubSeq(piece, 1, Size - at - 1)
<1>1. str \in Seq(Char) /\ at + Len(str) <= Size - 1
  OBVIOUS
<1>2. at + Len(piece) <= Size - 1 => str = piece
  OBVIOUS
<1>3. Printed(b, at, piece) = Copied(b, at, str)
  BY DEF Printed
<1>. HIDE DEF str
<1>. QED
  BY <1>1, <1>2, <1>3, CopiedIs

(* What strdup() and strcpy() make of what follows place nl.                 *)
LEMMA MovedIs ==
  ASSUME NEW b, BufOK(b), NEW nl \in 0..(Size - 2)
  PROVE  LET n == StrEnd(b, nl + 1) - (nl + 1) IN
         /\ n \in Nat /\ n <= Size - 2
         /\ BufOK(Moved(b, nl)) /\ StrLen(Moved(b, nl)) = n
         /\ Moved(b, nl)[n] = "nul"
         /\ \A k \in 0..(n - 1) : Moved(b, nl)[k] = b[nl + 1 + k] /\ b[nl + 1 + k] # "nul"
<1>. USE SizeAssumption
<1>. DEFINE e == StrEnd(b, nl + 1)
            n == e - (nl + 1)
            str == Text(b, nl + 1, e)
            c == Moved(b, nl)
<1>1. /\ e \in (nl + 1)..(Size - 1)
      /\ \A m \in (nl + 1)..(e - 1) : b[m] # "nul"
  BY StrEndIs
<1>. HIDE DEF e
<1>2. n \in Nat /\ n <= Size - 2
  BY <1>1
<1>3. ASSUME NEW k \in 1..n PROVE b[nl + k] \in Char /\ b[nl + k] # "nul"
  BY <1>1 DEF BufOK, Cell
<1>4. str \in Seq(Char) /\ Len(str) = n /\ \A k \in 1..n : str[k] = b[nl + k]
  <2>1. str = [k \in 1..n |-> b[nl + k]]
    BY <1>1 DEF Text
  <2>. QED
    BY <1>2, <1>3, <2>1
<1>. HIDE DEF n
<1>. HIDE DEF str
<1>5. c = Copied(b, 0, str)
  BY DEF Moved, str, e
<1>. HIDE DEF c
<1>6. /\ BufOK(c) /\ c[0 + n] = "nul"
      /\ \A k \in 1..n : c[0 + k - 1] = str[k]
  <2>1. 0 \in Nat /\ 0 + Len(str) <= Size - 1
    BY <1>2, <1>4
  <2>2. /\ BufOK(Copied(b, 0, str))
        /\ Copied(b, 0, str)[0 + Len(str)] = "nul"
        /\ \A k \in 1..Len(str) : Copied(b, 0, str)[0 + k - 1] = str[k]
    BY <1>4, <2>1, CopiedIs
  <2>. QED
    BY <1>4, <1>5, <2>2
<1>7. ASSUME NEW k \in 0..(n - 1) PROVE c[k] = b[nl + 1 + k] /\ b[nl + 1 + k] # "nul"
  <2>1. k + 1 \in 1..n /\ 0 + (k + 1) - 1 = k /\ nl + (k + 1) = nl + 1 + k
    BY <1>2
  <2>. QED
    BY <1>3, <1>4, <1>6, <2>1
<1>8. c[n] = "nul"
  BY <1>2, <1>6
<1>9. StrLen(c) = n
  <2>1. \A m \in 0..(n - 1) : c[m] # "nul"
    BY <1>7
  <2>2. n <= Size - 1
    BY <1>2
  <2>. QED
    BY <1>2, <1>6, <1>8, <2>1, <2>2, StrLenEquals
<1>. QED
  BY <1>2, <1>6, <1>7, <1>8, <1>9 DEF n, e, c

LEMMA MovedLength ==
  ASSUME NEW b, BufOK(b), NEW nl \in 0..(Size - 2)
  PROVE  /\ BufOK(Moved(b, nl)) /\ StrLen(Moved(b, nl)) \in 0..(Size - 2)
         /\ StrLen(Moved(b, nl)) = StrEnd(b, nl + 1) - (nl + 1)
<1>1. PICK n : n = StrEnd(b, nl + 1) - (nl + 1)
  OBVIOUS
<1>2. n \in Nat /\ n <= Size - 2 /\ BufOK(Moved(b, nl)) /\ StrLen(Moved(b, nl)) = n
  BY <1>1, MovedIs
<1>. QED
  BY <1>1, <1>2, SizeAssumption

(* The string from a place ends at the first zero there or before it.        *)
LEMMA StrEndAtMost ==
  ASSUME NEW b, BufOK(b), NEW from \in 0..(Size - 1), NEW n \in from..(Size - 1), b[n] = "nul"
  PROVE  StrEnd(b, from) <= n
BY StrEndIs, SizeAssumption

-----------------------------------------------------------------------------
(* A call of a handler.                                                      *)

(* What a call of a handler finds, or leaves.                                *)
Buf(st)  == st.buf
Idx(st)  == st.idx
Sent(st) == st.sent

LEMMA CalledKeeps ==
  ASSUME NEW st, NEW piece, NEW b, b = Printed(Buf(st), Idx(st), piece), Newlines(b) = {}
  PROVE  /\ Buf(Called(st, piece)) = b
         /\ ~(Idx(st) + Len(piece) >= Size - 1) => Idx(Called(st, piece)) = Idx(st) + Len(piece)
         /\ Idx(st) + Len(piece) >= Size - 1 => Idx(Called(st, piece)) = 0
<1>. DEFINE x == Idx(st) + Len(piece)
<1>1. Called(st, piece) = [buf |-> b, idx |-> IF x >= Size - 1 THEN 0 ELSE x,
                           sent |-> IF x >= Size - 1 THEN <<"tmp_str">> ELSE Sent(st)]
  BY DEF Called, Buf, Idx, Sent
<1>. HIDE DEF x
<1>2. Buf(Called(st, piece)) = b /\ Idx(Called(st, piece)) = IF x >= Size - 1 THEN 0 ELSE x
  BY <1>1 DEF Buf, Idx, Sent
<1>3. CASE x >= Size - 1
  BY <1>2, <1>3 DEF x
<1>4. CASE ~(x >= Size - 1)
  BY <1>2, <1>4 DEF x
<1>. QED
  BY <1>3, <1>4

NothingAfter(b, nl) == b[nl + 1] = "nul"

LEMMA CalledLogs ==
  ASSUME NEW st, NEW piece, NEW b, b = Printed(Buf(st), Idx(st), piece), Newlines(b) # {},
         NEW nl \in Nat, nl = StrRChr(b)
  PROVE  /\ Sent(Called(st, piece)) = Text(b, 0, nl)
         /\ NothingAfter(b, nl) => Buf(Called(st, piece)) = b /\ Idx(Called(st, piece)) = 0
         /\ ~NothingAfter(b, nl) =>
              /\ Buf(Called(st, piece)) = Moved(b, nl)
              /\ Idx(Called(st, piece)) = StrLen(Moved(b, nl))
<1>. DEFINE x == Idx(st) + Len(piece)
<1>1. Called(st, piece) = [buf  |-> IF b[nl + 1] # "nul" THEN Moved(b, nl) ELSE b,
                           idx  |-> RestIdx(b, x, nl),
                           sent |-> Text(b, 0, nl)]
  BY DEF Called, Buf, Idx, Sent
<1>. HIDE DEF x
<1>2. /\ Buf(Called(st, piece)) = IF b[nl + 1] # "nul" THEN Moved(b, nl) ELSE b
      /\ Idx(Called(st, piece)) = RestIdx(b, x, nl)
      /\ Sent(Called(st, piece)) = Text(b, 0, nl)
  BY <1>1 DEF Buf, Idx, Sent
<1>3. CASE NothingAfter(b, nl)
  BY <1>2, <1>3 DEF RestIdx, NothingAfter
<1>4. CASE ~NothingAfter(b, nl)
  BY <1>2, <1>4 DEF RestIdx, NothingAfter
<1>. QED
  BY <1>2, <1>3, <1>4

(* Whatever it finds, as long as the index is in the buffer, it leaves a     *)
(* buffer that ends in a zero and an index that has room.                    *)
LEMMA CalledInBuffer ==
  ASSUME NEW st, BufOK(Buf(st)), Idx(st) \in 0..(Size - 1), NEW piece \in Seq(Char)
  PROVE  BufOK(Buf(Called(st, piece))) /\ Idx(Called(st, piece)) \in 0..(Size - 2)
<1>. USE SizeAssumption
<1>1. PICK b : b = Printed(Buf(st), Idx(st), piece)
  OBVIOUS
<1>2. BufOK(b)
  BY <1>1, PrintedIs
<1>3. CASE Newlines(b) = {}
  <2>1. Idx(st) + Len(piece) \in Nat
    OBVIOUS
  <2>2. Buf(Called(st, piece)) = b
    BY <1>1, <1>3, CalledKeeps
  <2>3. CASE Idx(st) + Len(piece) >= Size - 1
    <3>1. Idx(Called(st, piece)) = 0
      BY <1>1, <1>3, <2>3, CalledKeeps
    <3>. QED
      BY <1>2, <2>2, <3>1
  <2>4. CASE ~(Idx(st) + Len(piece) >= Size - 1)
    <3>1. Idx(Called(st, piece)) = Idx(st) + Len(piece)
      BY <1>1, <1>3, <2>4, CalledKeeps
    <3>. QED
      BY <1>2, <2>1, <2>2, <2>4, <3>1
  <2>. QED
    BY <2>3, <2>4
<1>4. CASE Newlines(b) # {}
  <2>1. PICK nl : nl = StrRChr(b)
    OBVIOUS
  <2>2. nl \in Nat /\ nl \in 0..(Size - 2)
    BY <1>2, <1>4, <2>1, StrRChrIs
  <2>3. CASE NothingAfter(b, nl)
    <3>1. Buf(Called(st, piece)) = b /\ Idx(Called(st, piece)) = 0
      <4>1. Buf(Called(st, piece)) = b
        BY <1>1, <1>4, <2>1, <2>2, <2>3, CalledLogs
      <4>2. Idx(Called(st, piece)) = 0
        BY <1>1, <1>4, <2>1, <2>2, <2>3, CalledLogs
      <4>. QED
        BY <4>1, <4>2
    <3>. QED
      BY <1>2, <3>1
  <2>4. CASE ~NothingAfter(b, nl)
    <3>1. Buf(Called(st, piece)) = Moved(b, nl) /\ Idx(Called(st, piece)) = StrLen(Moved(b, nl))
      <4>1. Buf(Called(st, piece)) = Moved(b, nl)
        BY <1>1, <1>4, <2>1, <2>2, <2>4, CalledLogs
      <4>2. Idx(Called(st, piece)) = StrLen(Moved(b, nl))
        BY <1>1, <1>4, <2>1, <2>2, <2>4, CalledLogs
      <4>. QED
        BY <4>1, <4>2
    <3>2. BufOK(Moved(b, nl)) /\ StrLen(Moved(b, nl)) \in 0..(Size - 2)
      BY <1>2, <2>2, MovedLength
    <3>. QED
      BY <3>1, <3>2
  <2>. QED
    BY <2>3, <2>4
<1>. QED
  BY <1>3, <1>4

(* The index is in the text: the piece goes on with the text.                *)
LEMMA PrintedInText ==
  ASSUME NEW b, BufOK(b), NEW at \in Nat, at <= StrLen(b),
         NEW piece \in Seq(Char), at + Len(piece) < Size - 1
  PROVE  /\ BufOK(Printed(b, at, piece)) /\ StrLen(Printed(b, at, piece)) = at + Len(piece)
         /\ \A k \in 0..(at - 1) : Printed(b, at, piece)[k] = b[k] /\ b[k] # "nul"
         /\ \A k \in 1..Len(piece) : Printed(b, at, piece)[at + k - 1] = piece[k]
         /\ Printed(b, at, piece)[at + Len(piece)] = "nul"
<1>. USE SizeAssumption
<1>. DEFINE c == Printed(b, at, piece)
<1>1. at \in 0..(Size - 1) /\ Len(piece) \in Nat
  OBVIOUS
<1>2. /\ BufOK(c) /\ c[at + Len(piece)] = "nul"
      /\ \A k \in 0..(at - 1) : c[k] = b[k]
      /\ \A k \in 1..Len(piece) : c[at + k - 1] = piece[k]
  <2>1. at + Len(piece) <= Size - 1
    BY <1>1
  <2>. QED
    BY <1>1, <2>1, PrintedIs
<1>. HIDE DEF c
<1>3. \A k \in 0..(at - 1) : b[k] # "nul"
  BY <1>1, StrLenIs
<1>4. ASSUME NEW m \in 0..(at + Len(piece) - 1) PROVE c[m] # "nul"
  <2>1. CASE m < at
    BY <1>2, <1>3, <2>1
  <2>2. CASE m >= at
    <3>1. m - at + 1 \in 1..Len(piece) /\ at + (m - at + 1) - 1 = m
      BY <1>1, <2>2
    <3>2. piece[m - at + 1] \in Char
      BY <3>1
    <3>. QED
      BY <1>2, <3>1, <3>2 DEF Char
  <2>. QED
    BY <1>1, <2>1, <2>2
<1>5. StrLen(c) = at + Len(piece)
  <2>1. at + Len(piece) \in Nat /\ at + Len(piece) <= Size - 1
    BY <1>1
  <2>. QED
    BY <1>2, <1>4, <2>1, StrLenEquals
<1>. QED
  BY <1>2, <1>3, <1>5 DEF c

LEMMA CalledInText ==
  ASSUME NEW st, BufOK(Buf(st)), Idx(st) \in Nat, Idx(st) <= StrLen(Buf(st)),
         NEW piece \in Seq(Char), Idx(st) + Len(piece) < Size - 1
  PROVE  /\ Idx(Called(st, piece)) <= StrLen(Buf(Called(st, piece)))
         /\ Idx(Called(st, piece)) <= Idx(st) + Len(piece)
         /\ (piece # <<>> /\ Last(piece) = "newline") =>
              Idx(Called(st, piece)) = 0 /\ Newlines(Buf(Called(st, piece))) # {}
<1>. USE SizeAssumption
<1>. DEFINE b == Printed(Buf(st), Idx(st), piece)
            x == Idx(st) + Len(piece)
            nl == StrRChr(b)
<1>1. /\ BufOK(b) /\ StrLen(b) = x /\ b[x] = "nul"
      /\ \A k \in 1..Len(piece) : b[Idx(st) + k - 1] = piece[k]
  BY PrintedInText
<1>2. b = Printed(Buf(st), Idx(st), piece) /\ x \in Nat /\ x < Size - 1 /\ Len(piece) \in Nat
  OBVIOUS
<1>. HIDE DEF b
<1>3. CASE Newlines(b) = {}
  <2>1. Buf(Called(st, piece)) = b /\ Idx(Called(st, piece)) = x
    <3>1. ~(Idx(st) + Len(piece) >= Size - 1)
      BY <1>2
    <3>. QED
      BY <1>2, <1>3, <3>1, CalledKeeps
  <2>2. ~(piece # <<>> /\ Last(piece) = "newline")
    <3>1. SUFFICES ASSUME piece # <<>>, Last(piece) = "newline" PROVE FALSE
      OBVIOUS
    <3>2. Len(piece) \in 1..Len(piece) /\ b[x - 1] = "newline" /\ x - 1 \in 0..(x - 1)
      BY <1>1, <1>2, <3>1, SMTT(30) DEF Last
    <3>. QED
      BY <1>1, <1>3, <3>2 DEF Newlines
  <2>. QED
    BY <1>1, <2>1, <2>2
<1>4. CASE Newlines(b) # {}
  <2>1. /\ nl \in Nat /\ nl \in 0..(x - 1) /\ nl \in 0..(Size - 2)
        /\ \A m \in Newlines(b) : m <= nl
    BY <1>1, <1>4, StrRChrIs
  <2>. HIDE DEF nl
  <2>2. CASE NothingAfter(b, nl)
    <3>1. Buf(Called(st, piece)) = b /\ Idx(Called(st, piece)) = 0
      <4>1. Buf(Called(st, piece)) = b
        BY <1>2, <1>4, <2>1, <2>2, CalledLogs DEF nl
      <4>2. Idx(Called(st, piece)) = 0
        BY <1>2, <1>4, <2>1, <2>2, CalledLogs DEF nl
      <4>. QED
        BY <4>1, <4>2
    <3>. QED
      BY <1>1, <1>2, <1>4, <3>1
  <2>3. CASE ~NothingAfter(b, nl)
    <3>1. Buf(Called(st, piece)) = Moved(b, nl) /\ Idx(Called(st, piece)) = StrLen(Moved(b, nl))
      <4>1. Buf(Called(st, piece)) = Moved(b, nl)
        BY <1>2, <1>4, <2>1, <2>3, CalledLogs DEF nl
      <4>2. Idx(Called(st, piece)) = StrLen(Moved(b, nl))
        BY <1>2, <1>4, <2>1, <2>3, CalledLogs DEF nl
      <4>. QED
        BY <4>1, <4>2
    <3>2. StrEnd(b, nl + 1) <= x
      <4>1. nl + 1 \in 0..(Size - 1) /\ x \in (nl + 1)..(Size - 1)
        BY <1>2, <2>1
      <4>. HIDE DEF x
      <4>. QED
        BY <1>1, <4>1, StrEndAtMost
    <3>3. StrLen(Moved(b, nl)) \in 0..(Size - 2) /\ StrLen(Moved(b, nl)) = StrEnd(b, nl + 1) - (nl + 1)
      <4>. HIDE DEF x
      <4>1. nl \in 0..(Size - 2)
        BY <2>1
      <4>. QED
        BY <1>1, <4>1, MovedLength
    <3>4. StrEnd(b, nl + 1) \in (nl + 1)..(Size - 1)
      <4>1. nl + 1 \in 0..(Size - 1)
        BY <2>1
      <4>. QED
        BY <1>1, <4>1, StrEndIs
    <3>5. StrLen(Moved(b, nl)) <= x
      BY <1>2, <2>1, <3>2, <3>3, <3>4
    <3>6. ~(piece # <<>> /\ Last(piece) = "newline")
      <4>1. SUFFICES ASSUME piece # <<>>, Last(piece) = "newline" PROVE FALSE
        OBVIOUS
      <4>2. Len(piece) \in 1..Len(piece) /\ b[x - 1] = "newline" /\ x - 1 \in 0..(x - 1)
        BY <1>1, <1>2, <4>1, SMTT(30) DEF Last
      <4>3. x - 1 \in Newlines(b)
        BY <1>1, <4>2 DEF Newlines
      <4>4. nl = x - 1
        BY <1>2, <2>1, <4>3
      <4>. QED
        BY <1>1, <1>2, <2>3, <4>4 DEF NothingAfter
    <3>7. StrLen(Moved(b, nl)) \in Nat
      BY <3>3
    <3>. QED
      BY <3>1, <3>5, <3>6, <3>7
  <2>. QED
    BY <2>2, <2>3
<1>. QED
  BY <1>3, <1>4

(* The index is beyond the text: what is written there is lost, and the      *)
(* newline in the text sets the index back.                                  *)
LEMMA CalledPastText ==
  ASSUME NEW st, BufOK(Buf(st)), Idx(st) \in 0..(Size - 1), Idx(st) > StrLen(Buf(st)),
         Newlines(Buf(st)) # {}, NEW piece \in Seq(Char)
  PROVE  /\ Idx(Called(st, piece)) <= StrLen(Buf(Called(st, piece)))
         /\ Idx(Called(st, piece)) <= Idx(st)
<1>. USE SizeAssumption
<1>. DEFINE b == Printed(Buf(st), Idx(st), piece)
            n == StrLen(Buf(st))
            nl == StrRChr(b)
<1>1. BufOK(b) /\ \A k \in 0..(Idx(st) - 1) : b[k] = Buf(st)[k]
  BY PrintedIs
<1>2. b = Printed(Buf(st), Idx(st), piece)
  OBVIOUS
<1>3. n \in 0..(Size - 1) /\ n < Idx(st) /\ Buf(st)[n] = "nul" /\ \A m \in 0..(n - 1) : Buf(st)[m] # "nul"
  BY StrLenIs
<1>. HIDE DEF b
<1>4. StrLen(b) = n /\ b[n] = "nul"
  <2>1. b[n] = "nul" /\ \A m \in 0..(n - 1) : b[m] # "nul"
    BY <1>1, <1>3
  <2>2. n \in Nat /\ n <= Size - 1
    BY <1>3
  <2>. HIDE DEF n
  <2>. QED
    BY <1>1, <2>1, <2>2, StrLenEquals
<1>. HIDE DEF n
<1>5. Newlines(b) # {}
  <2>1. PICK p \in 0..(n - 1) : Buf(st)[p] = "newline"
    BY DEF Newlines, n
  <2>2. b[p] = "newline"
    BY <1>1, <1>3, <2>1
  <2>. QED
    BY <1>4, <2>1, <2>2 DEF Newlines
<1>6. nl \in Nat /\ nl \in 0..(n - 1) /\ nl \in 0..(Size - 2)
  BY <1>1, <1>4, <1>5, StrRChrIs
<1>. HIDE DEF nl
<1>7. CASE NothingAfter(b, nl)
  <2>1. Buf(Called(st, piece)) = b /\ Idx(Called(st, piece)) = 0
    <3>1. Buf(Called(st, piece)) = b
      BY <1>2, <1>5, <1>6, <1>7, CalledLogs DEF nl
    <3>2. Idx(Called(st, piece)) = 0
      BY <1>2, <1>5, <1>6, <1>7, CalledLogs DEF nl
    <3>. QED
      BY <3>1, <3>2
  <2>. QED
    BY <1>3, <1>4, <2>1
<1>8. CASE ~NothingAfter(b, nl)
  <2>1. Buf(Called(st, piece)) = Moved(b, nl) /\ Idx(Called(st, piece)) = StrLen(Moved(b, nl))
    <3>1. Buf(Called(st, piece)) = Moved(b, nl)
      BY <1>2, <1>5, <1>6, <1>8, CalledLogs DEF nl
    <3>2. Idx(Called(st, piece)) = StrLen(Moved(b, nl))
      BY <1>2, <1>5, <1>6, <1>8, CalledLogs DEF nl
    <3>. QED
      BY <3>1, <3>2
  <2>2. StrEnd(b, nl + 1) <= n /\ StrEnd(b, nl + 1) \in (nl + 1)..(Size - 1)
    <3>1. nl + 1 \in 0..(Size - 1) /\ n \in (nl + 1)..(Size - 1)
      BY <1>3, <1>6
    <3>2. StrEnd(b, nl + 1) <= n
      BY <1>1, <1>4, <3>1, StrEndAtMost
    <3>3. StrEnd(b, nl + 1) \in (nl + 1)..(Size - 1)
      BY <1>1, <3>1, StrEndIs
    <3>. QED
      BY <3>2, <3>3
  <2>3. StrLen(Moved(b, nl)) = StrEnd(b, nl + 1) - (nl + 1)
    BY <1>1, <1>6, MovedLength
  <2>4. StrLen(Moved(b, nl)) \in Nat /\ StrLen(Moved(b, nl)) <= Idx(st)
    BY <1>3, <1>6, <2>2, <2>3
  <2>. QED
    BY <2>1, <2>4
<1>. QED
  BY <1>7, <1>8

-----------------------------------------------------------------------------
(* The calls of a handler, one after the other.                              *)

ReportStep(f, n, st) == IF n = 0 THEN st ELSE Called(f[n - 1], Report[n])

LEMMA AfterExists ==
  ASSUME NEW st
  PROVE  \A n \in Nat : \E f : f = [m \in 0..n |-> ReportStep(f, m, st)]
<1>. DEFINE T == {n \in Nat : \E f : f = [m \in 0..n |-> ReportStep(f, m, st)]}
<1>1. 0 \in T
  <2>. DEFINE f == [m \in 0..0 |-> st]
  <2>1. \A m \in 0..0 : ReportStep(f, m, st) = st
    BY DEF ReportStep
  <2>2. f = [m \in 0..0 |-> ReportStep(f, m, st)]
    <3>. HIDE DEF f
    <3>1. f = [m \in 0..0 |-> st]
      BY DEF f
    <3>. QED
      BY <2>1, <3>1
  <2>. QED
    BY <2>2
<1>2. ASSUME NEW n \in Nat, n \in T PROVE n + 1 \in T
  <2>1. PICK f : f = [m \in 0..n |-> ReportStep(f, m, st)]
    BY <1>2
  <2>. DEFINE g == [m \in 0..(n + 1) |-> IF m = n + 1 THEN Called(f[n], Report[n + 1]) ELSE f[m]]
  <2>2. ASSUME NEW m \in 0..(n + 1) PROVE g[m] = ReportStep(g, m, st)
    <3>1. CASE m = n + 1
      <4>1. n \in 0..(n + 1) /\ n # n + 1 /\ n + 1 # 0 /\ (n + 1) - 1 = n
        OBVIOUS
      <4>2. g[n] = f[n] /\ g[n + 1] = Called(f[n], Report[n + 1])
        BY <4>1
      <4>. HIDE DEF g
      <4>3. ReportStep(g, n + 1, st) = Called(g[n], Report[n + 1])
        BY <4>1, Zenon DEF ReportStep
      <4>. QED
        BY <3>1, <4>2, <4>3
    <3>2. CASE m # n + 1
      <4>1. m \in 0..n /\ (m # 0 => m - 1 \in 0..n /\ m - 1 \in 0..(n + 1) /\ m - 1 # n + 1)
        BY <3>2
      <4>2. g[m] = f[m] /\ (m # 0 => g[m - 1] = f[m - 1])
        BY <3>2, <4>1
      <4>3. f[m] = ReportStep(f, m, st)
        BY <2>1, <4>1, Zenon
      <4>. HIDE DEF g
      <4>4. ReportStep(g, m, st) = ReportStep(f, m, st)
        BY <4>2, Zenon DEF ReportStep
      <4>. QED
        BY <4>2, <4>3, <4>4
    <3>. QED
      BY <3>1, <3>2
  <2>3. g = [m \in 0..(n + 1) |-> g[m]]
    OBVIOUS
  <2>. HIDE DEF g
  <2>4. g = [m \in 0..(n + 1) |-> ReportStep(g, m, st)]
    BY <2>2, <2>3
  <2>. QED
    BY <2>4
<1>. HIDE DEF T
<1>3. Nat \subseteq T
  BY <1>1, <1>2, SetInduction
<1>. QED
  BY <1>3 DEF T

(* What the handler leaves is what its last call leaves.                     *)
LEMMA LoggedIs ==
  ASSUME NEW st
  PROVE  \E f : /\ f[0] = st
                /\ \A n \in 0..(Len(Report) - 1) : f[n + 1] = Called(f[n], Report[n + 1])
                /\ Logged(st) = f[Len(Report)]
<1>. DEFINE Steps(f) == f = [n \in 0..Len(Report) |->
                               IF n = 0 THEN st ELSE Called(f[n - 1], Report[n])]
            g == CHOOSE f : Steps(f)
<1>1. Len(Report) \in Nat
  BY ReportAssumption
<1>2. \E f : Steps(f)
  BY <1>1, AfterExists, ZenonT(30) DEF ReportStep
<1>3. Steps(g)
  <2>. HIDE DEF Steps
  <2>. QED
    BY <1>2
<1>4. Logged(st) = g[Len(Report)]
  BY DEF Logged
<1>. HIDE DEF g
<1>5. g[0] = st
  <2>1. 0 \in 0..Len(Report)
    BY <1>1
  <2>. QED
    BY <1>3, <2>1
<1>6. ASSUME NEW n \in 0..(Len(Report) - 1) PROVE g[n + 1] = Called(g[n], Report[n + 1])
  <2>1. n + 1 \in 0..Len(Report) /\ n + 1 # 0 /\ (n + 1) - 1 = n
    BY <1>1
  <2>2. g[n + 1] = IF n + 1 = 0 THEN st ELSE Called(g[(n + 1) - 1], Report[n + 1])
    BY <1>3, <2>1, Zenon
  <2>. QED
    BY <2>1, <2>2
<1>. QED
  BY <1>4, <1>5, <1>6

-----------------------------------------------------------------------------
(* The text of the report, piece by piece.                                   *)

Upto(n) == FlattenSeq(SubSeq(Report, 1, n))

LEMMA UptoIs ==
  /\ Len(Report) \in Nat /\ Len(Report) >= 1
  /\ \A n \in 1..Len(Report) : Report[n] \in Seq(Char)
  /\ Upto(0) = <<>> /\ Upto(Len(Report)) = ReportText /\ ReportText \in Seq(Char)
  /\ \A n \in 0..Len(Report) : Upto(n) \in Seq(Char)
  /\ \A n \in 0..(Len(Report) - 1) : Upto(n + 1) = Upto(n) \o Report[n + 1]
<1>. DEFINE Q == Seq(Char)
            L == Len(Report)
<1>1. Report \in Seq(Q) /\ Report # <<>>
  BY ReportAssumption
<1>2. \A seqs \in Seq(Q) : FlattenSeq(seqs) \in Q
  BY FlattenType
<1>3. \A seqs \in Seq(Q), x \in Q : FlattenSeq(Append(seqs, x)) = FlattenSeq(seqs) \o x
  BY FlattenAppend
<1>. HIDE DEF Q
<1>4. L \in Nat /\ L >= 1 /\ \A n \in 1..L : Report[n] \in Q
  BY <1>1
<1>5. SubSeq(Report, 1, 0) = <<>> /\ SubSeq(Report, 1, L) = Report
  BY <1>1
<1>6. \A n \in 0..L : SubSeq(Report, 1, n) \in Seq(Q)
  BY <1>1
<1>7. ASSUME NEW n \in 0..(L - 1)
      PROVE  SubSeq(Report, 1, n + 1) = Append(SubSeq(Report, 1, n), Report[n + 1])
  BY <1>1
<1>. HIDE DEF L
<1>8. Upto(0) = <<>>
  BY <1>5, FlattenEmpty DEF Upto
<1>9. Upto(L) = ReportText /\ ReportText \in Q
  BY <1>1, <1>2, <1>5 DEF Upto, ReportText
<1>10. \A n \in 0..L : Upto(n) \in Q
  BY <1>2, <1>6 DEF Upto
<1>11. ASSUME NEW n \in 0..(L - 1) PROVE Upto(n + 1) = Upto(n) \o Report[n + 1]
  <2>1. n \in 0..L /\ n + 1 \in 1..L
    BY <1>4
  <2>2. FlattenSeq(Append(SubSeq(Report, 1, n), Report[n + 1])) = FlattenSeq(SubSeq(Report, 1, n)) \o Report[n + 1]
    BY <1>3, <1>4, <1>6, <2>1
  <2>. QED
    BY <1>7, <2>2 DEF Upto
<1>. QED
  BY <1>4, <1>8, <1>9, <1>10, <1>11 DEF Q, L

LEMMA UptoLength ==
  /\ Len(Upto(0)) = 0 /\ Len(ReportText) \in Nat
  /\ \A n \in 0..Len(Report) : Len(Upto(n)) \in Nat
  /\ \A n \in 0..(Len(Report) - 1) :
       Len(Report[n + 1]) \in Nat /\ Len(Upto(n + 1)) = Len(Upto(n)) + Len(Report[n + 1])
<1>1. Len(Upto(0)) = 0 /\ Len(ReportText) \in Nat
  BY UptoIs
<1>2. \A n \in 0..Len(Report) : Len(Upto(n)) \in Nat
  BY UptoIs
<1>3. ASSUME NEW n \in 0..(Len(Report) - 1)
      PROVE  Len(Report[n + 1]) \in Nat /\ Len(Upto(n + 1)) = Len(Upto(n)) + Len(Report[n + 1])
  <2>1. n \in 0..Len(Report) /\ n + 1 \in 1..Len(Report)
    BY UptoIs
  <2>2. Upto(n) \in Seq(Char) /\ Report[n + 1] \in Seq(Char)
    BY <2>1, UptoIs
  <2>3. Upto(n + 1) = Upto(n) \o Report[n + 1]
    BY UptoIs
  <2>. QED
    BY <2>2, <2>3, ConcatProperties
<1>. QED
  BY <1>1, <1>2, <1>3

(* What was logged of the report at some point stays the front of it.        *)
LEMMA UptoGrows ==
  ASSUME NEW n \in 0..(Len(Report) - 1)
  PROVE  /\ Len(Upto(n)) <= Len(Upto(n + 1))
         /\ \A k \in 1..Len(Upto(n)) : Upto(n + 1)[k] = Upto(n)[k]
         /\ \A k \in 1..Len(Report[n + 1]) : Upto(n + 1)[Len(Upto(n)) + k] = Report[n + 1][k]
<1>1. n \in 0..Len(Report) /\ n + 1 \in 1..Len(Report)
  BY UptoIs
<1>2. Upto(n) \in Seq(Char) /\ Report[n + 1] \in Seq(Char) /\ Upto(n + 1) = Upto(n) \o Report[n + 1]
  BY <1>1, UptoIs
<1>. QED
  BY <1>2, ConcatProperties

LEMMA UptoKeeps ==
  ASSUME NEW n \in 0..Len(Report)
  PROVE  \A m \in n..Len(Report) :
           /\ Len(Upto(n)) <= Len(Upto(m))
           /\ \A k \in 1..Len(Upto(n)) : Upto(m)[k] = Upto(n)[k]
<1>. DEFINE Begins(m) == /\ Len(Upto(n)) <= Len(Upto(m))
                         /\ \A k \in 1..Len(Upto(n)) : Upto(m)[k] = Upto(n)[k]
            T == {d \in Nat : n + d <= Len(Report) => Begins(n + d)}
<1>1. Len(Report) \in Nat
  BY UptoIs
<1>2. 0 \in T
  <2>1. n + 0 = n /\ Len(Upto(n)) \in Nat
    BY UptoLength
  <2>. QED
    BY <1>1, <2>1
<1>3. ASSUME NEW d \in Nat, d \in T PROVE d + 1 \in T
  <2>1. SUFFICES ASSUME n + (d + 1) <= Len(Report) PROVE Begins(n + (d + 1))
    OBVIOUS
  <2>2. PICK m : m = n + d
    OBVIOUS
  <2>3. /\ m \in 0..(Len(Report) - 1) /\ m \in 0..Len(Report) /\ m + 1 \in 0..Len(Report)
        /\ n + d = m /\ n + (d + 1) = m + 1 /\ n + d <= Len(Report)
    BY <1>1, <2>1, <2>2
  <2>4. Begins(m)
    BY <1>3, <2>3
  <2>5. Len(Upto(m)) <= Len(Upto(m + 1)) /\ \A k \in 1..Len(Upto(m)) : Upto(m + 1)[k] = Upto(m)[k]
    BY <2>3, UptoGrows
  <2>6. Len(Upto(n)) \in Nat /\ Len(Upto(m)) \in Nat /\ Len(Upto(m + 1)) \in Nat
    BY <2>3, UptoLength
  <2>7. Begins(m + 1)
    BY <2>4, <2>5, <2>6
  <2>. QED
    BY <2>3, <2>7
<1>4. Nat \subseteq T
  <2>. HIDE DEF T
  <2>. QED
    BY <1>2, <1>3, SetInduction
<1>5. ASSUME NEW m \in n..Len(Report) PROVE Begins(m)
  <2>1. m - n \in Nat /\ n + (m - n) = m /\ m <= Len(Report)
    BY <1>1
  <2>2. m - n \in T
    BY <1>4, <2>1
  <2>. HIDE DEF Begins
  <2>3. n + (m - n) <= Len(Report) => Begins(n + (m - n))
    BY <2>2
  <2>. QED
    BY <2>1, <2>3
<1>. QED
  BY <1>5

LEMMA UptoIsPrefix ==
  ASSUME NEW n \in 0..Len(Report)
  PROVE  /\ Len(Upto(n)) <= Len(ReportText)
         /\ \A k \in 1..Len(Upto(n)) : ReportText[k] = Upto(n)[k]
<1>1. Len(Report) \in n..Len(Report) /\ Upto(Len(Report)) = ReportText
  BY UptoIs
<1>. QED
  BY <1>1, UptoKeeps

-----------------------------------------------------------------------------
(* A handler that finds the index in the buffer stays in the buffer.         *)
LEMMA LoggedInBuffer ==
  ASSUME NEW st, BufOK(Buf(st)), Idx(st) \in 0..(Size - 1)
  PROVE  BufOK(Buf(Logged(st))) /\ Idx(Logged(st)) \in 0..(Size - 2)
<1>. USE SizeAssumption
<1>. DEFINE L == Len(Report)
<1>1. PICK f : /\ f[0] = st
               /\ \A n \in 0..(L - 1) : f[n + 1] = Called(f[n], Report[n + 1])
               /\ Logged(st) = f[L]
  BY LoggedIs
<1>2. L \in Nat /\ L >= 1 /\ \A n \in 1..L : Report[n] \in Seq(Char)
  BY UptoIs
<1>. HIDE DEF L
<1>3. ASSUME NEW n \in 0..(L - 1), BufOK(Buf(f[n])), Idx(f[n]) \in 0..(Size - 1)
      PROVE  BufOK(Buf(f[n + 1])) /\ Idx(f[n + 1]) \in 0..(Size - 2)
  <2>1. Report[n + 1] \in Seq(Char) /\ f[n + 1] = Called(f[n], Report[n + 1])
    BY <1>1, <1>2
  <2>. QED
    BY <1>3, <2>1, CalledInBuffer
<1>. DEFINE T == {n \in Nat : n <= L - 1 => BufOK(Buf(f[n])) /\ Idx(f[n]) \in 0..(Size - 1)}
<1>4. 0 \in T
  BY <1>1
<1>5. ASSUME NEW n \in Nat, n \in T PROVE n + 1 \in T
  <2>1. SUFFICES ASSUME n + 1 <= L - 1 PROVE BufOK(Buf(f[n + 1])) /\ Idx(f[n + 1]) \in 0..(Size - 1)
    OBVIOUS
  <2>2. n \in 0..(L - 1) /\ n <= L - 1
    BY <1>2, <2>1
  <2>3. BufOK(Buf(f[n + 1])) /\ Idx(f[n + 1]) \in 0..(Size - 2)
    BY <1>3, <1>5, <2>2
  <2>. QED
    BY <2>3
<1>6. Nat \subseteq T
  <2>. HIDE DEF T
  <2>. QED
    BY <1>4, <1>5, SetInduction
<1>7. L - 1 \in 0..(L - 1) /\ L - 1 \in Nat /\ (L - 1) + 1 = L
  BY <1>2
<1>8. BufOK(Buf(f[L - 1])) /\ Idx(f[L - 1]) \in 0..(Size - 1)
  BY <1>6, <1>7
<1>. HIDE DEF T
<1>9. BufOK(Buf(f[(L - 1) + 1])) /\ Idx(f[(L - 1) + 1]) \in 0..(Size - 2)
  BY <1>3, <1>7, <1>8
<1>. QED
  BY <1>1, <1>7, <1>9

(* One that finds room for its report, and the index in the text or a        *)
(* newline there, leaves the index in the text and never further on; from    *)
(* an index in the text, its newline sets the index back to the front.       *)
LEMMA LoggedInText ==
  ASSUME NEW st, BufOK(Buf(st)), Idx(st) \in Nat, Idx(st) + Len(ReportText) < Size - 1,
         Idx(st) <= StrLen(Buf(st)) \/ Newlines(Buf(st)) # {}
  PROVE  /\ Idx(Logged(st)) <= StrLen(Buf(Logged(st)))
         /\ Idx(Logged(st)) <= Idx(st)
         /\ Idx(st) <= StrLen(Buf(st)) => Idx(Logged(st)) = 0 /\ Newlines(Buf(Logged(st))) # {}
<1>. USE SizeAssumption
<1>. DEFINE L == Len(Report)
            InT(g) == Idx(g) <= StrLen(Buf(g))
<1>1. PICK f : /\ f[0] = st
               /\ \A n \in 0..(L - 1) : f[n + 1] = Called(f[n], Report[n + 1])
               /\ Logged(st) = f[L]
  BY LoggedIs
<1>2. /\ L \in Nat /\ L >= 1 /\ \A n \in 1..L : Report[n] \in Seq(Char)
      /\ Report[L] # <<>> /\ Last(Report[L]) = "newline"
  BY UptoIs, ReportAssumption DEF Last
<1>3. /\ Len(Upto(0)) = 0 /\ Len(ReportText) \in Nat
      /\ \A n \in 0..L : Len(Upto(n)) \in Nat /\ Len(Upto(n)) <= Len(ReportText)
      /\ \A n \in 0..(L - 1) :
           Len(Report[n + 1]) \in Nat /\ Len(Upto(n + 1)) = Len(Upto(n)) + Len(Report[n + 1])
  BY UptoLength, UptoIsPrefix
<1>. HIDE DEF L
<1>. DEFINE Fine(n) == /\ BufOK(Buf(f[n])) /\ Idx(f[n]) \in Nat
                       /\ Idx(f[n]) <= Idx(st) + Len(Upto(n))
                       /\ n > 0 \/ InT(st) => InT(f[n])
(* From one call to the next. *)
<1>4. ASSUME NEW n \in 0..(L - 1), Fine(n)
      PROVE  /\ Fine(n + 1)
             /\ (n = 0 /\ ~InT(st)) => Idx(f[n + 1]) <= Idx(st)
             /\ (n = L - 1 /\ (n > 0 \/ InT(st))) => Idx(f[n + 1]) = 0 /\ Newlines(Buf(f[n + 1])) # {}
  <2>1. /\ f[n + 1] = Called(f[n], Report[n + 1]) /\ Report[n + 1] \in Seq(Char)
        /\ n + 1 \in 0..L /\ n \in 0..L
    BY <1>1, <1>2
  <2>2. /\ Len(Upto(n)) \in Nat /\ Len(Upto(n + 1)) \in Nat /\ Len(Upto(n + 1)) <= Len(ReportText)
        /\ Len(Report[n + 1]) \in Nat /\ Len(Upto(n + 1)) = Len(Upto(n)) + Len(Report[n + 1])
    BY <1>3, <2>1
  <2>3. Idx(f[n]) \in 0..(Size - 1) /\ Idx(f[n]) + Len(Report[n + 1]) < Size - 1
    BY <1>3, <1>4, <2>2
  <2>4. BufOK(Buf(f[n + 1])) /\ Idx(f[n + 1]) \in 0..(Size - 2)
    BY <1>4, <2>1, <2>3, CalledInBuffer
  <2>5. CASE n > 0 \/ InT(st)
    <3>1. InT(f[n])
      BY <1>4, <2>5
    <3>2. /\ InT(f[n + 1]) /\ Idx(f[n + 1]) <= Idx(f[n]) + Len(Report[n + 1])
          /\ (Report[n + 1] # <<>> /\ Last(Report[n + 1]) = "newline") =>
               Idx(f[n + 1]) = 0 /\ Newlines(Buf(f[n + 1])) # {}
      BY <1>4, <2>1, <2>3, <3>1, CalledInText
    <3>3. n = L - 1 => n + 1 = L
      BY <1>2
    <3>. HIDE DEF InT
    <3>4. Idx(f[n + 1]) <= Idx(st) + Len(Upto(n + 1))
      <4>1. Idx(f[n]) \in Nat /\ Idx(f[n]) <= Idx(st) + Len(Upto(n)) /\ Idx(st) \in Nat
        BY <1>4
      <4>2. Idx(f[n + 1]) \in Nat /\ Idx(f[n + 1]) <= Idx(f[n]) + Len(Report[n + 1])
        BY <2>4, <3>2
      <4>. HIDE DEF Fine
      <4>. QED
        BY <2>2, <4>1, <4>2, SMTT(30)
    <3>5. Idx(f[n + 1]) \in Nat
      BY <2>4
    <3>6. Fine(n + 1)
      BY <2>4, <3>2, <3>4, <3>5
    <3>7. n = L - 1 => Idx(f[n + 1]) = 0 /\ Newlines(Buf(f[n + 1])) # {}
      BY <1>2, <3>2, <3>3
    <3>. HIDE DEF Fine
    <3>8. ~(n = 0 /\ ~InT(st))
      BY <2>5
    <3>. QED
      BY <3>6, <3>7, <3>8
  <2>6. CASE n = 0 /\ ~InT(st)
    <3>1. f[n] = st /\ Newlines(Buf(st)) # {} /\ ~(Idx(st) <= StrLen(Buf(st)))
      BY <1>1, <2>6
    <3>2. StrLen(Buf(st)) \in 0..(Size - 1)
      BY StrLenIs
    <3>3. Idx(st) \in 0..(Size - 1) /\ Idx(st) > StrLen(Buf(st))
      BY <2>3, <3>1, <3>2
    <3>4. InT(f[n + 1]) /\ Idx(f[n + 1]) <= Idx(st)
      BY <2>1, <3>1, <3>3, CalledPastText
    <3>. HIDE DEF InT
    <3>5. Idx(f[n + 1]) \in Nat /\ Idx(f[n + 1]) <= Idx(st) + Len(Upto(n + 1))
      BY <2>2, <2>4, <3>4
    <3>6. Fine(n + 1)
      BY <2>4, <3>4, <3>5
    <3>7. ~(n > 0 \/ InT(st))
      BY <2>6
    <3>. HIDE DEF Fine
    <3>. QED
      BY <3>4, <3>6, <3>7
  <2>. QED
    BY <2>5, <2>6
<1>. DEFINE T == {n \in Nat : n <= L - 1 => Fine(n)}
<1>5. 0 \in T
  <2>1. Idx(f[0]) <= Idx(st) + Len(Upto(0))
    BY <1>1, <1>3
  <2>. QED
    BY <1>1, <2>1
<1>. HIDE DEF Fine, InT
<1>6. ASSUME NEW n \in Nat, n \in T PROVE n + 1 \in T
  <2>1. SUFFICES ASSUME n + 1 <= L - 1 PROVE Fine(n + 1)
    OBVIOUS
  <2>2. n \in 0..(L - 1) /\ n <= L - 1
    BY <1>2, <2>1
  <2>. QED
    BY <1>4, <1>6, <2>2
<1>7. Nat \subseteq T
  <2>. HIDE DEF T
  <2>. QED
    BY <1>5, <1>6, SetInduction
<1>8. L - 1 \in 0..(L - 1) /\ L - 1 \in Nat /\ (L - 1) + 1 = L
  BY <1>2
<1>9. Fine(L - 1)
  BY <1>7, <1>8
<1>. HIDE DEF T
<1>10. /\ Fine(L)
       /\ (L - 1 = 0 /\ ~InT(st)) => Idx(f[L]) <= Idx(st)
       /\ (L - 1 > 0 \/ InT(st)) => Idx(f[L]) = 0 /\ Newlines(Buf(f[L])) # {}
  BY <1>4, <1>8, <1>9
<1>11. InT(f[L])
  BY <1>2, <1>10 DEF Fine
<1>12. L - 1 = 0 \/ L - 1 > 0
  BY <1>2
<1>13. Idx(f[L]) <= Idx(st)
  BY <1>10, <1>12
<1>. QED
  BY <1>1, <1>10, <1>11, <1>13 DEF InT

-----------------------------------------------------------------------------
(* The report of a handler in one line.                                      *)

LEMMA IsSuffixIf ==
  ASSUME NEW S, NEW s \in Seq(S), NEW t \in Seq(S), Len(s) <= Len(t),
         \A k \in 1..Len(s) : s[k] = t[Len(t) - Len(s) + k]
  PROVE  IsSuffix(s, t)
<1>. DEFINE rs == Reverse(s)  rt == Reverse(t)
<1>1. /\ rs \in Seq(S) /\ Len(rs) = Len(s) /\ \A k \in 1..Len(s) : rs[k] = s[Len(s) - k + 1]
      /\ rt \in Seq(S) /\ Len(rt) = Len(t) /\ \A k \in 1..Len(t) : rt[k] = t[Len(t) - k + 1]
  BY DEF Reverse
<1>. HIDE DEF rs, rt
<1>2. ASSUME NEW k \in 1..Len(s) PROVE rs[k] = rt[k]
  <2>1. Len(s) - k + 1 \in 1..Len(s) /\ Len(t) - Len(s) + (Len(s) - k + 1) = Len(t) - k + 1 /\ k \in 1..Len(t)
    OBVIOUS
  <2>. QED
    BY <1>1, <2>1
<1>. DEFINE u == SubSeq(rs, 1, Len(rs))  v == SubSeq(rt, 1, Len(rs))
<1>3. /\ u \in Seq(S) /\ Len(u) = Len(s) /\ \A k \in 1..Len(s) : u[k] = rs[k]
      /\ v \in Seq(S) /\ Len(v) = Len(s) /\ \A k \in 1..Len(s) : v[k] = rt[k]
  BY <1>1
<1>. HIDE DEF u, v
<1>4. u = v
  BY <1>2, <1>3, SeqEqual
<1>. QED
  BY <1>1, <1>4 DEF IsSuffix, IsPrefix, rs, rt, u, v

(* What the buffer holds up to the index ends in text, and a newline can     *)
(* only stand right before that.                                             *)
EndsIn(b, x, text) ==
  /\ Len(text) <= x
  /\ \A k \in 1..Len(text) : b[x - Len(text) + k - 1] = text[k]
NewlineBefore(b, x, text) ==
  \A k \in 0..(x - 1) : b[k] = "newline" => k = x - Len(text) - 1

(* A piece goes on with what the buffer ends in.                             *)
LEMMA EndsInMore ==
  ASSUME NEW b, BufOK(b), NEW x \in Nat, x <= StrLen(b), NEW n \in 0..(Len(Report) - 1),
         x + Len(Report[n + 1]) < Size - 1, EndsIn(b, x, Upto(n)),
         NEW c, c = Printed(b, x, Report[n + 1]), NEW y, y = x + Len(Report[n + 1])
  PROVE  EndsIn(c, y, Upto(n + 1)) /\ y - Len(Upto(n + 1)) = x - Len(Upto(n))
<1>. DEFINE piece == Report[n + 1]
            old == Upto(n)
            new == Upto(n + 1)
<1>1. /\ piece \in Seq(Char) /\ Len(piece) \in Nat /\ Len(old) \in Nat
      /\ Len(new) = Len(old) + Len(piece)
  <2>1. n + 1 \in 1..Len(Report) /\ n \in 0..Len(Report)
    BY UptoIs
  <2>. QED
    BY <2>1, UptoIs, UptoLength
<1>2. /\ \A k \in 1..Len(old) : new[k] = old[k]
      /\ \A k \in 1..Len(piece) : new[Len(old) + k] = piece[k]
  BY UptoGrows
<1>3. /\ \A k \in 0..(x - 1) : c[k] = b[k]
      /\ \A k \in 1..Len(piece) : c[x + k - 1] = piece[k]
  <2>1. piece = Report[n + 1]
    OBVIOUS
  <2>. HIDE DEF piece
  <2>2. x + Len(piece) < Size - 1 /\ c = Printed(b, x, piece)
    BY <2>1
  <2>. QED
    BY <1>1, <2>2, PrintedInText, SMTT(30)
<1>4. Len(old) <= x /\ \A k \in 1..Len(old) : b[x - Len(old) + k - 1] = old[k]
  BY DEF EndsIn
<1>. HIDE DEF piece, old, new
<1>5. y = x + Len(piece) /\ y - Len(new) = x - Len(old) /\ Len(new) <= y
  BY <1>1, <1>4 DEF piece
<1>6. ASSUME NEW k \in 1..Len(new) PROVE c[y - Len(new) + k - 1] = new[k]
  <2>1. CASE k <= Len(old)
    <3>1. k \in 1..Len(old) /\ x - Len(old) + k - 1 \in 0..(x - 1)
      BY <1>1, <1>4, <2>1
    <3>2. y - Len(new) + k - 1 = x - Len(old) + k - 1
      BY <1>5
    <3>. QED
      BY <1>2, <1>3, <1>4, <3>1, <3>2
  <2>2. CASE k > Len(old)
    <3>1. k - Len(old) \in 1..Len(piece) /\ Len(old) + (k - Len(old)) = k
      BY <1>1, <2>2
    <3>2. y - Len(new) + k - 1 = x + (k - Len(old)) - 1
      BY <1>1, <1>5, SMTT(30)
    <3>. QED
      BY <1>2, <1>3, <3>1, <3>2, ZenonT(30)
  <2>. QED
    BY <1>1, <2>1, <2>2
<1>. QED
  BY <1>5, <1>6 DEF EndsIn, new, old

(* No piece but the last has a newline, where the report is one line.        *)
LEMMA NoNewlineInPiece ==
  ASSUME NoNewline(Front(ReportText)), NEW n \in 0..(Len(Report) - 2)
  PROVE  \A k \in 1..Len(Report[n + 1]) : Report[n + 1][k] # "newline"
<1>. DEFINE L == Len(Report)
<1>1. /\ L \in Nat /\ n \in 0..(L - 1) /\ n + 1 \in 0..(L - 1) /\ n + 1 \in 0..L
      /\ L - 1 \in 0..(L - 1) /\ L - 1 \in 0..L /\ (L - 1) + 1 = L /\ L \in 1..L /\ n \in 0..L
  BY UptoIs
<1>2. Len(Upto(n + 1)) = Len(Upto(n)) + Len(Report[n + 1]) /\ Len(Report[n + 1]) \in Nat /\ Len(Upto(n)) \in Nat
  BY <1>1, UptoLength
<1>3. Len(Upto(n + 1)) < Len(ReportText)
  <2>1. Upto(L) = ReportText
    BY UptoIs
  <2>2. Report[L] \in Seq(Char) /\ Report[L] # <<>>
    BY <1>1, UptoIs, ReportAssumption DEF Last
  <2>3. Len(Report[L]) \in Nat /\ Len(Report[L]) > 0
    BY <2>2
  <2>4. Len(Upto(n + 1)) <= Len(Upto(L - 1))
    <3>1. L - 1 \in (n + 1)..L
      BY <1>1
    <3>. QED
      BY <1>1, <3>1, UptoKeeps
  <2>. HIDE DEF L
  <2>5. Len(Upto(L)) = Len(Upto(L - 1)) + Len(Report[L])
    <3>1. PICK m : m = L - 1
      OBVIOUS
    <3>2. m \in 0..(L - 1) /\ m + 1 = L
      BY <1>1, <3>1
    <3>3. Len(Upto(m + 1)) = Len(Upto(m)) + Len(Report[m + 1])
      BY <3>2, UptoLength DEF L
    <3>. QED
      BY <3>1, <3>2, <3>3
  <2>6. Len(Upto(L - 1)) \in Nat /\ Len(Upto(n + 1)) \in Nat
    BY <1>1, UptoLength DEF L
  <2>7. Len(ReportText) = Len(Upto(L - 1)) + Len(Report[L])
    BY <2>1, <2>5
  <2>8. \A a, c, d, e \in Nat : (a <= c /\ d > 0 /\ e = c + d) => a < e
    OBVIOUS
  <2>9. Len(ReportText) \in Nat
    BY UptoIs, UptoLength
  <2>. QED
    BY <2>3, <2>4, <2>6, <2>7, <2>8, <2>9
<1>. HIDE DEF L
<1>4. ReportText \in Seq(Char) /\ Len(ReportText) \in Nat
  BY UptoIs, UptoLength
<1>5. ASSUME NEW m \in 1..(Len(ReportText) - 1) PROVE ReportText[m] # "newline"
  <2>1. m \in DOMAIN Front(ReportText) /\ Front(ReportText)[m] = ReportText[m]
    BY <1>4 DEF Front
  <2>. QED
    BY <2>1 DEF NoNewline
<1>6. ASSUME NEW k \in 1..Len(Report[n + 1]) PROVE Report[n + 1][k] # "newline"
  <2>1. PICK m : m = Len(Upto(n)) + k
    OBVIOUS
  <2>2. m \in 1..Len(Upto(n + 1)) /\ m \in 1..(Len(ReportText) - 1)
    BY <1>2, <1>3, <1>4, <2>1, SMTT(30)
  <2>3. Upto(n + 1)[m] = Report[n + 1][k]
    BY <1>1, <2>1, UptoGrows DEF L
  <2>4. ReportText[m] = Upto(n + 1)[m]
    BY <1>1, <2>2, UptoIsPrefix DEF L
  <2>. QED
    BY <1>5, <2>2, <2>3, <2>4
<1>. QED
  BY <1>6

(* The state between two calls of a handler that logs one line.              *)
Between(g, n) ==
  /\ BufOK(Buf(g)) /\ Idx(g) \in Nat /\ Idx(g) <= StrLen(Buf(g))
  /\ EndsIn(Buf(g), Idx(g), Upto(n)) /\ NewlineBefore(Buf(g), Idx(g), Upto(n))

LEMMA BetweenStep ==
  ASSUME NoNewline(Front(ReportText)), NEW n \in 0..(Len(Report) - 2),
         NEW g, Between(g, n), Idx(g) + Len(Report[n + 1]) < Size - 1
  PROVE  /\ Between(Called(g, Report[n + 1]), n + 1)
         /\ Idx(Called(g, Report[n + 1])) <= Idx(g) + Len(Report[n + 1])
<1>. USE SizeAssumption
<1>. DEFINE piece == Report[n + 1]
            new == Upto(n + 1)
            h == Called(g, piece)
<1>1. PICK b : b = Printed(Buf(g), Idx(g), piece)
  OBVIOUS
<1>2. PICK x : x = Idx(g) + Len(piece)
  OBVIOUS
<1>3. PICK p : p = x - Len(new)
  OBVIOUS
<1>4. /\ BufOK(Buf(g)) /\ Idx(g) \in Nat /\ Idx(g) <= StrLen(Buf(g))
      /\ EndsIn(Buf(g), Idx(g), Upto(n)) /\ NewlineBefore(Buf(g), Idx(g), Upto(n))
      /\ n \in 0..(Len(Report) - 1) /\ n + 1 \in 0..Len(Report) /\ n \in 0..Len(Report)
  BY UptoIs DEF Between
<1>5. /\ piece \in Seq(Char) /\ Len(piece) \in Nat /\ Len(new) \in Nat
      /\ new \in Seq(Char)
  <2>1. n + 1 \in 1..Len(Report)
    BY <1>4, UptoIs
  <2>. QED
    BY <1>4, <2>1, UptoIs, UptoLength
<1>6. \A k \in 1..Len(piece) : piece[k] # "newline"
  BY NoNewlineInPiece
<1>7. x \in Nat /\ x < Size - 1
  BY <1>2, <1>4, <1>5
<1>8. EndsIn(b, x, new) /\ p = Idx(g) - Len(Upto(n))
  BY <1>1, <1>2, <1>3, <1>4, EndsInMore, ZenonT(30)
<1>9. BufOK(Buf(h)) /\ Idx(h) \in Nat /\ Idx(h) <= StrLen(Buf(h)) /\ Idx(h) <= x
  <2>. HIDE DEF piece
  <2>1. Idx(g) + Len(piece) < Size - 1 /\ Idx(g) \in 0..(Size - 1)
    BY <1>2, <1>4, <1>5, <1>7
  <2>2. Idx(h) <= StrLen(Buf(h)) /\ Idx(h) <= Idx(g) + Len(piece)
    BY <1>4, <1>5, <2>1, CalledInText
  <2>3. BufOK(Buf(h)) /\ Idx(h) \in 0..(Size - 2)
    BY <1>4, <1>5, <2>1, CalledInBuffer
  <2>. QED
    BY <1>2, <2>2, <2>3
<1>10. /\ BufOK(b) /\ StrLen(b) = x /\ b[x] = "nul"
       /\ \A k \in 0..(Idx(g) - 1) : b[k] = Buf(g)[k]
       /\ \A k \in 1..Len(piece) : b[Idx(g) + k - 1] = piece[k]
  <2>. HIDE DEF piece
  <2>1. Idx(g) + Len(piece) < Size - 1
    BY <1>2, <1>7
  <2>2. /\ BufOK(b) /\ StrLen(b) = Idx(g) + Len(piece) /\ b[Idx(g) + Len(piece)] = "nul"
        /\ \A k \in 0..(Idx(g) - 1) : b[k] = Buf(g)[k]
        /\ \A k \in 1..Len(piece) : b[Idx(g) + k - 1] = piece[k]
    BY <1>1, <1>4, <1>5, <2>1, PrintedInText, SMTT(30)
  <2>. QED
    BY <1>2, <2>2
<1>. HIDE DEF piece, new
<1>11. p \in 0..x /\ x - p = Len(new) /\ \A k \in 1..Len(new) : b[p + k - 1] = new[k]
  BY <1>3, <1>5, <1>7, <1>8, SMTT(30) DEF EndsIn
(* Main's newline is the only one. *)
<1>12. ASSUME NEW k \in 0..(x - 1), b[k] = "newline" PROVE k = p - 1
  <2>1. CASE k < Idx(g)
    <3>1. k \in 0..(Idx(g) - 1) /\ Buf(g)[k] = "newline"
      BY <1>4, <1>10, <1>12, <2>1
    <3>2. k = Idx(g) - Len(Upto(n)) - 1
      BY <1>4, <3>1 DEF NewlineBefore
    <3>. QED
      BY <1>8, <3>2
  <2>2. CASE k >= Idx(g)
    <3>1. PICK m : m = k - Idx(g) + 1
      OBVIOUS
    <3>2. m \in 1..Len(piece) /\ Idx(g) + m - 1 = k
      <4>1. Idx(g) \in Nat /\ Len(piece) \in Nat /\ k \in Nat /\ k < Idx(g) + Len(piece)
        BY <1>2, <1>4, <1>5, <1>7
      <4>. QED
        BY <2>2, <3>1, <4>1, SMTT(30)
    <3>3. piece[m] = "newline"
      BY <1>10, <1>12, <3>2
    <3>. QED
      BY <1>6, <3>2, <3>3
  <2>. QED
    BY <1>4, <2>1, <2>2
<1>13. CASE Newlines(b) = {}
  <2>1. ~(Idx(g) + Len(piece) >= Size - 1)
    BY <1>2, <1>7
  <2>2. Buf(h) = b
    BY <1>1, <1>13, CalledKeeps
  <2>3. Idx(h) = x
    BY <1>1, <1>2, <1>13, <2>1, CalledKeeps
  <2>4. NewlineBefore(b, x, new)
    BY <1>3, <1>12 DEF NewlineBefore
  <2>. QED
    BY <1>2, <1>8, <1>9, <2>2, <2>3, <2>4 DEF Between, new, piece
<1>14. CASE Newlines(b) # {}
  <2>1. PICK nl : nl = StrRChr(b)
    OBVIOUS
  <2>2. nl \in Nat /\ nl \in 0..(x - 1) /\ nl \in 0..(Size - 2) /\ b[nl] = "newline"
    BY <1>10, <1>14, <2>1, StrRChrIs
  <2>3. nl = p - 1 /\ nl + 1 = p
    BY <1>11, <1>12, <2>2
  <2>4. CASE NothingAfter(b, nl)
    <3>1. Buf(h) = b
      BY <1>1, <1>14, <2>1, <2>2, <2>4, CalledLogs
    <3>2. Idx(h) = 0
      BY <1>1, <1>14, <2>1, <2>2, <2>4, CalledLogs
    <3>3. Len(new) = 0
      <4>1. SUFFICES ASSUME Len(new) # 0 PROVE FALSE
        OBVIOUS
      <4>2. 1 \in 1..Len(new) /\ b[p + 1 - 1] = new[1] /\ new[1] \in Char
        BY <1>5, <1>11, <4>1
      <4>3. b[p] = "nul" /\ p + 1 - 1 = p
        BY <1>11, <2>3, <2>4 DEF NothingAfter
      <4>. QED
        BY <4>2, <4>3 DEF Char
    <3>4. EndsIn(b, 0, new) /\ NewlineBefore(b, 0, new)
      BY <3>3 DEF EndsIn, NewlineBefore
    <3>. QED
      BY <1>2, <1>9, <3>1, <3>2, <3>4 DEF Between, new, piece
  <2>5. CASE ~NothingAfter(b, nl)
    <3>1. PICK c : c = Moved(b, nl)
      OBVIOUS
    <3>2. Buf(h) = c
      BY <1>1, <1>14, <2>1, <2>2, <2>5, <3>1, CalledLogs
    <3>3. Idx(h) = StrLen(c)
      BY <1>1, <1>14, <2>1, <2>2, <2>5, <3>1, CalledLogs
    <3>4. p \in 0..(Size - 1)
      BY <1>7, <1>11
    <3>5. StrEnd(b, p) = x
      <4>1. /\ StrEnd(b, p) \in p..(Size - 1) /\ b[StrEnd(b, p)] = "nul"
            /\ \A m \in p..(StrEnd(b, p) - 1) : b[m] # "nul"
        BY <1>10, <3>4, StrEndIs
      <4>2. \A m \in 0..(x - 1) : b[m] # "nul"
        BY <1>10, StrLenIs
      <4>. QED
        BY <1>7, <1>10, <1>11, <4>1, <4>2
    <3>6. PICK q : q = StrEnd(b, nl + 1) - (nl + 1)
      OBVIOUS
    <3>7. StrLen(c) = q /\ \A k \in 0..(q - 1) : c[k] = b[nl + 1 + k]
      BY <1>10, <2>2, <3>1, <3>6, MovedIs
    <3>8. q = Len(new)
      BY <1>11, <2>3, <3>5, <3>6
    <3>9. ASSUME NEW k \in 1..Len(new) PROVE c[k - 1] = new[k]
      <4>1. k - 1 \in 0..(q - 1) /\ nl + 1 + (k - 1) = p + k - 1
        BY <1>5, <1>11, <2>3, <3>8
      <4>. QED
        BY <1>11, <3>7, <4>1
    <3>10. EndsIn(c, q, new)
      <4>1. \A k \in 1..Len(new) : q - Len(new) + k - 1 = k - 1
        BY <1>5, <3>8
      <4>. QED
        BY <1>5, <3>8, <3>9, <4>1 DEF EndsIn
    <3>11. ASSUME NEW k \in 0..(q - 1) PROVE c[k] # "newline"
      <4>1. p + k \in 0..(x - 1) /\ p + k # p - 1 /\ nl + 1 + k = p + k
        BY <1>5, <1>7, <1>11, <2>3, <3>8
      <4>. QED
        BY <1>12, <3>7, <4>1
    <3>12. NewlineBefore(c, q, new)
      BY <3>11 DEF NewlineBefore
    <3>. QED
      BY <1>2, <1>9, <3>2, <3>3, <3>7, <3>10, <3>12 DEF Between, new, piece
  <2>. QED
    BY <2>4, <2>5
<1>. QED
  BY <1>13, <1>14

(* The calls of a handler up to the last, from an index at the end of a text *)
(* whose only newline may be its last character.                             *)
LEMMA BetweenCalls ==
  ASSUME NoNewline(Front(ReportText)), NEW st, Between(st, 0),
         Idx(st) + Len(ReportText) < Size - 1,
         NEW f, f[0] = st, \A n \in 0..(Len(Report) - 1) : f[n + 1] = Called(f[n], Report[n + 1])
  PROVE  \A n \in 0..(Len(Report) - 1) : Between(f[n], n) /\ Idx(f[n]) <= Idx(st) + Len(Upto(n))
<1>. USE SizeAssumption
<1>. DEFINE L == Len(Report)
            Fine(n) == Between(f[n], n) /\ Idx(f[n]) <= Idx(st) + Len(Upto(n))
            T == {n \in Nat : n <= L - 1 => Fine(n)}
<1>1. L \in Nat /\ L >= 1
  BY UptoIs
<1>2. 0 \in T
  <2>1. Len(Upto(0)) = 0 /\ Idx(st) \in Nat
    BY UptoLength DEF Between
  <2>. QED
    BY <2>1
<1>3. ASSUME NEW n \in Nat, n \in T PROVE n + 1 \in T
  <2>1. SUFFICES ASSUME n + 1 <= L - 1 PROVE Fine(n + 1)
    OBVIOUS
  <2>2. /\ n \in 0..(Len(Report) - 2) /\ n \in 0..(Len(Report) - 1) /\ n \in 0..L
        /\ n + 1 \in 0..L /\ n <= L - 1
    BY <1>1, <2>1
  <2>3. Between(f[n], n) /\ Idx(f[n]) <= Idx(st) + Len(Upto(n))
    BY <1>3, <2>2
  <2>4. f[n + 1] = Called(f[n], Report[n + 1])
    BY <2>2
  <2>5. Len(Upto(n + 1)) = Len(Upto(n)) + Len(Report[n + 1]) /\ Len(Report[n + 1]) \in Nat
    BY <2>2, UptoLength
  <2>6. Len(Upto(n)) \in Nat /\ Len(Upto(n + 1)) \in Nat /\ Len(ReportText) \in Nat
    BY <2>2, UptoLength
  <2>7. Len(Upto(n + 1)) <= Len(ReportText)
    BY <2>2, UptoIsPrefix
  <2>8. Idx(f[n]) \in Nat /\ Idx(st) \in Nat
    BY <2>3 DEF Between
  <2>9. Idx(f[n]) + Len(Report[n + 1]) < Size - 1
    BY <2>3, <2>5, <2>6, <2>7, <2>8
  <2>10. /\ Between(Called(f[n], Report[n + 1]), n + 1)
         /\ Idx(Called(f[n], Report[n + 1])) <= Idx(f[n]) + Len(Report[n + 1])
    BY <2>2, <2>3, <2>9, BetweenStep
  <2>11. Between(f[n + 1], n + 1) /\ Idx(f[n + 1]) <= Idx(f[n]) + Len(Report[n + 1])
    BY <2>4, <2>10
  <2>12. Idx(f[n + 1]) \in Nat
    BY <2>11 DEF Between
  <2>. QED
    BY <2>3, <2>5, <2>6, <2>8, <2>11, <2>12, SMTT(30)
<1>4. Nat \subseteq T
  <2>. HIDE DEF T
  <2>. QED
    BY <1>2, <1>3, SetInduction
<1>. QED
  BY <1>1, <1>4

(* The last call of the report finds its newline at the end, and hands all   *)
(* that stands before it to syslog: the report is what that ends in.         *)
LEMMA LoggedWhole ==
  ASSUME NoNewline(Front(ReportText)), NEW st, Between(st, 0),
         Idx(st) + Len(ReportText) < Size - 1
  PROVE  IsSuffix(Front(ReportText), Sent(Logged(st)))
<1>. USE SizeAssumption
<1>1. PICK f : /\ f[0] = st
               /\ \A n \in 0..(Len(Report) - 1) : f[n + 1] = Called(f[n], Report[n + 1])
               /\ Logged(st) = f[Len(Report)]
  BY LoggedIs
<1>2. PICK m : m = Len(Report) - 1
  OBVIOUS
<1>3. /\ m \in 0..(Len(Report) - 1) /\ m + 1 = Len(Report) /\ m \in 0..Len(Report)
      /\ m + 1 \in 1..Len(Report)
  BY <1>2, UptoIs
<1>4. PICK last : last = Report[m + 1]
  OBVIOUS
<1>5. last \in Seq(Char) /\ Len(last) \in Nat /\ Len(last) > 0 /\ last[Len(last)] = "newline"
  <2>1. last \in Seq(Char) /\ last = Report[Len(Report)]
    BY <1>3, <1>4, UptoIs
  <2>2. last # <<>> /\ last[Len(last)] = "newline"
    BY <2>1, ReportAssumption DEF Last
  <2>. QED
    BY <2>1, <2>2
<1>6. PICK g : g = f[m]
  OBVIOUS
<1>7. Between(g, m) /\ Idx(g) <= Idx(st) + Len(Upto(m))
  BY <1>1, <1>3, <1>6, BetweenCalls
<1>8. Logged(st) = Called(g, last)
  BY <1>1, <1>3, <1>4, <1>6
<1>9. /\ BufOK(Buf(g)) /\ Idx(g) \in Nat /\ Idx(g) <= StrLen(Buf(g))
      /\ EndsIn(Buf(g), Idx(g), Upto(m)) /\ Idx(st) \in Nat
  BY <1>7 DEF Between
<1>10. /\ Upto(m + 1) = ReportText /\ ReportText \in Seq(Char)
       /\ Len(ReportText) \in Nat /\ Len(ReportText) > 0
       /\ Len(Upto(m)) \in Nat /\ Len(ReportText) = Len(Upto(m)) + Len(last)
  <2>1. Upto(m + 1) = ReportText /\ ReportText \in Seq(Char) /\ Len(ReportText) \in Nat
    BY <1>3, UptoIs, UptoLength
  <2>2. Len(Upto(m)) \in Nat /\ Len(Upto(m + 1)) = Len(Upto(m)) + Len(Report[m + 1])
    BY <1>3, UptoLength
  <2>. QED
    BY <1>4, <1>5, <2>1, <2>2
<1>11. PICK x : x = Idx(g) + Len(last)
  OBVIOUS
<1>12. x \in Nat /\ x > 0 /\ x < Size - 1 /\ Idx(g) + Len(last) < Size - 1
  BY <1>5, <1>7, <1>9, <1>10, <1>11
<1>13. PICK b : b = Printed(Buf(g), Idx(g), last)
  OBVIOUS
<1>14. EndsIn(b, x, ReportText)
  <2>1. Idx(g) + Len(Report[m + 1]) < Size - 1 /\ x = Idx(g) + Len(Report[m + 1])
    BY <1>4, <1>11, <1>12
  <2>2. b = Printed(Buf(g), Idx(g), Report[m + 1])
    BY <1>4, <1>13
  <2>3. EndsIn(b, x, Upto(m + 1))
    BY <1>3, <1>9, <2>1, <2>2, EndsInMore
  <2>. QED
    BY <1>10, <2>3
<1>15. /\ BufOK(b) /\ StrLen(b) = x
       /\ \A k \in 1..Len(last) : b[Idx(g) + k - 1] = last[k]
  <2>1. /\ BufOK(b) /\ StrLen(b) = Idx(g) + Len(last)
        /\ \A k \in 1..Len(last) : b[Idx(g) + k - 1] = last[k]
    BY <1>5, <1>9, <1>12, <1>13, PrintedInText
  <2>. QED
    BY <1>11, <2>1
<1>16. b[x - 1] = "newline" /\ x - 1 \in Newlines(b)
  <2>1. Len(last) \in 1..Len(last) /\ Idx(g) + Len(last) - 1 = x - 1 /\ x - 1 \in 0..(x - 1)
    BY <1>5, <1>9, <1>11, <1>12
  <2>2. b[x - 1] = "newline"
    BY <1>5, <1>15, <2>1
  <2>. QED
    BY <1>15, <2>1, <2>2 DEF Newlines
<1>17. PICK nl : nl = StrRChr(b)
  OBVIOUS
<1>18. nl \in Nat /\ nl = x - 1
  <2>1. \A k \in Newlines(b) : k <= nl
    BY <1>15, <1>16, <1>17, StrRChrIs
  <2>2. nl \in 0..(StrLen(b) - 1)
    BY <1>15, <1>16, <1>17, StrRChrIs
  <2>. QED
    BY <1>12, <1>15, <1>16, <2>1, <2>2
<1>19. Sent(Called(g, last)) = Text(b, 0, nl)
  <2>1. Newlines(b) # {}
    BY <1>16
  <2>. QED
    BY <1>13, <1>17, <1>18, <2>1, CalledLogs
<1>. DEFINE s == Front(ReportText)  t == Text(b, 0, nl)
<1>20. s \in Seq(Cell) /\ Len(s) = Len(ReportText) - 1 /\ \A k \in 1..Len(s) : s[k] = ReportText[k]
  <2>1. s \in Seq(Char) /\ Len(s) = Len(ReportText) - 1 /\ \A k \in 1..Len(s) : s[k] = ReportText[k]
    BY <1>10 DEF Front
  <2>2. Char \subseteq Cell
    BY DEF Cell
  <2>. HIDE DEF s
  <2>. QED
    BY <2>1, <2>2
<1>21. t \in Seq(Cell) /\ Len(t) = x - 1 /\ \A k \in 1..(x - 1) : t[k] = b[k - 1]
  <2>1. nl - 0 = x - 1 /\ \A k \in 1..(x - 1) : 0 + k - 1 = k - 1 /\ k - 1 \in 0..(Size - 1)
    BY <1>12, <1>18
  <2>2. \A k \in 0..(Size - 1) : b[k] \in Cell
    BY <1>15 DEF BufOK
  <2>3. t = [k \in 1..(x - 1) |-> b[k - 1]]
    BY <2>1 DEF Text
  <2>4. \A k \in 1..(x - 1) : b[k - 1] \in Cell
    BY <2>1, <2>2
  <2>5. x - 1 \in Nat
    BY <1>12
  <2>. HIDE DEF t
  <2>6. t \in [1..(x - 1) -> Cell] /\ \A k \in 1..(x - 1) : t[k] = b[k - 1]
    BY <2>3, <2>4
  <2>7. t \in Seq(Cell) /\ Len(t) = x - 1
    <3>1. DOMAIN t = 1..(x - 1) /\ \A k \in 1..(x - 1) : t[k] \in Cell
      BY <2>6
    <3>. QED
      BY <2>5, <2>6, <3>1
  <2>. QED
    BY <2>6, <2>7
<1>22. Len(s) <= Len(t) /\ \A k \in 1..Len(s) : s[k] = t[Len(t) - Len(s) + k]
  <2>1. Len(ReportText) <= x /\ \A k \in 1..Len(ReportText) : b[x - Len(ReportText) + k - 1] = ReportText[k]
    BY <1>14 DEF EndsIn
  <2>. HIDE DEF s, t
  <2>2. ASSUME NEW k \in 1..Len(s) PROVE s[k] = t[Len(t) - Len(s) + k]
    <3>1. PICK d : d = x - Len(ReportText) + k
      OBVIOUS
    <3>2. d \in 1..(x - 1) /\ Len(t) - Len(s) + k = d /\ k \in 1..Len(ReportText)
          /\ x - Len(ReportText) + k - 1 = d - 1
      <4>1. \A r, y \in Nat : r > 0 /\ r <= y => \A j \in 1..(r - 1) :
              /\ y - r + j \in 1..(y - 1) /\ (y - 1) - (r - 1) + j = y - r + j
              /\ j \in 1..r
        OBVIOUS
      <4>2. PICK r, y : r = Len(ReportText) /\ y = x
        OBVIOUS
      <4>3. /\ r \in Nat /\ r > 0 /\ y \in Nat /\ r <= y
            /\ Len(s) = r - 1 /\ Len(t) = y - 1 /\ d = y - r + k
        BY <1>10, <1>12, <1>20, <1>21, <2>1, <3>1, <4>2
      <4>4. k \in 1..(r - 1)
        BY <4>3
      <4>5. y - r + k \in 1..(y - 1) /\ (y - 1) - (r - 1) + k = y - r + k /\ k \in 1..r
        BY <4>1, <4>3, <4>4
      <4>. QED
        BY <4>2, <4>3, <4>5
    <3>3. s[k] = ReportText[k] /\ t[d] = b[d - 1]
      BY <1>20, <1>21, <3>2
    <3>4. b[x - Len(ReportText) + k - 1] = ReportText[k]
      BY <2>1, <3>2
    <3>. QED
      BY <3>2, <3>3, <3>4
  <2>3. Len(s) <= Len(t)
    BY <1>10, <1>12, <1>20, <1>21, <2>1
  <2>. QED
    BY <2>2, <2>3
<1>23. IsSuffix(s, t)
  <2>. HIDE DEF s, t
  <2>. QED
    BY <1>20, <1>21, <1>22, IsSuffixIf
<1>. QED
  BY <1>8, <1>19, <1>23

-----------------------------------------------------------------------------
(* main's call, step by step.                                                *)

(* A step that only goes on to another place changes nothing else.           *)
LEMMA GotoIs ==
  ASSUME DOMAIN call = {"pc", "piece", "at", "n", "nl"}, NEW p, Goto(p)
  PROVE  /\ DOMAIN call' = {"pc", "piece", "at", "n", "nl"}
         /\ call'.pc = p /\ call'.piece = call.piece
         /\ call'.at = call.at /\ call'.n = call.n /\ call'.nl = call.nl
BY DEF Goto

(* One cell is set.                                                          *)
LEMMA SetCell ==
  ASSUME NEW b, BufOK(b), NEW k \in 0..(Size - 1), NEW c \in Cell, k = Size - 1 => c = "nul"
  PROVE  BufOK([b EXCEPT ![k] = c])
BY SizeAssumption DEF BufOK

LEMMA PutCharIs ==
  ASSUME CallTypeOK, PutChar
  PROVE  /\ BufOK(buf') /\ call.piece[call.n + 1] \in Char
         /\ DOMAIN call' = {"pc", "piece", "at", "n", "nl"}
         /\ call'.pc = "print" /\ call'.piece = call.piece /\ call'.at = call.at
         /\ call'.n = call.n + 1 /\ call'.n \in 0..Len(call.piece) /\ call'.nl = call.nl
         /\ call.at + call.n < Size - 1 =>
              /\ buf'[call.at + call.n] = call.piece[call.n + 1]
              /\ \A m \in 0..(Size - 1) : m # call.at + call.n => buf'[m] = buf[m]
         /\ ~(call.at + call.n < Size - 1) => buf' = buf
<1>. USE SizeAssumption
<1>1. /\ DOMAIN call = {"pc", "piece", "at", "n", "nl"} /\ call.pc = "print"
      /\ call' = [call EXCEPT !.n = @ + 1]
  BY DEF CallTypeOK, PutChar, At
<1>2. /\ DOMAIN call' = {"pc", "piece", "at", "n", "nl"}
      /\ call'.pc = "print" /\ call'.piece = call.piece /\ call'.at = call.at
      /\ call'.n = call.n + 1 /\ call'.nl = call.nl
  BY <1>1
<1>3. PICK piece, n, at : piece = call.piece /\ n = call.n /\ at = call.at
  OBVIOUS
<1>4. piece \in Seq(Char) /\ n \in 0..Len(piece) /\ n < Len(piece) /\ at \in Nat
  BY <1>3 DEF CallTypeOK, PutChar
<1>5. n + 1 \in 0..Len(piece) /\ piece[n + 1] \in Char
  BY <1>4
<1>6. BufOK(buf) /\ buf' = IF at + n < Size - 1 THEN [buf EXCEPT ![at + n] = piece[n + 1]] ELSE buf
  BY <1>3 DEF CallTypeOK, PutChar
<1>7. CASE at + n < Size - 1
  <2>1. PICK k : k = at + n
    OBVIOUS
  <2>2. k \in 0..(Size - 1) /\ k # Size - 1
    BY <1>4, <1>7, <2>1
  <2>3. piece[n + 1] \in Cell
    BY <1>5 DEF Cell
  <2>4. buf' = [buf EXCEPT ![k] = piece[n + 1]]
    BY <1>6, <1>7, <2>1
  <2>5. BufOK(buf')
    <3>1. PICK c \in Cell : c = piece[n + 1]
      BY <2>3
    <3>2. BufOK([buf EXCEPT ![k] = c])
      <4>1. BufOK(buf)
        BY <1>6
      <4>. QED
        BY <2>2, <4>1, SetCell
    <3>. QED
      BY <2>4, <3>1, <3>2
  <2>6. buf'[k] = piece[n + 1] /\ \A m \in 0..(Size - 1) : m # k => buf'[m] = buf[m]
    BY <1>6, <2>2, <2>4 DEF BufOK
  <2>. QED
    BY <1>2, <1>3, <1>5, <1>7, <2>1, <2>5, <2>6
<1>8. CASE ~(at + n < Size - 1)
  <2>1. buf' = buf
    BY <1>6, <1>8
  <2>. QED
    BY <1>2, <1>3, <1>5, <1>6, <1>8, <2>1
<1>. QED
  BY <1>7, <1>8

LEMMA PutZeroIs ==
  ASSUME CallTypeOK, PutZero
  PROVE  \E k \in 0..(Size - 1) :
           /\ k = IF call.at + call.n < Size - 1 THEN call.at + call.n ELSE Size - 1
           /\ BufOK(buf') /\ buf'[k] = "nul"
           /\ \A m \in 0..(Size - 1) : m # k => buf'[m] = buf[m]
<1>. USE SizeAssumption
<1>1. BufOK(buf) /\ call.at \in Nat /\ call.n \in Nat
  BY DEF CallTypeOK
<1>2. PICK k : k = IF call.at + call.n < Size - 1 THEN call.at + call.n ELSE Size - 1
  OBVIOUS
<1>3. k \in 0..(Size - 1)
  BY <1>1, <1>2
<1>4. buf' = [buf EXCEPT ![k] = "nul"]
  BY <1>2 DEF PutZero
<1>5. BufOK(buf')
  BY <1>1, <1>3, <1>4, SetCell DEF Cell
<1>6. buf'[k] = "nul" /\ \A m \in 0..(Size - 1) : m # k => buf'[m] = buf[m]
  BY <1>1, <1>3, <1>4 DEF BufOK
<1>. QED
  BY <1>2, <1>3, <1>5, <1>6

LEMMA AddKeepsBuffer ==
  ASSUME CallTypeOK, Add
  PROVE  buf' = buf
BY DEF CallTypeOK, BufOK, Add

(* Only the end of a call that was not torn touches the line, and takes the  *)
(* step of SyslogLine with the call's piece.                                 *)
LEMMA LineStep ==
  ASSUME CallTypeOK, CallNext
  PROVE  \/ UNCHANGED line
         \/ torn = 0 /\ call.piece \in Pieces /\ Log(call.piece)
<1>1. CASE \E piece \in Pieces : Start(piece)
  BY <1>1 DEF Start
<1>2. CASE NoRest \/ Strlen \/ Check
  <2>1. call.piece \in Pieces
    BY <1>2 DEF NoRest, Strlen, Check, At, CallTypeOK
  <2>2. Returns
    BY <1>2 DEF NoRest, Strlen, Check
  <2>. QED
    BY <2>1, <2>2 DEF Returns
<1>3. CASE PutChar \/ PutZero \/ Add \/ Search \/ Send \/ Rest \/ Interrupt
  BY <1>3 DEF PutChar, PutZero, Add, Search, Send, Rest, Interrupt
<1>. QED
  BY <1>1, <1>2, <1>3 DEF CallNext

LEMMA CallNextIsNext ==
  ASSUME CallTypeOK, [CallNext]_callVars
  PROVE  [Next]_vars
<1>1. CASE UNCHANGED callVars
  BY <1>1 DEF callVars, line, vars
<1>2. CASE CallNext
  BY <1>2, LineStep DEF line, vars, Next
<1>. QED
  BY <1>1, <1>2

(* What most steps inside a call leave as it is.                             *)
LEMMA TypeInCall ==
  ASSUME CallTypeOK, UNCHANGED line, BufOK(buf'), idx' \in Nat, torn' \in Nat, overrun' \in BOOLEAN,
         DOMAIN call' = {"pc", "piece", "at", "n", "nl"},
         call'.pc \in {"idle", "print", "add", "search", "check", "send", "rest", "strlen"},
         call.pc # "idle", call'.piece = call.piece, call'.at = call.at,
         call'.n \in 0..Len(call.piece), call'.nl \in 0..(Size - 2)
  PROVE  CallTypeOK'
BY DEF CallTypeOK, line

LEMMA LogTyped ==
  ASSUME IndexInBuffer, lines \in Seq(Seq(Char)), NEW piece \in Seq(Char), Log(piece)
  PROVE  lines' \in Seq(Seq(Char))
<1>1. CASE LogLines(piece)
  <2>1. PICK str : str = Written(piece)
    OBVIOUS
  <2>2. PICK n \in DOMAIN str :
          lines' = IF Cut(piece) THEN <<>> ELSE Append(lines, SubSeq(str, 1, n - 1))
    BY <1>1, <2>1 DEF LogLines
  <2>3. str \in Seq(Char) /\ n \in 1..Len(str)
    BY <2>1, WrittenFits
  <2>4. SubSeq(str, 1, n - 1) \in Seq(Char)
    BY <2>3
  <2>5. PICK Q : Q = Seq(Char)
    OBVIOUS
  <2>6. lines \in Seq(Q) /\ SubSeq(str, 1, n - 1) \in Q
    BY <2>4, <2>5
  <2>7. Append(lines, SubSeq(str, 1, n - 1)) \in Seq(Q) /\ <<>> \in Seq(Q)
    BY <2>6
  <2>. QED
    BY <2>2, <2>5, <2>7
<1>2. CASE Keep(piece)
  BY <1>2 DEF Keep
<1>3. CASE Lose(piece)
  BY <1>3 DEF Lose
<1>. QED
  BY <1>1, <1>2, <1>3 DEF Log

LEMMA TypeReturns ==
  ASSUME CallTypeOK, IndexInBuffer, Returns, call.pc # "idle", BufOK(buf'), idx' \in Nat,
         torn' = torn, overrun' = overrun
  PROVE  CallTypeOK'
<1>1. DOMAIN call = {"pc", "piece", "at", "n", "nl"} /\ Goto("idle") /\ call.piece \in Pieces
  BY DEF CallTypeOK, Returns
<1>2. /\ DOMAIN call' = {"pc", "piece", "at", "n", "nl"} /\ call'.pc = "idle"
      /\ call'.piece = call.piece /\ call'.at = call.at /\ call'.n = call.n /\ call'.nl = call.nl
  BY <1>1, GotoIs
<1>3. lines' \in Seq(Seq(Char))
  <2>1. UNCHANGED line \/ Log(call.piece)
    BY DEF Returns
  <2>2. call.piece \in Seq(Char) /\ lines \in Seq(Seq(Char))
    BY DEF CallTypeOK
  <2>. QED
    BY <2>1, <2>2, LogTyped DEF line
<1>. QED
  BY <1>2, <1>3 DEF CallTypeOK

(* Main's call at a place, as a step finds it.                               *)
LEMMA TypeStep ==
  ASSUME CallTypeOK, IndexInBuffer, torn = 0 => UndisturbedIdle, CallNext
  PROVE  CallTypeOK'
<1>. USE SizeAssumption
<1>1. /\ BufOK(buf) /\ idx \in Nat /\ torn \in Nat /\ overrun \in BOOLEAN
      /\ DOMAIN call = {"pc", "piece", "at", "n", "nl"}
      /\ call.piece \in Seq(Char) /\ Len(call.piece) \in Nat
      /\ call.at \in Nat /\ call.n \in 0..Len(call.piece) /\ call.nl \in 0..(Size - 2)
      /\ call.pc \in {"idle", "print", "add", "search", "check", "send", "rest", "strlen"}
  BY DEF CallTypeOK
<1>2. ASSUME NEW piece \in Pieces, Start(piece) PROVE CallTypeOK'
  <2>1. piece \in Seq(Char) /\ Len(piece) \in Nat
    BY PiecesAssumption
  <2>2. UNCHANGED line /\ UNCHANGED cells /\ torn' = torn /\ overrun' = overrun
    BY <1>2 DEF Start, history
  <2>3. buf' = buf /\ idx' = idx /\ lines' = lines /\ i' = i
    BY <2>2 DEF cells, line
  <2>4. call' = [pc |-> "print", piece |-> piece, at |-> idx, n |-> 0, nl |-> 0]
    BY <1>2 DEF Start
  <2>5. /\ DOMAIN call' = {"pc", "piece", "at", "n", "nl"} /\ call'.pc = "print"
        /\ call'.piece = piece /\ call'.at = idx /\ call'.n = 0 /\ call'.nl = 0
    BY <2>4
  <2>6. idx = i
    BY <1>2 DEF Start, At, UndisturbedIdle
  <2>. QED
    BY <1>1, <2>1, <2>2, <2>3, <2>5, <2>6 DEF CallTypeOK
<1>3. CASE PutChar
  <2>1. UNCHANGED line /\ idx' = idx /\ torn' = torn /\ overrun' = overrun /\ call.pc # "idle"
    BY <1>3 DEF PutChar, history, At
  <2>. QED
    BY <1>1, <1>3, <2>1, PutCharIs, TypeInCall
<1>4. CASE PutZero
  <2>1. /\ UNCHANGED line /\ idx' = idx /\ torn' = torn /\ overrun' = overrun
        /\ call.pc # "idle" /\ Goto("add")
    BY <1>4 DEF PutZero, history, At
  <2>2. BufOK(buf')
    BY <1>4, PutZeroIs
  <2>. QED
    BY <1>1, <2>1, <2>2, GotoIs, TypeInCall
<1>5. CASE Add
  <2>1. /\ UNCHANGED line /\ torn' = torn /\ overrun' = overrun /\ call.pc # "idle"
        /\ Goto("search")
    BY <1>5 DEF Add, history, At
  <2>2. buf' = buf
    BY <1>5, AddKeepsBuffer
  <2>3. idx' \in Nat
    <3>1. call.n \in Nat
      BY <1>1
    <3>. QED
      BY <1>1, <1>5, <3>1 DEF Add
  <2>. QED
    BY <1>1, <2>1, <2>2, <2>3, GotoIs, TypeInCall
<1>6. CASE Search
  <2>1. /\ UNCHANGED line /\ buf' = buf /\ idx' = idx /\ torn' = torn /\ overrun' = overrun
        /\ call.pc # "idle"
    BY <1>6 DEF Search, history, At, cells
  <2>2. CASE Newlines(buf) = {}
    <3>1. call' = [call EXCEPT !.pc = "check"]
      BY <1>6, <2>2 DEF Search
    <3>2. Goto("check")
      BY <3>1 DEF Goto
    <3>. QED
      BY <1>1, <2>1, <3>2, GotoIs, TypeInCall
  <2>3. CASE Newlines(buf) # {}
    <3>1. PICK nl : nl = StrRChr(buf)
      OBVIOUS
    <3>2. nl \in 0..(Size - 2)
      BY <1>1, <2>3, <3>1, StrRChrIs
    <3>3. call' = [call EXCEPT !.pc = "send", !.nl = nl]
      BY <1>6, <2>3, <3>1 DEF Search
    <3>4. /\ DOMAIN call' = {"pc", "piece", "at", "n", "nl"} /\ call'.pc = "send"
          /\ call'.piece = call.piece /\ call'.at = call.at /\ call'.n = call.n /\ call'.nl = nl
      BY <1>1, <3>3
    <3>. QED
      BY <1>1, <2>1, <3>2, <3>4, TypeInCall
  <2>. QED
    BY <2>2, <2>3
<1>7. CASE Send
  <2>1. /\ UNCHANGED line /\ buf' = buf /\ idx' = idx /\ torn' = torn /\ overrun' = overrun
        /\ call.pc # "idle" /\ Goto("rest")
    BY <1>7 DEF Send, history, At, cells
  <2>. QED
    BY <1>1, <2>1, GotoIs, TypeInCall
<1>8. CASE Rest
  <2>1. /\ UNCHANGED line /\ idx' = idx /\ torn' = torn /\ overrun' = overrun
        /\ call.pc # "idle" /\ Goto("strlen") /\ buf' = Moved(buf, call.nl)
    BY <1>8 DEF Rest, history, At
  <2>2. BufOK(buf')
    BY <1>1, <2>1, MovedLength
  <2>. QED
    BY <1>1, <2>1, <2>2, GotoIs, TypeInCall
<1>9. CASE NoRest
  <2>1. Returns /\ buf' = buf /\ torn' = torn /\ overrun' = overrun /\ call.pc # "idle"
    BY <1>9 DEF NoRest, history, At
  <2>2. idx' = 0
    BY <1>9 DEF NoRest, RestIdx
  <2>. QED
    BY <1>1, <2>1, <2>2, TypeReturns
<1>10. CASE Strlen
  <2>1. Returns /\ buf' = buf /\ torn' = torn /\ overrun' = overrun /\ call.pc # "idle"
    BY <1>10 DEF Strlen, history, At
  <2>2. idx' \in Nat
    <3>1. StrLen(buf) \in 0..(Size - 1)
      BY <1>1, StrLenIs
    <3>2. idx' = StrLen(buf)
      BY <1>10 DEF Strlen
    <3>. QED
      BY <3>1, <3>2
  <2>. QED
    BY <1>1, <2>1, <2>2, TypeReturns
<1>11. CASE Check
  <2>1. Returns /\ buf' = buf /\ torn' = torn /\ overrun' = overrun /\ call.pc # "idle"
    BY <1>11 DEF Check, history, At
  <2>2. idx' \in Nat
    BY <1>1, <1>11 DEF Check
  <2>. QED
    BY <1>1, <2>1, <2>2, TypeReturns
<1>12. CASE Interrupt
  <2>1. /\ UNCHANGED line /\ call' = call /\ torn' = torn + 1 /\ call.pc # "idle"
    BY <1>12 DEF Interrupt
  <2>2. BufOK(buf') /\ idx' \in Nat /\ overrun' \in BOOLEAN
    <3>1. CASE idx >= Size
      <4>1. UNCHANGED cells /\ overrun' = TRUE
        BY <1>12, <3>1 DEF Interrupt
      <4>. QED
        BY <1>1, <4>1 DEF cells
    <3>2. CASE ~(idx >= Size)
      <4>1. PICK st : st = [buf |-> buf, idx |-> idx, sent |-> sent]
        OBVIOUS
      <4>2. Buf(st) = buf /\ Idx(st) = idx
        BY <4>1 DEF Buf, Idx
      <4>3. buf' = Buf(Logged(st)) /\ idx' = Idx(Logged(st)) /\ overrun' = overrun
        BY <1>12, <3>2, <4>1 DEF Interrupt, Buf, Idx
      <4>4. idx \in 0..(Size - 1)
        BY <1>1, <3>2
      <4>5. BufOK(Buf(Logged(st))) /\ Idx(Logged(st)) \in 0..(Size - 2)
        BY <1>1, <4>2, <4>4, LoggedInBuffer
      <4>. QED
        BY <1>1, <4>3, <4>5
    <3>. QED
      BY <3>1, <3>2
  <2>. QED
    BY <1>1, <2>1, <2>2, TypeInCall
<1>. QED
  BY <1>2, <1>3, <1>4, <1>5, <1>6, <1>7, <1>8, <1>9, <1>10, <1>11, <1>12 DEF CallNext

-----------------------------------------------------------------------------
(* A call that no handler interrupts is a call of SyslogLine.                *)

(* What vsnprintf() makes of the kept text, character by character.          *)
LEMMA WrittenIs ==
  ASSUME IndexInBuffer, NEW piece \in Seq(Char), NEW str, str = Written(piece)
  PROVE  /\ str \in Seq(Char) /\ Len(str) \in Nat /\ i \in Nat /\ i <= Size - 2 /\ i <= Len(str)
         /\ i + Len(piece) < Size - 1 => Len(str) = i + Len(piece)
         /\ ~(i + Len(piece) < Size - 1) => Len(str) = Size - 1
         /\ \A k \in 1..i : str[k] = syslog_str[k] /\ str[k] # "newline"
         /\ \A k \in 1..Len(str) : k > i => k - i \in 1..Len(piece) /\ str[k] = piece[k - i]
<1>. USE SizeAssumption
<1>1. /\ i \in Nat /\ i <= Size - 2 /\ syslog_str \in Seq(Char) /\ i <= Len(syslog_str)
      /\ Len(syslog_str) \in Nat /\ NoNewline(SubSeq(syslog_str, 1, i))
  BY DEF IndexInBuffer
<1>. DEFINE kept == SubSeq(syslog_str, 1, i)
            more == IF Len(piece) < Room THEN piece ELSE SubSeq(piece, 1, Room - 1)
<1>2. /\ kept \in Seq(Char) /\ Len(kept) = i /\ \A k \in 1..i : kept[k] = syslog_str[k]
  BY <1>1
<1>3. \A k \in 1..i : kept[k] # "newline"
  <2>1. NoNewline(kept)
    BY <1>1
  <2>. HIDE DEF kept
  <2>2. DOMAIN kept = 1..i
    BY <1>2
  <2>. QED
    BY <2>1, <2>2 DEF NoNewline
<1>4. /\ more \in Seq(Char) /\ Len(piece) \in Nat
      /\ Len(piece) < Size - i => Len(more) = Len(piece)
      /\ ~(Len(piece) < Size - i) => Len(more) = Size - i - 1
      /\ Len(more) <= Len(piece) /\ \A k \in 1..Len(more) : more[k] = piece[k]
  <2>1. CASE Len(piece) < Room
    BY <1>1, <2>1 DEF Room
  <2>2. CASE ~(Len(piece) < Room)
    <3>1. Room \in Nat /\ Room >= 2 /\ Room - 1 <= Len(piece) /\ Len(piece) \in Nat
      BY <1>1, <2>2 DEF Room
    <3>2. more = SubSeq(piece, 1, Room - 1)
      BY <2>2
    <3>3. more \in Seq(Char) /\ Len(more) = Room - 1 /\ \A k \in 1..(Room - 1) : more[k] = piece[k]
      BY <3>1, <3>2
    <3>. HIDE DEF more
    <3>. QED
      BY <1>1, <2>2, <3>1, <3>3 DEF Room
  <2>. QED
    BY <2>1, <2>2
<1>5. str = kept \o more
  BY DEF Written
<1>. HIDE DEF kept, more
<1>6. /\ str \in Seq(Char) /\ Len(str) = i + Len(more)
      /\ \A k \in 1..Len(str) : str[k] = IF k <= i THEN kept[k] ELSE more[k - i]
  <2>1. kept \in Seq(Char) /\ more \in Seq(Char) /\ Len(kept) = i
    BY <1>2, <1>4
  <2>. QED
    BY <1>5, <2>1
<1>7. Len(more) \in Nat
  BY <1>4
<1>8. ASSUME NEW k \in 1..i PROVE str[k] = syslog_str[k] /\ str[k] # "newline"
  <2>1. k \in 1..Len(str) /\ k <= i
    BY <1>1, <1>6, <1>7
  <2>. QED
    BY <1>2, <1>3, <1>6, <2>1
<1>9. ASSUME NEW k \in 1..Len(str), k > i PROVE k - i \in 1..Len(piece) /\ str[k] = piece[k - i]
  <2>1. PICK d : d = k - i
    OBVIOUS
  <2>2. d \in 1..Len(more) /\ d \in 1..Len(piece)
    BY <1>1, <1>4, <1>6, <1>7, <1>9, <2>1
  <2>3. str[k] = more[d] /\ more[d] = piece[d]
    BY <1>1, <1>4, <1>6, <1>9, <2>1, <2>2
  <2>. QED
    BY <2>1, <2>2, <2>3
<1>10. /\ Len(str) \in Nat /\ i <= Len(str)
       /\ i + Len(piece) < Size - 1 => Len(str) = i + Len(piece)
       /\ ~(i + Len(piece) < Size - 1) => Len(str) = Size - 1
  <2>1. /\ Len(piece) \in Nat
        /\ Len(piece) < Size - i => Len(more) = Len(piece)
        /\ ~(Len(piece) < Size - i) => Len(more) = Size - i - 1
    BY <1>4
  <2>2. Len(str) = i + Len(more)
    BY <1>6
  <2>3. PICK l, m, n : l = Len(piece) /\ m = Len(more) /\ n = Len(str)
    OBVIOUS
  <2>4. /\ l \in Nat /\ m \in Nat /\ n = i + m /\ i \in Nat /\ Size \in Nat
        /\ l < Size - i => m = l
        /\ ~(l < Size - i) => m = Size - i - 1
    BY <1>1, <1>7, <2>1, <2>2, <2>3
  <2>5. n \in Nat /\ i <= n /\ (i + l < Size - 1 => n = i + l) /\ (~(i + l < Size - 1) => n = Size - 1)
    BY <2>4
  <2>. QED
    BY <2>3, <2>5
<1>11. str \in Seq(Char)
  BY <1>6
<1>. QED
  BY <1>1, <1>8, <1>9, <1>10, <1>11

LEMMA WrittenKept ==
  ASSUME UNCHANGED line, call'.piece = call.piece
  PROVE  Written(call.piece)' = Written(call.piece)
BY DEF line, Written, Room

(* A buffer that holds a string: the C library's functions give what the     *)
(* string has.                                                               *)
LEMMA HoldsLength ==
  ASSUME NEW b, BufOK(b), NEW str \in Seq(Char), Len(str) <= Size - 1, Holds(b, str)
  PROVE  StrLen(b) = Len(str) /\ \A k \in 0..(Len(str) - 1) : b[k] = str[k + 1]
<1>1. Len(str) \in Nat /\ b[Len(str)] = "nul"
  BY DEF Holds
<1>2. ASSUME NEW k \in 0..(Len(str) - 1) PROVE b[k] = str[k + 1] /\ b[k] # "nul"
  <2>1. k + 1 \in 1..Len(str) /\ (k + 1) - 1 = k
    BY <1>1
  <2>2. b[(k + 1) - 1] = str[k + 1]
    BY <2>1 DEF Holds
  <2>3. str[k + 1] \in Char
    BY <2>1
  <2>. QED
    BY <2>1, <2>2, <2>3 DEF Char
<1>. QED
  BY <1>1, <1>2, StrLenEquals

LEMMA HoldsNewlines ==
  ASSUME NEW b, BufOK(b), NEW str \in Seq(Char), Len(str) <= Size - 1, Holds(b, str)
  PROVE  /\ Newlines(b) = {} => NoNewline(str)
         /\ Newlines(b) # {} => /\ StrRChr(b) + 1 \in 1..Len(str)
                                /\ IsLastNewline(StrRChr(b) + 1, str)
<1>1. Len(str) \in Nat /\ StrLen(b) = Len(str) /\ \A k \in 0..(Len(str) - 1) : b[k] = str[k + 1]
  BY HoldsLength
<1>2. ASSUME NEW m \in 1..Len(str), str[m] = "newline" PROVE m - 1 \in Newlines(b)
  <2>1. m - 1 \in 0..(Len(str) - 1) /\ (m - 1) + 1 = m
    BY <1>1
  <2>2. b[m - 1] = str[(m - 1) + 1]
    BY <1>1, <2>1
  <2>. QED
    BY <1>1, <1>2, <2>1, <2>2 DEF Newlines
<1>3. DOMAIN str = 1..Len(str)
  OBVIOUS
<1>4. CASE Newlines(b) = {}
  BY <1>2, <1>3, <1>4 DEF NoNewline
<1>5. CASE Newlines(b) # {}
  <2>1. PICK nl : nl = StrRChr(b)
    OBVIOUS
  <2>2. /\ \A m \in Newlines(b) : m <= nl
        /\ nl \in 0..(StrLen(b) - 1) /\ b[nl] = "newline"
    BY <1>5, <2>1, StrRChrIs
  <2>3. nl \in Nat /\ nl + 1 \in 1..Len(str) /\ str[nl + 1] = "newline"
    BY <1>1, <2>2
  <2>4. ASSUME NEW m \in (nl + 1 + 1)..Len(str) PROVE str[m] # "newline"
    <3>1. SUFFICES ASSUME str[m] = "newline" PROVE FALSE
      OBVIOUS
    <3>2. m \in 1..Len(str) /\ m - 1 > nl
      BY <1>1, <2>3
    <3>3. m - 1 <= nl
      BY <1>2, <2>2, <3>1, <3>2
    <3>. QED
      BY <2>3, <3>2, <3>3
  <2>5. IsLastNewline(nl + 1, str)
    BY <2>3, <2>4 DEF IsLastNewline
  <2>. QED
    BY <1>5, <2>1, <2>3, <2>5
<1>. QED
  BY <1>4, <1>5

LEMMA StartUndisturbed ==
  ASSUME CallTypeOK, Undisturbed, NEW piece \in Pieces, Start(piece)
  PROVE  Undisturbed'
<1>1. idx = i /\ KeptInPlace /\ SentIsLast
  BY DEF Start, At, Undisturbed, UndisturbedIdle
<1>2. UNCHANGED line /\ UNCHANGED cells /\ sent' = sent
  BY DEF Start
<1>3. idx' = i' /\ KeptInPlace' /\ SentIsLast'
  BY <1>1, <1>2 DEF line, cells, KeptInPlace, SentIsLast
<1>4. call'.pc = "print" /\ call'.n = 0
  BY DEF Start
<1>5. UndisturbedPrint'
  BY <1>3, <1>4 DEF UndisturbedPrint
<1>. QED
  BY <1>4, <1>5 DEF Undisturbed, UndisturbedIdle, UndisturbedAdd, UndisturbedSearch,
                    UndisturbedCheck, UndisturbedLine

LEMMA PutCharUndisturbed ==
  ASSUME CallTypeOK, IndexInBuffer, Undisturbed, PutChar
  PROVE  Undisturbed'
<1>. USE SizeAssumption
<1>1. /\ idx = i /\ KeptInPlace /\ SentIsLast /\ call.at = i
      /\ \A k \in 1..call.n : i + k <= Size - 1 => buf[i + k - 1] = call.piece[k]
  BY DEF PutChar, At, Undisturbed, UndisturbedPrint, CallTypeOK
<1>2. UNCHANGED line /\ idx' = idx /\ sent' = sent
  BY DEF PutChar
<1>3. PICK n, piece : n = call.n /\ piece = call.piece
  OBVIOUS
<1>4. n \in Nat /\ i \in Nat /\ i <= Size - 2
  BY <1>3 DEF CallTypeOK, IndexInBuffer
<1>5. /\ call'.pc = "print" /\ call'.piece = piece /\ call'.n = n + 1
      /\ i + n < Size - 1 =>
           /\ buf'[i + n] = piece[n + 1]
           /\ \A m \in 0..(Size - 1) : m # i + n => buf'[m] = buf[m]
      /\ ~(i + n < Size - 1) => buf' = buf
  BY <1>1, <1>3, PutCharIs
<1>6. ASSUME NEW m \in 0..(Size - 1), m < i + n PROVE buf'[m] = buf[m]
  BY <1>4, <1>5, <1>6
<1>7. KeptInPlace'
  <2>1. SUFFICES ASSUME NEW k \in 1..i PROVE buf'[k - 1] = syslog_str[k]
    BY <1>2 DEF KeptInPlace, line
  <2>2. k - 1 \in 0..(Size - 1) /\ k - 1 < i + n
    BY <1>4
  <2>3. buf[k - 1] = syslog_str[k]
    BY <1>1 DEF KeptInPlace
  <2>. QED
    BY <1>6, <2>2, <2>3
<1>8. ASSUME NEW k \in 1..(n + 1), i + k <= Size - 1 PROVE buf'[i + k - 1] = piece[k]
  <2>1. CASE k = n + 1
    <3>1. i + k - 1 = i + n /\ i + n < Size - 1
      BY <1>4, <1>8, <2>1
    <3>. QED
      BY <1>5, <2>1, <3>1
  <2>2. CASE k # n + 1
    <3>1. k \in 1..n /\ i + k - 1 \in 0..(Size - 1) /\ i + k - 1 < i + n
      BY <1>4, <1>8, <2>2
    <3>2. buf[i + k - 1] = piece[k]
      BY <1>1, <1>3, <1>8, <3>1
    <3>3. PICK m : m = i + k - 1
      OBVIOUS
    <3>4. buf'[m] = buf[m]
      BY <1>6, <3>1, <3>3
    <3>. QED
      BY <3>2, <3>3, <3>4
  <2>. QED
    BY <2>1, <2>2
<1>9. i' = i /\ idx' = i' /\ SentIsLast'
  BY <1>1, <1>2 DEF line, SentIsLast
<1>10. UndisturbedPrint'
  BY <1>5, <1>7, <1>8, <1>9 DEF UndisturbedPrint
<1>. QED
  BY <1>5, <1>10 DEF Undisturbed, UndisturbedIdle, UndisturbedAdd, UndisturbedSearch,
                     UndisturbedCheck, UndisturbedLine

LEMMA PutZeroUndisturbed ==
  ASSUME CallTypeOK, IndexInBuffer, Undisturbed, PutZero
  PROVE  Undisturbed'
<1>. USE SizeAssumption
<1>1. /\ idx = i /\ KeptInPlace /\ SentIsLast /\ call.at = i /\ call.n = Len(call.piece)
      /\ \A k \in 1..call.n : i + k <= Size - 1 => buf[i + k - 1] = call.piece[k]
  BY DEF PutZero, At, Undisturbed, UndisturbedPrint, CallTypeOK
<1>2. UNCHANGED line /\ idx' = idx /\ sent' = sent
  BY DEF PutZero
<1>3. PICK n, piece, str : n = call.n /\ piece = call.piece /\ str = Written(piece)
  OBVIOUS
<1>4. piece \in Seq(Char) /\ n = Len(piece) /\ n \in Nat
  BY <1>1, <1>3 DEF CallTypeOK
<1>5. /\ str \in Seq(Char) /\ Len(str) \in Nat /\ i \in Nat /\ i <= Size - 2 /\ i <= Len(str)
      /\ i + n < Size - 1 => Len(str) = i + n
      /\ ~(i + n < Size - 1) => Len(str) = Size - 1
      /\ \A k \in 1..i : str[k] = syslog_str[k]
      /\ \A k \in 1..Len(str) : k > i => k - i \in 1..n /\ str[k] = piece[k - i]
  BY <1>3, <1>4, WrittenIs, ZenonT(30)
<1>6. PICK e \in 0..(Size - 1) :
        /\ e = IF call.at + call.n < Size - 1 THEN call.at + call.n ELSE Size - 1
        /\ BufOK(buf') /\ buf'[e] = "nul"
        /\ \A m \in 0..(Size - 1) : m # e => buf'[m] = buf[m]
  BY PutZeroIs
<1>7. e = Len(str)
  <2>1. e = IF i + n < Size - 1 THEN i + n ELSE Size - 1
    BY <1>1, <1>3, <1>6
  <2>. QED
    BY <1>5, <2>1
<1>8. ASSUME NEW k \in 1..Len(str) PROVE buf'[k - 1] = str[k]
  <2>1. k - 1 \in 0..(Size - 1) /\ k - 1 # e /\ Len(str) <= Size - 1
    BY <1>5, <1>7
  <2>2. buf'[k - 1] = buf[k - 1]
    BY <1>6, <2>1
  <2>3. CASE k <= i
    <3>1. k \in 1..i
      BY <1>5, <2>3
    <3>2. buf[k - 1] = syslog_str[k]
      BY <1>1, <3>1 DEF KeptInPlace
    <3>. QED
      BY <1>5, <2>2, <3>1, <3>2
  <2>4. CASE k > i
    <3>1. PICK d : d = k - i
      OBVIOUS
    <3>2. d \in 1..n /\ str[k] = piece[d]
      BY <1>5, <2>4, <3>1
    <3>3. i + d <= Size - 1 /\ i + d - 1 = k - 1
      BY <1>5, <2>1, <3>1
    <3>4. buf[i + d - 1] = piece[d]
      BY <1>1, <1>3, <3>2, <3>3
    <3>. QED
      BY <2>2, <3>2, <3>3, <3>4
  <2>. QED
    BY <1>5, <2>3, <2>4
<1>9. Holds(buf', str)
  BY <1>6, <1>7, <1>8 DEF Holds
<1>10. /\ call'.pc = "add" /\ call'.piece = call.piece /\ call'.n = call.n
  BY GotoIs DEF PutZero, CallTypeOK
<1>11. Written(call.piece)' = str
  BY <1>2, <1>3, <1>10, WrittenKept
<1>12. Holds(buf, Written(call.piece))'
  BY <1>9, <1>11 DEF Holds
<1>13. idx' = i' /\ SentIsLast' /\ call'.n = Len(call'.piece)
  BY <1>1, <1>2, <1>10 DEF line, SentIsLast
<1>14. UndisturbedAdd'
  BY <1>12, <1>13 DEF UndisturbedAdd
<1>. QED
  BY <1>10, <1>14 DEF Undisturbed, UndisturbedIdle, UndisturbedPrint, UndisturbedSearch,
                      UndisturbedCheck, UndisturbedLine

LEMMA AddUndisturbed ==
  ASSUME CallTypeOK, Undisturbed, Add
  PROVE  Undisturbed'
<1>1. /\ idx = i /\ call.at = i /\ call.n = Len(call.piece)
      /\ Holds(buf, Written(call.piece)) /\ SentIsLast
  BY DEF Add, At, Undisturbed, UndisturbedAdd, CallTypeOK
<1>2. UNCHANGED line /\ sent' = sent /\ buf' = buf /\ idx' = i + Len(call.piece)
  BY <1>1, AddKeepsBuffer DEF Add
<1>3. call'.pc = "search" /\ call'.piece = call.piece
  BY GotoIs DEF Add, CallTypeOK
<1>4. Written(call.piece)' = Written(call.piece)
  BY <1>2, <1>3, WrittenKept
<1>5. Holds(buf, Written(call.piece))'
  BY <1>1, <1>2, <1>4 DEF Holds
<1>6. idx' = i' + Len(call'.piece) /\ SentIsLast'
  BY <1>1, <1>2, <1>3 DEF line, SentIsLast
<1>7. UndisturbedSearch'
  BY <1>5, <1>6 DEF UndisturbedSearch
<1>. QED
  BY <1>3, <1>6, <1>7 DEF Undisturbed, UndisturbedIdle, UndisturbedPrint, UndisturbedAdd,
                          UndisturbedCheck, UndisturbedLine

(* What is in the buffer once the piece is there.                            *)
LEMMA HoldsWritten ==
  ASSUME CallTypeOK, IndexInBuffer, Undisturbed, call.pc \in {"search", "check", "send", "rest"},
         NEW str, str = Written(call.piece)
  PROVE  /\ BufOK(buf) /\ str \in Seq(Char) /\ Len(str) <= Size - 1 /\ Holds(buf, str)
         /\ idx = i + Len(call.piece)
<1>1. Holds(buf, str) /\ idx = i + Len(call.piece)
  BY DEF Undisturbed, UndisturbedSearch
<1>2. BufOK(buf) /\ call.piece \in Seq(Char)
  BY DEF CallTypeOK
<1>3. str \in Seq(Char) /\ Len(str) < Size /\ Len(str) \in Nat
  BY <1>2, WrittenFits
<1>. QED
  BY <1>1, <1>2, <1>3, SizeAssumption

LEMMA SearchUndisturbed ==
  ASSUME CallTypeOK, IndexInBuffer, Undisturbed, Search
  PROVE  Undisturbed'
<1>1. call.pc = "search" /\ SentIsLast /\ DOMAIN call = {"pc", "piece", "at", "n", "nl"}
  BY DEF Search, At, Undisturbed, UndisturbedCheck, CallTypeOK
<1>2. UNCHANGED line /\ sent' = sent /\ buf' = buf /\ idx' = idx
  BY DEF Search, cells
<1>3. PICK str : str = Written(call.piece)
  OBVIOUS
<1>4. /\ BufOK(buf) /\ str \in Seq(Char) /\ Len(str) <= Size - 1 /\ Holds(buf, str)
      /\ idx = i + Len(call.piece)
  BY <1>1, <1>3, HoldsWritten
<1>5. CASE Newlines(buf) = {}
  <2>1. call' = [call EXCEPT !.pc = "check"]
    BY <1>5 DEF Search
  <2>2. call'.pc = "check" /\ call'.piece = call.piece
    BY <1>1, <2>1
  <2>3. Written(call.piece)' = str
    BY <1>2, <1>3, <2>2, WrittenKept
  <2>4. NoNewline(str)
    BY <1>4, <1>5, HoldsNewlines
  <2>5. /\ Holds(buf, Written(call.piece))' /\ NoNewline(Written(call.piece))'
        /\ idx' = i' + Len(call'.piece) /\ SentIsLast'
    BY <1>1, <1>2, <1>4, <2>2, <2>3, <2>4 DEF line, SentIsLast, NoNewline, Holds
  <2>6. UndisturbedSearch' /\ UndisturbedCheck'
    BY <2>5 DEF UndisturbedSearch, UndisturbedCheck
  <2>. QED
    BY <2>2, <2>6 DEF Undisturbed, UndisturbedIdle, UndisturbedPrint, UndisturbedAdd,
                      UndisturbedLine
<1>6. CASE Newlines(buf) # {}
  <2>1. call' = [call EXCEPT !.pc = "send", !.nl = StrRChr(buf)]
    BY <1>6 DEF Search
  <2>2. call'.pc = "send" /\ call'.piece = call.piece /\ call'.nl = StrRChr(buf)
    BY <1>1, <2>1
  <2>3. Written(call.piece)' = str
    BY <1>2, <1>3, <2>2, WrittenKept
  <2>4. call'.nl + 1 \in 1..Len(str) /\ IsLastNewline(call'.nl + 1, str)
    BY <1>4, <1>6, <2>2, HoldsNewlines
  <2>5. DOMAIN str = 1..Len(str)
    BY <1>4
  <2>6. FoundNewline'
    BY <2>3, <2>4, <2>5 DEF FoundNewline, IsLastNewline
  <2>7. Holds(buf, Written(call.piece))' /\ idx' = i' + Len(call'.piece)
    BY <1>2, <1>4, <2>2, <2>3 DEF line, Holds
  <2>8. UndisturbedSearch' /\ UndisturbedLine'
    BY <2>2, <2>6, <2>7 DEF UndisturbedSearch, UndisturbedLine
  <2>. QED
    BY <2>2, <2>8 DEF Undisturbed, UndisturbedIdle, UndisturbedPrint, UndisturbedAdd,
                      UndisturbedCheck
<1>. QED
  BY <1>5, <1>6

LEMMA SendUndisturbed ==
  ASSUME CallTypeOK, IndexInBuffer, Undisturbed, Send
  PROVE  Undisturbed'
<1>. USE SizeAssumption
<1>1. call.pc = "send" /\ FoundNewline /\ DOMAIN call = {"pc", "piece", "at", "n", "nl"}
  BY DEF Send, At, Undisturbed, UndisturbedLine, CallTypeOK
<1>2. UNCHANGED line /\ buf' = buf /\ idx' = idx
  BY DEF Send, cells
<1>3. /\ call'.pc = "rest" /\ call'.piece = call.piece /\ call'.nl = call.nl
  BY <1>1, GotoIs DEF Send
<1>4. PICK str, nl : str = Written(call.piece) /\ nl = call.nl
  OBVIOUS
<1>5. /\ BufOK(buf) /\ str \in Seq(Char) /\ Len(str) <= Size - 1 /\ Holds(buf, str)
      /\ idx = i + Len(call.piece)
  BY <1>1, <1>4, HoldsWritten
<1>6. nl \in Nat /\ nl + 1 \in 1..Len(str) /\ Len(str) \in Nat
  BY <1>1, <1>4, <1>5 DEF FoundNewline, CallTypeOK
<1>7. StrLen(buf) = Len(str) /\ \A k \in 0..(Len(str) - 1) : buf[k] = str[k + 1]
  BY <1>5, HoldsLength
<1>8. sent' = Text(buf, 0, nl)
  <2>1. ~(StrLen(buf) < nl)
    BY <1>6, <1>7
  <2>. QED
    BY <1>4, <2>1 DEF Send
<1>9. Text(buf, 0, nl) = SubSeq(str, 1, nl)
  <2>1. \A k \in 1..nl : 0 + k - 1 \in 0..(Len(str) - 1) /\ (0 + k - 1) + 1 = k
    BY <1>6
  <2>2. \A k \in 1..nl : buf[0 + k - 1] = str[k]
    BY <1>7, <2>1
  <2>3. nl - 0 = nl /\ \A k \in 1..nl : 1 + k - 1 = k
    BY <1>6
  <2>4. Text(buf, 0, nl) = [k \in 1..nl |-> str[k]]
    BY <2>2, <2>3 DEF Text
  <2>5. SubSeq(str, 1, nl) = [k \in 1..nl |-> str[k]]
    <3>. DEFINE s == SubSeq(str, 1, nl)
    <3>1. s \in Seq(Char) /\ Len(s) = nl /\ \A k \in 1..nl : s[k] = str[k]
      BY <1>5, <1>6
    <3>. HIDE DEF s
    <3>2. s = [k \in 1..nl |-> s[k]]
      BY <3>1
    <3>. QED
      BY <3>1, <3>2 DEF s
  <2>. QED
    BY <2>4, <2>5
<1>10. Written(call.piece)' = str
  BY <1>2, <1>3, <1>4, WrittenKept
<1>11. SentLine' /\ FoundNewline'
  BY <1>1, <1>3, <1>4, <1>8, <1>9, <1>10 DEF SentLine, FoundNewline, IsLastNewline
<1>12. Holds(buf, Written(call.piece))' /\ idx' = i' + Len(call'.piece)
  BY <1>2, <1>3, <1>5, <1>10 DEF line, Holds
<1>13. UndisturbedSearch' /\ UndisturbedLine'
  BY <1>3, <1>11, <1>12 DEF UndisturbedSearch, UndisturbedLine
<1>. QED
  BY <1>3, <1>13 DEF Undisturbed, UndisturbedIdle, UndisturbedPrint, UndisturbedAdd,
                     UndisturbedCheck

LEMMA RestUndisturbed ==
  ASSUME CallTypeOK, IndexInBuffer, Undisturbed, Rest
  PROVE  Undisturbed'
<1>. USE SizeAssumption
<1>1. /\ call.pc = "rest" /\ FoundNewline /\ SentLine
      /\ DOMAIN call = {"pc", "piece", "at", "n", "nl"}
  BY DEF Rest, At, Undisturbed, UndisturbedLine, CallTypeOK
<1>2. UNCHANGED line /\ sent' = sent
  BY DEF Rest
<1>3. /\ call'.pc = "strlen" /\ call'.piece = call.piece /\ call'.nl = call.nl
  BY <1>1, GotoIs DEF Rest
<1>4. PICK str, nl : str = Written(call.piece) /\ nl = call.nl
  OBVIOUS
<1>5. BufOK(buf) /\ str \in Seq(Char) /\ Len(str) <= Size - 1 /\ Holds(buf, str)
  BY <1>1, <1>4, HoldsWritten
<1>6. nl \in Nat /\ nl + 1 \in 1..Len(str) /\ Len(str) \in Nat /\ nl \in 0..(Size - 2)
  BY <1>1, <1>4, <1>5 DEF FoundNewline, CallTypeOK
<1>7. StrLen(buf) = Len(str) /\ \A k \in 0..(Len(str) - 1) : buf[k] = str[k + 1]
  BY <1>5, HoldsLength
<1>8. buf[nl + 1] # "nul" /\ buf' = Moved(buf, nl)
  BY <1>4 DEF Rest
<1>9. buf[Len(str)] = "nul" /\ nl + 1 < Len(str)
  <2>1. buf[Len(str)] = "nul"
    BY <1>5 DEF Holds
  <2>2. nl + 1 # Len(str)
    BY <1>8, <2>1
  <2>. QED
    BY <1>6, <2>1, <2>2
<1>10. StrEnd(buf, nl + 1) = Len(str)
  <2>1. nl + 1 \in 0..(Size - 1)
    BY <1>5, <1>6
  <2>2. /\ StrEnd(buf, nl + 1) \in (nl + 1)..(Size - 1) /\ buf[StrEnd(buf, nl + 1)] = "nul"
        /\ \A m \in (nl + 1)..(StrEnd(buf, nl + 1) - 1) : buf[m] # "nul"
    BY <1>5, <2>1, StrEndIs
  <2>3. \A m \in 0..(Len(str) - 1) : buf[m] # "nul"
    BY <1>5, <1>7, StrLenIs
  <2>4. PICK e : e = StrEnd(buf, nl + 1)
    OBVIOUS
  <2>5. ~(e < Len(str))
    BY <1>6, <2>2, <2>3, <2>4
  <2>6. ~(Len(str) < e)
    BY <1>6, <1>9, <2>2, <2>4
  <2>. QED
    BY <1>6, <2>2, <2>4, <2>5, <2>6
<1>11. PICK d : d = Len(str) - (nl + 1)
  OBVIOUS
<1>12. d \in Nat /\ buf'[d] = "nul" /\ \A k \in 0..(d - 1) : buf'[k] = buf[nl + 1 + k]
  <2>1. PICK e : e = StrEnd(buf, nl + 1) - (nl + 1)
    OBVIOUS
  <2>2. /\ e \in Nat /\ Moved(buf, nl)[e] = "nul"
        /\ \A k \in 0..(e - 1) : Moved(buf, nl)[k] = buf[nl + 1 + k]
    BY <1>5, <1>6, <2>1, MovedIs
  <2>3. e = d
    BY <1>10, <1>11, <2>1
  <2>. QED
    BY <1>8, <2>2, <2>3
<1>. DEFINE rest == SubSeq(str, nl + 2, Len(str))
<1>13. rest \in Seq(Char) /\ Len(rest) = d /\ \A k \in 1..d : rest[k] = str[nl + 1 + k]
  <2>1. nl + 2 \in 1..Len(str) /\ Len(str) - (nl + 2) + 1 = d
    BY <1>6, <1>9, <1>11
  <2>2. \A k \in 1..d : nl + 2 + k - 1 = nl + 1 + k
    BY <1>6
  <2>3. Len(rest) = d /\ rest \in Seq(Char)
    BY <1>5, <1>6, <2>1
  <2>4. \A k \in 1..d : rest[k] = str[nl + 2 + k - 1]
    BY <1>5, <1>6, <1>12, <2>1
  <2>. QED
    BY <2>2, <2>3, <2>4
<1>. HIDE DEF rest
<1>14. ASSUME NEW k \in 1..d PROVE buf'[k - 1] = rest[k]
  <2>1. /\ k - 1 \in 0..(d - 1) /\ nl + 1 + (k - 1) = nl + k
        /\ nl + k \in 0..(Len(str) - 1) /\ nl + k + 1 = nl + 1 + k
    BY <1>6, <1>11, <1>12
  <2>2. buf'[k - 1] = buf[nl + k]
    BY <1>12, <2>1
  <2>3. buf[nl + k] = str[nl + k + 1]
    BY <1>7, <2>1
  <2>. QED
    BY <1>13, <2>1, <2>2, <2>3
<1>15. Holds(buf', rest)
  BY <1>12, <1>13, <1>14 DEF Holds
<1>16. Written(call.piece)' = str
  BY <1>2, <1>3, <1>4, WrittenKept
<1>17. RestOf(Written(call.piece))' = rest
  BY <1>3, <1>4, <1>16 DEF RestOf, rest
<1>18. Holds(buf, RestOf(Written(call.piece)))'
  BY <1>15, <1>17 DEF Holds
<1>19. (call.nl + 1 < Len(Written(call.piece)))'
  BY <1>3, <1>4, <1>9, <1>16
<1>20. SentLine' /\ FoundNewline'
  BY <1>1, <1>2, <1>3, <1>4, <1>16 DEF SentLine, FoundNewline, IsLastNewline
<1>21. UndisturbedLine'
  BY <1>3, <1>18, <1>19, <1>20 DEF UndisturbedLine
<1>. QED
  BY <1>3, <1>21 DEF Undisturbed, UndisturbedIdle, UndisturbedPrint, UndisturbedAdd,
                     UndisturbedSearch, UndisturbedCheck

(* SyslogLine splits at the newline the call found, and at no other.         *)
LEMMA LinesLogged ==
  ASSUME CallTypeOK, IndexInBuffer, FoundNewline, SentLine, Log(call.piece),
         NEW str, str = Written(call.piece)
  PROVE  /\ str \in Seq(Char) /\ call.nl + 1 \in 1..Len(str)
         /\ syslog_str' = RestOf(str) /\ i' = Len(str) - (call.nl + 1)
         /\ lines' # <<>> => Last(lines') = sent
<1>1. PICK piece, nl : piece = call.piece /\ nl = call.nl
  OBVIOUS
<1>2. /\ str = Written(piece) /\ piece \in Seq(Char) /\ nl \in Nat /\ str \in Seq(Char)
      /\ nl + 1 \in 1..Len(str) /\ IsLastNewline(nl + 1, str) /\ Log(piece)
      /\ sent = SubSeq(str, 1, nl) /\ lines \in Seq(Seq(Char))
  <2>1. piece \in Seq(Char) /\ lines \in Seq(Seq(Char)) /\ nl \in 0..(Size - 2)
    BY <1>1 DEF CallTypeOK
  <2>2. str = Written(piece) /\ Log(piece) /\ sent = SubSeq(str, 1, nl)
    BY <1>1 DEF SentLine
  <2>3. str \in Seq(Char)
    BY <2>1, <2>2, WrittenFits
  <2>4. nl + 1 \in 1..Len(str) /\ IsLastNewline(nl + 1, str)
    BY <1>1, <2>3 DEF FoundNewline
  <2>. QED
    BY <2>1, <2>2, <2>3, <2>4
<1>3. str[nl + 1] = "newline" /\ DOMAIN str = 1..Len(str)
  BY <1>2 DEF IsLastNewline
<1>4. ~NoNewline(str)
  BY <1>2, <1>3 DEF NoNewline
<1>5. LogLines(piece)
  BY <1>2, <1>4 DEF Log, Keep, Lose
<1>6. PICK n \in DOMAIN str :
        /\ IsLastNewline(n, str)
        /\ syslog_str' = SubSeq(str, n + 1, Len(str))
        /\ i' = Len(str) - n
        /\ lines' = IF Cut(piece) THEN <<>> ELSE Append(lines, SubSeq(str, 1, n - 1))
  BY <1>2, <1>5 DEF LogLines
<1>7. n \in 1..Len(str) /\ Len(str) \in Nat
  BY <1>2, <1>6
<1>8. n = nl + 1
  <2>1. ~(n < nl + 1)
    <3>1. SUFFICES ASSUME n < nl + 1 PROVE FALSE
      OBVIOUS
    <3>2. nl + 1 \in (n + 1)..Len(str)
      BY <1>2, <1>7, <3>1
    <3>. QED
      BY <1>3, <1>6, <3>2 DEF IsLastNewline
  <2>2. ~(nl + 1 < n)
    <3>1. SUFFICES ASSUME nl + 1 < n PROVE FALSE
      OBVIOUS
    <3>2. n \in ((nl + 1) + 1)..Len(str) /\ str[n] = "newline"
      BY <1>2, <1>6, <1>7, <3>1 DEF IsLastNewline
    <3>. QED
      BY <1>2, <3>2 DEF IsLastNewline
  <2>. QED
    BY <1>2, <1>7, <2>1, <2>2
<1>9. n - 1 = nl /\ n + 1 = nl + 2
  BY <1>2, <1>8
<1>10. lines' # <<>> => Last(lines') = sent
  <2>1. SUFFICES ASSUME lines' # <<>> PROVE Last(lines') = sent
    OBVIOUS
  <2>2. lines' = Append(lines, SubSeq(str, 1, n - 1))
    BY <1>6, <2>1
  <2>3. lines' = Append(lines, sent)
    BY <1>2, <1>9, <2>2
  <2>4. PICK Q : Q = Seq(Char)
    OBVIOUS
  <2>5. lines \in Seq(Q) /\ sent \in Q
    BY <1>2, <1>7, <1>9, <2>4
  <2>6. Len(lines') = Len(lines) + 1 /\ lines'[Len(lines) + 1] = sent
    BY <2>3, <2>5
  <2>. QED
    BY <2>6 DEF Last
<1>11. syslog_str' = SubSeq(str, nl + 2, Len(str)) /\ i' = Len(str) - (nl + 1)
  BY <1>6, <1>8, <1>9
<1>. QED
  BY <1>1, <1>2, <1>10, <1>11 DEF RestOf

LEMMA NoRestUndisturbed ==
  ASSUME CallTypeOK, IndexInBuffer, Undisturbed, NoRest, torn = 0
  PROVE  Undisturbed'
<1>. USE SizeAssumption
<1>1. /\ call.pc = "rest" /\ FoundNewline /\ SentLine
      /\ DOMAIN call = {"pc", "piece", "at", "n", "nl"} /\ call.nl \in Nat
  BY DEF NoRest, At, Undisturbed, UndisturbedLine, CallTypeOK
<1>2. Log(call.piece) /\ Goto("idle")
  BY DEF NoRest, Returns
<1>3. buf[call.nl + 1] = "nul" /\ idx' = 0 /\ sent' = sent
  BY DEF NoRest, RestIdx
<1>4. PICK str : str = Written(call.piece)
  OBVIOUS
<1>5. BufOK(buf) /\ str \in Seq(Char) /\ Len(str) <= Size - 1 /\ Holds(buf, str)
  BY <1>1, <1>4, HoldsWritten
<1>6. /\ call.nl + 1 \in 1..Len(str) /\ i' = Len(str) - (call.nl + 1)
      /\ lines' # <<>> => Last(lines') = sent
  BY <1>1, <1>2, <1>4, LinesLogged
<1>7. call.nl + 1 = Len(str)
  <2>1. StrLen(buf) = Len(str) /\ \A m \in 0..(StrLen(buf) - 1) : buf[m] # "nul"
    BY <1>5, HoldsLength, StrLenIs
  <2>2. ~(call.nl + 1 \in 0..(Len(str) - 1))
    BY <1>3, <2>1
  <2>. QED
    BY <1>1, <1>5, <1>6, <2>2
<1>8. i' = 0 /\ idx' = i'
  BY <1>3, <1>6, <1>7
<1>9. KeptInPlace' /\ SentIsLast'
  BY <1>3, <1>6, <1>8 DEF KeptInPlace, SentIsLast
<1>10. call'.pc = "idle"
  BY <1>1, <1>2, GotoIs
<1>11. UndisturbedIdle'
  BY <1>8, <1>9 DEF UndisturbedIdle
<1>. QED
  BY <1>10, <1>11 DEF Undisturbed, UndisturbedPrint, UndisturbedAdd, UndisturbedSearch,
                      UndisturbedCheck, UndisturbedLine

LEMMA StrlenUndisturbed ==
  ASSUME CallTypeOK, IndexInBuffer, Undisturbed, Strlen, torn = 0
  PROVE  Undisturbed'
<1>. USE SizeAssumption
<1>1. /\ call.pc = "strlen" /\ FoundNewline /\ SentLine /\ BufOK(buf)
      /\ Holds(buf, RestOf(Written(call.piece))) /\ call.nl + 1 < Len(Written(call.piece))
      /\ DOMAIN call = {"pc", "piece", "at", "n", "nl"} /\ call.nl \in Nat
      /\ call.piece \in Seq(Char)
  BY DEF Strlen, At, Undisturbed, UndisturbedLine, CallTypeOK
<1>2. Log(call.piece) /\ Goto("idle")
  BY DEF Strlen, Returns
<1>3. idx' = StrLen(buf) /\ sent' = sent /\ buf' = buf
  BY DEF Strlen
<1>4. PICK str, rest : str = Written(call.piece) /\ rest = RestOf(str)
  OBVIOUS
<1>5. /\ str \in Seq(Char) /\ call.nl + 1 \in 1..Len(str)
      /\ syslog_str' = rest /\ i' = Len(str) - (call.nl + 1)
      /\ lines' # <<>> => Last(lines') = sent
  BY <1>1, <1>2, <1>4, LinesLogged
<1>6. Len(str) \in Nat /\ Len(str) <= Size - 1
  <2>1. Len(str) < Size /\ Len(str) \in Nat
    BY <1>1, <1>4, WrittenFits
  <2>. QED
    BY <2>1
<1>7. rest \in Seq(Char) /\ Len(rest) = Len(str) - (call.nl + 1)
  <2>1. PICK nl : nl = call.nl
    OBVIOUS
  <2>2. nl \in Nat /\ nl + 2 \in 1..Len(str) /\ rest = SubSeq(str, nl + 2, Len(str))
    BY <1>1, <1>4, <1>6, <2>1 DEF RestOf
  <2>3. rest \in Seq(Char) /\ Len(rest) = Len(str) - (nl + 1)
    BY <1>5, <1>6, <2>2
  <2>. QED
    BY <2>1, <2>3
<1>8. Holds(buf, rest) /\ Len(rest) <= Size - 1
  BY <1>1, <1>4, <1>6, <1>7
<1>9. StrLen(buf) = Len(rest)
  BY <1>1, <1>7, <1>8, HoldsLength
<1>10. idx' = i' /\ i' = Len(rest)
  BY <1>3, <1>5, <1>7, <1>9
<1>11. KeptInPlace' /\ SentIsLast'
  BY <1>3, <1>5, <1>8, <1>10 DEF KeptInPlace, SentIsLast, Holds
<1>12. call'.pc = "idle"
  BY <1>1, <1>2, GotoIs
<1>13. UndisturbedIdle'
  BY <1>10, <1>11 DEF UndisturbedIdle
<1>. QED
  BY <1>12, <1>13 DEF Undisturbed, UndisturbedPrint, UndisturbedAdd, UndisturbedSearch,
                      UndisturbedCheck, UndisturbedLine

LEMMA CheckUndisturbed ==
  ASSUME CallTypeOK, IndexInBuffer, Undisturbed, Check, torn = 0
  PROVE  Undisturbed'
<1>. USE SizeAssumption
<1>1. /\ call.pc = "check" /\ SentIsLast /\ NoNewline(Written(call.piece))
      /\ DOMAIN call = {"pc", "piece", "at", "n", "nl"} /\ call.piece \in Seq(Char)
  BY DEF Check, At, Undisturbed, UndisturbedCheck, CallTypeOK
<1>2. Log(call.piece) /\ Goto("idle") /\ buf' = buf
  BY DEF Check, Returns
<1>3. PICK str : str = Written(call.piece)
  OBVIOUS
<1>4. /\ BufOK(buf) /\ str \in Seq(Char) /\ Holds(buf, str) /\ idx = i + Len(call.piece)
  BY <1>1, <1>3, HoldsWritten
<1>5. call'.pc = "idle"
  BY <1>1, <1>2, GotoIs
<1>6. ~LogLines(call.piece)
  BY <1>1 DEF LogLines, NoNewline, IsLastNewline
<1>7. idx' = i' /\ KeptInPlace' /\ SentIsLast'
  <2>1. CASE Keep(call.piece)
    <3>1. /\ i + Len(call.piece) < Size - 1 /\ syslog_str' = str /\ lines' = lines
          /\ i' = i + Len(call.piece)
      BY <1>3, <2>1 DEF Keep
    <3>2. ~(idx >= Size - 1)
      <4>1. i \in Nat /\ Len(call.piece) \in Nat
        BY <1>1 DEF IndexInBuffer
      <4>. QED
        BY <1>4, <3>1, <4>1
    <3>3. idx' = idx /\ sent' = sent
      BY <3>2 DEF Check
    <3>4. Len(str) = i + Len(call.piece)
      BY <1>1, <1>3, <3>1, WrittenIs
    <3>5. \A k \in 1..i' : buf'[k - 1] = syslog_str'[k]
      BY <1>2, <1>4, <3>1, <3>4 DEF Holds
    <3>. QED
      BY <1>1, <1>4, <3>1, <3>3, <3>5 DEF KeptInPlace, SentIsLast
  <2>2. CASE Lose(call.piece)
    <3>1. i + Len(call.piece) >= Size - 1 /\ i' = 0 /\ lines' = <<>>
      BY <2>2 DEF Lose
    <3>2. idx' = 0
      BY <1>4, <3>1 DEF Check
    <3>. QED
      BY <3>1, <3>2 DEF KeptInPlace, SentIsLast
  <2>. QED
    BY <1>2, <1>6, <2>1, <2>2 DEF Log
<1>8. UndisturbedIdle'
  BY <1>7 DEF UndisturbedIdle
<1>. QED
  BY <1>5, <1>8 DEF Undisturbed, UndisturbedPrint, UndisturbedAdd, UndisturbedSearch,
                    UndisturbedCheck, UndisturbedLine

LEMMA UndisturbedStep ==
  ASSUME CallTypeOK, IndexInBuffer, torn = 0 => Undisturbed, CallNext
  PROVE  (torn = 0 => Undisturbed)'
<1>1. SUFFICES ASSUME torn' = 0 PROVE Undisturbed'
  OBVIOUS
<1>2. CASE Interrupt
  <2>1. torn' = torn + 1 /\ torn \in Nat
    BY <1>2 DEF Interrupt, CallTypeOK
  <2>. QED
    BY <1>1, <2>1
<1>3. CASE ~Interrupt
  <2>1. \/ \E piece \in Pieces : Start(piece)
        \/ PutChar \/ PutZero \/ Add \/ Search \/ Send \/ Rest \/ NoRest \/ Strlen \/ Check
    BY <1>3 DEF CallNext
  <2>2. torn' = torn
    BY <2>1 DEF Start, PutChar, PutZero, Add, Search, Send, Rest, NoRest, Strlen, Check, history
  <2>3. torn = 0 /\ Undisturbed
    BY <1>1, <2>2
  <2>. QED
    BY <2>1, <2>3, StartUndisturbed, PutCharUndisturbed, PutZeroUndisturbed, AddUndisturbed,
       SearchUndisturbed, SendUndisturbed, RestUndisturbed, NoRestUndisturbed,
       StrlenUndisturbed, CheckUndisturbed
<1>. QED
  BY <1>2, <1>3

-----------------------------------------------------------------------------
(* Where main's text and a report fit, with or without a handler in between. *)

LEMMA PrintedAllStep ==
  ASSUME CallTypeOK, PrintedAll, CallNext
  PROVE  PrintedAll'
<1>1. DOMAIN call = {"pc", "piece", "at", "n", "nl"}
  BY DEF CallTypeOK
<1>2. CASE \E piece \in Pieces : Start(piece)
  BY <1>2 DEF Start, PrintedAll
<1>3. CASE PutChar
  BY <1>3, PutCharIs DEF PrintedAll
<1>4. CASE PutZero
  <2>1. Goto("add") /\ call.n = Len(call.piece)
    BY <1>4 DEF PutZero
  <2>. QED
    BY <1>1, <2>1, GotoIs DEF PrintedAll
<1>5. CASE Search
  <2>1. call'.pc \in {"check", "send"}
    BY <1>1, <1>5 DEF Search
  <2>. QED
    BY <2>1 DEF PrintedAll
<1>6. CASE Add \/ Send \/ Rest \/ NoRest \/ Strlen \/ Check
  <2>1. Goto("search") \/ Goto("rest") \/ Goto("strlen") \/ Goto("idle")
    BY <1>6 DEF Add, Send, Rest, NoRest, Strlen, Check, Returns
  <2>2. call'.pc \in {"search", "rest", "strlen", "idle"}
    BY <1>1, <2>1, GotoIs
  <2>. QED
    BY <2>2 DEF PrintedAll
<1>7. CASE Interrupt
  BY <1>7 DEF Interrupt, PrintedAll
<1>. QED
  BY <1>2, <1>3, <1>4, <1>5, <1>6, <1>7 DEF CallNext

LEMMA FitsIs ==
  ASSUME CallTypeOK, IndexInBuffer, Fits
  PROVE  /\ i \in Nat /\ Len(call.piece) \in Nat /\ Len(ReportText) \in Nat
         /\ i + Len(call.piece) + Len(ReportText) < Size - 1
         /\ i + Len(call.piece) < Size - 1
<1>1. i \in Nat /\ Len(call.piece) \in Nat /\ Len(ReportText) \in Nat
  BY UptoLength DEF IndexInBuffer, CallTypeOK
<1>2. i + Len(call.piece) + Len(ReportText) < Size - 1
  BY DEF Fits
<1>. QED
  BY <1>1, <1>2, SizeAssumption

LEMMA FitsBefore ==
  ASSUME UNCHANGED line, call'.piece = call.piece, Fits'
  PROVE  Fits
BY DEF line, Fits, ReportText

(* Characters that are not zero, put into the string or right behind it, end *)
(* it no sooner; put further on they leave it as it is.                      *)
LEMMA PutInText ==
  ASSUME NEW b, BufOK(b), NEW c, BufOK(c), NEW k \in 0..(Size - 1), c[k] # "nul",
         \A m \in 0..(Size - 1) : m # k => c[m] = b[m]
  PROVE  /\ StrLen(b) >= k => StrLen(c) >= k + 1
         /\ StrLen(b) < k => StrLen(c) = StrLen(b) /\ Newlines(c) = Newlines(b)
<1>. USE SizeAssumption
<1>1. PICK l : l = StrLen(b)
  OBVIOUS
<1>2. l \in 0..(Size - 1) /\ b[l] = "nul" /\ \A m \in 0..(l - 1) : b[m] # "nul"
  BY <1>1, StrLenIs
<1>3. CASE l >= k
  <2>1. \A m \in 0..k : c[m] # "nul"
    BY <1>2, <1>3
  <2>2. k + 1 \in Nat /\ k + 1 <= Size - 1 /\ \A m \in 0..((k + 1) - 1) : c[m] # "nul"
    <3>1. k # Size - 1
      BY <2>1 DEF BufOK
    <3>. QED
      BY <2>1, <3>1
  <2>3. StrLen(c) >= k + 1
    BY <2>2, StrLenAtLeast
  <2>. QED
    BY <1>1, <1>2, <1>3, <2>3
<1>4. CASE l < k
  <2>1. c[l] = "nul" /\ \A m \in 0..(l - 1) : c[m] = b[m] /\ c[m] # "nul"
    BY <1>2, <1>4
  <2>2. StrLen(c) = l
    BY <1>2, <2>1, StrLenEquals
  <2>3. Newlines(c) = Newlines(b)
    BY <1>1, <2>1, <2>2 DEF Newlines
  <2>. QED
    BY <1>1, <1>2, <1>4, <2>2, <2>3
<1>. QED
  BY <1>1, <1>2, <1>3, <1>4

LEMMA ZeroInText ==
  ASSUME NEW b, BufOK(b), NEW c, BufOK(c), NEW k \in 0..(Size - 1), c[k] = "nul",
         \A m \in 0..(Size - 1) : m # k => c[m] = b[m]
  PROVE  /\ StrLen(b) >= k => StrLen(c) = k
         /\ StrLen(b) < k => StrLen(c) = StrLen(b) /\ Newlines(c) = Newlines(b)
<1>. USE SizeAssumption
<1>1. PICK l : l = StrLen(b)
  OBVIOUS
<1>2. l \in 0..(Size - 1) /\ b[l] = "nul" /\ \A m \in 0..(l - 1) : b[m] # "nul"
  BY <1>1, StrLenIs
<1>3. CASE l >= k
  <2>1. \A m \in 0..(k - 1) : c[m] # "nul"
    BY <1>2, <1>3
  <2>2. k \in Nat /\ k <= Size - 1
    OBVIOUS
  <2>3. StrLen(c) = k
    BY <2>1, <2>2, StrLenEquals
  <2>. QED
    BY <1>1, <1>2, <1>3, <2>3
<1>4. CASE l < k
  <2>1. c[l] = "nul" /\ \A m \in 0..(l - 1) : c[m] = b[m] /\ c[m] # "nul"
    BY <1>2, <1>4
  <2>2. StrLen(c) = l
    BY <1>2, <2>1, StrLenEquals
  <2>3. Newlines(c) = Newlines(b)
    BY <1>1, <2>1, <2>2 DEF Newlines
  <2>. QED
    BY <1>1, <1>2, <1>4, <2>2, <2>3
<1>. QED
  BY <1>1, <1>2, <1>3, <1>4

(* What is kept is in the text.                                              *)
LEMMA KeptInText ==
  ASSUME CallTypeOK, IndexInBuffer, KeptInPlace
  PROVE  StrLen(buf) >= i
<1>. USE SizeAssumption
<1>1. i \in Nat /\ i <= Size - 1 /\ syslog_str \in Seq(Char) /\ i <= Len(syslog_str) /\ BufOK(buf)
  BY DEF IndexInBuffer, CallTypeOK
<1>2. ASSUME NEW m \in 0..(i - 1) PROVE buf[m] # "nul"
  <2>1. m + 1 \in 1..i /\ (m + 1) - 1 = m /\ m + 1 \in 1..Len(syslog_str)
    BY <1>1
  <2>2. buf[(m + 1) - 1] = syslog_str[m + 1]
    BY <2>1 DEF KeptInPlace
  <2>3. syslog_str[m + 1] \in Char
    BY <1>1, <2>1
  <2>. QED
    BY <2>1, <2>2, <2>3 DEF Char
<1>. QED
  BY <1>1, <1>2, StrLenAtLeast

(* A handler's report, from where main stands.                               *)
LEMMA InterruptIs ==
  ASSUME Interrupt, ~(idx >= Size)
  PROVE  \E st : /\ Buf(st) = buf /\ Idx(st) = idx
                 /\ buf' = Buf(Logged(st)) /\ idx' = Idx(Logged(st))
                 /\ overrun' = overrun
                 /\ torn > 0 => whole' = whole
                 /\ ~(torn > 0) => (whole' <=> IsSuffix(Front(ReportText), Sent(Logged(st))))
<1>1. PICK st : st = [buf |-> buf, idx |-> idx, sent |-> sent]
  OBVIOUS
<1>2. Buf(st) = buf /\ Idx(st) = idx
  BY <1>1 DEF Buf, Idx
<1>3. /\ buf' = Buf(Logged(st)) /\ idx' = Idx(Logged(st)) /\ overrun' = overrun
      /\ whole' = IF torn > 0 THEN whole ELSE IsSuffix(Front(ReportText), Sent(Logged(st)))
  BY <1>1 DEF Interrupt, Buf, Idx, Sent
<1>. QED
  BY <1>2, <1>3

LEMMA StartWithin ==
  ASSUME CallTypeOK, IndexInBuffer, Undisturbed, NEW piece \in Pieces, Start(piece)
  PROVE  Within'
<1>1. idx = i /\ KeptInPlace
  BY DEF Start, At, Undisturbed, UndisturbedIdle
<1>2. UNCHANGED line /\ UNCHANGED cells
  BY DEF Start
<1>3. i' = i /\ idx' = idx /\ buf' = buf
  BY <1>2 DEF line, cells
<1>4. call'.pc = "print" /\ call'.n = 0
  BY DEF Start
<1>5. StrLen(buf) >= i /\ i \in Nat /\ StrLen(buf) \in 0..(Size - 1)
  BY <1>1, KeptInText, StrLenIs DEF IndexInBuffer, CallTypeOK
<1>6. idx' <= i' /\ InText' /\ (StrLen(buf) >= i + call.n)'
  <2>1. StrLen(buf)' = StrLen(buf)
    BY <1>3
  <2>. QED
    BY <1>1, <1>3, <1>4, <1>5, <2>1 DEF InText
<1>7. WithinKept'
  BY <1>6 DEF WithinKept
<1>. QED
  BY <1>4, <1>7 DEF Within, WithinCall, WithinBuffer, WithinIdle

LEMMA PutCharWithin ==
  ASSUME CallTypeOK, IndexInBuffer, Fits, Within, PutChar
  PROVE  Within'
<1>. USE SizeAssumption
<1>1. /\ call.at = i /\ idx <= i /\ idx <= StrLen(buf) /\ idx \in Nat /\ BufOK(buf)
      /\ StrLen(buf) >= i + call.n \/ Newlines(buf) # {}
  BY DEF PutChar, At, CallTypeOK, Within, WithinKept, InText
<1>2. UNCHANGED line /\ idx' = idx
  BY DEF PutChar
<1>3. PICK k : k = i + call.n
  OBVIOUS
<1>4. k \in 0..(Size - 1) /\ k < Size - 1 /\ i \in Nat /\ i <= k /\ call.n \in Nat
  <2>1. call.n \in 0..Len(call.piece) /\ call.n < Len(call.piece)
    BY DEF CallTypeOK, PutChar
  <2>. QED
    BY <1>3, <2>1, FitsIs
<1>5. /\ BufOK(buf') /\ call.piece[call.n + 1] \in Char /\ call'.pc = "print"
      /\ call'.n = call.n + 1 /\ buf'[k] = call.piece[call.n + 1]
      /\ \A m \in 0..(Size - 1) : m # k => buf'[m] = buf[m]
  BY <1>1, <1>3, <1>4, PutCharIs
<1>6. buf'[k] # "nul"
  BY <1>5 DEF Char
<1>7. /\ StrLen(buf) >= k => StrLen(buf') >= k + 1
      /\ StrLen(buf) < k => StrLen(buf') = StrLen(buf) /\ Newlines(buf') = Newlines(buf)
  BY <1>1, <1>4, <1>5, <1>6, PutInText
<1>8. StrLen(buf) \in Nat /\ StrLen(buf') \in Nat
  BY <1>1, <1>5, StrLenIs
<1>9. i' + call'.n = k + 1 /\ i' = i
  BY <1>2, <1>3, <1>4, <1>5 DEF line
<1>10. idx' <= i' /\ idx' <= StrLen(buf') /\ (StrLen(buf') >= i' + call'.n \/ Newlines(buf') # {})
  <2>1. CASE StrLen(buf) >= k
    BY <1>1, <1>2, <1>4, <1>7, <1>8, <1>9, <2>1
  <2>2. CASE ~(StrLen(buf) >= k)
    <3>1. StrLen(buf) < k /\ Newlines(buf) # {}
      BY <1>1, <1>3, <1>4, <1>8, <2>2
    <3>2. StrLen(buf') = StrLen(buf) /\ Newlines(buf') = Newlines(buf)
      BY <1>7, <3>1
    <3>. QED
      BY <1>1, <1>2, <1>9, <3>1, <3>2
  <2>. QED
    BY <2>1, <2>2
<1>11. WithinKept'
  BY <1>10 DEF WithinKept, InText
<1>. QED
  BY <1>5, <1>11 DEF Within, WithinCall, WithinBuffer, WithinIdle

LEMMA PutZeroWithin ==
  ASSUME CallTypeOK, IndexInBuffer, Fits, Within, PutZero
  PROVE  Within'
<1>. USE SizeAssumption
<1>1. /\ call.at = i /\ idx <= i /\ idx <= StrLen(buf) /\ idx \in Nat /\ BufOK(buf)
      /\ StrLen(buf) >= i + call.n \/ Newlines(buf) # {}
  BY DEF PutZero, At, CallTypeOK, Within, WithinKept, InText
<1>2. UNCHANGED line /\ idx' = idx
  BY DEF PutZero
<1>3. PICK k : k = i + call.n
  OBVIOUS
<1>4. k \in 0..(Size - 1) /\ k < Size - 1 /\ i \in Nat /\ i <= k /\ call.n \in Nat
  <2>1. call.n = Len(call.piece)
    BY DEF PutZero
  <2>. QED
    BY <1>3, <2>1, FitsIs
<1>5. /\ BufOK(buf') /\ buf'[k] = "nul"
      /\ \A m \in 0..(Size - 1) : m # k => buf'[m] = buf[m]
  <2>1. PICK e \in 0..(Size - 1) :
          /\ e = IF call.at + call.n < Size - 1 THEN call.at + call.n ELSE Size - 1
          /\ BufOK(buf') /\ buf'[e] = "nul"
          /\ \A m \in 0..(Size - 1) : m # e => buf'[m] = buf[m]
    BY PutZeroIs
  <2>2. e = k
    BY <1>1, <1>3, <1>4, <2>1
  <2>. QED
    BY <2>1, <2>2
<1>6. call'.pc = "add" /\ call'.n = call.n
  BY GotoIs DEF PutZero, CallTypeOK
<1>7. /\ StrLen(buf) >= k => StrLen(buf') = k
      /\ StrLen(buf) < k => StrLen(buf') = StrLen(buf) /\ Newlines(buf') = Newlines(buf)
  BY <1>1, <1>4, <1>5, ZeroInText
<1>8. StrLen(buf) \in Nat /\ StrLen(buf') \in Nat
  BY <1>1, <1>5, StrLenIs
<1>9. i' + call'.n = k /\ i' = i
  BY <1>2, <1>3, <1>4, <1>6 DEF line
<1>10. idx' <= i' /\ idx' <= StrLen(buf') /\ (StrLen(buf') >= i' + call'.n \/ Newlines(buf') # {})
  <2>1. CASE StrLen(buf) >= k
    BY <1>1, <1>2, <1>4, <1>7, <1>8, <1>9, <2>1
  <2>2. CASE ~(StrLen(buf) >= k)
    <3>1. StrLen(buf) < k /\ Newlines(buf) # {}
      BY <1>1, <1>3, <1>4, <1>8, <2>2
    <3>2. StrLen(buf') = StrLen(buf) /\ Newlines(buf') = Newlines(buf)
      BY <1>7, <3>1
    <3>. QED
      BY <1>1, <1>2, <1>9, <3>1, <3>2
  <2>. QED
    BY <2>1, <2>2
<1>11. WithinKept'
  BY <1>10 DEF WithinKept, InText
<1>. QED
  BY <1>6, <1>11 DEF Within, WithinCall, WithinBuffer, WithinIdle

LEMMA AddWithin ==
  ASSUME CallTypeOK, IndexInBuffer, PrintedAll, Fits, Within, Add
  PROVE  Within'
<1>1. /\ call.at = i /\ idx <= i /\ idx <= StrLen(buf) /\ idx \in Nat /\ BufOK(buf)
      /\ StrLen(buf) >= i + call.n \/ Newlines(buf) # {}
      /\ call.n = Len(call.piece)
  BY DEF Add, At, CallTypeOK, Within, WithinKept, InText, PrintedAll
<1>2. UNCHANGED line /\ buf' = buf /\ (idx' = idx + call.n \/ idx' = i + call.n)
  BY <1>1, AddKeepsBuffer DEF Add
<1>3. call'.pc = "search" /\ call'.piece = call.piece
  BY GotoIs DEF Add, CallTypeOK
<1>4. i \in Nat /\ call.n \in Nat /\ StrLen(buf) \in Nat
  BY <1>1, FitsIs, StrLenIs
<1>5. idx' <= i + Len(call.piece)
  BY <1>1, <1>2, <1>4
<1>6. idx' <= StrLen(buf) \/ Newlines(buf) # {}
  BY <1>1, <1>2, <1>4
<1>7. WithinCall'
  BY <1>2, <1>3, <1>5, <1>6 DEF WithinCall, InText, line
<1>. QED
  BY <1>3, <1>7 DEF Within, WithinKept, WithinBuffer, WithinIdle

LEMMA SearchWithin ==
  ASSUME CallTypeOK, IndexInBuffer, Fits, Within, Search
  PROVE  Within'
<1>1. /\ DOMAIN call = {"pc", "piece", "at", "n", "nl"} /\ idx \in Nat
      /\ idx <= i + Len(call.piece) /\ (InText \/ Newlines(buf) # {})
  BY DEF Search, At, CallTypeOK, Within, WithinCall
<1>2. UNCHANGED line /\ UNCHANGED cells
  BY DEF Search
<1>3. CASE Newlines(buf) = {}
  <2>1. call'.pc = "check" /\ call'.piece = call.piece
    BY <1>1, <1>3 DEF Search
  <2>2. InText
    BY <1>1, <1>3
  <2>3. WithinCall'
    BY <1>1, <1>2, <2>1, <2>2 DEF WithinCall, InText, line, cells
  <2>. QED
    BY <2>1, <2>3 DEF Within, WithinKept, WithinBuffer, WithinIdle
<1>4. CASE Newlines(buf) # {}
  <2>1. call'.pc = "send"
    BY <1>1, <1>4 DEF Search
  <2>2. idx < Size
    BY <1>1, FitsIs, SizeAssumption
  <2>3. WithinBuffer'
    BY <1>2, <2>2 DEF WithinBuffer, cells
  <2>. QED
    BY <2>1, <2>3 DEF Within, WithinKept, WithinCall, WithinIdle
<1>. QED
  BY <1>3, <1>4

LEMMA LaterWithin ==
  ASSUME CallTypeOK, IndexInBuffer, Fits, Within, Send \/ Rest \/ NoRest \/ Strlen \/ Check
  PROVE  Within'
<1>. USE SizeAssumption
<1>1. DOMAIN call = {"pc", "piece", "at", "n", "nl"} /\ idx \in Nat /\ BufOK(buf)
  BY DEF CallTypeOK
<1>2. CASE Send \/ Rest
  <2>1. idx < Size /\ idx' = idx
    BY <1>2 DEF Send, Rest, At, Within, WithinBuffer, cells
  <2>2. call'.pc \in {"rest", "strlen"}
    BY <1>1, <1>2, GotoIs DEF Send, Rest
  <2>3. WithinBuffer'
    BY <2>1 DEF WithinBuffer
  <2>. QED
    BY <2>2, <2>3 DEF Within, WithinKept, WithinCall, WithinIdle
<1>3. CASE NoRest \/ Strlen \/ Check
  <2>1. buf' = buf /\ Goto("idle")
    BY <1>3 DEF NoRest, Strlen, Check, Returns
  <2>2. call'.pc = "idle"
    BY <1>1, <2>1, GotoIs
  <2>3. StrLen(buf) \in Nat
    BY <1>1, StrLenIs
  <2>4. idx' <= StrLen(buf)
    <3>1. CASE NoRest
      <4>1. idx' = 0
        BY <3>1 DEF NoRest, RestIdx
      <4>. QED
        BY <2>3, <4>1
    <3>2. CASE Strlen
      BY <2>3, <3>2 DEF Strlen
    <3>3. CASE Check
      <4>1. idx <= i + Len(call.piece) /\ InText
        BY <3>3 DEF Check, At, Within, WithinCall
      <4>2. ~(idx >= Size - 1)
        BY <1>1, <4>1, FitsIs
      <4>3. idx' = idx
        BY <3>3, <4>2 DEF Check
      <4>. QED
        BY <4>1, <4>3 DEF InText
    <3>. QED
      BY <1>3, <3>1, <3>2, <3>3
  <2>5. WithinIdle'
    BY <2>1, <2>4 DEF WithinIdle, InText
  <2>. QED
    BY <2>2, <2>5 DEF Within, WithinKept, WithinCall, WithinBuffer
<1>. QED
  BY <1>2, <1>3

(* Wherever a handler comes in, it finds the index inside the buffer.        *)
LEMMA RoomForHandler ==
  ASSUME CallTypeOK, IndexInBuffer, Fits, Within, call.pc # "idle"
  PROVE  /\ ~(idx >= Size)
         /\ call.pc \in {"print", "add", "search", "check"} =>
              /\ idx + Len(ReportText) < Size - 1
              /\ InText \/ Newlines(buf) # {}
<1>1. /\ i \in Nat /\ Len(call.piece) \in Nat /\ Len(ReportText) \in Nat /\ idx \in Nat
      /\ i + Len(call.piece) + Len(ReportText) < Size - 1
  BY FitsIs DEF CallTypeOK
<1>2. CASE call.pc \in {"print", "add", "search", "check"}
  <2>1. idx <= i + Len(call.piece)
    <3>1. idx <= i \/ idx <= i + Len(call.piece)
      BY <1>2 DEF Within, WithinKept, WithinCall
    <3>. QED
      BY <1>1, <3>1
  <2>2. InText \/ Newlines(buf) # {}
    BY <1>2 DEF Within, WithinKept, WithinCall
  <2>3. idx + Len(ReportText) < Size - 1
    BY <1>1, <2>1, SizeAssumption
  <2>4. ~(idx >= Size)
    BY <1>1, <2>3, SizeAssumption
  <2>. QED
    BY <2>2, <2>3, <2>4
<1>3. CASE ~(call.pc \in {"print", "add", "search", "check"})
  <2>1. call.pc \in {"send", "rest", "strlen"}
    BY <1>3 DEF CallTypeOK
  <2>2. idx < Size
    BY <2>1 DEF Within, WithinBuffer
  <2>. QED
    BY <1>1, <1>3, <2>2, SizeAssumption
<1>. QED
  BY <1>2, <1>3

LEMMA InterruptWithin ==
  ASSUME CallTypeOK, IndexInBuffer, Fits, Within, Interrupt
  PROVE  Within'
<1>. USE SizeAssumption
<1>1. UNCHANGED line /\ call' = call /\ call.pc # "idle" /\ idx \in Nat /\ BufOK(buf)
  BY DEF Interrupt, CallTypeOK
<1>2. ~(idx >= Size)
  BY <1>1, RoomForHandler
<1>3. PICK st : /\ Buf(st) = buf /\ Idx(st) = idx
                /\ buf' = Buf(Logged(st)) /\ idx' = Idx(Logged(st))
  BY <1>2, InterruptIs
<1>4. idx \in 0..(Size - 1)
  BY <1>1, <1>2
<1>5. BufOK(buf') /\ idx' \in 0..(Size - 2)
  <2>1. BufOK(Buf(Logged(st))) /\ Idx(Logged(st)) \in 0..(Size - 2)
    BY <1>1, <1>3, <1>4, LoggedInBuffer
  <2>. QED
    BY <1>3, <2>1
<1>6. CASE call.pc \in {"print", "add", "search", "check"}
  <2>1. /\ idx + Len(ReportText) < Size - 1
        /\ idx <= StrLen(buf) \/ Newlines(buf) # {}
    BY <1>1, <1>6, RoomForHandler DEF InText
  <2>2. /\ idx' <= StrLen(buf') /\ idx' <= idx
        /\ idx <= StrLen(buf) => idx' = 0 /\ Newlines(buf') # {}
    <3>1. Idx(st) \in Nat /\ Idx(st) + Len(ReportText) < Size - 1 /\ BufOK(Buf(st))
          /\ (Idx(st) <= StrLen(Buf(st)) \/ Newlines(Buf(st)) # {})
      BY <1>1, <1>3, <2>1
    <3>2. /\ Idx(Logged(st)) <= StrLen(Buf(Logged(st)))
          /\ Idx(Logged(st)) <= Idx(st)
          /\ Idx(st) <= StrLen(Buf(st)) => Idx(Logged(st)) = 0 /\ Newlines(Buf(Logged(st))) # {}
      BY <3>1, LoggedInText
    <3>. QED
      BY <1>3, <3>2
  <2>3. i' = i /\ i \in Nat /\ Len(call.piece) \in Nat /\ idx' \in Nat
    BY <1>1, <1>5, FitsIs DEF line
  <2>4. CASE call.pc \in {"print", "add"}
    <3>1. idx <= i /\ idx <= StrLen(buf)
      BY <2>4 DEF Within, WithinKept, InText
    <3>2. idx' <= i' /\ Newlines(buf') # {}
      BY <1>1, <2>2, <2>3, <3>1
    <3>3. WithinKept'
      BY <2>2, <3>2 DEF WithinKept, InText
    <3>4. call'.pc \in {"print", "add"}
      BY <1>1, <2>4
    <3>. QED
      BY <3>3, <3>4 DEF Within, WithinCall, WithinBuffer, WithinIdle
  <2>5. CASE call.pc \in {"search", "check"}
    <3>1. idx <= i + Len(call.piece)
      BY <2>5 DEF Within, WithinCall
    <3>2. idx' <= i' + Len(call'.piece)
      BY <1>1, <2>2, <2>3, <3>1
    <3>3. WithinCall'
      BY <2>2, <3>2 DEF WithinCall, InText
    <3>4. call'.pc \in {"search", "check"}
      BY <1>1, <2>5
    <3>. QED
      BY <3>3, <3>4 DEF Within, WithinKept, WithinBuffer, WithinIdle
  <2>. QED
    BY <1>6, <2>4, <2>5
<1>7. CASE ~(call.pc \in {"print", "add", "search", "check"})
  <2>1. call'.pc \in {"send", "rest", "strlen"}
    BY <1>1, <1>7 DEF CallTypeOK
  <2>2. WithinBuffer'
    BY <1>5 DEF WithinBuffer
  <2>. QED
    BY <2>1, <2>2 DEF Within, WithinKept, WithinCall, WithinIdle
<1>. QED
  BY <1>6, <1>7

LEMMA WithinStep ==
  ASSUME CallTypeOK, IndexInBuffer, PrintedAll, torn = 0 => Undisturbed, Fits => Within, CallNext
  PROVE  (Fits => Within)'
<1>1. SUFFICES ASSUME Fits' PROVE Within'
  OBVIOUS
<1>2. DOMAIN call = {"pc", "piece", "at", "n", "nl"}
  BY DEF CallTypeOK
<1>3. CASE \E piece \in Pieces : Start(piece)
  <2>1. torn = 0
    BY <1>3 DEF Start
  <2>. QED
    BY <1>3, <2>1, StartWithin
<1>4. CASE PutChar \/ PutZero \/ Add \/ Search \/ Send \/ Rest \/ Interrupt
  <2>1. UNCHANGED line
    BY <1>4 DEF PutChar, PutZero, Add, Search, Send, Rest, Interrupt
  <2>2. call'.piece = call.piece
    <3>1. CASE PutChar
      BY <3>1, PutCharIs
    <3>2. CASE Search
      BY <1>2, <3>2 DEF Search
    <3>3. CASE PutZero \/ Add \/ Send \/ Rest
      <4>1. Goto("add") \/ Goto("search") \/ Goto("rest") \/ Goto("strlen")
        BY <3>3 DEF PutZero, Add, Send, Rest
      <4>. QED
        BY <1>2, <4>1, GotoIs
    <3>4. CASE Interrupt
      BY <3>4 DEF Interrupt
    <3>. QED
      BY <1>4, <3>1, <3>2, <3>3, <3>4
  <2>3. Fits /\ Within
    BY <1>1, <2>1, <2>2, FitsBefore
  <2>. QED
    BY <1>4, <2>3, PutCharWithin, PutZeroWithin, AddWithin, SearchWithin, LaterWithin,
       InterruptWithin
<1>5. CASE NoRest \/ Strlen \/ Check
  <2>1. Returns /\ torn' = torn
    BY <1>5 DEF NoRest, Strlen, Check, history
  <2>2. call'.pc = "idle" /\ call'.piece = call.piece
    BY <1>2, <2>1, GotoIs DEF Returns
  <2>3. CASE torn = 0
    <3>1. ~(torn' > 0)
      BY <2>1, <2>3
    <3>. QED
      BY <2>2, <3>1 DEF Within, WithinKept, WithinCall, WithinBuffer, WithinIdle
  <2>4. CASE torn # 0
    <3>1. UNCHANGED line
      BY <2>1, <2>4 DEF Returns
    <3>2. Fits /\ Within
      BY <1>1, <2>2, <3>1, FitsBefore
    <3>. QED
      BY <1>5, <3>2, LaterWithin
  <2>. QED
    BY <2>3, <2>4
<1>. QED
  BY <1>3, <1>4, <1>5 DEF CallNext

-----------------------------------------------------------------------------
(* The first handler's report.                                               *)

(* Of a piece that has a newline at most at its end, what vsnprintf() wrote  *)
(* has one at most there.                                                    *)
LEMMA NewlineAtEnd ==
  ASSUME CallTypeOK, IndexInBuffer, Fits, NoNewline(Front(call.piece)),
         NEW str, str = Written(call.piece), NEW m \in 1..Len(str), str[m] = "newline"
  PROVE  m = Len(str) /\ Len(str) = i + Len(call.piece)
<1>1. PICK piece : piece = call.piece
  OBVIOUS
<1>2. piece \in Seq(Char) /\ Len(piece) \in Nat /\ i \in Nat /\ i + Len(piece) < Size - 1
  BY <1>1, FitsIs DEF CallTypeOK
<1>3. /\ Len(str) = i + Len(piece)
      /\ \A k \in 1..i : str[k] # "newline"
      /\ \A k \in 1..Len(str) : k > i => k - i \in 1..Len(piece) /\ str[k] = piece[k - i]
  <2>1. str = Written(piece)
    BY <1>1
  <2>2. /\ i + Len(piece) < Size - 1 => Len(str) = i + Len(piece)
        /\ \A k \in 1..i : str[k] = syslog_str[k] /\ str[k] # "newline"
        /\ \A k \in 1..Len(str) : k > i => k - i \in 1..Len(piece) /\ str[k] = piece[k - i]
    <3>. HIDE DEF IndexInBuffer
    <3>. QED
      BY <1>2, <2>1, WrittenIs, ZenonT(30)
  <2>3. Len(str) = i + Len(piece)
    BY <1>2, <2>2, Zenon
  <2>. QED
    BY <2>2, <2>3, Zenon
<1>4. m > i
  <2>1. ~(m \in 1..i)
    BY <1>3
  <2>. QED
    BY <1>2, <1>3, <2>1
<1>5. PICK d : d = m - i
  OBVIOUS
<1>6. d \in 1..Len(piece) /\ piece[d] = "newline"
  BY <1>3, <1>4, <1>5
<1>7. d = Len(piece)
  <2>1. SUFFICES ASSUME d # Len(piece) PROVE FALSE
    OBVIOUS
  <2>2. d \in 1..(Len(piece) - 1)
    BY <1>2, <1>6, <2>1
  <2>3. d \in DOMAIN Front(piece) /\ Front(piece)[d] = piece[d]
    BY <1>2, <2>2 DEF Front
  <2>. QED
    BY <1>1, <1>6, <2>3 DEF NoNewline
<1>. QED
  BY <1>1, <1>2, <1>3, <1>5, <1>7

(* Where a first handler comes in: the index is at the end of a text that    *)
(* has a newline at most right there.                                        *)
LEMMA FirstHandlerFinds ==
  ASSUME CallTypeOK, IndexInBuffer, Undisturbed, Fits, Within, call.pc # "idle",
         NoNewline(Front(call.piece))
  PROVE  /\ idx + Len(ReportText) < Size - 1 /\ idx <= StrLen(buf)
         /\ \A k \in 0..(idx - 1) : buf[k] = "newline" => k = idx - 1
<1>. USE SizeAssumption
<1>1. PICK str : str = Written(call.piece)
  OBVIOUS
<1>2. /\ BufOK(buf) /\ call.piece \in Seq(Char) /\ Len(call.piece) \in Nat /\ i \in Nat
      /\ Len(ReportText) \in Nat /\ i + Len(call.piece) + Len(ReportText) < Size - 1
      /\ i + Len(call.piece) < Size - 1
  BY FitsIs DEF CallTypeOK
<1>3. /\ str \in Seq(Char) /\ Len(str) = i + Len(call.piece) /\ Len(str) \in Nat
      /\ \A k \in 1..i : str[k] = syslog_str[k] /\ str[k] # "newline"
  BY <1>1, <1>2, WrittenIs
<1>4. CASE call.pc \in {"print", "add"}
  <2>1. idx = i /\ idx <= StrLen(buf)
    BY <1>4 DEF Undisturbed, UndisturbedPrint, UndisturbedAdd, Within, WithinKept, InText
  <2>2. ASSUME NEW k \in 0..(i - 1) PROVE buf[k] # "newline"
    <3>1. k + 1 \in 1..i /\ (k + 1) - 1 = k /\ k + 1 \in 1..Len(str)
      BY <1>2, <1>3
    <3>2. CASE call.pc = "print"
      <4>1. buf[(k + 1) - 1] = syslog_str[k + 1]
        BY <3>1, <3>2 DEF Undisturbed, UndisturbedPrint, KeptInPlace
      <4>. QED
        BY <1>3, <3>1, <4>1
    <3>3. CASE call.pc = "add"
      <4>1. buf[(k + 1) - 1] = str[k + 1]
        BY <1>1, <3>1, <3>3 DEF Undisturbed, UndisturbedAdd, Holds
      <4>. QED
        BY <1>3, <3>1, <4>1
    <3>. QED
      BY <1>4, <3>2, <3>3
  <2>3. idx + Len(ReportText) < Size - 1
    BY <1>2, <2>1
  <2>. QED
    BY <2>1, <2>2, <2>3
<1>5. CASE call.pc \in {"search", "check", "send", "rest"}
  <2>1. Len(str) <= Size - 1 /\ Holds(buf, str) /\ idx = i + Len(call.piece)
    BY <1>1, <1>5, HoldsWritten
  <2>2. StrLen(buf) = Len(str) /\ \A k \in 0..(Len(str) - 1) : buf[k] = str[k + 1]
    BY <1>2, <1>3, <2>1, HoldsLength
  <2>3. ASSUME NEW k \in 0..(idx - 1), buf[k] = "newline" PROVE k = idx - 1
    <3>1. k + 1 \in 1..Len(str) /\ k \in 0..(Len(str) - 1)
      BY <1>3, <2>1
    <3>2. str[k + 1] = "newline"
      BY <2>2, <2>3, <3>1
    <3>3. k + 1 = Len(str)
      BY <1>1, <3>1, <3>2, NewlineAtEnd
    <3>. QED
      BY <1>3, <2>1, <3>1, <3>3
  <2>4. idx + Len(ReportText) < Size - 1
    BY <1>2, <2>1
  <2>. QED
    BY <1>3, <2>1, <2>2, <2>3, <2>4
<1>6. CASE call.pc = "strlen"
  <2>1. PICK m : m = call.nl + 1
    OBVIOUS
  <2>2. m \in 1..Len(str) /\ str[m] = "newline" /\ m < Len(str)
    BY <1>1, <1>3, <1>6, <2>1 DEF Undisturbed, UndisturbedLine, FoundNewline, IsLastNewline
  <2>3. m = Len(str)
    BY <1>1, <2>2, NewlineAtEnd
  <2>. QED
    BY <1>3, <2>2, <2>3
<1>. QED
  BY <1>4, <1>5, <1>6 DEF CallTypeOK

LEMMA FirstReportWhole ==
  ASSUME CallTypeOK, IndexInBuffer, Undisturbed, Fits, Within, Interrupt, torn = 0,
         NoNewline(Front(call.piece)), NoNewline(Front(ReportText))
  PROVE  whole'
<1>1. call.pc # "idle" /\ idx \in Nat /\ BufOK(buf)
  BY DEF Interrupt, CallTypeOK
<1>2. ~(idx >= Size)
  BY <1>1, RoomForHandler
<1>3. PICK st : /\ Buf(st) = buf /\ Idx(st) = idx
                /\ whole' <=> IsSuffix(Front(ReportText), Sent(Logged(st)))
  <2>1. ~(torn > 0)
    OBVIOUS
  <2>. QED
    BY <1>2, <2>1, InterruptIs
<1>4. /\ idx + Len(ReportText) < Size - 1 /\ idx <= StrLen(buf)
      /\ \A k \in 0..(idx - 1) : buf[k] = "newline" => k = idx - 1
  BY <1>1, FirstHandlerFinds
<1>5. Between(st, 0)
  <2>1. Len(Upto(0)) = 0
    BY UptoLength
  <2>2. EndsIn(buf, idx, Upto(0))
    BY <1>1, <2>1 DEF EndsIn
  <2>3. NewlineBefore(buf, idx, Upto(0))
    BY <1>1, <1>4, <2>1 DEF NewlineBefore
  <2>. QED
    BY <1>1, <1>3, <1>4, <2>2, <2>3 DEF Between
<1>6. Idx(st) + Len(ReportText) < Size - 1
  BY <1>3, <1>4
<1>. QED
  BY <1>3, <1>5, <1>6, LoggedWhole

LEMMA ReportWholeStep ==
  ASSUME CallTypeOK, IndexInBuffer, torn = 0 => Undisturbed, Fits => Within, ReportWhole, CallNext
  PROVE  ReportWhole'
<1>. DEFINE OneLine == NoNewline(Front(call.piece)) /\ NoNewline(Front(ReportText))
<1>1. SUFFICES ASSUME torn' > 0, Fits', OneLine' PROVE whole'
  BY DEF ReportWhole
<1>2. CASE Interrupt
  <2>1. UNCHANGED line /\ call' = call /\ call.pc # "idle"
    BY <1>2 DEF Interrupt
  <2>2. Fits /\ Within /\ OneLine
    <3>1. Fits
      BY <1>1, <2>1, FitsBefore
    <3>2. OneLine
      BY <1>1, <2>1 DEF NoNewline, ReportText
    <3>. QED
      BY <3>1, <3>2
  <2>3. torn \in Nat
    BY DEF CallTypeOK
  <2>4. CASE torn = 0
    BY <1>2, <2>2, <2>4, FirstReportWhole
  <2>5. CASE torn > 0
    <3>1. ~(idx >= Size)
      BY <2>1, <2>2, RoomForHandler
    <3>2. whole' = whole
      BY <1>2, <2>5, <3>1, InterruptIs
    <3>. QED
      BY <2>2, <2>5, <3>2 DEF ReportWhole
  <2>. QED
    BY <2>3, <2>4, <2>5
<1>3. CASE ~Interrupt
  <2>1. \/ \E piece \in Pieces : Start(piece)
        \/ PutChar \/ PutZero \/ Add \/ Search \/ Send \/ Rest \/ NoRest \/ Strlen \/ Check
    BY <1>3 DEF CallNext
  <2>2. torn' = torn /\ whole' = whole
    BY <2>1 DEF Start, PutChar, PutZero, Add, Search, Send, Rest, NoRest, Strlen, Check, history
  <2>3. torn > 0
    BY <1>1, <2>2
  <2>4. torn # 0
    BY <2>3
  <2>5. ~(\E piece \in Pieces : Start(piece))
    BY <2>4 DEF Start
  <2>6. UNCHANGED line
    BY <2>1, <2>4, <2>5 DEF PutChar, PutZero, Add, Search, Send, Rest, NoRest, Strlen, Check, Returns
  <2>7. call'.piece = call.piece
    <3>1. DOMAIN call = {"pc", "piece", "at", "n", "nl"}
      BY DEF CallTypeOK
    <3>2. CASE PutChar
      BY <3>2, PutCharIs
    <3>3. CASE Search
      BY <3>1, <3>3 DEF Search
    <3>4. CASE PutZero \/ Add \/ Send \/ Rest \/ NoRest \/ Strlen \/ Check
      <4>1. Goto("add") \/ Goto("search") \/ Goto("rest") \/ Goto("strlen") \/ Goto("idle")
        BY <3>4 DEF PutZero, Add, Send, Rest, NoRest, Strlen, Check, Returns
      <4>. QED
        BY <3>1, <4>1, GotoIs
    <3>. QED
      BY <2>1, <2>5, <3>2, <3>3, <3>4
  <2>8. Fits /\ OneLine
    <3>1. Fits
      BY <1>1, <2>6, <2>7, FitsBefore
    <3>2. OneLine
      BY <1>1, <2>7 DEF NoNewline, ReportText
    <3>. QED
      BY <3>1, <3>2
  <2>. QED
    BY <2>2, <2>3, <2>8 DEF ReportWhole
<1>. QED
  BY <1>2, <1>3

LEMMA OverrunStep ==
  ASSUME CallTypeOK, IndexInBuffer, Fits => Within, overrun => torn > 0 /\ ~Fits, CallNext
  PROVE  (overrun => torn > 0 /\ ~Fits)'
<1>1. torn \in Nat
  BY DEF CallTypeOK
<1>2. CASE Interrupt
  <2>1. UNCHANGED line /\ call' = call /\ call.pc # "idle" /\ torn' = torn + 1 /\ ~overrun
    BY <1>2 DEF Interrupt
  <2>2. CASE idx >= Size
    <3>1. ~Fits
      BY <2>1, <2>2, RoomForHandler
    <3>2. ~Fits'
      BY <2>1, <3>1, FitsBefore
    <3>. QED
      BY <1>1, <2>1, <3>2
  <2>3. CASE ~(idx >= Size)
    <3>1. overrun' = overrun
      BY <1>2, <2>3, InterruptIs
    <3>. QED
      BY <2>1, <3>1
  <2>. QED
    BY <2>2, <2>3
<1>3. CASE ~Interrupt
  <2>1. \/ \E piece \in Pieces : Start(piece)
        \/ PutChar \/ PutZero \/ Add \/ Search \/ Send \/ Rest \/ NoRest \/ Strlen \/ Check
    BY <1>3 DEF CallNext
  <2>2. ~overrun
    BY <2>1 DEF Start, PutChar, PutZero, Add, Search, Send, Rest, NoRest, Strlen, Check, At
  <2>3. overrun' = overrun
    BY <2>1 DEF Start, PutChar, PutZero, Add, Search, Send, Rest, NoRest, Strlen, Check, history
  <2>. QED
    BY <2>2, <2>3
<1>. QED
  BY <1>2, <1>3

-----------------------------------------------------------------------------
(* The theorems.                                                             *)

LEMMA CallInvInit ==
  ASSUME CallInit
  PROVE  CallInv
<1>. USE SizeAssumption
<1>1. /\ syslog_str = <<>> /\ i = 0 /\ said = <<>> /\ lines = <<>>
      /\ buf = [k \in 0..(Size - 1) |-> "nul"] /\ idx = 0
      /\ call = [pc |-> "idle", piece |-> <<>>, at |-> 0, n |-> 0, nl |-> 0]
      /\ torn = 0 /\ overrun = FALSE
  BY DEF CallInit, Init
<1>2. IndexInBuffer
  BY <1>1 DEF IndexInBuffer, NoNewline
<1>3. BufOK(buf)
  BY <1>1 DEF BufOK, Cell
<1>4. /\ DOMAIN call = {"pc", "piece", "at", "n", "nl"} /\ call.pc = "idle" /\ call.piece = <<>>
      /\ call.at = 0 /\ call.n = 0 /\ call.nl = 0
  BY <1>1
<1>5. call.piece \in Seq(Char) /\ Len(call.piece) = 0 /\ lines \in Seq(Seq(Char)) /\ 0 \in 0..(Size - 2)
  BY <1>1, <1>4
<1>6. CallTypeOK
  BY <1>1, <1>3, <1>4, <1>5 DEF CallTypeOK
<1>7. UndisturbedIdle
  BY <1>1 DEF UndisturbedIdle, KeptInPlace, SentIsLast
<1>8. Undisturbed
  BY <1>4, <1>7 DEF Undisturbed, UndisturbedPrint, UndisturbedAdd, UndisturbedSearch,
                    UndisturbedCheck, UndisturbedLine
<1>9. Within
  BY <1>1, <1>4 DEF Within, WithinKept, WithinCall, WithinBuffer, WithinIdle
<1>10. PrintedAll /\ ReportWhole
  BY <1>1, <1>4 DEF PrintedAll, ReportWhole
<1>. QED
  BY <1>1, <1>2, <1>6, <1>8, <1>9, <1>10 DEF CallInv

LEMMA CallInvStep ==
  ASSUME CallInv, [CallNext]_callVars
  PROVE  CallInv'
<1>1. /\ CallTypeOK /\ IndexInBuffer /\ PrintedAll
      /\ torn = 0 => Undisturbed
      /\ Fits => Within
      /\ overrun => torn > 0 /\ ~Fits
      /\ ReportWhole
  BY DEF CallInv
<1>2. CASE CallNext
  <2>1. torn = 0 => UndisturbedIdle
    BY <1>1 DEF Undisturbed
  <2>2. CallTypeOK'
    BY <1>1, <1>2, <2>1, TypeStep
  <2>3. IndexInBuffer'
    BY <1>1, <1>2, CallNextIsNext, IndexStep
  <2>4. PrintedAll'
    BY <1>1, <1>2, PrintedAllStep
  <2>5. (torn = 0 => Undisturbed)'
    BY <1>1, <1>2, UndisturbedStep
  <2>6. (Fits => Within)'
    BY <1>1, <1>2, WithinStep
  <2>7. (overrun => torn > 0 /\ ~Fits)'
    BY <1>1, <1>2, OverrunStep
  <2>8. ReportWhole'
    BY <1>1, <1>2, ReportWholeStep
  <2>. QED
    BY <2>2, <2>3, <2>4, <2>5, <2>6, <2>7, <2>8 DEF CallInv
<1>3. CASE UNCHANGED callVars
  <2>1. UNCHANGED <<syslog_str, i, said, lines>> /\ UNCHANGED <<buf, idx, call, sent, torn, overrun, whole>>
    BY <1>3 DEF callVars, line, cells, history
  <2>2. CallTypeOK' /\ IndexInBuffer' /\ PrintedAll' /\ ReportWhole'
    BY <1>1, <2>1 DEF CallTypeOK, BufOK, IndexInBuffer, NoNewline, PrintedAll, ReportWhole, Fits,
                      ReportText
  <2>3. Undisturbed' <=> Undisturbed
    BY <2>1 DEF Undisturbed, UndisturbedIdle, UndisturbedPrint, UndisturbedAdd, UndisturbedSearch,
                UndisturbedCheck, UndisturbedLine, KeptInPlace, SentIsLast, FoundNewline, SentLine,
                RestOf, Holds, NoNewline, IsLastNewline, Written, Room
  <2>4. Within' <=> Within
    BY <2>1 DEF Within, WithinKept, WithinCall, WithinBuffer, WithinIdle, InText, Newlines,
                StrLen, StrEnd
  <2>5. Fits' <=> Fits
    BY <2>1 DEF Fits, ReportText
  <2>. QED
    BY <1>1, <2>1, <2>2, <2>3, <2>4, <2>5 DEF CallInv
<1>. QED
  BY <1>2, <1>3

(* log_msg_syslog_va(), step by step and with handlers that log in between,  *)
(* keeps its buffer a string, and while no handler came, main's call is      *)
(* where SyslogLine's would be.                                              *)
THEOREM CallSafe == CallSpec => []CallInv
<1>1. CallInit => CallInv
  BY CallInvInit
<1>2. CallInv /\ [CallNext]_callVars => CallInv'
  BY CallInvStep
<1>. QED
  BY <1>1, <1>2, PTL DEF CallSpec

(* The call taken apart implements the call in one step: whatever main does  *)
(* in log_msg_syslog_va() before a handler comes in between, its return is a *)
(* call of SyslogLine and no other step shows.                               *)
THEOREM CallsAreLineSteps == CallSpec => Spec
<1>1. CallInit => Init
  BY DEF CallInit
<1>2. CallInv /\ [CallNext]_callVars => [Next]_vars
  BY CallNextIsNext DEF CallInv
<1>. QED
  BY <1>1, <1>2, CallSafe, PTL DEF CallSpec, Spec

(* So what holds of the lines holds here: no call leaves the index beyond    *)
(* the buffer, and syslog gets the text logged.                              *)
THEOREM CallsKeepLines == CallSpec => [](IndexInBuffer /\ LinesAreText)
BY CallsAreLineSteps, IndexSafe, TextReachesSyslog, PTL

(* A call that was not torn leaves the index, the text in front of it and    *)
(* the line last sent that the one step of SyslogLine leaves.                *)
THEOREM CallsAtomic == CallSpec => []CallsAreAtomic
<1>1. CallInv => CallsAreAtomic
  <2>1. SUFFICES ASSUME CallInv, call.pc = "idle", torn = 0
                 PROVE  /\ idx = i /\ Text(buf, 0, idx) = SubSeq(syslog_str, 1, i)
                        /\ lines # <<>> => sent = Last(lines)
    BY DEF CallsAreAtomic
  <2>2. idx = i /\ KeptInPlace /\ SentIsLast
    BY <2>1 DEF CallInv, Undisturbed, UndisturbedIdle
  <2>3. i \in Nat /\ syslog_str \in Seq(Char) /\ i <= Len(syslog_str)
    BY <2>1, SizeAssumption DEF CallInv, IndexInBuffer
  <2>4. Text(buf, 0, idx) = [k \in 1..i |-> syslog_str[k]]
    <3>1. \A k \in 1..i : buf[0 + k - 1] = syslog_str[k]
      BY <2>2, <2>3 DEF KeptInPlace
    <3>2. idx - 0 = i
      BY <2>2, <2>3
    <3>. QED
      BY <3>1, <3>2 DEF Text
  <2>5. SubSeq(syslog_str, 1, i) = [k \in 1..i |-> syslog_str[k]]
    <3>. DEFINE s == SubSeq(syslog_str, 1, i)
    <3>1. s \in Seq(Char) /\ Len(s) = i /\ \A k \in 1..i : s[k] = syslog_str[k]
      BY <2>3
    <3>. HIDE DEF s
    <3>2. s = [k \in 1..i |-> s[k]]
      BY <3>1
    <3>. QED
      BY <3>1, <3>2 DEF s
  <2>. QED
    BY <2>2, <2>4, <2>5 DEF SentIsLast
<1>. QED
  BY <1>1, CallSafe, PTL

(* While main's text and the report fit, a handler that interrupts a call    *)
(* anywhere writes inside the buffer.                                        *)
THEOREM HandlersFindRoom == CallSpec => []HandlerFindsRoom
<1>1. CallInv => HandlerFindsRoom
  BY DEF CallInv, HandlerFindsRoom
<1>. QED
  BY <1>1, CallSafe, PTL

(* A report of one line, however many calls of log_msg() it takes, reaches   *)
(* syslog whole, when main's text has its newline at the end or none.        *)
THEOREM ReportsWhole == CallSpec => []ReportWhole
<1>1. CallInv => ReportWhole
  BY DEF CallInv
<1>. QED
  BY <1>1, CallSafe, PTL

(* After the call, the index is inside the text again.                       *)
THEOREM TornCallsRecover == CallSpec => []TornCallRecovers
<1>1. CallInv => TornCallRecovers
  BY DEF CallInv, TornCallRecovers, Within, WithinIdle, InText
<1>. QED
  BY <1>1, CallSafe, PTL
=============================================================================
