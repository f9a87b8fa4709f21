------------------------ MODULE SyslogCallInvariant ------------------------
(* The inductive invariant behind the properties of SyslogCall: what the     *)
(* buffer and the index are at each place of main's call, before a handler   *)
(* came in between and after.                                                *)
EXTENDS SyslogCall

Cell == Char \cup {"nul"}

BufOK(b) == b \in [0..(Size - 1) -> Cell] /\ b[Size - 1] = "nul"

CallTypeOK ==
  /\ BufOK(buf) /\ idx \in Nat
  /\ DOMAIN call = {"pc", "piece", "at", "n", "nl"}
  /\ call.pc \in {"idle", "print", "add", "search", "check", "send", "rest", "strlen"}
  /\ call.piece \in Seq(Char) /\ lines \in Seq(Seq(Char))
  /\ call.at \in Nat /\ call.n \in 0..Len(call.piece) /\ call.nl \in 0..(Size - 2)
  /\ torn \in Nat /\ overrun \in BOOLEAN
  /\ call.pc # "idle" => call.piece \in Pieces /\ call.at = i

(* The buffer holds a string, and its zero.                                  *)
Holds(b, str) == b[Len(str)] = "nul" /\ \A k \in 1..Len(str) : b[k - 1] = str[k]

(* Before a handler came: the call is where SyslogLine's call would be if it *)
(* had been stopped there.                                                   *)
KeptInPlace == \A k \in 1..i : buf[k - 1] = syslog_str[k]

SentIsLast == lines # <<>> => sent = Last(lines)

(* strrchr() found the newline that SyslogLine splits at.                    *)
FoundNewline ==
  LET str == Written(call.piece)
  IN  call.nl + 1 \in DOMAIN str /\ IsLastNewline(call.nl + 1, str)

SentLine == sent = SubSeq(Written(call.piece), 1, call.nl)

RestOf(str) == SubSeq(str, call.nl + 2, Len(str))

UndisturbedIdle  == call.pc = "idle" => idx = i /\ KeptInPlace /\ SentIsLast
UndisturbedPrint ==
  call.pc = "print" =>
    /\ idx = i /\ KeptInPlace /\ SentIsLast
    /\ \A k \in 1..call.n : i + k <= Size - 1 => buf[i + k - 1] = call.piece[k]
UndisturbedAdd ==
  call.pc = "add" =>
    idx = i /\ call.n = Len(call.piece) /\ Holds(buf, Written(call.piece)) /\ SentIsLast
UndisturbedSearch ==
  call.pc \in {"search", "check", "send", "rest"} =>
    idx = i + Len(call.piece) /\ Holds(buf, Written(call.piece))
UndisturbedCheck ==
  /\ call.pc \in {"search", "check"} => SentIsLast
  /\ call.pc = "check" => NoNewline(Written(call.piece))
UndisturbedLine ==
  /\ call.pc \in {"send", "rest", "strlen"} => FoundNewline
  /\ call.pc \in {"rest", "strlen"} => SentLine
  /\ call.pc = "strlen" =>
       /\ Holds(buf, RestOf(Written(call.piece)))
       /\ call.nl + 1 < Len(Written(call.piece))

Undisturbed ==
  /\ UndisturbedIdle /\ UndisturbedPrint /\ UndisturbedAdd
  /\ UndisturbedSearch /\ UndisturbedCheck /\ UndisturbedLine

(* Disturbed or not, while main's text and a report fit: the index is at     *)
(* most at the end of the string, or main is about to find a newline and to  *)
(* set it back.                                                              *)
InText == idx <= StrLen(buf)

WithinKept ==
  call.pc \in {"print", "add"} =>
    /\ idx <= i /\ InText
    /\ StrLen(buf) >= i + call.n \/ Newlines(buf) # {}
WithinCall ==
  call.pc \in {"search", "check"} =>
    /\ idx <= i + Len(call.piece)
    /\ InText \/ (call.pc = "search" /\ Newlines(buf) # {})
WithinBuffer ==
  call.pc \in {"send", "rest", "strlen"} => idx < Size
WithinIdle ==
  (call.pc = "idle" /\ torn > 0) => InText
PrintedAll ==
  call.pc = "add" => call.n = Len(call.piece)

Within == WithinKept /\ WithinCall /\ WithinBuffer /\ WithinIdle

CallInv ==
  /\ CallTypeOK /\ IndexInBuffer /\ PrintedAll
  /\ torn = 0 => Undisturbed
  /\ Fits => Within
  /\ overrun => torn > 0 /\ ~Fits
  /\ ReportWhole
=============================================================================
