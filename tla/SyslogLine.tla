----------------------------- MODULE SyslogLine -----------------------------
(* log_msg_syslog_va(): what a daemon logs reaches syslog line by line, but *)
(* the program logs it in pieces.  Pieces add up in a static buffer; each   *)
(* call passes on what stands before the last newline and keeps the rest.   *)
(* One call is one step; SyslogCall takes it apart.                          *)
EXTENDS Integers, SequencesExt

CONSTANTS
  Size,    \* SYSLOG_VSNPRINTF_BUF_SZ
  Pieces,  \* what the calls of log_msg() format their arguments to
  MaxSaid  \* bound: characters logged since the buffer was last overfilled

Char == {"text", "newline"}

ASSUME SizeAssumption   == Size \in Nat /\ Size >= 2
ASSUME PiecesAssumption == Pieces \subseteq Seq(Char)

VARIABLES
  syslog_str, \* the static buffer, up to its terminating zero
  i,          \* the static index of the end of what is kept in it
  said,       \* history: the text kept when the buffer was last overfilled,
              \* and logged since,
  lines       \* and the calls of syslog() since then

vars == <<syslog_str, i, said, lines>>

Init == syslog_str = <<>> /\ i = 0 /\ said = <<>> /\ lines = <<>>

(* vsnprintf() at index i: it writes what there is room for, but returns    *)
(* the length of all there was to write.  Seeded error: the room is taken   *)
(* for the whole buffer's, whatever the index.                              *)
RoomForgotten == Size

Room == Size - i

Written(piece) ==
  SubSeq(syslog_str, 1, i) \o
    (IF Len(piece) < Room THEN piece ELSE SubSeq(piece, 1, Room - 1))

Cut(piece) == Len(piece) >= Room

(* strrchr().  Seeded error: strchr(). *)
IsFirstNewline(n, str) ==
  str[n] = "newline" /\ \A m \in 1..(n - 1) : str[m] # "newline"

IsLastNewline(n, str) ==
  str[n] = "newline" /\ \A m \in (n + 1)..Len(str) : str[m] # "newline"

(* There is a newline: up to there all is logged, what follows is moved to  *)
(* the front of the buffer.  If nothing follows, the code leaves the buffer *)
(* as it is with index 0, where the next call overwrites it.                *)
LogLines(piece) ==
  LET str == Written(piece) IN
  \E n \in DOMAIN str :
    /\ IsLastNewline(n, str)
    /\ syslog_str' = SubSeq(str, n + 1, Len(str))
    /\ i' = Len(str) - n
    /\ said' = IF Cut(piece) THEN syslog_str' ELSE said \o piece
    /\ lines' = IF Cut(piece) THEN <<>> ELSE Append(lines, SubSeq(str, 1, n - 1))

NoNewline(str) == \A n \in DOMAIN str : str[n] # "newline"

Keep(piece) ==
  /\ NoNewline(Written(piece))
  /\ i + Len(piece) < Size - 1
  /\ syslog_str' = Written(piece)
  /\ i' = i + Len(piece)
  /\ said' = said \o piece
  /\ UNCHANGED lines

(* A line that fills the buffer is lost: tmp_str, never written to, is      *)
(* logged in its place.                                                     *)
Lose(piece) ==
  /\ NoNewline(Written(piece))
  /\ i + Len(piece) >= Size - 1
  /\ syslog_str' = Written(piece)
  /\ i' = 0
  /\ said' = <<>> /\ lines' = <<>>

Log(piece) ==
  /\ Len(said) + Len(piece) <= MaxSaid
  /\ LogLines(piece) \/ Keep(piece) \/ Lose(piece)

Next == \E piece \in Pieces : Log(piece)

Spec == Init /\ [][Next]_vars

-----------------------------------------------------------------------------
(* Every call finds room in the buffer for one character and its zero at    *)
(* least, nothing is written past the end, and what was kept ends at the    *)
(* index: vsnprintf()'s length, which counts what it did not write, never   *)
(* leaves i past the text.                                                  *)
IndexInBuffer ==
  /\ i \in 0..(Size - 2)
  /\ syslog_str \in Seq(Char)
  /\ i <= Len(syslog_str) /\ Len(syslog_str) < Size
  /\ NoNewline(SubSeq(syslog_str, 1, i))

(* What syslog got, line by line, and what is kept are the text logged, in  *)
(* order, and what is kept is no complete line.  This is said of the text   *)
(* since the last call that overfilled the buffer.  Such a call loses what  *)
(* has no room, the end of one piece, be that one line or several: of it    *)
(* the history has only what is kept, and what is logged from there on is   *)
(* whole again.                                                             *)
LinesAreText ==
  /\ said = FlattenSeq([l \in DOMAIN lines |-> Append(lines[l], "newline")])
            \o SubSeq(syslog_str, 1, i)
  /\ NoNewline(SubSeq(syslog_str, 1, i))
=============================================================================
