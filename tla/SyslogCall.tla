----------------------------- MODULE SyslogCall -----------------------------
(* log_msg_syslog_va() step by step, in main, with a handler that logs its   *)
(* report in the middle: both use the static buffer and its index.  Until    *)
(* that happens each call of main is one step of SyslogLine, whose variables *)
(* follow it when it returns; a call that was torn ends the behaviour.       *)
EXTENDS SyslogLine

CONSTANTS
  Report,  \* the pieces a handler logs: the end of the last is a newline
  MaxTorn  \* bound: handlers that run inside one call

ASSUME ReportAssumption ==
  /\ Report \in Seq(Seq(Char)) /\ Report # <<>>
  /\ Last(Report) # <<>> /\ Last(Last(Report)) = "newline"
ASSUME MaxTornAssumption == MaxTorn \in Nat

VARIABLES
  buf, idx, \* the static syslog_str and i, as every context finds them
  call,     \* main's call: where it is, its argument and its locals
  sent,     \* the text last handed to syslog(); <<"tmp_str">> is what was never written
  torn,     \* handlers that ran inside main's call
  overrun,  \* history: a vsnprintf() was told to write beyond the buffer
  whole     \* history: the first such handler's report got to syslog

cells    == <<buf, idx>>
line     == <<syslog_str, i, said, lines>>
history  == <<torn, overrun, whole>>
callVars == <<line, cells, call, sent, history>>

CallInit ==
  /\ Init
  /\ buf = [k \in 0..(Size - 1) |-> "nul"] /\ idx = 0
  /\ call = [pc |-> "idle", piece |-> <<>>, at |-> 0, n |-> 0, nl |-> 0]
  /\ sent = <<"nothing">>
  /\ torn = 0 /\ overrun = FALSE /\ whole = TRUE

-----------------------------------------------------------------------------
(* The C library on the buffer. *)

StrEnd(b, from) ==
  CHOOSE k \in from..(Size - 1) : b[k] = "nul" /\ \A m \in from..(k - 1) : b[m] # "nul"
StrLen(b) == StrEnd(b, 0)
Text(b, from, to) == [k \in 1..(to - from) |-> b[from + k - 1]]
Newlines(b) == {k \in 0..(StrLen(b) - 1) : b[k] = "newline"}

(* Seeded error: strchr(). *)
StrChr(b)  == CHOOSE k \in Newlines(b) : \A m \in Newlines(b) : k <= m
StrRChr(b) == CHOOSE k \in Newlines(b) : \A m \in Newlines(b) : m <= k

(* A string and its zero, in place from some index on. *)
Copied(b, at, str) ==
  [k \in DOMAIN b |-> IF k < at \/ k > at + Len(str) THEN b[k]
                      ELSE IF k = at + Len(str) THEN "nul" ELSE str[k - at + 1]]

Printed(b, at, piece) ==
  LET room == Size - at
  IN  Copied(b, at, IF Len(piece) < room THEN piece ELSE SubSeq(piece, 1, room - 1))

(* strdup(), strcpy() of what follows a newline, up to the next zero: after *)
(* a handler, the string in the buffer may end before the newline.          *)
Moved(b, nl) == Copied(b, 0, Text(b, nl + 1, StrEnd(b, nl + 1)))

(* Seeded error: the index is not set back when nothing follows. *)
RestIdxKept(b, x, nl) == IF b[nl + 1] # "nul" THEN StrLen(Moved(b, nl)) ELSE x

RestIdx(b, x, nl) == IF b[nl + 1] # "nul" THEN StrLen(Moved(b, nl)) ELSE 0

(* A whole call on a given buffer, as a handler makes it. *)
Called(st, piece) ==
  LET b == Printed(st.buf, st.idx, piece)
      x == st.idx + Len(piece)
      nl == StrRChr(b)
  IN  IF Newlines(b) # {}
      THEN [buf  |-> IF b[nl + 1] # "nul" THEN Moved(b, nl) ELSE b,
            idx  |-> RestIdx(b, x, nl),
            sent |-> Text(b, 0, nl)]
      ELSE [buf |-> b,
            idx  |-> IF x >= Size - 1 THEN 0 ELSE x,
            sent |-> IF x >= Size - 1 THEN <<"tmp_str">> ELSE st.sent]

-----------------------------------------------------------------------------
(* main's call. *)

At(pc) == call.pc = pc /\ ~overrun

Goto(pc) == call' = [call EXCEPT !.pc = pc]

Start(piece) ==
  /\ At("idle") /\ torn = 0
  /\ Len(said) + Len(piece) <= MaxSaid
  /\ call' = [pc |-> "print", piece |-> piece, at |-> idx, n |-> 0, nl |-> 0]
  /\ UNCHANGED <<line, cells, sent, history>>

(* vsnprintf() writes one character after the other, then the zero. *)
PutChar ==
  /\ At("print") /\ call.n < Len(call.piece)
  /\ buf' = IF call.at + call.n < Size - 1
            THEN [buf EXCEPT ![call.at + call.n] = call.piece[call.n + 1]] ELSE buf
  /\ call' = [call EXCEPT !.n = @ + 1]
  /\ UNCHANGED <<line, idx, sent, history>>

PutZero ==
  /\ At("print") /\ call.n = Len(call.piece)
  /\ buf' = [buf EXCEPT ![IF call.at + call.n < Size - 1
                          THEN call.at + call.n ELSE Size - 1] = "nul"]
  /\ Goto("add")
  /\ UNCHANGED <<line, idx, sent, history>>

(* i += vsnprintf(..): i may have been read before the call or after it.    *)
Add ==
  /\ At("add")
  /\ idx' = idx + call.n \/ idx' = call.at + call.n
  /\ buf' = [buf EXCEPT ![Size - 1] = "nul"]
  /\ Goto("search")
  /\ UNCHANGED <<line, sent, history>>

Search ==
  /\ At("search")
  /\ call' = IF Newlines(buf) = {} THEN [call EXCEPT !.pc = "check"]
             ELSE [call EXCEPT !.pc = "send", !.nl = StrRChr(buf)]
  /\ UNCHANGED <<line, cells, sent, history>>

(* memcpy() to tmp_str, of which syslog() takes what precedes its zero. *)
Send ==
  /\ At("send")
  /\ sent' = Text(buf, 0, IF StrLen(buf) < call.nl THEN StrLen(buf) ELSE call.nl)
  /\ Goto("rest")
  /\ UNCHANGED <<line, cells, history>>

(* SyslogLine's step, unless a handler came in between. *)
Returns ==
  /\ Goto("idle")
  /\ IF torn = 0 THEN Log(call.piece) ELSE UNCHANGED line

Rest ==
  /\ At("rest") /\ buf[call.nl + 1] # "nul"
  /\ buf' = Moved(buf, call.nl)
  /\ Goto("strlen")
  /\ UNCHANGED <<line, idx, sent, history>>

NoRest ==
  /\ At("rest") /\ buf[call.nl + 1] = "nul"
  /\ idx' = RestIdx(buf, idx, call.nl)
  /\ Returns
  /\ UNCHANGED <<buf, sent, history>>

Strlen ==
  /\ At("strlen")
  /\ idx' = StrLen(buf)
  /\ Returns
  /\ UNCHANGED <<buf, sent, history>>

Check ==
  /\ At("check")
  /\ idx' = IF idx >= Size - 1 THEN 0 ELSE idx
  /\ sent' = IF idx >= Size - 1 THEN <<"tmp_str">> ELSE sent
  /\ Returns
  /\ UNCHANGED <<buf, history>>

-----------------------------------------------------------------------------
(* A handler that logs while main is in its call; it sees the buffer and    *)
(* the index as they are.                                                   *)

ReportText == FlattenSeq(Report)

(* The calls of log_msg() in a handler, one after the other. *)
Logged(st) ==
  LET after[n \in 0..Len(Report)] == IF n = 0 THEN st ELSE Called(after[n - 1], Report[n])
  IN  after[Len(Report)]

Interrupt ==
  /\ call.pc # "idle" /\ ~overrun /\ torn < MaxTorn
  /\ torn' = torn + 1
  /\ IF idx >= Size
     THEN overrun' = TRUE /\ UNCHANGED <<cells, sent, whole>>
     ELSE LET end == Logged([buf |-> buf, idx |-> idx, sent |-> sent])
          IN  /\ buf' = end.buf /\ idx' = end.idx /\ sent' = end.sent
              /\ whole' = IF torn > 0 THEN whole ELSE IsSuffix(Front(ReportText), end.sent)
              /\ UNCHANGED overrun
  /\ UNCHANGED <<line, call>>

CallNext ==
  \/ \E piece \in Pieces : Start(piece)
  \/ PutChar \/ PutZero \/ Add \/ Search \/ Send \/ Rest \/ NoRest \/ Strlen \/ Check
  \/ Interrupt

CallSpec == CallInit /\ [][CallNext]_callVars

-----------------------------------------------------------------------------
(* Undisturbed, the steps of a call come to what SyslogLine makes of it:    *)
(* the same index, the same text kept, the same line to syslog.             *)
CallsAreAtomic ==
  (call.pc = "idle" /\ torn = 0) =>
    /\ idx = i /\ Text(buf, 0, idx) = SubSeq(syslog_str, 1, i)
    /\ lines # <<>> => sent = Last(lines)

(* What is kept, the piece and the report have room together. *)
Fits == i + Len(call.piece) + Len(ReportText) < Size - 1

(* Wherever a handler interrupts a call, there is room for its vsnprintf(): *)
(* no index that main is about to correct makes it write beyond the buffer, *)
(* unless a line is too long.                                               *)
HandlerFindsRoom == overrun => ~Fits

(* The report of a handler that interrupts main, if it is one line, reaches *)
(* syslog at the end of a line, unless main's text goes on after a newline  *)
(* or is too long.                                                          *)
ReportWhole ==
  (torn > 0 /\ Fits /\ NoNewline(Front(call.piece)) /\ NoNewline(Front(ReportText))) => whole

(* A call that was torn loses or repeats text, but leaves an index that     *)
(* ends the text in the buffer: no later call runs off it.                  *)
TornCallRecovers ==
  (call.pc = "idle" /\ torn > 0 /\ Fits) => idx <= StrLen(buf)
=============================================================================
