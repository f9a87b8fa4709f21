---------------------------- MODULE MCSyslogCall ----------------------------
(* All pieces of up to three characters, and a report logged in two.  The    *)
(* report, which ends in the only newline, fits beside some of them.         *)
EXTENDS SyslogCallInvariant

ShortPieces == UNION {[1..n -> Char] : n \in 1..3}
TwoPieces   == << <<"text">>, <<"newline">> >>
=============================================================================
