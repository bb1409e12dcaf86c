----------------------------- MODULE MCRemoteIO -----------------------------
EXTENDS RemoteIO, TLC

CONSTANTS a, b

Line(t, nl) == [text |-> t, newline |-> nl]

\* Two lines, each ended by a newline, and a file that does not exist
Terminated ==
    ("two" :> [exists |-> TRUE, lines |-> <<Line(a, TRUE), Line(b, TRUE)>>])
    @@ ("missing" :> [exists |-> FALSE, lines |-> <<>>])

\* The last line has no newline
Unterminated ==
    ("one" :> [exists |-> TRUE, lines |-> <<Line(a, FALSE)>>])
=============================================================================
