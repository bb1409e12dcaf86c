---------------------------- MODULE MCTcpStream ----------------------------
EXTENDS TcpStream

CONSTANTS a, b

\* The empty string, one of a single byte, and one that is longer than a
\* token or a length
SomeStrings == {<<>>, <<a>>, <<b, a, b>>}
=============================================================================
