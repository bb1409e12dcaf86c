------------------------------- MODULE Points -------------------------------
(***************************************************************************)
(* How a line of a file becomes a data point, and how far apart two points *)
(* are: read_point and get_point of lib/knn-io.tpp, and the three metrics  *)
(* of server/src/distances.cpp.  A line is the sequence of its fields, the *)
(* texts between its commas; the line with no text is <<Empty>>.           *)
(***************************************************************************)
EXTENDS Integers, SequencesExt, FiniteSetsExt

CONSTANTS Numbers,      \* the coordinates that occur
          Names,        \* texts that std::stod does not accept
          Empty         \* the empty text, which it does not accept either

ASSUME FieldsAssumption ==
    Numbers \subseteq Int /\ (Names \cup {Empty}) \cap Numbers = {}

\* What stands between two commas
Texts == Numbers \cup Names \cup {Empty}

\* How a reader ends that does not return a point
Throws == [thrown |-> TRUE]

\* mutant: text that is no number is taken as it is
PointOfUnchecked(fields, class) == [thrown |-> FALSE, data |-> fields, class |-> class]

\* The point of converted fields; std::stod throws if one is no number.
PointOf(fields, class) ==
    IF ToSet(fields) \subseteq Numbers
    THEN [thrown |-> FALSE, data |-> fields, class |-> class]
    ELSE Throws

\* std::getline on the line's stringstream finds every field, except an empty
\* one at the end: there it erases its string and fails.
Found(line) == IF Last(line) = Empty THEN Front(line) ELSE line

\* read_point converts a field when it has found the next one.  What it found
\* last, or nothing if the line has one field, is the class or the last
\* coordinate.
ReadPoint(line, classified) ==
    LET last == IF Len(line) = 1 THEN Empty ELSE Last(line) IN
    IF classified THEN PointOf(Front(Found(line)), last)
    ELSE PointOf(Append(Front(Found(line)), last), Empty)

\* get_point converts the text before the first comma, what is between two
\* commas, and what follows the last comma: that is all of the line again when
\* there is none, since npos + 1 is 0.
GetPoint(line, classified) ==
    LET before == <<Head(line)>> \o SubSeq(line, 2, Len(line) - 1) IN
    IF classified THEN PointOf(before, Last(line))
    ELSE PointOf(Append(before, Last(line)), Empty)

-----------------------------------------------------------------------------
Metrics == {"EUC", "MAN", "CHE"}

Abs(x) == IF x < 0 THEN -x ELSE x

Sum(s) == FoldSeq(+, 0, s)

\* mutant: std::abs is forgotten in the Manhattan distance
DistanceSigned(metric, p, q) ==
    LET diff == [j \in DOMAIN p |-> p[j] - q[j]] IN
    CASE metric = "EUC" -> Sum([j \in DOMAIN p |-> diff[j] * diff[j]])
      [] metric = "MAN" -> Sum(diff)
      [] metric = "CHE" -> Max({Abs(diff[j]) : j \in DOMAIN p} \cup {0})

\* For two points of equal length; the Euclidean distance is left squared.
Distance(metric, p, q) ==
    LET diff == [j \in DOMAIN p |-> p[j] - q[j]] IN
    CASE metric = "EUC" -> Sum([j \in DOMAIN p |-> diff[j] * diff[j]])
      [] metric = "MAN" -> Sum([j \in DOMAIN p |-> Abs(diff[j])])
      [] metric = "CHE" -> Max({Abs(diff[j]) : j \in DOMAIN p} \cup {0})
=============================================================================
