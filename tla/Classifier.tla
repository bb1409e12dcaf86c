----------------------------- MODULE Classifier -----------------------------
(***************************************************************************)
(* What a session computes: initialize_dataset reads the training lines,   *)
(* then Classify_Data names a test line, or Display_Confusion_Matrix names *)
(* every training point and counts.  get_nearest_class takes the K nearest *)
(* points and lets them vote.  quickselect is its result here: any K       *)
(* points that none of the others is nearer than (module QuickSelect); the *)
(* map of the votes is visited in any order.                               *)
(***************************************************************************)
EXTENDS Points

CONSTANTS Lines,        \* the lines that the two files may hold
          Ks,           \* the values of K
          MaxPoints     \* bound: training lines

\* A line has a field at least; the empty line ends a file.
ASSUME InputAssumption ==
    /\ Lines \subseteq Seq(Texts) \ {<<>>, <<Empty>>}
    /\ Ks \subseteq Nat \ {0} /\ MaxPoints \in Nat

VARIABLES k, metric,    \* the settings
          lines,        \* the training lines read so far
          dataSet,      \* m_data
          asked,        \* the line of Classify_Data, or <<>> for the matrix
          query,        \* the coordinates to find the nearest class of
          votes,        \* classes: how many of the K nearest are of each
          unseen,       \* the classes whose entry the loop has not visited
          best,         \* max_string and max_count
          names,        \* classified_names
          matrix,       \* confusion_matrix, by class instead of by order
          pc

settings == <<k, metric>>
training == <<lines, dataSet>>
call == <<query, votes, unseen, best>>
vars == <<settings, training, asked, call, names, matrix, pc>>

NoVotes == [c \in {} |-> 0]

Init ==
    /\ k \in Ks
    /\ metric \in Metrics
    /\ lines = <<>>
    /\ dataSet = <<>>
    /\ asked = <<>>
    /\ query = <<>>
    /\ votes = NoVotes
    /\ unseen = {}
    /\ best = [name |-> Empty, count |-> 0]
    /\ names = <<>>
    /\ matrix = [c \in {} |-> NoVotes]
    /\ pc = "train"

-----------------------------------------------------------------------------
(* initialize_dataset *)

AddPoint(line) ==
    /\ pc = "train"
    /\ Len(lines) < MaxPoints
    /\ LET p == ReadPoint(line, TRUE) IN
       /\ lines' = Append(lines, line)
       /\ \/ /\ p.thrown
             /\ pc' = "threw"
             /\ UNCHANGED dataSet
          \/ /\ ~p.thrown
             /\ dataSet' = Append(dataSet, [data |-> p.data, class |-> p.class])
             /\ UNCHANGED pc
    /\ UNCHANGED <<settings, asked, call, names, matrix>>

\* read_point finds the empty line
EndTraining ==
    /\ pc = "train"
    /\ pc' = "idle"
    /\ UNCHANGED <<settings, training, asked, call, names, matrix>>

-----------------------------------------------------------------------------
(* The commands *)

ClassifyLine(line) ==
    /\ pc = "idle"
    /\ asked' = line
    /\ LET p == GetPoint(line, FALSE) IN
       \/ /\ p.thrown
          /\ pc' = "threw"
          /\ UNCHANGED query
       \/ /\ ~p.thrown
          /\ query' = p.data
          /\ pc' = "measure"
    /\ UNCHANGED <<settings, training, votes, unseen, best, names, matrix>>

ComputeMatrix ==
    /\ pc = "idle"
    /\ pc' = "matrix"
    /\ UNCHANGED <<settings, training, asked, call, names, matrix>>

NextPoint ==
    /\ pc = "matrix"
    /\ Len(names) < Len(dataSet)
    /\ query' = dataSet[Len(names) + 1].data
    /\ pc' = "measure"
    /\ UNCHANGED <<settings, training, asked, votes, unseen, best, names, matrix>>

Truth(i) == dataSet[i].class

Classes == {Truth(i) : i \in DOMAIN dataSet} \cup ToSet(names)

\* mutant: true and classified names are swapped
CountPairsSwapped ==
    /\ pc = "matrix"
    /\ Len(names) = Len(dataSet)
    /\ matrix' = [c \in Classes |-> [d \in Classes |->
                    Cardinality({i \in DOMAIN names : names[i] = c /\ Truth(i) = d})]]
    /\ pc' = "printed"
    /\ UNCHANGED <<settings, training, asked, call, names>>

CountPairs ==
    /\ pc = "matrix"
    /\ Len(names) = Len(dataSet)
    /\ matrix' = [c \in Classes |-> [d \in Classes |->
                    Cardinality({i \in DOMAIN names : Truth(i) = c /\ names[i] = d})]]
    /\ pc' = "printed"
    /\ UNCHANGED <<settings, training, asked, call, names>>

\* true_count, and the text of an entry: a percentage without its fraction, or
\* "NaN" for a class that no training point has
TrueCount(c) == Cardinality({i \in DOMAIN dataSet : Truth(i) = c})

Entry(c, d) == IF TrueCount(c) > 0 THEN (100 * matrix[c][d]) \div TrueCount(c) ELSE "NaN"

-----------------------------------------------------------------------------
(* DataSet::get_nearest_class *)

\* array::assert_comparable
Comparable == \A i \in DOMAIN dataSet : Len(dataSet[i].data) = Len(query)

\* transform_data: the distance functions throw
MeasureThrows ==
    /\ pc = "measure"
    /\ ~Comparable
    /\ pc' = "threw"
    /\ UNCHANGED <<settings, training, asked, call, names, matrix>>

DistanceTo(i) == Distance(metric, query, dataSet[i].data)

\* What quickselect may return: its first K elements, as a set of indices
Nearest ==
    {S \in kSubset(k, DOMAIN dataSet) :
        \A i \in S, j \in DOMAIN dataSet \ S : DistanceTo(i) <= DistanceTo(j)}

StartVote ==
    /\ pc = "measure"
    /\ Comparable
    /\ \E S \in Nearest :
       /\ votes' = [c \in {Truth(i) : i \in S} |-> Cardinality({i \in S : Truth(i) = c})]
       /\ unseen' = {Truth(i) : i \in S}
    /\ best' = [name |-> Empty, count |-> 0]
    /\ pc' = "vote"
    /\ UNCHANGED <<settings, training, asked, query, names, matrix>>

\* quickselect and the loop after it have no defined result with fewer than K
\* points (QuickSelect!ReturnsKNeighbors)
TooFewPoints ==
    /\ pc = "measure"
    /\ Comparable
    /\ Len(dataSet) < k
    /\ pc' = "undefined"
    /\ UNCHANGED <<settings, training, asked, call, names, matrix>>

\* mutant: max_count is not brought up to date
VisitEntryKeepsCount(c) ==
    /\ pc = "vote"
    /\ unseen' = unseen \ {c}
    /\ best' = IF votes[c] > best.count THEN [best EXCEPT !.name = c] ELSE best
    /\ UNCHANGED <<settings, training, asked, query, votes, names, matrix, pc>>

VisitEntry(c) ==
    /\ pc = "vote"
    /\ unseen' = unseen \ {c}
    /\ best' = IF votes[c] > best.count THEN [name |-> c, count |-> votes[c]] ELSE best
    /\ UNCHANGED <<settings, training, asked, query, votes, names, matrix, pc>>

VoteEnds ==
    /\ pc = "vote"
    /\ unseen = {}
    /\ names' = Append(names, best.name)
    /\ pc' = IF asked # <<>> THEN "classified" ELSE "matrix"
    /\ UNCHANGED <<settings, training, asked, call, matrix>>

-----------------------------------------------------------------------------
Commands == (\E line \in Lines : ClassifyLine(line)) \/ ComputeMatrix

NearestClass ==
    \/ MeasureThrows \/ TooFewPoints \/ StartVote
    \/ (\E c \in unseen : VisitEntry(c)) \/ VoteEnds

Over == pc \in {"threw", "undefined", "classified", "printed"} /\ UNCHANGED vars

Next ==
    \/ (\E line \in Lines : AddPoint(line)) \/ EndTraining
    \/ Commands \/ NextPoint \/ CountPairs
    \/ NearestClass
    \/ Over

Spec == Init /\ [][Next]_vars

-----------------------------------------------------------------------------
(* Properties *)

TypeOK ==
    /\ k \in Ks /\ metric \in Metrics
    /\ lines \in Seq(Lines)
    /\ dataSet \in Seq([data : Seq(Numbers), class : Texts])
    /\ query \in Seq(Numbers)
    /\ \A c \in DOMAIN votes : votes[c] \in 1..k
    /\ unseen \subseteq DOMAIN votes /\ DOMAIN votes \subseteq Texts
    /\ best.name \in Texts /\ best.count \in 0..k
    /\ names \in Seq(Texts)
    /\ pc \in {"train", "idle", "matrix", "measure", "vote",
               "threw", "undefined", "classified", "printed"}

\* A point is named by K nearest neighbors that elect its class: the class has
\* a vote among them, and none has more.  Ties between distances and between
\* counts are broken anyhow, so which neighbors these are is left open, but it
\* must be one choice of K that explains the name.
NamedByNeighbors ==
    (pc \in {"classified", "matrix", "printed"} /\ names # <<>>) =>
        \E S \in Nearest :
            LET VotesFor(c) == Cardinality({i \in S : Truth(i) = c})
            IN  /\ VotesFor(Last(names)) > 0
                /\ \A c \in Classes : VotesFor(c) <= VotesFor(Last(names))

\* Every training line is in one entry of the matrix, in the row of its class:
\* a row has as many points as lines end in its class, so that no row divides
\* by zero or shows NaN, its percentages do not exceed 100 together, and what
\* is cut off is less than one for each entry.
MatrixAccounts ==
    pc = "printed" =>
        LET ClassOf(line) == IF Len(line) = 1 THEN Empty ELSE Last(line)
            Row(c) == SumFunction(matrix[c])
            Percents(c) == SumFunction([d \in Classes |-> Entry(c, d)])
        IN  \A c \in Classes :
            /\ Row(c) = Cardinality({i \in DOMAIN lines : ClassOf(lines[i]) = c})
            /\ Row(c) > 0
            /\ Percents(c) \in (101 - Cardinality(Classes))..100

\* A line of coordinates and a class, as the files should have
Proper(line) == Len(line) >= 3 /\ ToSet(Front(line)) \subseteq Numbers /\ Last(line) # Empty

\* With K = 1 and training points that differ, a point is its own nearest
\* neighbor: a training line without its class gets that class, although the
\* two files are read by different functions (read_point, get_point), and the
\* confusion matrix has 100 on its diagonal.
OwnNeighbor ==
    (/\ k = 1
     /\ \A i \in DOMAIN lines : Proper(lines[i])
     /\ \A i, j \in DOMAIN lines : i # j => Front(lines[i]) # Front(lines[j])) =>
        /\ pc = "classified" =>
            \A i \in DOMAIN lines : Front(lines[i]) = asked => Last(names) = Last(lines[i])
        /\ pc = "printed" => \A c \in Classes : Entry(c, c) = 100
=============================================================================
