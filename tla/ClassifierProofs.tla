-------------------------- MODULE ClassifierProofs --------------------------
(***************************************************************************)
(* For all files, all values of K and every order in which points and      *)
(* classes are visited: a point is named by its K nearest neighbors, the   *)
(* confusion matrix accounts for every training line, and with K = 1 a     *)
(* training point is named by itself.                                      *)
(***************************************************************************)
EXTENDS Classifier, PointsProofs

-----------------------------------------------------------------------------
(* The invariant *)

\* Every element of m_data is what read_point returned for its line.
DataIsRead ==
    /\ pc # "threw" => Len(dataSet) = Len(lines)
    /\ \A i \in DOMAIN dataSet :
        /\ i \in DOMAIN lines
        /\ ~ReadPoint(lines[i], TRUE).thrown
        /\ dataSet[i].data = ReadPoint(lines[i], TRUE).data
        /\ dataSet[i].class = ReadPoint(lines[i], TRUE).class

\* Whose class is looked for: that of the line asked for, or, for the
\* confusion matrix, that of the first point without a name
QueryIsCurrent ==
    /\ pc \in {"train", "idle"} => asked = <<>> /\ names = <<>>
    /\ pc \in {"matrix", "printed"} => asked = <<>>
    /\ pc = "classified" => asked # <<>> /\ names # <<>>
    /\ pc = "printed" => Len(names) = Len(dataSet)
    /\ asked = <<>> =>
        /\ Len(names) <= Len(dataSet)
        /\ pc \in {"measure", "vote"} =>
            /\ Len(names) < Len(dataSet)
            /\ query = dataSet[Len(names) + 1].data
        /\ pc \in {"matrix", "printed"} /\ names # <<>> => query = dataSet[Len(names)].data
    /\ asked # <<>> =>
        /\ asked \in Lines
        /\ pc \in {"measure", "vote", "classified"} =>
            ~GetPoint(asked, FALSE).thrown /\ query = GetPoint(asked, FALSE).data

\* K of the points, none of the others nearer to q
Neighbors(q, S) ==
    /\ S \subseteq DOMAIN dataSet
    /\ Cardinality(S) = k
    /\ \A i \in S, j \in DOMAIN dataSet \ S :
        Distance(metric, q, dataSet[i].data) <= Distance(metric, q, dataSet[j].data)

Votes(S, c) == Cardinality({i \in S : Truth(i) = c})

\* The most frequent class of K nearest neighbors of q
Elected(name, q) ==
    /\ \A i \in DOMAIN dataSet : Len(dataSet[i].data) = Len(q)
    /\ \E S \in SUBSET DOMAIN dataSet :
        /\ Neighbors(q, S)
        /\ \E i \in S : Truth(i) = name
        /\ \A i \in S : Votes(S, Truth(i)) <= Votes(S, name)

\* The votes are those of K nearest neighbors of q.
Polled(q, counts) ==
    \E S \in SUBSET DOMAIN dataSet :
        /\ Neighbors(q, S)
        /\ counts = [c \in {Truth(i) : i \in S} |-> Votes(S, c)]

\* While the votes are gone through, max_string is a class that no class seen
\* so far has more votes than.
VoteSoFar ==
    pc = "vote" =>
        /\ Comparable
        /\ Polled(query, votes)
        /\ \A c \in DOMAIN votes \ unseen : votes[c] <= best.count
        /\ unseen = DOMAIN votes => best.count = 0
        /\ unseen # DOMAIN votes => best.name \in DOMAIN votes /\ best.count = votes[best.name]

NamesAreElected ==
    /\ asked = <<>> => \A j \in DOMAIN names : Elected(names[j], dataSet[j].data)
    /\ pc = "classified" => Elected(Last(names), query)

MatrixIsCounted ==
    pc = "printed" =>
        matrix = [c \in Classes |-> [d \in Classes |->
                    Cardinality({i \in DOMAIN names : Truth(i) = c /\ names[i] = d})]]

IInv ==
    /\ TypeOK
    /\ DataIsRead
    /\ QueryIsCurrent
    /\ VoteSoFar
    /\ NamesAreElected
    /\ MatrixIsCounted

-----------------------------------------------------------------------------
(* Neighbors *)

\* The training points are finitely many, each with coordinates and a class.
LEMMA DataPoints ==
    ASSUME TypeOK
    PROVE  /\ Len(dataSet) \in Nat /\ DOMAIN dataSet = 1..Len(dataSet)
           /\ IsFiniteSet(DOMAIN dataSet)
           /\ k \in Nat \ {0} /\ metric \in Metrics
           /\ \A i \in DOMAIN dataSet : dataSet[i].data \in Seq(Numbers) /\ Truth(i) \in Texts
<1>1. dataSet \in Seq([data : Seq(Numbers), class : Texts])
  BY DEF TypeOK
<1>2. Len(dataSet) \in Nat /\ DOMAIN dataSet = 1..Len(dataSet)
  BY <1>1, LenProperties
<1>3. \A i \in DOMAIN dataSet : dataSet[i] \in [data : Seq(Numbers), class : Texts]
  BY <1>1, <1>2, ElementOfSeq
<1>4. k \in Nat \ {0} /\ metric \in Metrics
  BY InputAssumption DEF TypeOK
<1>5. IsFiniteSet(1..Len(dataSet))
  BY <1>2, FS_Interval
<1>6. \A i \in DOMAIN dataSet : dataSet[i].data \in Seq(Numbers) /\ Truth(i) \in Texts
  BY <1>3 DEF Truth
<1>. QED BY <1>2, <1>4, <1>5, <1>6

\* What a function makes of finitely many elements is finite.
LEMMA ImageIsFinite ==
    ASSUME NEW S, IsFiniteSet(S), NEW f
    PROVE  IsFiniteSet({f[x] : x \in S})
<1>. DEFINE T == {f[x] : x \in S}
            onto == [x \in S |-> f[x]]
<1>1. onto \in Surjection(S, T)
  BY DEF Surjection
<1>. HIDE DEF T, onto
<1>2. IsFiniteSet(T)
  BY <1>1, FS_Surjection
<1>. QED BY <1>2 DEF T

\* Distances to points of as many coordinates are numbers, 0 for equal ones.
LEMMA DistancesToPoints ==
    ASSUME TypeOK, NEW q \in Seq(Numbers),
           \A i \in DOMAIN dataSet : Len(dataSet[i].data) = Len(q)
    PROVE  \A i \in DOMAIN dataSet :
            /\ Distance(metric, q, dataSet[i].data) \in Nat
            /\ Distance(metric, q, dataSet[i].data) = 0 <=> q = dataSet[i].data
<1>. TAKE i \in DOMAIN dataSet
<1>1. \A s \in Seq(Numbers) : s \in Seq(Int)
  BY FieldsAssumption, SeqMonotonic
<1>2. q \in Seq(Int) /\ dataSet[i].data \in Seq(Int) /\ metric \in Metrics
  BY <1>1, DataPoints
<1>. QED BY <1>2, MetricsSeparate

\* Counting fewer points counts less.
LEMMA CountsAreMonotonic ==
    ASSUME NEW T, IsFiniteSet(T), NEW U, U \subseteq T
    PROVE  /\ Cardinality(U) \in Nat /\ Cardinality(T) \in Nat
           /\ Cardinality(U) <= Cardinality(T)
           /\ U # {} => Cardinality(U) > 0
<1>1. IsFiniteSet(U) /\ Cardinality(U) <= Cardinality(T)
  BY FS_Subset
<1>2. Cardinality(U) \in Nat /\ Cardinality(T) \in Nat
  BY <1>1, FS_CardinalityType
<1>3. U # {} => Cardinality(U) # 0
  BY <1>1, FS_EmptySet
<1>. QED BY <1>1, <1>2, <1>3

\* What quickselect returns for the query are K nearest neighbors of it.
LEMMA NeighborsAreNearest ==
    ASSUME TypeOK, NEW S \in SUBSET DOMAIN dataSet, Neighbors(query, S)
    PROVE  S \in Nearest /\ IsFiniteSet(S)
<1>1. IsFiniteSet(S)
  BY DataPoints, FS_Subset
<1>. QED BY <1>1 DEF Neighbors, Nearest, DistanceTo, kSubset

\* With K = 1 a point among the others, at distance 0 from itself only, is
\* elected by itself.
LEMMA ElectedByItself ==
    ASSUME TypeOK, k = 1, NEW i \in DOMAIN dataSet, NEW name,
           Elected(name, dataSet[i].data),
           \A j \in DOMAIN dataSet : j # i => dataSet[j].data # dataSet[i].data
    PROVE  name = Truth(i)
<1>. DEFINE q == dataSet[i].data
            D(j) == Distance(metric, q, dataSet[j].data)
<1>1. PICK S \in SUBSET DOMAIN dataSet : Neighbors(q, S) /\ \E j \in S : Truth(j) = name
  BY DEF Elected
<1>2. PICK s : S = {s}
  <2>1. IsFiniteSet(S) /\ Cardinality(S) = 1
    BY <1>1, DataPoints, FS_Subset DEF Neighbors
  <2>. QED BY <2>1, FS_Singleton
<1>3. \A j \in DOMAIN dataSet : D(j) \in Nat /\ (D(j) = 0 <=> q = dataSet[j].data)
  <2>1. q \in Seq(Numbers)
    BY DataPoints
  <2>2. \A j \in DOMAIN dataSet : Len(dataSet[j].data) = Len(q)
    BY DEF Elected
  <2>. QED BY <2>1, <2>2, DistancesToPoints
<1>4. s = i
  <2>. SUFFICES ASSUME s # i  PROVE FALSE
    OBVIOUS
  <2>1. D(s) <= D(i)
    BY <1>1, <1>2 DEF Neighbors
  <2>2. D(i) = 0 /\ D(s) \in Nat
    BY <1>2, <1>3
  <2>3. D(s) = 0
    BY <2>1, <2>2
  <2>4. dataSet[s].data = q
    BY <1>2, <1>3, <2>3
  <2>. QED BY <1>2, <2>4
<1>. QED BY <1>1, <1>2, <1>4

-----------------------------------------------------------------------------
(* Type correctness *)

\* What the readers make of a line
LEMMA LinesAreRead ==
    ASSUME NEW line \in Lines
    PROVE  /\ line \in Seq(Texts) /\ line # <<>>
           /\ ~ReadPoint(line, TRUE).thrown =>
                /\ ReadPoint(line, TRUE).data \in Seq(Numbers)
                /\ ReadPoint(line, TRUE).class \in Texts
                /\ ReadPoint(line, TRUE).class = IF Len(line) = 1 THEN Empty ELSE Last(line)
           /\ ~GetPoint(line, FALSE).thrown => GetPoint(line, FALSE).data \in Seq(Numbers)
<1>1. line \in Seq(Texts) /\ line # <<>>
  BY InputAssumption
<1>. QED BY <1>1, ReadPointReturns, GetPointReturns

\* Before the first line there are no points, no names and no votes.
LEMMA TypeInit == Init => TypeOK
<1>. SUFFICES ASSUME Init  PROVE TypeOK
  OBVIOUS
<1>1. k \in Ks /\ k \in Nat \ {0}
  BY InputAssumption DEF Init
<1>2. lines \in Seq(Lines) /\ dataSet \in Seq([data : Seq(Numbers), class : Texts])
  BY EmptySeq DEF Init
<1>3. query \in Seq(Numbers) /\ names \in Seq(Texts)
  BY EmptySeq DEF Init
<1>4. (\A c \in DOMAIN votes : votes[c] \in 1..k) /\ unseen \subseteq DOMAIN votes
      /\ DOMAIN votes \subseteq Texts
  BY DEF Init, NoVotes
<1>5. best.name \in Texts /\ best.count \in 0..k
  BY <1>1 DEF Init, Texts
<1>. QED BY <1>1, <1>2, <1>3, <1>4, <1>5 DEF Init, TypeOK

\* The readers return coordinates and a class, the vote counts between one and
\* K points for each class that has any.
LEMMA TypeNext == TypeOK /\ [Next]_vars => TypeOK'
<1>. SUFFICES ASSUME TypeOK, [Next]_vars  PROVE TypeOK'
  OBVIOUS
<1>. USE DEF TypeOK, settings, training, call
<1>1. ASSUME NEW line \in Lines, AddPoint(line)  PROVE TypeOK'
  <2>. DEFINE p == ReadPoint(line, TRUE)
  <2>1. lines' \in Seq(Lines)
    BY <1>1, AppendProperties DEF AddPoint
  <2>2. dataSet' \in Seq([data : Seq(Numbers), class : Texts])
    <3>1. CASE ~p.thrown
      <4>1. [data |-> p.data, class |-> p.class] \in [data : Seq(Numbers), class : Texts]
        BY <3>1, LinesAreRead
      <4>2. dataSet' = Append(dataSet, [data |-> p.data, class |-> p.class])
        BY <1>1, <3>1, Zenon DEF AddPoint
      <4>. HIDE DEF p
      <4>. QED BY <4>1, <4>2, AppendProperties
    <3>2. CASE p.thrown
      BY <1>1, <3>2 DEF AddPoint
    <3>. QED BY <3>1, <3>2
  <2>. HIDE DEF p
  <2>. QED BY <1>1, <2>1, <2>2 DEF AddPoint
<1>2. CASE EndTraining
  BY <1>2 DEF EndTraining
<1>3. ASSUME NEW line \in Lines, ClassifyLine(line)  PROVE TypeOK'
  <2>. DEFINE p == GetPoint(line, FALSE)
  <2>1. ~p.thrown => p.data \in Seq(Numbers)
    BY LinesAreRead
  <2>. HIDE DEF p
  <2>. QED BY <1>3, <2>1 DEF ClassifyLine, p
<1>4. CASE ComputeMatrix
  BY <1>4 DEF ComputeMatrix
<1>5. CASE NextPoint
  <2>1. Len(names) + 1 \in DOMAIN dataSet
    <3>1. Len(names) \in Nat
      BY LenProperties
    <3>. QED BY <1>5, <3>1, DataPoints DEF NextPoint
  <2>2. query' \in Seq(Numbers)
    BY <1>5, <2>1, DataPoints DEF NextPoint
  <2>. QED BY <1>5, <2>2 DEF NextPoint
<1>6. CASE CountPairs
  BY <1>6 DEF CountPairs
<1>7. CASE MeasureThrows
  BY <1>7 DEF MeasureThrows
<1>8. CASE TooFewPoints
  BY <1>8 DEF TooFewPoints
<1>9. CASE StartVote
  <2>1. PICK S \in Nearest :
            /\ votes' = [c \in {Truth(i) : i \in S} |-> Cardinality({i \in S : Truth(i) = c})]
            /\ unseen' = {Truth(i) : i \in S}
    BY <1>9 DEF StartVote
  <2>2. S \subseteq DOMAIN dataSet /\ Cardinality(S) = k /\ IsFiniteSet(S) /\ k \in Nat \ {0}
    BY DataPoints, FS_Subset DEF Nearest, kSubset
  <2>3. DOMAIN votes' = {Truth(i) : i \in S}
    BY <2>1
  <2>4. \A c \in DOMAIN votes' : votes'[c] \in 1..k
    <3>. TAKE c \in DOMAIN votes'
    <3>1. PICK i \in S : c = Truth(i)
      BY <2>3
    <3>. DEFINE U == {j \in S : Truth(j) = c}
    <3>2. U \subseteq S /\ U # {} /\ votes'[c] = Cardinality(U)
      BY <2>1, <3>1
    <3>. HIDE DEF U
    <3>3. Cardinality(U) \in Nat /\ Cardinality(U) > 0 /\ Cardinality(U) <= Cardinality(S)
      BY <2>2, <3>2, CountsAreMonotonic
    <3>. QED BY <2>2, <3>2, <3>3
  <2>5. DOMAIN votes' \subseteq Texts
    BY <2>2, <2>3, DataPoints
  <2>6. best'.name \in Texts /\ best'.count \in 0..k'
    BY <1>9, <2>2 DEF StartVote, Texts
  <2>. QED BY <1>9, <2>1, <2>3, <2>4, <2>5, <2>6 DEF StartVote
<1>10. ASSUME NEW c \in unseen, VisitEntry(c)  PROVE TypeOK'
  <2>1. c \in Texts /\ votes[c] \in 1..k /\ k \in Nat \ {0}
    BY DataPoints
  <2>2. best'.name \in Texts /\ best'.count \in 0..k'
    BY <1>10, <2>1 DEF VisitEntry
  <2>. QED BY <1>10, <2>2 DEF VisitEntry
<1>11. CASE VoteEnds
  <2>1. names' \in Seq(Texts)
    BY <1>11, AppendProperties DEF VoteEnds
  <2>. QED BY <1>11, <2>1 DEF VoteEnds
<1>12. CASE UNCHANGED vars
  BY <1>12 DEF vars
<1>. QED
  BY <1>1, <1>2, <1>3, <1>4, <1>5, <1>6, <1>7, <1>8, <1>9, <1>10, <1>11, <1>12
     DEF Next, Commands, NearestClass, Over

\* Coordinates, classes, counts and results have their types, for all files.
THEOREM TypeCorrectness == Spec => []TypeOK
<1>. QED BY TypeInit, TypeNext, PTL DEF Spec

-----------------------------------------------------------------------------
(* The invariant is inductive *)

\* The invariant holds before the first line.
LEMMA InvInit == Init => IInv
<1>. SUFFICES ASSUME Init  PROVE IInv
  OBVIOUS
<1>1. DataIsRead /\ QueryIsCurrent
  BY DEF Init, DataIsRead, QueryIsCurrent
<1>2. VoteSoFar /\ NamesAreElected /\ MatrixIsCounted
  BY DEF Init, VoteSoFar, NamesAreElected, MatrixIsCounted
<1>. QED BY <1>1, <1>2, TypeInit DEF IInv

\* Only initialize_dataset changes the training points, and nothing follows
\* what was thrown.
LEMMA TrainingIsFixed ==
    ASSUME [Next]_vars
    PROVE  /\ k' = k /\ metric' = metric
           /\ pc = "threw" => pc' = "threw"
           /\ \/ lines' = lines /\ dataSet' = dataSet
              \/ \E line \in Lines : AddPoint(line)
BY DEF Next, vars, settings, training, call, AddPoint, EndTraining, Commands, ClassifyLine,
       ComputeMatrix, NextPoint, CountPairs, NearestClass, MeasureThrows, TooFewPoints,
       StartVote, VisitEntry, VoteEnds, Over

\* initialize_dataset adds one point for each line, or throws.
LEMMA DataNext == TypeOK /\ DataIsRead /\ [Next]_vars => DataIsRead'
<1>. SUFFICES ASSUME TypeOK, DataIsRead, [Next]_vars  PROVE DataIsRead'
  OBVIOUS
<1>1. CASE lines' = lines /\ dataSet' = dataSet
  BY <1>1, TrainingIsFixed DEF DataIsRead
<1>2. ASSUME NEW line \in Lines, AddPoint(line)  PROVE DataIsRead'
  <2>. PICK p : p = ReadPoint(line, TRUE)
    OBVIOUS
  <2>. DEFINE n == Len(lines)
              point == [data |-> p.data, class |-> p.class]
  <2>1. pc = "train" /\ lines' = Append(lines, line)
    BY <1>2 DEF AddPoint
  <2>2. /\ n \in Nat /\ DOMAIN lines = 1..n /\ Len(dataSet) = n /\ DOMAIN dataSet = 1..n
    BY <2>1, LenProperties DEF TypeOK, DataIsRead
  <2>3. /\ Len(lines') = n + 1 /\ DOMAIN lines' = 1..(n + 1)
        /\ \A i \in 1..n : lines'[i] = lines[i]
        /\ lines'[n + 1] = line
    BY <2>1, <2>2, AppendProperties DEF TypeOK
  <2>4. CASE p.thrown
    <3>1. pc' = "threw" /\ dataSet' = dataSet
      BY <1>2, <2>4, Zenon DEF AddPoint
    <3>2. \A i \in DOMAIN dataSet : i \in DOMAIN lines' /\ lines'[i] = lines[i]
      BY <2>2, <2>3
    <3>. QED BY <3>1, <3>2 DEF DataIsRead
  <2>5. CASE ~p.thrown
    <3>1. dataSet' = Append(dataSet, point)
      BY <1>2, <2>5, Zenon DEF AddPoint
    <3>2. /\ Len(dataSet') = n + 1 /\ DOMAIN dataSet' = 1..(n + 1)
          /\ \A i \in 1..n : dataSet'[i] = dataSet[i]
          /\ dataSet'[n + 1] = point
      <4>. HIDE DEF point
      <4>. QED BY <2>2, <3>1, AppendProperties DEF TypeOK
    <3>3. ASSUME NEW i \in DOMAIN dataSet'
          PROVE  /\ i \in DOMAIN lines'
                 /\ ~ReadPoint(lines'[i], TRUE).thrown
                 /\ dataSet'[i].data = ReadPoint(lines'[i], TRUE).data
                 /\ dataSet'[i].class = ReadPoint(lines'[i], TRUE).class
      <4>1. i \in DOMAIN lines' /\ (i \in 1..n \/ i = n + 1)
        BY <2>2, <2>3, <3>2
      <4>2. CASE i \in 1..n
        BY <2>2, <2>3, <3>2, <4>1, <4>2 DEF DataIsRead
      <4>3. CASE i = n + 1
        <5>1. dataSet'[i] = point /\ lines'[i] = line
          BY <2>3, <3>2, <4>3, Zenon
        <5>2. dataSet'[i].data = p.data /\ dataSet'[i].class = p.class
          BY <5>1
        <5>. QED BY <2>5, <4>1, <5>1, <5>2
      <4>. QED BY <4>1, <4>2, <4>3
    <3>4. Len(dataSet') = Len(lines')
      BY <2>3, <3>2
    <3>. QED BY <3>3, <3>4 DEF DataIsRead
  <2>. QED BY <2>4, <2>5
<1>. QED BY <1>1, <1>2, TrainingIsFixed

\* A call of get_nearest_class is about the point whose name is appended after
\* it, and for Classify_Data about the line asked for.
LEMMA QueryNext == TypeOK /\ DataIsRead /\ QueryIsCurrent /\ [Next]_vars => QueryIsCurrent'
<1>. SUFFICES ASSUME TypeOK, DataIsRead, QueryIsCurrent, [Next]_vars  PROVE QueryIsCurrent'
  OBVIOUS
<1>. USE DEF QueryIsCurrent, settings, training, call
<1>0. Len(names) \in Nat /\ Len(dataSet) \in Nat /\ (names = <<>> <=> Len(names) = 0)
  BY EmptySeq, LenProperties DEF TypeOK
<1>1. ASSUME NEW line \in Lines, AddPoint(line)  PROVE QueryIsCurrent'
  <2>1. asked' = <<>> /\ names' = <<>> /\ pc' \in {"train", "threw"}
    BY <1>1 DEF AddPoint
  <2>2. Len(dataSet') \in Nat /\ Len(names') = 0
    <3>1. dataSet' \in Seq([data : Seq(Numbers), class : Texts])
      BY TypeNext DEF TypeOK
    <3>. QED BY <2>1, <3>1, LenProperties, EmptySeq
  <2>. QED BY <2>1, <2>2
<1>2. CASE EndTraining
  BY <1>0, <1>2 DEF EndTraining
<1>3. ASSUME NEW line \in Lines, ClassifyLine(line)  PROVE QueryIsCurrent'
  <2>1. PICK p : p = GetPoint(line, FALSE)
    OBVIOUS
  <2>2. asked' = line /\ line # <<>> /\ UNCHANGED <<names, dataSet>>
    BY <1>3, LinesAreRead DEF ClassifyLine
  <2>3. \/ pc' = "threw"
        \/ pc' = "measure" /\ ~p.thrown /\ query' = p.data
    BY <1>3, <2>1, Zenon DEF ClassifyLine
  <2>. QED BY <2>1, <2>2, <2>3
<1>4. CASE ComputeMatrix
  BY <1>0, <1>4 DEF ComputeMatrix
<1>5. CASE NextPoint
  BY <1>0, <1>5 DEF NextPoint
<1>6. CASE CountPairs
  BY <1>0, <1>6 DEF CountPairs
<1>7. CASE MeasureThrows
  BY <1>0, <1>7 DEF MeasureThrows
<1>8. CASE TooFewPoints
  BY <1>0, <1>8 DEF TooFewPoints
<1>9. CASE StartVote
  BY <1>0, <1>9 DEF StartVote
<1>10. ASSUME NEW c \in unseen, VisitEntry(c)  PROVE QueryIsCurrent'
  BY <1>0, <1>10 DEF VisitEntry
<1>11. CASE VoteEnds
  <2>1. /\ pc = "vote" /\ names' = Append(names, best.name)
        /\ pc' = IF asked # <<>> THEN "classified" ELSE "matrix"
        /\ UNCHANGED <<asked, query, dataSet>>
    BY <1>11 DEF VoteEnds
  <2>2. Len(names') = Len(names) + 1 /\ names' # <<>>
    BY <2>1, AppendProperties DEF TypeOK
  <2>3. CASE asked = <<>>
    BY <1>0, <2>1, <2>2, <2>3
  <2>4. CASE asked # <<>>
    <3>1. pc' = "classified" /\ asked' # <<>>
      BY <2>1, <2>4
    <3>2. asked \in Lines /\ ~GetPoint(asked, FALSE).thrown /\ query = GetPoint(asked, FALSE).data
      BY <2>1, <2>4
    <3>3. asked' \in Lines /\ ~GetPoint(asked', FALSE).thrown
          /\ query' = GetPoint(asked', FALSE).data
      BY <2>1, <3>2
    <3>. QED BY <2>2, <3>1, <3>3
  <2>. QED BY <2>3, <2>4
<1>12. CASE UNCHANGED vars
  BY <1>12 DEF vars
<1>. QED
  BY <1>1, <1>2, <1>3, <1>4, <1>5, <1>6, <1>7, <1>8, <1>9, <1>10, <1>11, <1>12
     DEF Next, Commands, NearestClass, Over

\* Who is elected depends on nothing but the settings and the training points.
LEMMA ElectionIsFixed ==
    ASSUME k' = k, metric' = metric, dataSet' = dataSet
    PROVE  \A c, q : Elected(c, q)' <=> Elected(c, q)
BY DEF Neighbors, Elected, Votes, Truth

\* So do the votes that are gone through.
LEMMA PollIsFixed ==
    ASSUME k' = k, metric' = metric, dataSet' = dataSet, query' = query, votes' = votes,
           Polled(query, votes)
    PROVE  Polled(query, votes)'
<1>1. PICK S \in SUBSET DOMAIN dataSet :
            Neighbors(query, S) /\ votes = [c \in {Truth(i) : i \in S} |-> Votes(S, c)]
  BY DEF Polled
<1>2. Neighbors(query, S)'
  BY <1>1 DEF Neighbors
<1>3. votes' = [c \in {Truth(i)' : i \in S} |-> Votes(S, c)']
  BY <1>1 DEF Truth, Votes
<1>4. S \in SUBSET DOMAIN dataSet'
  BY <1>1
<1>. QED BY <1>2, <1>3, <1>4 DEF Polled

\* The first entry visited has a vote and becomes best; every later one
\* replaces best if it has more votes.
LEMMA VoteNext == TypeOK /\ VoteSoFar /\ [Next]_vars => VoteSoFar'
<1>. SUFFICES ASSUME TypeOK, VoteSoFar, [Next]_vars, pc' = "vote"  PROVE VoteSoFar'
  BY DEF VoteSoFar
<1>1. CASE StartVote
  <2>1. PICK S \in Nearest :
            /\ votes' = [c \in {Truth(i) : i \in S} |-> Cardinality({i \in S : Truth(i) = c})]
            /\ unseen' = {Truth(i) : i \in S}
    BY <1>1 DEF StartVote
  <2>2. /\ Comparable /\ best' = [name |-> Empty, count |-> 0]
        /\ k' = k /\ metric' = metric /\ dataSet' = dataSet /\ query' = query
    BY <1>1 DEF StartVote, settings, training
  <2>3. S \in SUBSET DOMAIN dataSet /\ Neighbors(query, S)
    BY DEF Nearest, kSubset, Neighbors, DistanceTo
  <2>4. votes' = [c \in {Truth(i) : i \in S} |-> Votes(S, c)]
    BY <2>1 DEF Votes
  <2>5. Comparable'
    BY <2>2 DEF Comparable
  <2>6. Polled(query, votes)'
    <3>1. Neighbors(query, S)'
      BY <2>2, <2>3 DEF Neighbors
    <3>2. votes' = [c \in {Truth(i)' : i \in S} |-> Votes(S, c)']
      BY <2>2, <2>4 DEF Truth, Votes
    <3>3. S \in SUBSET DOMAIN dataSet'
      BY <2>2, <2>3
    <3>. QED BY <3>1, <3>2, <3>3 DEF Polled
  <2>7. DOMAIN votes' = {Truth(i) : i \in S}
    BY <2>1
  <2>8. unseen' = DOMAIN votes'
    BY <2>1, <2>7
  <2>. QED BY <2>2, <2>5, <2>6, <2>8 DEF VoteSoFar
<1>2. ASSUME NEW c \in unseen, VisitEntry(c)  PROVE VoteSoFar'
  <2>1. /\ pc = "vote" /\ unseen' = unseen \ {c}
        /\ best' = IF votes[c] > best.count THEN [name |-> c, count |-> votes[c]] ELSE best
        /\ k' = k /\ metric' = metric /\ dataSet' = dataSet /\ query' = query /\ votes' = votes
    BY <1>2 DEF VisitEntry, settings, training
  <2>2. /\ c \in DOMAIN votes /\ unseen \subseteq DOMAIN votes
        /\ \A d \in DOMAIN votes : votes[d] \in 1..k
        /\ best.count \in 0..k /\ k \in Nat \ {0}
    BY DataPoints DEF TypeOK
  <2>3. Comparable'
    BY <2>1 DEF VoteSoFar, Comparable
  <2>4. Polled(query, votes)'
    BY <2>1, PollIsFixed DEF VoteSoFar
  <2>5. /\ \A d \in DOMAIN votes \ unseen : votes[d] <= best.count
        /\ unseen = DOMAIN votes => best.count = 0
        /\ unseen # DOMAIN votes => best.name \in DOMAIN votes /\ best.count = votes[best.name]
    BY <2>1 DEF VoteSoFar
  <2>6. unseen' # DOMAIN votes'
    BY <2>1, <2>2
  <2>7. CASE votes[c] > best.count
    <3>1. best'.name = c /\ best'.count = votes[c]
      BY <2>1, <2>7
    <3>2. \A d \in DOMAIN votes \ unseen' : votes[d] <= votes[c]
      BY <2>1, <2>2, <2>5, <2>7
    <3>. QED BY <2>1, <2>2, <2>3, <2>4, <2>6, <3>1, <3>2 DEF VoteSoFar
  <2>8. CASE ~(votes[c] > best.count)
    <3>1. best' = best /\ unseen # DOMAIN votes
      BY <2>1, <2>2, <2>5, <2>8
    <3>2. \A d \in DOMAIN votes \ unseen' : votes[d] <= best.count
      BY <2>1, <2>2, <2>5, <2>8
    <3>. QED BY <2>1, <2>3, <2>4, <2>5, <2>6, <3>1, <3>2 DEF VoteSoFar
  <2>. QED BY <2>7, <2>8
<1>3. CASE UNCHANGED vars
  <2>1. /\ k' = k /\ metric' = metric /\ dataSet' = dataSet /\ query' = query /\ pc' = pc
        /\ votes' = votes /\ unseen' = unseen /\ best' = best
    BY <1>3 DEF vars, settings, training, call
  <2>. QED BY <2>1, PollIsFixed DEF VoteSoFar, Comparable
<1>. QED
  BY <1>1, <1>2, <1>3
     DEF Next, Commands, NearestClass, Over, AddPoint, EndTraining, ClassifyLine, ComputeMatrix,
         NextPoint, CountPairs, MeasureThrows, TooFewPoints, VoteEnds

\* When the votes have been gone through, max_string is elected.
LEMMA VoteElects ==
    ASSUME TypeOK, VoteSoFar, pc = "vote", unseen = {}
    PROVE  Elected(best.name, query)
<1>1. PICK S \in SUBSET DOMAIN dataSet :
            /\ Neighbors(query, S)
            /\ votes = [c \in {Truth(i) : i \in S} |-> Votes(S, c)]
  BY DEF VoteSoFar, Polled
<1>2. S # {}
  <2>1. Cardinality(S) = k /\ k \in Nat \ {0}
    BY <1>1, DataPoints DEF Neighbors
  <2>. QED BY <2>1, FS_EmptySet
<1>3. DOMAIN votes = {Truth(i) : i \in S}
  BY <1>1
<1>4. unseen # DOMAIN votes
  BY <1>2, <1>3
<1>5. /\ best.name \in DOMAIN votes /\ best.count = votes[best.name]
      /\ \A c \in DOMAIN votes : votes[c] <= best.count
  BY <1>4 DEF VoteSoFar
<1>6. \A c \in DOMAIN votes : votes[c] = Votes(S, c)
  BY <1>1
<1>7. \A i \in S : Votes(S, Truth(i)) <= Votes(S, best.name)
  BY <1>3, <1>5, <1>6
<1>8. \E i \in S : Truth(i) = best.name
  BY <1>3, <1>5
<1>. QED BY <1>1, <1>7, <1>8 DEF Elected, VoteSoFar, Comparable

\* The name appended is elected, and those given before stay so.
LEMMA NamesNext ==
    TypeOK /\ QueryIsCurrent /\ VoteSoFar /\ NamesAreElected /\ [Next]_vars => NamesAreElected'
<1>. SUFFICES ASSUME TypeOK, QueryIsCurrent, VoteSoFar, NamesAreElected, [Next]_vars
              PROVE  NamesAreElected'
  OBVIOUS
<1>0. names \in Seq(Texts) /\ Len(names) \in Nat /\ DOMAIN names = 1..Len(names)
  BY LenProperties DEF TypeOK
<1>1. ASSUME NEW line \in Lines, AddPoint(line)  PROVE NamesAreElected'
  <2>1. names' = <<>> /\ pc' # "classified"
    BY <1>1 DEF AddPoint, QueryIsCurrent
  <2>. QED BY <2>1 DEF NamesAreElected
<1>2. ASSUME NEW line \in Lines, ClassifyLine(line)  PROVE NamesAreElected'
  <2>1. names' = <<>> /\ pc' # "classified"
    BY <1>2 DEF ClassifyLine, QueryIsCurrent
  <2>. QED BY <2>1 DEF NamesAreElected
<1>3. CASE VoteEnds
  <2>1. /\ pc = "vote" /\ unseen = {} /\ names' = Append(names, best.name)
        /\ pc' = IF asked # <<>> THEN "classified" ELSE "matrix"
        /\ UNCHANGED <<k, metric, dataSet, asked, query>>
    BY <1>3 DEF VoteEnds, settings, training, call
  <2>2. Elected(best.name, query)
    BY <2>1, VoteElects
  <2>3. /\ Len(names') = Len(names) + 1 /\ DOMAIN names' = 1..(Len(names) + 1)
        /\ \A j \in 1..Len(names) : names'[j] = names[j]
        /\ names'[Len(names) + 1] = best.name
    BY <1>0, <2>1, AppendProperties DEF TypeOK
  <2>5. ASSUME asked' = <<>>, NEW j \in DOMAIN names'
        PROVE  Elected(names[j], dataSet[j].data)'
    <3>1. CASE j \in DOMAIN names
      <4>1. Elected(names[j], dataSet[j].data) /\ names'[j] = names[j]
        BY <1>0, <2>1, <2>3, <2>5, <3>1 DEF NamesAreElected
      <4>. QED BY <2>1, <4>1 DEF Elected, Neighbors, Votes, Truth
    <3>2. CASE j = Len(names) + 1
      <4>1. query = dataSet[j].data /\ names'[j] = best.name
        BY <2>1, <2>3, <2>5, <3>2 DEF QueryIsCurrent
      <4>2. Elected(names'[j], dataSet[j].data)
        BY <2>1, <4>1, VoteElects
      <4>. QED BY <2>1, <4>2 DEF Elected, Neighbors, Votes, Truth
    <3>. QED BY <1>0, <2>3, <3>1, <3>2
  <2>6. Last(names') = best.name
    BY <2>3 DEF Last
  <2>7. Elected(Last(names), query)'
    BY <2>1, <2>2, <2>6 DEF Elected, Neighbors, Votes, Truth
  <2>. QED BY <2>5, <2>7 DEF NamesAreElected
<1>4. CASE names' = names /\ asked' = asked /\ dataSet' = dataSet /\ query' = query /\ pc' = pc
  BY <1>4, TrainingIsFixed DEF NamesAreElected, Elected, Neighbors, Votes, Truth
<1>5. CASE names' = names /\ asked' = asked /\ dataSet' = dataSet /\ pc' # "classified"
  BY <1>5, TrainingIsFixed, ElectionIsFixed DEF NamesAreElected
<1>6. ASSUME NEW c \in unseen, VisitEntry(c)  PROVE NamesAreElected'
  BY <1>5, <1>6 DEF VisitEntry, training
<1>. QED
  BY <1>1, <1>2, <1>3, <1>4, <1>5, <1>6
     DEF Next, Commands, NearestClass, Over, EndTraining, ComputeMatrix, NextPoint, CountPairs,
         MeasureThrows, TooFewPoints, StartVote, vars, settings, training, call

\* Nothing changes the names or the points once they have been counted.
LEMMA MatrixNext == MatrixIsCounted /\ [Next]_vars => MatrixIsCounted'
<1>. SUFFICES ASSUME MatrixIsCounted, [Next]_vars, pc' = "printed"  PROVE MatrixIsCounted'
  BY DEF MatrixIsCounted
<1>1. CASE CountPairs
  <2>1. names' = names /\ dataSet' = dataSet
    BY <1>1 DEF CountPairs, training
  <2>2. Classes' = Classes /\ \A i : Truth(i)' = Truth(i)
    BY <2>1 DEF Classes, Truth
  <2>. QED BY <1>1, <2>1, <2>2 DEF CountPairs, MatrixIsCounted
<1>2. CASE UNCHANGED vars
  <2>1. names' = names /\ dataSet' = dataSet /\ matrix' = matrix /\ pc' = pc
    BY <1>2 DEF vars, training
  <2>2. Classes' = Classes /\ \A i : Truth(i)' = Truth(i)
    BY <2>1 DEF Classes, Truth
  <2>. QED BY <2>1, <2>2 DEF MatrixIsCounted
<1>. QED
  BY <1>1, <1>2
     DEF Next, Commands, NearestClass, Over, AddPoint, EndTraining, ClassifyLine, ComputeMatrix,
         NextPoint, MeasureThrows, TooFewPoints, StartVote, VisitEntry, VoteEnds

\* Every step keeps the invariant.
LEMMA InvNext == IInv /\ [Next]_vars => IInv'
BY TypeNext, DataNext, QueryNext, VoteNext, NamesNext, MatrixNext DEF IInv

\* The invariant holds of every state.
THEOREM Invariance == Spec => []IInv
BY InvInit, InvNext, PTL DEF Spec

-----------------------------------------------------------------------------
(* What the invariant implies *)

\* The name given last was elected for the point it is the name of.
LEMMA LastNameIsElected ==
    ASSUME IInv, pc \in {"classified", "matrix", "printed"}, names # <<>>
    PROVE  Elected(Last(names), query)
<1>1. Len(names) \in Nat \ {0} /\ Len(names) \in DOMAIN names
  BY LenProperties, EmptySeq DEF IInv, TypeOK
<1>2. CASE pc = "classified"
  BY <1>2 DEF IInv, NamesAreElected
<1>3. CASE pc # "classified"
  <2>1. asked = <<>> /\ query = dataSet[Len(names)].data
    BY <1>3 DEF IInv, QueryIsCurrent
  <2>2. Elected(names[Len(names)], dataSet[Len(names)].data)
    BY <1>1, <2>1 DEF IInv, NamesAreElected
  <2>. QED BY <2>1, <2>2 DEF Last
<1>. QED BY <1>2, <1>3

\* For every K, every file and every way in which ties are broken, the class
\* that a point is given is elected by K nearest neighbors of the point: it has
\* a vote, and no class has more.
THEOREM NamesFollowNeighbors == Spec => []NamedByNeighbors
<1>1. IInv => NamedByNeighbors
  <2>. SUFFICES ASSUME IInv, pc \in {"classified", "matrix", "printed"}, names # <<>>
                PROVE  NamedByNeighbors
    BY DEF NamedByNeighbors
  <2>1. Elected(Last(names), query) /\ TypeOK
    BY LastNameIsElected DEF IInv
  <2>2. PICK S \in SUBSET DOMAIN dataSet :
            /\ Neighbors(query, S)
            /\ \E i \in S : Truth(i) = Last(names)
            /\ \A i \in S : Votes(S, Truth(i)) <= Votes(S, Last(names))
    BY <2>1 DEF Elected
  <2>3. S \in Nearest /\ IsFiniteSet(S)
    BY <2>1, <2>2, NeighborsAreNearest
  <2>4. \A c : {i \in S : Truth(i) = c} \subseteq S
    OBVIOUS
  <2>5. Votes(S, Last(names)) \in Nat /\ Votes(S, Last(names)) > 0
    BY <2>2, <2>3, <2>4, CountsAreMonotonic DEF Votes
  <2>6. \A c \in Classes : Votes(S, c) <= Votes(S, Last(names))
    <3>. TAKE c \in Classes
    <3>1. CASE \E i \in S : Truth(i) = c
      BY <2>2, <3>1
    <3>2. CASE {i \in S : Truth(i) = c} = {}
      <4>1. Votes(S, c) = 0
        BY <3>2, FS_EmptySet DEF Votes
      <4>. QED BY <2>5, <4>1
    <3>. QED BY <3>1, <3>2
  <2>. QED BY <2>3, <2>5, <2>6 DEF NamedByNeighbors, Votes
<1>. QED BY <1>1, Invariance, PTL

\* When the matrix is printed, every training line has a point and a name, and
\* names are classes of points.
LEMMA PrintedMatrix ==
    ASSUME IInv, pc = "printed"
    PROVE  /\ DOMAIN names = DOMAIN dataSet /\ DOMAIN lines = DOMAIN dataSet
           /\ \A i \in DOMAIN dataSet :
                /\ lines[i] \in Lines
                /\ Truth(i) = IF Len(lines[i]) = 1 THEN Empty ELSE Last(lines[i])
                /\ Elected(names[i], dataSet[i].data)
           /\ Classes = {Truth(i) : i \in DOMAIN dataSet}
           /\ \A i \in DOMAIN names : names[i] \in Classes
<1>1. asked = <<>> /\ Len(names) = Len(dataSet) /\ Len(lines) = Len(dataSet)
  BY DEF IInv, QueryIsCurrent, DataIsRead
<1>2. /\ DOMAIN names = 1..Len(names) /\ DOMAIN lines = 1..Len(lines)
      /\ DOMAIN dataSet = 1..Len(dataSet) /\ \A i \in DOMAIN lines : lines[i] \in Lines
  BY LenProperties, ElementOfSeq DEF IInv, TypeOK
<1>3. DOMAIN names = DOMAIN dataSet /\ DOMAIN lines = DOMAIN dataSet
  BY <1>1, <1>2
<1>4. \A i \in DOMAIN dataSet : Elected(names[i], dataSet[i].data)
  BY <1>1, <1>3 DEF IInv, NamesAreElected
<1>5. ASSUME NEW i \in DOMAIN dataSet
      PROVE  Truth(i) = IF Len(lines[i]) = 1 THEN Empty ELSE Last(lines[i])
  <2>1. lines[i] \in Lines
    BY <1>2, <1>3
  <2>2. ~ReadPoint(lines[i], TRUE).thrown /\ dataSet[i].class = ReadPoint(lines[i], TRUE).class
    BY DEF IInv, DataIsRead
  <2>3. ReadPoint(lines[i], TRUE).class = IF Len(lines[i]) = 1 THEN Empty ELSE Last(lines[i])
    BY <2>1, <2>2, LinesAreRead
  <2>. QED BY <2>2, <2>3 DEF Truth
<1>6. \A i \in DOMAIN dataSet : names[i] \in {Truth(j) : j \in DOMAIN dataSet}
  BY <1>4 DEF Elected
<1>7. Classes = {Truth(i) : i \in DOMAIN dataSet}
  BY <1>3, <1>6 DEF Classes, ToSet
<1>. QED BY <1>2, <1>3, <1>4, <1>5, <1>6, <1>7

\* A row of the matrix holds all training points of its class, and there is one.
LEMMA RowOfMatrix ==
    ASSUME IInv, pc = "printed", NEW c \in Classes
    PROVE  /\ DOMAIN matrix[c] = Classes /\ IsFiniteSet(Classes)
           /\ \A d \in Classes : /\ matrix[c][d] \in Nat
                                 /\ Entry(c, d) = (100 * matrix[c][d]) \div TrueCount(c)
           /\ Sums(matrix[c], Classes)[Classes] = TrueCount(c)
           /\ TrueCount(c) \in Nat \ {0}
<1>. DEFINE I == DOMAIN dataSet
            Own == {i \in I : Truth(i) = c}
            Given(d) == {i \in Own : names[i] = d}
<1>1. /\ DOMAIN names = I /\ Classes = {Truth(i) : i \in I} /\ IsFiniteSet(I)
      /\ \A i \in I : names[i] \in Classes
  BY PrintedMatrix, DataPoints DEF IInv
<1>2. IsFiniteSet(Classes)
  <2>. DEFINE truth == [i \in I |-> Truth(i)]
  <2>1. IsFiniteSet({truth[i] : i \in I})
    <3>. HIDE DEF truth
    <3>. QED BY <1>1, ImageIsFinite
  <2>. QED BY <1>1, <2>1
<1>3. IsFiniteSet(Own) /\ TrueCount(c) = Cardinality(Own) /\ TrueCount(c) \in Nat \ {0}
  <2>1. Own \subseteq I /\ Own # {} /\ TrueCount(c) = Cardinality(Own)
    BY <1>1 DEF TrueCount
  <2>. HIDE DEF Own
  <2>. QED BY <1>1, <2>1, FS_Subset, CountsAreMonotonic
<1>4. DOMAIN matrix[c] = Classes /\ \A d \in Classes : matrix[c][d] = Cardinality(Given(d))
  <2>1. \A d : {i \in DOMAIN names : Truth(i) = c /\ names[i] = d} = Given(d)
    BY <1>1
  <2>2. matrix[c] = [d \in Classes |->
                        Cardinality({i \in DOMAIN names : Truth(i) = c /\ names[i] = d})]
    BY DEF IInv, MatrixIsCounted
  <2>. HIDE DEF Given
  <2>. QED BY <2>1, <2>2
<1>5. \A d : Cardinality(Given(d)) \in Nat
  BY <1>3, CountsAreMonotonic
<1>6. Sums(matrix[c], Classes)[Classes] = Cardinality({i \in Own : names[i] \in Classes})
  <2>. HIDE DEF Own
  <2>. QED BY <1>2, <1>3, <1>4, CountsAddUp
<1>7. {i \in Own : names[i] \in Classes} = Own
  BY <1>1
<1>8. \A d \in Classes : matrix[c][d] \in Nat
  BY <1>4, <1>5
<1>9. \A d \in Classes : Entry(c, d) = (100 * matrix[c][d]) \div TrueCount(c)
  BY <1>3 DEF Entry
<1>. QED BY <1>2, <1>3, <1>4, <1>6, <1>7, <1>8, <1>9

\* Percentages that are rounded down miss less than one each.
LEMMA PercentagesAddUp ==
    ASSUME NEW t \in Nat \ {0}, NEW n \in Nat \ {0}, NEW p \in Int,
           t * p <= 100 * t, 100 * t <= t * p + (t - 1) * n
    PROVE  p \in (101 - n)..100
<1>1. p <= 100
  <2>. SUFFICES ASSUME p >= 101  PROVE FALSE
    OBVIOUS
  <2>1. t * p >= t * 101
    OBVIOUS
  <2>. QED BY <2>1
<1>2. 100 - p < n
  <2>. SUFFICES ASSUME n <= 100 - p  PROVE FALSE
    OBVIOUS
  <2>1. t * n <= t * (100 - p)
    OBVIOUS
  <2>2. t * (100 - p) = 100 * t - t * p /\ (t - 1) * n = t * n - n
    OBVIOUS
  <2>. QED BY <2>1, <2>2
<1>. QED BY <1>1, <1>2

\* The matrix has every training line in the row of its class, for every file.
THEOREM MatrixIsComplete == Spec => []MatrixAccounts
<1>1. IInv => MatrixAccounts
  <2>. SUFFICES ASSUME IInv, pc = "printed", NEW c \in Classes
                PROVE  /\ SumFunction(matrix[c]) = Cardinality({i \in DOMAIN lines :
                            (IF Len(lines[i]) = 1 THEN Empty ELSE Last(lines[i])) = c})
                       /\ SumFunction(matrix[c]) > 0
                       /\ SumFunction([d \in Classes |-> Entry(c, d)])
                            \in (101 - Cardinality(Classes))..100
    BY DEF MatrixAccounts
  <2>. DEFINE t == TrueCount(c)
              shares == [d \in Classes |-> Entry(c, d)]
              P == Sums(shares, Classes)[Classes]
  <2>1. SumFunction(matrix[c]) = t /\ t \in Nat \ {0} /\ IsFiniteSet(Classes)
    BY RowOfMatrix, SumFunctionIsSums
  <2>2. {i \in DOMAIN lines : (IF Len(lines[i]) = 1 THEN Empty ELSE Last(lines[i])) = c}
          = {i \in DOMAIN dataSet : Truth(i) = c}
    BY PrintedMatrix
  <2>3. SumFunction(shares) = P
    BY SumFunctionIsSums
  <2>4. /\ P \in Int /\ t * P <= 100 * t
        /\ 100 * t <= t * P + (t - 1) * Cardinality(Classes)
    <3>1. \A d \in Classes : shares[d] = (100 * matrix[c][d]) \div t
      BY RowOfMatrix
    <3>. HIDE DEF shares, t
    <3>2. /\ \A d \in Classes : matrix[c][d] \in Nat
          /\ Sums(matrix[c], Classes)[Classes] = t
      BY RowOfMatrix DEF t
    <3>. QED BY ONLY <2>1, <3>1, <3>2, QuotientsAddUp
  <2>5. Cardinality(Classes) \in Nat \ {0}
    BY <2>1, CountsAreMonotonic
  <2>6. P \in (101 - Cardinality(Classes))..100
    <3>. HIDE DEF P, t
    <3>. QED BY ONLY <2>1, <2>4, <2>5, PercentagesAddUp
  <2>7. t = Cardinality({i \in DOMAIN lines :
                            (IF Len(lines[i]) = 1 THEN Empty ELSE Last(lines[i])) = c})
    BY <2>2 DEF TrueCount
  <2>8. t > 0
    BY <2>1
  <2>. QED BY <2>1, <2>3, <2>6, <2>7, <2>8
<1>. QED BY <1>1, Invariance, PTL

\* Well-formed training lines without their classes are the coordinates.
LEMMA ProperLinesAreRead ==
    ASSUME IInv, pc # "threw", \A i \in DOMAIN lines : Proper(lines[i])
    PROVE  /\ DOMAIN lines = DOMAIN dataSet
           /\ \A i \in DOMAIN dataSet :
                /\ lines[i] \in Seq(Texts) /\ Len(lines[i]) >= 3
                /\ dataSet[i].data = Front(lines[i]) /\ Truth(i) = Last(lines[i])
                /\ ~GetPoint(Front(lines[i]), FALSE).thrown
                /\ GetPoint(Front(lines[i]), FALSE).data = Front(lines[i])
<1>1. DOMAIN lines = DOMAIN dataSet
  BY LenProperties DEF IInv, TypeOK, DataIsRead
<1>2. ASSUME NEW i \in DOMAIN dataSet
      PROVE  /\ lines[i] \in Seq(Texts) /\ Len(lines[i]) >= 3
             /\ dataSet[i].data = Front(lines[i]) /\ Truth(i) = Last(lines[i])
             /\ ~GetPoint(Front(lines[i]), FALSE).thrown
             /\ GetPoint(Front(lines[i]), FALSE).data = Front(lines[i])
  <2>1. lines[i] \in Lines
    BY <1>1, LenProperties, ElementOfSeq DEF IInv, TypeOK
  <2>2. lines[i] \in Seq(Texts) /\ Len(lines[i]) >= 3 /\ ToSet(Front(lines[i])) \subseteq Numbers
        /\ Last(lines[i]) # Empty
    BY <1>1, <2>1, LinesAreRead DEF Proper
  <2>3. /\ dataSet[i].data = ReadPoint(lines[i], TRUE).data
        /\ Truth(i) = ReadPoint(lines[i], TRUE).class
    BY DEF IInv, DataIsRead, Truth
  <2>. QED BY <2>2, <2>3, ReadersAgree
<1>. QED BY <1>1, <1>2

\* With K = 1 a training point is named by itself, for every metric and all
\* well-formed files without repeated points.
THEOREM PointsNameThemselves == Spec => []OwnNeighbor
<1>1. IInv => OwnNeighbor
  <2>. SUFFICES ASSUME IInv, k = 1, \A i \in DOMAIN lines : Proper(lines[i]),
                       \A i, j \in DOMAIN lines : i # j => Front(lines[i]) # Front(lines[j])
                PROVE  /\ pc = "classified" => \A i \in DOMAIN lines :
                            Front(lines[i]) = asked => Last(names) = Last(lines[i])
                       /\ pc = "printed" => \A c \in Classes : Entry(c, c) = 100
    BY DEF OwnNeighbor
  <2>1. ASSUME pc = "classified", NEW i \in DOMAIN lines, Front(lines[i]) = asked
        PROVE  Last(names) = Last(lines[i])
    <3>1. /\ DOMAIN lines = DOMAIN dataSet
          /\ \A j \in DOMAIN dataSet : dataSet[j].data = Front(lines[j])
          /\ Truth(i) = Last(lines[i])
          /\ GetPoint(Front(lines[i]), FALSE).data = Front(lines[i])
      BY <2>1, ProperLinesAreRead
    <3>2. Elected(Last(names), query) /\ query = GetPoint(asked, FALSE).data
      BY <2>1, LastNameIsElected DEF IInv, QueryIsCurrent
    <3>3. query = dataSet[i].data
      BY <2>1, <3>1, <3>2
    <3>4. \A j \in DOMAIN dataSet : j # i => dataSet[j].data # dataSet[i].data
      BY <2>1, <3>1
    <3>. QED BY <2>1, <3>1, <3>2, <3>3, <3>4, ElectedByItself DEF IInv
  <2>2. ASSUME pc = "printed", NEW c \in Classes
        PROVE  Entry(c, c) = 100
    <3>1. /\ DOMAIN lines = DOMAIN dataSet
          /\ \A j \in DOMAIN dataSet : dataSet[j].data = Front(lines[j])
      BY <2>2, ProperLinesAreRead
    <3>2. \A i \in DOMAIN dataSet : names[i] = Truth(i)
      <4>. TAKE i \in DOMAIN dataSet
      <4>1. Elected(names[i], dataSet[i].data)
        BY <2>2, PrintedMatrix
      <4>2. \A j \in DOMAIN dataSet : j # i => dataSet[j].data # dataSet[i].data
        BY <3>1
      <4>. QED BY <4>1, <4>2, ElectedByItself DEF IInv
    <3>3. matrix[c][c] = TrueCount(c)
      <4>1. {i \in DOMAIN names : Truth(i) = c /\ names[i] = c}
              = {i \in DOMAIN dataSet : Truth(i) = c}
        BY <2>2, <3>2, PrintedMatrix
      <4>2. matrix[c][c] = Cardinality({i \in DOMAIN names : Truth(i) = c /\ names[i] = c})
        BY <2>2 DEF IInv, MatrixIsCounted
      <4>. QED BY <4>1, <4>2 DEF TrueCount
    <3>4. PICK t \in Nat \ {0} : t = TrueCount(c)
      BY <2>2, RowOfMatrix
    <3>5. Entry(c, c) = (100 * t) \div t
      BY <2>2, <3>3, <3>4, RowOfMatrix
    <3>6. (100 * t) \div t = 100
      BY ONLY <3>4
    <3>. QED BY <3>5, <3>6
  <2>. QED BY <2>1, <2>2
<1>. QED BY <1>1, Invariance, PTL

-----------------------------------------------------------------------------
(* Well-formed files *)

\* Training lines of coordinates and a class, all as long, and a test line of
\* as many coordinates, two at least
WellFormed ==
    /\ \A i \in DOMAIN lines : Proper(lines[i]) /\ Len(lines[i]) = Len(lines[1])
    /\ asked # <<>> =>
        /\ ToSet(asked) \subseteq Numbers /\ Len(asked) >= 2
        /\ \A i \in DOMAIN lines : Len(lines[i]) = Len(asked) + 1

\* The exception that would end the server is not thrown, and quickselect has
\* a result if there are K points.
FilesAreAnswered ==
    /\ pc = "threw" => ~WellFormed
    /\ pc = "undefined" => Len(lines) < k

AnswerInv ==
    /\ pc = "threw" => ~WellFormed
    /\ pc = "undefined" => Len(dataSet) < k

\* What has been read is well-formed if what has been read after it is too.
LEMMA WellFormedBefore ==
    ASSUME IInv, [Next]_vars, WellFormed'
    PROVE  WellFormed
<1>0. Len(lines) \in Nat /\ DOMAIN lines = 1..Len(lines)
  BY LenProperties DEF IInv, TypeOK
<1>1. ASSUME NEW line \in Lines, AddPoint(line)  PROVE WellFormed
  <2>1. lines' = Append(lines, line) /\ asked' = asked /\ asked = <<>>
    BY <1>1 DEF AddPoint, IInv, QueryIsCurrent
  <2>2. /\ DOMAIN lines' = 1..(Len(lines) + 1)
        /\ \A i \in 1..Len(lines) : lines'[i] = lines[i]
    BY <1>0, <2>1, AppendProperties DEF IInv, TypeOK
  <2>3. \A i \in DOMAIN lines : i \in DOMAIN lines' /\ lines'[i] = lines[i] /\ lines'[1] = lines[1]
    BY <1>0, <2>2
  <2>4. \A i \in DOMAIN lines' : Proper(lines'[i]) /\ Len(lines'[i]) = Len(lines'[1])
    BY DEF WellFormed, Proper
  <2>5. \A i \in DOMAIN lines : Proper(lines[i]) /\ Len(lines[i]) = Len(lines[1])
    BY <2>3, <2>4
  <2>. QED BY <2>1, <2>5 DEF WellFormed
<1>2. ASSUME NEW line \in Lines, ClassifyLine(line)  PROVE WellFormed
  BY <1>2 DEF ClassifyLine, training, WellFormed, Proper, IInv, QueryIsCurrent
<1>3. CASE lines' = lines /\ asked' = asked
  BY <1>3 DEF WellFormed, Proper
<1>. QED
  BY <1>1, <1>2, <1>3
     DEF Next, Commands, NearestClass, Over, EndTraining, ComputeMatrix, NextPoint, CountPairs,
         MeasureThrows, TooFewPoints, StartVote, VisitEntry, VoteEnds, vars, training

\* What throws has been given something that is not well-formed.
LEMMA AnswerNext == IInv /\ AnswerInv /\ [Next]_vars => AnswerInv'
<1>. SUFFICES ASSUME IInv, AnswerInv, [Next]_vars  PROVE AnswerInv'
  OBVIOUS
<1>1. ASSUME pc' = "undefined"  PROVE Len(dataSet') < k'
  <2>1. CASE TooFewPoints
    BY <2>1 DEF TooFewPoints, settings, training
  <2>2. CASE UNCHANGED vars
    BY <1>1, <2>2 DEF vars, settings, training, AnswerInv
  <2>. QED
    BY <1>1, <2>1, <2>2
       DEF Next, Commands, NearestClass, Over, AddPoint, EndTraining, ClassifyLine, ComputeMatrix,
           NextPoint, CountPairs, MeasureThrows, StartVote, VisitEntry, VoteEnds
<1>2. ASSUME pc' = "threw", WellFormed'  PROVE FALSE
  <2>0. WellFormed
    BY <1>2, WellFormedBefore
  <2>1. ASSUME NEW line \in Lines, AddPoint(line)  PROVE FALSE
    <3>1. lines' = Append(lines, line) /\ pc = "train"
      BY <2>1 DEF AddPoint
    <3>2. Len(lines) + 1 \in DOMAIN lines' /\ lines'[Len(lines) + 1] = line
      BY <3>1, AppendProperties, LenProperties DEF IInv, TypeOK
    <3>3. Proper(line)
      BY <1>2, <3>2 DEF WellFormed, Proper
    <3>4. ~ReadPoint(line, TRUE).thrown
      BY <3>3, LinesAreRead, ReadersAgree DEF Proper
    <3>5. pc' = "train"
      <4>. PICK p : p = ReadPoint(line, TRUE)
        OBVIOUS
      <4>1. ~p.thrown
        BY <3>4
      <4>. QED BY <2>1, <3>1, <4>1, Zenon DEF AddPoint
    <3>. QED BY <1>2, <3>5
  <2>2. ASSUME NEW line \in Lines, ClassifyLine(line)  PROVE FALSE
    <3>1. line \in Seq(Texts) /\ line # <<>> /\ asked' = line
      BY <2>2, LinesAreRead DEF ClassifyLine
    <3>2. ToSet(line) \subseteq Numbers /\ Len(line) >= 2
      BY <1>2, <3>1 DEF WellFormed
    <3>3. ~GetPoint(line, FALSE).thrown
      BY <3>1, <3>2, GetPointReturns
    <3>4. pc' = "measure"
      <4>. PICK p : p = GetPoint(line, FALSE)
        OBVIOUS
      <4>1. ~p.thrown
        BY <3>3
      <4>. QED BY <2>2, <4>1, Zenon DEF ClassifyLine
    <3>. QED BY <1>2, <3>4
  <2>3. CASE MeasureThrows
    <3>1. pc = "measure" /\ ~Comparable
      BY <2>3 DEF MeasureThrows
    <3>2. \A i \in DOMAIN lines : Proper(lines[i])
      BY <2>0 DEF WellFormed
    <3>3. /\ DOMAIN lines = DOMAIN dataSet
          /\ \A i \in DOMAIN dataSet : /\ dataSet[i].data = Front(lines[i])
                                       /\ lines[i] \in Seq(Texts) /\ Len(lines[i]) >= 3
      BY <3>1, <3>2, ProperLinesAreRead
    <3>4. \A i \in DOMAIN dataSet : Len(dataSet[i].data) = Len(lines[i]) - 1
      <4>. TAKE i \in DOMAIN dataSet
      <4>1. PICK n \in Nat : n = Len(lines[i])
        BY <3>3, LenProperties
      <4>2. lines[i] # <<>>
        BY <3>3, <4>1, EmptySeq
      <4>. QED BY <3>3, <4>2, FrontProperties
    <3>5. CASE asked = <<>>
      <4>1. Len(names) + 1 \in DOMAIN dataSet /\ query = dataSet[Len(names) + 1].data
        BY <3>1, <3>5, LenProperties DEF IInv, TypeOK, QueryIsCurrent
      <4>2. \A i \in DOMAIN dataSet : Len(lines[i]) = Len(lines[1])
        BY <2>0, <3>3 DEF WellFormed
      <4>3. \A i \in DOMAIN dataSet : Len(dataSet[i].data) = Len(query)
        BY <3>4, <4>1, <4>2
      <4>. QED BY <3>1, <4>3 DEF Comparable
    <3>6. CASE asked # <<>>
      <4>1. asked \in Lines /\ query = GetPoint(asked, FALSE).data /\ ~GetPoint(asked, FALSE).thrown
        BY <3>1, <3>6 DEF IInv, QueryIsCurrent
      <4>2. asked \in Seq(Texts) /\ Len(asked) >= 2 /\ Len(asked) \in Nat
            /\ \A i \in DOMAIN lines : Len(lines[i]) = Len(asked) + 1
        BY <2>0, <3>6, <4>1, LinesAreRead, LenProperties DEF WellFormed
      <4>3. query = asked
        BY <3>6, <4>1, <4>2, GetPointReturns
      <4>4. \A i \in DOMAIN dataSet : Len(dataSet[i].data) = Len(query)
        BY <3>3, <3>4, <4>2, <4>3
      <4>. QED BY <3>1, <4>4 DEF Comparable
    <3>. QED BY <3>5, <3>6
  <2>4. CASE UNCHANGED vars
    BY <1>2, <2>0, <2>4 DEF vars, AnswerInv
  <2>. QED
    BY <1>2, <2>1, <2>2, <2>3, <2>4
       DEF Next, Commands, NearestClass, Over, EndTraining, ComputeMatrix,
           NextPoint, CountPairs, TooFewPoints, StartVote, VisitEntry, VoteEnds
<1>. QED BY <1>1, <1>2 DEF AnswerInv

\* Well-formed files never make a reader or a distance function throw, and
\* with K points every question gets an answer.
THEOREM WellFormedFilesAreAnswered == Spec => []FilesAreAnswered
<1>1. Init => AnswerInv
  BY DEF Init, AnswerInv
<1>2. IInv /\ AnswerInv => FilesAreAnswered
  BY DEF IInv, DataIsRead, AnswerInv, FilesAreAnswered
<1>. QED BY <1>1, <1>2, AnswerNext, InvInit, InvNext, PTL DEF Spec
=============================================================================
