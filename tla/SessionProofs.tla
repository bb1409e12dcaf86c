--------------------------- MODULE SessionProofs ---------------------------
(***************************************************************************)
(* Proofs about Session for any bounds, values of K, metrics, files and    *)
(* lengths of points: types, that the heap holds one data set, that        *)
(* Classify_Data has one, and that results on display are current.         *)
(***************************************************************************)
EXTENDS Session, SequenceTheorems, TLAPS

-----------------------------------------------------------------------------
(* The inductive invariant *)

Set == [live : BOOLEAN, size : 0..MaxPoints, dims : SUBSET Dims]
Live == {a \in DOMAIN sets : sets[a].live}

\* The addresses of data sets stay below the bound.
Allocated ==
    /\ Len(sets) <= MaxSets
    /\ pc = "open" => Len(sets) < MaxSets
    /\ pc = "lines" => building # Null

\* What is alive: the data set between commands, nothing when the old one is
\* deleted and the new one not yet allocated, then the new one.
Heap ==
    /\ pc \in ((Asking \cup Telling) \ {"open", "lines"}) \cup {"compute"} =>
          Live = {dataSet} \ {Null}
    /\ pc = "open" => Live = {}
    /\ pc = "lines" => Live = {building}
    /\ pc = "closing" => Live \subseteq {dataSet, building}
    /\ pc = "ended" => Live \subseteq {building}

\* The data set is there before a test file can be named, and never goes.
DataSetFirst == (testFile # NoFile \/ pc = "test") => dataSet # Null

\* The names are current while they are computed and as long as they count.
\* (In Upload_Files is_classified comes too late for the new data set, but
\* nothing can look at the names there.)
Current ==
    (\/ pc = "classify"
     \/ isClassified /\ pc \in {"menu", "display", "save", "download", "compute", "matrix"}) =>
        \A i \in DOMAIN classifiedNames : classifiedNames[i] = Provenance

IInv == TypeOK /\ Allocated /\ Heap /\ DataSetFirst /\ Current

-----------------------------------------------------------------------------
(* The heap *)

\* The data sets that were ever allocated form a sequence.
LEMMA DomainSets ==
    ASSUME TypeOK
    PROVE  sets \in Seq(Set) /\ Len(sets) \in Nat /\ DOMAIN sets = 1..Len(sets)
BY LenProperties DEF TypeOK, Set

\* delete frees one data set.
LEMMA DeleteOne ==
    ASSUME TypeOK, NEW a \in DOMAIN sets, sets' = Deleted(a)
    PROVE  sets' \in Seq(Set) /\ Len(sets') = Len(sets) /\ Live' = Live \ {a}
<1>. DEFINE e == [sets[a] EXCEPT !.live = FALSE]
<1>1. sets \in Seq(Set) /\ DOMAIN sets = 1..Len(sets) /\ sets[a] \in Set
  BY DomainSets, ElementOfSeq
<1>2. e \in Set /\ e.live = FALSE
  BY <1>1 DEF Set
<1>3. sets' = [sets EXCEPT ![a] = e]
  BY DEF Deleted
<1>. HIDE DEF e
<1>4. sets' \in Seq(Set) /\ Len(sets') = Len(sets) /\ DOMAIN sets' = DOMAIN sets
  BY <1>1, <1>2, <1>3, ExceptSeq
<1>5. \A b \in DOMAIN sets : sets'[b] = IF b = a THEN e ELSE sets[b]
  BY <1>3
<1>. QED BY <1>2, <1>4, <1>5 DEF Live

\* new adds one at an address that was not in use.
LEMMA AllocateOne ==
    ASSUME TypeOK, sets' = Append(sets, [live |-> TRUE, size |-> 0, dims |-> {}])
    PROVE  /\ sets' \in Seq(Set) /\ Len(sets') = Len(sets) + 1
           /\ Live' = Live \cup {Len(sets) + 1}
<1>. DEFINE e == [live |-> TRUE, size |-> 0, dims |-> {}]
<1>1. sets \in Seq(Set) /\ DOMAIN sets = 1..Len(sets) /\ Len(sets) \in Nat
  BY DomainSets
<1>2. e \in Set /\ e.live
  BY SessionAssumption DEF Set
<1>. HIDE DEF e
<1>3. sets' = Append(sets, e)
  BY DEF e
<1>4. /\ sets' \in Seq(Set) /\ Len(sets') = Len(sets) + 1
      /\ sets'[Len(sets) + 1] = e /\ \A b \in 1..Len(sets) : sets'[b] = sets[b]
      /\ DOMAIN sets' = 1..(Len(sets) + 1)
  BY <1>1, <1>2, <1>3, AppendProperties, LenProperties
<1>. QED BY <1>1, <1>2, <1>4 DEF Live

\* Adding a point changes no address.
LEMMA AddOne ==
    ASSUME IInv, NEW d \in Dims, TrainPoint(d)
    PROVE  sets' \in Seq(Set) /\ Len(sets') = Len(sets) /\ Live' = Live
<1>. DEFINE a == building
            e == [sets[a] EXCEPT !.size = @ + 1, !.dims = @ \cup {d}]
<1>1. /\ sets \in Seq(Set) /\ DOMAIN sets = 1..Len(sets)
      /\ a \in DOMAIN sets /\ sets[a] \in Set
  BY DomainSets, ElementOfSeq DEF IInv, TypeOK, Allocated, TrainPoint, Goto
<1>2. e \in Set /\ e.live = sets[a].live
  <2>1. MaxPoints \in Nat /\ sets[a].size \in 0..MaxPoints /\ sets[a].size < MaxPoints
    BY <1>1, SessionAssumption DEF TrainPoint, Set
  <2>2. sets[a].size + 1 \in 0..MaxPoints /\ sets[a].dims \cup {d} \in SUBSET Dims
    BY <1>1, <2>1 DEF Set
  <2>. QED BY <1>1, <2>2 DEF Set
<1>3. sets' = [sets EXCEPT ![a] = e]
  BY <1>1 DEF TrainPoint
<1>. HIDE DEF e
<1>4. sets' \in Seq(Set) /\ Len(sets') = Len(sets) /\ DOMAIN sets' = DOMAIN sets
  BY <1>1, <1>2, <1>3, ExceptSeq
<1>5. \A b \in DOMAIN sets : sets'[b] = IF b = a THEN e ELSE sets[b]
  BY <1>3
<1>. QED BY <1>2, <1>4, <1>5 DEF Live

-----------------------------------------------------------------------------
(* Every step keeps the invariant *)

\* A step that moves between places of equal standing, and changes neither the
\* heap nor the settings, is harmless; so is one that ends the session.
LEMMA Stays ==
    ASSUME IInv, UNCHANGED <<sets, building, settings>>,
           conn' \in {"open", "fin", "reset", "broken", "closed"},
           \/ pc' = pc /\ fault' = fault
           \/ /\ pc' = "dead" /\ pc # "dead"
              /\ fault' \in {"out_of_range", "invalid_argument", "SIGPIPE",
                             "SIGSEGV", "SIGFPE", "double_delete"}
           \/ pc' = "closing" /\ pc \in Asking \cup Telling /\ fault' = fault
    PROVE  IInv'
<1>1. TypeOK'
  BY DEF IInv, TypeOK, settings, Asking, Telling
<1>2. Allocated' /\ DataSetFirst'
  BY DEF IInv, Allocated, DataSetFirst, settings
<1>3. Live' = Live
  BY DEF Live
<1>4. Heap'
  BY <1>3 DEF IInv, Heap, settings, Asking, Telling
<1>5. Provenance' = Provenance
  BY DEF Provenance, settings
<1>6. Current'
  BY <1>5 DEF IInv, Current, settings
<1>. QED BY <1>1, <1>2, <1>4, <1>6 DEF IInv

\* So is one between the menu and the commands that change nothing.
Quiet == {"menu", "display", "save", "download", "compute", "matrix"}

\* A step from one question to the next that changes no object
LEMMA Moves ==
    ASSUME IInv, UNCHANGED <<sets, building, settings, fault>>,
           conn' \in {"open", "fin", "reset", "broken", "closed"},
           \/ pc \in Quiet /\ pc' \in Quiet \cup {"train", "settings"}
           \/ pc = "train" /\ pc' = "test" /\ dataSet # Null
    PROVE  IInv'
<1>1. TypeOK'
  BY DEF IInv, TypeOK, settings, Asking, Telling, Quiet
<1>2. Allocated' /\ DataSetFirst'
  BY DEF IInv, Allocated, DataSetFirst, settings, Quiet
<1>3. Live' = Live
  BY DEF Live
<1>4. Heap'
  BY <1>3 DEF IInv, Heap, settings, Asking, Telling, Quiet
<1>5. Provenance' = Provenance
  BY DEF Provenance, settings
<1>6. Current'
  BY <1>5 DEF IInv, Current, settings, Quiet
<1>. QED BY <1>1, <1>2, <1>4, <1>6 DEF IInv

\* The menu: Classify_Data starts with no names.
LEMMA StepChoose ==
    ASSUME IInv, NEW c \in Command, Choose(c)
    PROVE  IInv'
<1>0. conn' = conn /\ conn = "open" /\ UNCHANGED <<fault, memory>>
  BY DEF Choose, Answered, Goto
<1>1. CASE c = "classify"
  <2>1. /\ pc = "menu" /\ pc' = "classify" /\ classifiedNames' = << >>
        /\ UNCHANGED <<conn, fault, sets, building, dataSet, kValue,
                       distanceMetric, testFile, isClassified>>
    BY <1>0, <1>1 DEF Choose, Goto, memory
  <2>2. << >> \in Seq(Provenances) /\ DOMAIN << >> = {}
    BY EmptySeq
  <2>3. TypeOK'
    BY <2>1, <2>2 DEF IInv, TypeOK, Asking
  <2>4. Live' = Live
    BY <2>1 DEF Live
  <2>5. Allocated' /\ DataSetFirst' /\ Heap'
    BY <2>1, <2>4 DEF IInv, Allocated, DataSetFirst, Heap, Asking, Telling
  <2>6. Current'
    BY <2>1, <2>2 DEF Current
  <2>. QED BY <2>3, <2>5, <2>6 DEF IInv
<1>2. CASE c # "classify"
  <2>1. /\ pc = "menu" /\ pc' \in Quiet \cup {"train", "settings"}
        /\ UNCHANGED <<sets, building, settings, fault>>
    BY <1>0, <1>2 DEF Choose, Goto, Command, Quiet, memory, settings
  <2>. QED BY <1>0, <2>1, Moves DEF Quiet
<1>. QED BY <1>1, <1>2

\* Upload_Files
LEMMA StepOpen ==
    ASSUME IInv, OpenTrain
    PROVE  IInv'
<1>1. /\ pc = "train" /\ pc' = "open" /\ conn' = conn /\ Len(sets) < MaxSets
      /\ sets' = IF dataSet # Null THEN Deleted(dataSet) ELSE sets
      /\ UNCHANGED <<fault, building, settings>>
  BY DEF OpenTrain, Goto, Answered
<1>2. /\ sets' \in Seq(Set) /\ Len(sets') = Len(sets)
      /\ Live' = Live \ {dataSet}
  <2>1. CASE dataSet = Null
    <3>1. Null \notin Live
      BY DomainSets DEF IInv, Live, Null
    <3>. QED BY <1>1, <2>1, <3>1, DomainSets DEF IInv, Live
  <2>2. CASE dataSet # Null
    <3>1. dataSet \in DOMAIN sets
      BY <2>2 DEF IInv, TypeOK
    <3>. QED BY <1>1, <2>2, <3>1, DeleteOne DEF IInv
  <2>. QED BY <2>1, <2>2
<1>3. DOMAIN sets' = DOMAIN sets
  BY <1>2, DomainSets, LenProperties DEF IInv
<1>4. TypeOK'
  BY <1>1, <1>2, <1>3 DEF IInv, TypeOK, settings, Telling, Set
<1>5. Live' = {}
  BY <1>1, <1>2 DEF IInv, Heap, Asking
<1>6. Allocated' /\ DataSetFirst' /\ Heap' /\ Current'
  BY <1>1, <1>2, <1>5
     DEF IInv, Allocated, DataSetFirst, Heap, Current, settings, Asking, Telling
<1>. QED BY <1>4, <1>6 DEF IInv

\* The upload allocates its data set.
LEMMA StepAllocate ==
    ASSUME IInv, AllocateTrain
    PROVE  IInv'
<1>1. /\ pc = "open" /\ pc' = "lines"
      /\ conn' \in {"open", "fin", "reset", "broken", "closed"}
      /\ sets' = Append(sets, [live |-> TRUE, size |-> 0, dims |-> {}])
      /\ building' = Len(sets') /\ UNCHANGED <<fault, settings>>
  BY DEF AllocateTrain, Goto, Sent
<1>2. /\ sets' \in Seq(Set) /\ Len(sets') = Len(sets) + 1
      /\ Live' = Live \cup {Len(sets) + 1}
  BY <1>1, AllocateOne DEF IInv
<1>3. /\ Len(sets) \in Nat /\ DOMAIN sets = 1..Len(sets)
      /\ DOMAIN sets' = 1..Len(sets') /\ MaxSets \in Nat
  BY <1>2, DomainSets, LenProperties, SessionAssumption DEF IInv
<1>4. /\ building' \in DOMAIN sets' /\ building' # Null
      /\ {dataSet} \subseteq {Null} \cup DOMAIN sets'
  BY <1>1, <1>2, <1>3 DEF IInv, TypeOK, Null
<1>5. TypeOK'
  BY <1>1, <1>2, <1>4 DEF IInv, TypeOK, settings, Asking, Set
<1>6. Live' = {building'}
  BY <1>1, <1>2 DEF IInv, Heap
<1>7. Allocated'
  BY <1>1, <1>2, <1>3, <1>4 DEF IInv, Allocated
<1>8. DataSetFirst' /\ Heap' /\ Current'
  BY <1>1, <1>6 DEF IInv, DataSetFirst, Heap, Current, settings, Asking, Telling
<1>. QED BY <1>5, <1>7, <1>8 DEF IInv

\* The upload adds a point to it.
LEMMA StepPoint ==
    ASSUME IInv, NEW d \in Dims, TrainPoint(d)
    PROVE  IInv'
<1>1. /\ pc = "lines" /\ pc' = pc /\ conn' = conn
      /\ UNCHANGED <<fault, building, settings>>
  BY DEF TrainPoint, Goto, Answered
<1>2. sets' \in Seq(Set) /\ Len(sets') = Len(sets) /\ Live' = Live
  BY AddOne
<1>3. DOMAIN sets' = DOMAIN sets
  BY <1>2, DomainSets, LenProperties DEF IInv
<1>4. TypeOK'
  BY <1>1, <1>2, <1>3 DEF IInv, TypeOK, settings, Asking, Set
<1>5. Allocated' /\ DataSetFirst' /\ Heap' /\ Current'
  BY <1>1, <1>2 DEF IInv, Allocated, DataSetFirst, Heap, Current, settings,
                    Asking, Telling
<1>. QED BY <1>4, <1>5 DEF IInv

\* The upload's data set becomes the current one.
LEMMA StepTrainEnd ==
    ASSUME IInv, TrainEnd
    PROVE  IInv'
<1>1. /\ pc = "lines" /\ pc' = "test" /\ conn' = conn
      /\ dataSet' = building /\ building' = Null /\ building # Null
      /\ UNCHANGED <<fault, sets, kValue, distanceMetric, testFile, isClassified,
                     classifiedNames>>
  BY DEF TrainEnd, Goto, Answered, IInv, Allocated
<1>2. TypeOK'
  BY <1>1 DEF IInv, TypeOK, Asking
<1>3. Live' = {building}
  BY <1>1 DEF IInv, Heap, Live
<1>4. Allocated' /\ DataSetFirst' /\ Heap' /\ Current'
  BY <1>1, <1>3 DEF IInv, Allocated, DataSetFirst, Heap, Current, Asking, Telling
<1>. QED BY <1>2, <1>4 DEF IInv

\* Naming a test file, or new settings, makes the names count no more.
LEMMA StepName ==
    ASSUME IInv,
           \/ \E f \in TestFiles \cup {NoFile} : NameTestFile(f)
           \/ \E k \in Ks, m \in Metrics : SetSettings(k, m)
    PROVE  IInv'
<1>1. /\ pc \in {"test", "settings"} /\ pc' = "menu" /\ conn' = conn
      /\ kValue' \in 1..10 /\ distanceMetric' \in Metrics
      /\ testFile' \in TestFiles \cup {NoFile}
      /\ testFile' = testFile \/ pc = "test"
      /\ isClassified' = FALSE
      /\ UNCHANGED <<fault, sets, building, dataSet, classifiedNames>>
  BY SessionAssumption DEF NameTestFile, SetSettings, Goto, Answered, IInv, TypeOK, memory
<1>2. TypeOK'
  BY <1>1 DEF IInv, TypeOK, Asking
<1>3. Live' = Live
  BY <1>1 DEF Live
<1>4. Allocated' /\ DataSetFirst' /\ Heap' /\ Current'
  BY <1>1, <1>3 DEF IInv, Allocated, DataSetFirst, Heap, Current, Asking, Telling
<1>. QED BY <1>2, <1>4 DEF IInv

\* Classify_Data
LEMMA StepClassify ==
    ASSUME IInv, NEW d \in Dims, ClassifyPoint(d)
    PROVE  IInv'
<1>1. /\ pc = "classify" /\ pc' = pc /\ conn' = conn
      /\ testFile # NoFile /\ dataSet # Null
      /\ classifiedNames' = Append(classifiedNames, Provenance)
      /\ UNCHANGED <<fault, sets, building, dataSet, kValue, distanceMetric,
                     testFile, isClassified>>
  BY DEF ClassifyPoint, Goto, Answered, memory
<1>2. Provenance \in Provenances
  <2>1. dataSet \in 1..MaxSets
    BY <1>1, DomainSets, SessionAssumption DEF IInv, TypeOK, Allocated
  <2>. QED BY <1>1, <2>1 DEF IInv, TypeOK, Provenance, Provenances
<1>3. /\ classifiedNames' \in Seq(Provenances)
      /\ \A i \in DOMAIN classifiedNames' :
            \/ i \in DOMAIN classifiedNames /\ classifiedNames'[i] = classifiedNames[i]
            \/ classifiedNames'[i] = Provenance
  <2>1. classifiedNames \in Seq(Provenances)
    BY DEF IInv, TypeOK
  <2>. DEFINE p == Provenance  s == classifiedNames
  <2>2. p \in Provenances
    BY <1>2
  <2>. HIDE DEF p
  <2>3. /\ Append(s, p) \in Seq(Provenances) /\ Len(Append(s, p)) = Len(s) + 1
        /\ \A i \in 1..Len(s) : Append(s, p)[i] = s[i]
        /\ Append(s, p)[Len(s) + 1] = p
    BY <2>1, <2>2, AppendProperties
  <2>4. /\ Len(s) \in Nat /\ DOMAIN s = 1..Len(s)
        /\ DOMAIN Append(s, p) = 1..(Len(s) + 1)
    BY <2>1, <2>3, LenProperties
  <2>5. \A i \in 1..(Len(s) + 1) : i \in 1..Len(s) \/ i = Len(s) + 1
    BY <2>4
  <2>. QED BY <1>1, <2>3, <2>4, <2>5 DEF p
<1>4. TypeOK'
  BY <1>1, <1>3 DEF IInv, TypeOK
<1>5. Live' = Live /\ Provenance' = Provenance
  BY <1>1 DEF Live, Provenance
<1>6. Allocated' /\ DataSetFirst' /\ Heap'
  BY <1>1, <1>5 DEF IInv, Allocated, DataSetFirst, Heap, Asking, Telling
<1>7. Current'
  BY <1>1, <1>3, <1>5 DEF IInv, Current
<1>. QED BY <1>4, <1>6, <1>7 DEF IInv

\* Classify_Data sets the flag after its last name.
LEMMA StepClassifyEnd ==
    ASSUME IInv, ClassifyEnd
    PROVE  IInv'
<1>1. /\ pc = "classify" /\ pc' = "menu" /\ conn' = conn /\ isClassified' = TRUE
      /\ UNCHANGED <<fault, sets, building, dataSet, kValue, distanceMetric,
                     testFile, classifiedNames>>
  BY DEF ClassifyEnd, Goto, Answered, memory
<1>2. TypeOK'
  BY <1>1 DEF IInv, TypeOK, Asking
<1>3. Live' = Live /\ Provenance' = Provenance
  BY <1>1 DEF Live, Provenance
<1>4. Allocated' /\ DataSetFirst' /\ Heap' /\ Current'
  BY <1>1, <1>3 DEF IInv, Allocated, DataSetFirst, Heap, Current, Asking, Telling
<1>. QED BY <1>2, <1>4 DEF IInv

\* The end of the session deletes the data set that the settings point to.
LEMMA StepClose ==
    ASSUME IInv, Close
    PROVE  IInv'
<1>1. CASE dataSet # Null /\ ~sets[dataSet].live
  BY <1>1, Stays DEF Close, Terminates, settings
<1>2. CASE dataSet = Null \/ sets[dataSet].live
  <2>1. /\ pc = "closing" /\ pc' = "ended" /\ conn' = "closed"
        /\ sets' = IF dataSet = Null THEN sets ELSE Deleted(dataSet)
        /\ UNCHANGED <<fault, building, settings>>
    BY <1>2 DEF Close, Goto
  <2>2. /\ sets' \in Seq(Set) /\ Len(sets') = Len(sets)
        /\ Live' = Live \ {dataSet}
    <3>1. CASE dataSet = Null
      <4>1. Null \notin Live
        BY DomainSets DEF IInv, Live, Null
      <4>. QED BY <2>1, <3>1, <4>1, DomainSets DEF IInv, Live
    <3>2. CASE dataSet # Null
      <4>1. dataSet \in DOMAIN sets
        BY <3>2 DEF IInv, TypeOK
      <4>. QED BY <2>1, <3>2, <4>1, DeleteOne DEF IInv
    <3>. QED BY <3>1, <3>2
  <2>3. DOMAIN sets' = DOMAIN sets
    BY <2>2, DomainSets, LenProperties DEF IInv
  <2>4. TypeOK'
    BY <2>1, <2>2, <2>3 DEF IInv, TypeOK, settings, Set
  <2>5. Live' \subseteq {building'}
    BY <2>1, <2>2 DEF IInv, Heap
  <2>6. Allocated' /\ DataSetFirst' /\ Heap' /\ Current'
    BY <2>1, <2>2, <2>5
       DEF IInv, Allocated, DataSetFirst, Heap, Current, settings, Asking, Telling
  <2>. QED BY <2>4, <2>6 DEF IInv
<1>. QED BY <1>1, <1>2

\* The invariant holds when the session starts.
LEMMA InitInv == Init => IInv
<1>. SUFFICES ASSUME Init  PROVE IInv
  OBVIOUS
<1>. USE DEF Init
<1>1. << >> \in Seq(Set) /\ << >> \in Seq(Provenances) /\ Len(<< >>) = 0 /\ DOMAIN << >> = {}
  BY EmptySeq
<1>2. TypeOK
  BY <1>1, SessionAssumption DEF TypeOK, Set, Asking
<1>3. Live = {}
  BY <1>1 DEF Live
<1>4. Allocated /\ Heap /\ DataSetFirst /\ Current
  BY <1>1, <1>3, SessionAssumption DEF Allocated, Heap, DataSetFirst, Current
<1>. QED BY <1>2, <1>4 DEF IInv

\* Every step keeps it.
LEMMA StepInv == IInv /\ [Next]_vars => IInv'
<1>. SUFFICES ASSUME IInv, [Next]_vars  PROVE IInv'
  OBVIOUS
<1>0. TypeOK
  BY DEF IInv
<1>1. CASE UserStep
  <2>1. CASE ChooseInvalid \/ RefuseSettings
    BY <1>0, <2>1, Stays DEF ChooseInvalid, RefuseSettings, Goto, Answered, memory
  <2>2. CASE ChooseHuge \/ TrainBadNumber \/ SettingsNotANumber
    BY <1>0, <2>2, Stays
       DEF ChooseHuge, TrainBadNumber, SettingsNotANumber, BadNumber, Terminates, Answered, memory
  <2>3. CASE Exit
    BY <1>0, <2>3, Stays DEF Exit, Goto, Answered, memory, Asking
  <2>4. ASSUME NEW c \in Command, Choose(c)  PROVE IInv'
    BY <2>4, StepChoose
  <2>5. CASE SkipTrain
    <3>1. CASE dataSet # Null
      BY <2>5, <3>1, Moves DEF SkipTrain, Goto, Answered, memory
    <3>2. CASE dataSet = Null
      BY <2>5, <3>2, Stays DEF SkipTrain, Goto, Answered, memory
    <3>. QED BY <3>1, <3>2
  <2>6. CASE OpenTrain \/ TrainEnd \/ ClassifyEnd
    BY <2>6, StepOpen, StepTrainEnd, StepClassifyEnd
  <2>7. ASSUME NEW d \in Dims, TrainPoint(d) \/ ClassifyPoint(d)  PROVE IInv'
    BY <2>7, StepPoint, StepClassify
  <2>8. ASSUME NEW d \in Dims, ClassifyFails(d)  PROVE IInv'
    <3>1. NearestClass(d) \subseteq {"class", "SIGFPE", "SIGSEGV", "invalid_argument"}
      BY DEF NearestClass
    <3>. QED BY <1>0, <2>8, <3>1, Stays DEF ClassifyFails, BadNumber, Terminates, Answered, memory
  <2>9. CASE \E f \in TestFiles \cup {NoFile} : NameTestFile(f)
    BY <2>9, StepName
  <2>10. CASE \E k \in Ks, m \in Metrics : SetSettings(k, m)
    BY <2>10, StepName
  <2>11. CASE NameResultsFile
    BY <2>11, Moves DEF NameResultsFile, Goto, Answered, memory, Quiet
  <2>. QED
    BY <1>1, <2>1, <2>2, <2>3, <2>4, <2>5, <2>6, <2>7, <2>8, <2>9, <2>10, <2>11
       DEF UserStep
<1>2. CASE ServerStep
  <2>1. CASE CallThrows
    BY <2>1, Stays DEF CallThrows, memory
  <2>2. CASE SendKills \/ CloseKills
    BY <1>0, <2>2, Stays DEF SendKills, CloseKills, Terminates, memory, Asking, Telling
  <2>3. CASE AllocateTrain \/ Close
    BY <2>3, StepAllocate, StepClose
  <2>4. CASE ComputeMatrix
    BY <1>0, <2>4, Moves DEF ComputeMatrix, Goto, memory, Quiet, TypeOK
  <2>5. CASE ComputeFails
    <3>1. \A d : NearestClass(d) \subseteq {"class", "SIGFPE", "SIGSEGV", "invalid_argument"}
      BY DEF NearestClass
    <3>2. PICK why \in {"SIGFPE", "SIGSEGV", "invalid_argument"} : Terminates(why)
      BY <2>5, <3>1 DEF ComputeFails
    <3>3. /\ pc = "compute" /\ pc' = "dead" /\ fault' = why
          /\ conn' = conn /\ UNCHANGED <<sets, building, settings>>
      BY <2>5, <3>2 DEF ComputeFails, Terminates, memory
    <3>4. conn \in {"open", "fin", "reset", "broken", "closed"}
      BY <1>0 DEF TypeOK
    <3>. QED BY <3>3, <3>4, Stays
  <2>6. CASE ShowMatrix \/ Display \/ Download
    BY <2>6, Moves DEF ShowMatrix, Display, Download, Goto, Sent, memory, Quiet
  <2>. QED BY <1>2, <2>1, <2>2, <2>3, <2>4, <2>5, <2>6 DEF ServerStep
<1>3. CASE Hangup
  BY <1>3, Stays DEF Hangup, memory
<1>4. CASE UNCHANGED vars
  BY <1>0, <1>4, Stays DEF vars, memory, TypeOK
<1>. QED BY <1>1, <1>2, <1>3, <1>4 DEF Next, Over

-----------------------------------------------------------------------------
(* The theorems *)

\* CLI::start and its commands keep the invariant.
THEOREM Invariance == SafetySpec => []IInv
<1>. QED BY InitInv, StepInv, PTL DEF SafetySpec

\* The settings and the heap keep their types; no address is ever one that was
\* not allocated.
THEOREM TypeCorrectness == SafetySpec => []TypeOK
<1>1. IInv => TypeOK
  BY DEF IInv
<1>. QED BY <1>1, Invariance, PTL

\* What Display_Results and Download_Results show was computed from the
\* settings in force, for any sequence of commands.
THEOREM ShownResultsAreCurrent == SafetySpec => []ResultsCurrent
<1>1. IInv => ResultsCurrent
  BY DEF IInv, Current, ResultsCurrent
<1>. QED BY <1>1, Invariance, PTL

\* Between the commands one data set is alive, the one of the settings.
THEOREM HeapHoldsTheDataSet == SafetySpec => []OneDataSet
<1>1. IInv => OneDataSet
  BY DEF IInv, Heap, Live, OneDataSet
<1>. QED BY <1>1, Invariance, PTL

\* When a test file has been named, Classify_Data runs with a data set that is
\* there and has not been freed.
THEOREM ClassifyIsSafe == SafetySpec => []ClassifyHasDataSet
<1>1. IInv => ClassifyHasDataSet
  <2>. SUFFICES ASSUME IInv, pc = "classify", testFile # NoFile
                PROVE  dataSet # Null /\ sets[dataSet].live
    BY DEF ClassifyHasDataSet
  <2>1. dataSet # Null
    BY DEF IInv, DataSetFirst
  <2>2. Live = {dataSet} \ {Null}
    BY DEF IInv, Heap, Asking
  <2>. QED BY <2>1, <2>2 DEF Live
<1>. QED BY <1>1, Invariance, PTL

\* A session that has ended leaves at most the data set whose upload was
\* interrupted.
THEOREM NothingElseLeaks == SafetySpec => []OnlyInterruptedUploadLeaks
<1>1. IInv => OnlyInterruptedUploadLeaks
  BY DEF IInv, Heap, Live, OnlyInterruptedUploadLeaks
<1>. QED BY <1>1, Invariance, PTL
=============================================================================
