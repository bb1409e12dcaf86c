------------------------------ MODULE Session ------------------------------
(***************************************************************************)
(* One client's session: CLI::start and the six commands of                *)
(* server/src/cli.cpp, over a connection that may break at any time.       *)
(*                                                                         *)
(* A step is an exchange: everything the server sends up to the next thing *)
(* it waits for, and the reply, or the burst of messages that ends a       *)
(* command.  Nothing else changes between the messages of one burst, so    *)
(* only how the burst ends matters: it goes through, one of its calls      *)
(* throws std::ios_base::failure, or the process gets SIGPIPE.             *)
(***************************************************************************)
EXTENDS Naturals, Sequences, FiniteSets

CONSTANTS Ks,           \* the values of K the user may ask for, among 1..10
          DefaultK,     \* K of a new session; 5 in the code
          Metrics,      \* the keys of distance_map
          DefaultMetric,\* "EUC" in the code
          TestFiles,    \* names of test files
          NoFile,       \* the empty name of a session without a test file
          Dims,         \* numbers of coordinates that points may have
          MaxSets,      \* bound on the data sets a session uploads
          MaxPoints,    \* bound on the points of a data set
          MaxLines      \* bound on the points of a test file

ASSUME SessionAssumption ==
    /\ Ks \subseteq 1..10 /\ DefaultK \in 1..10
    /\ DefaultMetric \in Metrics
    /\ NoFile \notin TestFiles
    /\ {MaxSets, MaxPoints, MaxLines} \subseteq Nat

VARIABLES pc,               \* what the session waits for
          fault,            \* what ended the process, or "none"
          conn,             \* the server's end of the connection
          sets,             \* every DataSet that was allocated, by address
          building,         \* the local dataset of initialize_dataset, or Null
          dataSet, kValue, distanceMetric, testFile, isClassified,
          classifiedNames   \* the members of CLI::Settings; of a name, what
                            \* it was computed from

settings == <<dataSet, kValue, distanceMetric, testFile, isClassified,
              classifiedNames>>
memory == <<sets, building>>
vars == <<pc, fault, conn, memory, settings>>

\* nullptr; the address of a data set is its index in sets
Null == 0

Init ==
    /\ pc = "menu"
    /\ fault = "none"
    /\ conn = "open"
    /\ sets = <<>>
    /\ building = Null
    /\ dataSet = Null
    /\ kValue = DefaultK
    /\ distanceMetric = DefaultMetric
    /\ testFile = NoFile
    /\ isClassified = FALSE
    /\ classifiedNames = <<>>

-----------------------------------------------------------------------------
(* The connection: "open"; "fin" after the client closed its end; "reset"  *)
(* when a reset arrived and its error is not yet reported; "broken" when   *)
(* it was; "closed" by the server.                                         *)

Hangup ==
    /\ conn = "open"
    /\ pc \notin {"ended", "dead"}
    /\ conn' \in {"fin", "reset"}
    /\ UNCHANGED <<pc, fault, memory, settings>>

\* The client was sent something and has answered.
Answered == conn = "open" /\ UNCHANGED conn

\* A send to a client that is gone succeeds, and is answered with a reset.
Sent ==
    \/ conn = "open" /\ UNCHANGED conn
    \/ conn = "fin" /\ conn' \in {"fin", "broken"}

\* Where the next exchange ends with an answer, and where it only sends
Asking == {"menu", "train", "lines", "test", "settings", "classify", "save"}
Telling == {"open", "display", "download", "matrix"}

\* receive finds the end of the stream or the error of the reset, or send
\* finds the error: the loop of CLI::start catches the failure and breaks.
CallThrows ==
    /\ \/ conn = "fin" /\ pc \in Asking /\ conn' \in {"fin", "broken"}
       \/ conn = "reset" /\ pc \in Asking \cup Telling /\ conn' = "broken"
    /\ pc' = "closing"
    /\ UNCHANGED <<fault, memory, settings>>

Terminates(why) ==
    /\ pc' = "dead"
    /\ fault' = why

\* mutant: SIGPIPE is ignored, and so is the error that send returns then
SendIgnored ==
    /\ pc \in Asking \cup Telling
    /\ conn \in {"fin", "broken"}
    /\ pc' = "menu"
    /\ UNCHANGED <<fault, conn, memory, settings>>

\* The default action of SIGPIPE ends the process: send never returns -1 to
\* a server that writes once more to a connection known to be broken.  It may
\* happen in every exchange here, also in those of the code with only one send,
\* which a client that has just left does not yet answer.
SendKills ==
    /\ pc \in Asking \cup Telling
    /\ conn \in {"fin", "broken"}
    /\ Terminates("SIGPIPE")
    /\ UNCHANGED <<conn, memory, settings>>

\* What stoi and stod throw
BadNumber == {"invalid_argument", "out_of_range"}

Goto(from, to) ==
    /\ pc = from
    /\ pc' = to
    /\ UNCHANGED fault

-----------------------------------------------------------------------------
(* CLI::start: the menu, and the choice *)

Command == {"train", "settings", "classify", "display", "save", "compute"}

\* An unknown number, or no number at all, is an invalid command.
ChooseInvalid ==
    /\ Goto("menu", "menu")
    /\ Answered
    /\ UNCHANGED <<memory, settings>>

\* std::stoi throws out_of_range for a number that is too large for an int;
\* nothing up to the thread's function catches it.
ChooseHuge ==
    /\ pc = "menu"
    /\ Answered
    /\ Terminates("out_of_range")
    /\ UNCHANGED <<memory, settings>>

\* Display_Results and Download_Results refuse to run before a classification
\* and return to the menu; Classify_Data forgets the names it has.
Choose(c) ==
    /\ Goto("menu", IF c \in {"display", "save"} /\ ~isClassified THEN "menu" ELSE c)
    /\ Answered
    /\ classifiedNames' = IF c = "classify" THEN <<>> ELSE classifiedNames
    /\ UNCHANGED <<memory, dataSet, kValue, distanceMetric, testFile, isClassified>>

Exit ==
    /\ Goto("menu", "closing")
    /\ Answered
    /\ UNCHANGED <<memory, settings>>

-----------------------------------------------------------------------------
(* Upload_Files *)

Deleted(a) == [sets EXCEPT ![a].live = FALSE]

\* mutant: the skip is taken even when there is nothing to leave unchanged
SkipTrainAlways ==
    /\ Goto("train", "test")
    /\ Answered
    /\ UNCHANGED <<memory, settings>>

\* "!" leaves the train file unchanged, or is refused when there is none
SkipTrain ==
    /\ Goto("train", IF dataSet # Null THEN "test" ELSE "train")
    /\ Answered
    /\ UNCHANGED <<memory, settings>>

\* mutant: the data set that is replaced is not deleted
OpenTrainLeaks ==
    /\ Goto("train", "open")
    /\ Answered
    /\ Len(sets) < MaxSets
    /\ UNCHANGED <<memory, settings>>

\* The old data set is deleted before the new one is read; settings.data_set
\* still points to it.
OpenTrain ==
    /\ Goto("train", "open")
    /\ Answered
    /\ Len(sets) < MaxSets
    /\ sets' = IF dataSet # Null THEN Deleted(dataSet) ELSE sets
    /\ UNCHANGED <<building, settings>>

\* open_input has gone out, and initialize_dataset allocates a data set.
AllocateTrain ==
    /\ Goto("open", "lines")
    /\ Sent
    /\ sets' = Append(sets, [live |-> TRUE, size |-> 0, dims |-> {}])
    /\ building' = Len(sets')
    /\ UNCHANGED settings

TrainPoint(d) ==
    /\ Goto("lines", "lines")
    /\ Answered
    /\ sets[building].size < MaxPoints
    /\ sets' = [sets EXCEPT ![building].size = @ + 1, ![building].dims = @ \cup {d}]
    /\ UNCHANGED <<building, settings>>

\* stod throws for a field that is no number or too large a one; nothing
\* catches either exception
TrainBadNumber ==
    /\ pc = "lines"
    /\ Answered
    /\ \E why \in BadNumber : Terminates(why)
    /\ UNCHANGED <<memory, settings>>

\* An empty line, or the end of the file, ends the data set.
TrainEnd ==
    /\ Goto("lines", "test")
    /\ Answered
    /\ dataSet' = building
    /\ building' = Null
    /\ UNCHANGED <<sets, kValue, distanceMetric, testFile, isClassified,
                   classifiedNames>>

\* mutant: the results of the last classification stay valid
NameTestFileKeepsResults(f) ==
    /\ Goto("test", "menu")
    /\ Answered
    /\ testFile' = f
    /\ UNCHANGED <<memory, dataSet, kValue, distanceMetric, isClassified,
                   classifiedNames>>

\* The name is empty when the client's user has closed its input.
NameTestFile(f) ==
    /\ Goto("test", "menu")
    /\ Answered
    /\ testFile' = f
    /\ isClassified' = FALSE
    /\ UNCHANGED <<memory, dataSet, kValue, distanceMetric, classifiedNames>>

-----------------------------------------------------------------------------
(* Algorithm_Settings *)

\* mutant: the test of K's range is wrong and lets any number through
RefuseSettingsNot ==
    /\ Goto("settings", "menu")
    /\ Answered
    /\ kValue' \in {0, 11}
    /\ UNCHANGED <<memory, dataSet, distanceMetric, testFile, isClassified,
                   classifiedNames>>

\* K outside 1..10 or a metric that is not in distance_map: ask again
RefuseSettings ==
    /\ Goto("settings", "settings")
    /\ Answered
    /\ UNCHANGED <<memory, settings>>

\* std::stoi throws for a K that is no number or too large; here nothing
\* catches either exception.
SettingsNotANumber ==
    /\ pc = "settings"
    /\ Answered
    /\ \E why \in BadNumber : Terminates(why)
    /\ UNCHANGED <<memory, settings>>

SetSettings(k, m) ==
    /\ Goto("settings", "menu")
    /\ Answered
    /\ kValue' = k
    /\ distanceMetric' = m
    /\ isClassified' = FALSE
    /\ UNCHANGED <<memory, dataSet, testFile, classifiedNames>>

-----------------------------------------------------------------------------
(* Classify_Data and Display_Confusion_Matrix *)

\* How get_nearest_class can end for a point with d coordinates: the distance
\* refuses points of another length; with fewer than K points quickselect
\* divides by zero or the loop over its result reads past the end, and the
\* class it then finds may be any.
NearestClass(d) ==
    LET ds == sets[dataSet] IN
    IF ds.dims \subseteq {d}
    THEN IF ds.size >= kValue THEN {"class"}
         ELSE (IF ds.size # 1 THEN {"SIGFPE"} ELSE {})
              \cup (IF ds.size # 0 THEN {"class", "SIGSEGV"} ELSE {})
    ELSE {"invalid_argument"}

\* What a name that is computed now is computed from
Provenance == [set |-> dataSet, k |-> kValue, metric |-> distanceMetric,
               file |-> testFile]

\* A file that cannot be opened, such as the one with no name, has no lines.
ClassifyPoint(d) ==
    /\ Goto("classify", "classify")
    /\ Answered
    /\ testFile # NoFile
    /\ Len(classifiedNames) < MaxLines
    /\ dataSet # Null
    /\ "class" \in NearestClass(d)
    /\ classifiedNames' = Append(classifiedNames, Provenance)
    /\ UNCHANGED <<memory, dataSet, kValue, distanceMetric, testFile, isClassified>>

\* get_nearest_class on a null data set, a failed distance or quickselect, or
\* stod on a field that is no number or too large a one
ClassifyFails(d) ==
    /\ pc = "classify"
    /\ Answered
    /\ testFile # NoFile
    /\ \E why \in (IF dataSet = Null THEN {"SIGSEGV"} ELSE NearestClass(d) \ {"class"})
                  \cup BadNumber :
          Terminates(why)
    /\ UNCHANGED <<memory, settings>>

ClassifyEnd ==
    /\ Goto("classify", "menu")
    /\ Answered
    /\ isClassified' = TRUE
    /\ UNCHANGED <<memory, dataSet, kValue, distanceMetric, testFile, classifiedNames>>

\* The matrix classifies every point of the data set against all of them; it
\* does not look whether there is a data set.
ComputeMatrix ==
    /\ Goto("compute", "matrix")
    /\ dataSet # Null
    /\ \A d \in sets[dataSet].dims : "class" \in NearestClass(d)
    /\ UNCHANGED <<conn, memory, settings>>

ComputeFails ==
    /\ pc = "compute"
    /\ \E why \in IF dataSet = Null THEN {"SIGSEGV"}
                  ELSE (UNION {NearestClass(d) : d \in sets[dataSet].dims}) \ {"class"} :
          Terminates(why)
    /\ UNCHANGED <<conn, memory, settings>>

ShowMatrix ==
    /\ Goto("matrix", "menu")
    /\ Sent
    /\ UNCHANGED <<memory, settings>>

-----------------------------------------------------------------------------
(* Display_Results and Download_Results *)

Display ==
    /\ Goto("display", "menu")
    /\ Sent
    /\ UNCHANGED <<memory, settings>>

NameResultsFile ==
    /\ Goto("save", "download")
    /\ Answered
    /\ UNCHANGED <<memory, settings>>

Download ==
    /\ Goto("download", "menu")
    /\ Sent
    /\ UNCHANGED <<memory, settings>>

-----------------------------------------------------------------------------
(* The end of CLI::start, and of thread_job *)

\* mutant: the session does not delete its data set
CloseLeaks ==
    /\ Goto("closing", "ended")
    /\ conn # "broken"
    /\ conn' = "closed"
    /\ UNCHANGED <<memory, settings>>

\* dio.close() sends one token, and its failure is caught; then the data set
\* is deleted and thread_job closes the socket.
Close ==
    /\ pc = "closing"
    /\ conn # "broken"
    /\ conn' = "closed"
    /\ IF dataSet = Null
       THEN UNCHANGED sets /\ Goto("closing", "ended")
       ELSE IF sets[dataSet].live
            THEN sets' = Deleted(dataSet) /\ Goto("closing", "ended")
            ELSE UNCHANGED sets /\ Terminates("double_delete")
    /\ UNCHANGED <<building, settings>>

CloseKills ==
    /\ pc = "closing"
    /\ conn = "broken"
    /\ Terminates("SIGPIPE")
    /\ UNCHANGED <<conn, memory, settings>>

-----------------------------------------------------------------------------
\* What the user makes happen by typing, and the files by what is in them
UserStep ==
    \/ ChooseInvalid \/ ChooseHuge \/ Exit
    \/ \E c \in Command : Choose(c)
    \/ SkipTrain \/ OpenTrain \/ TrainBadNumber \/ TrainEnd
    \/ \E d \in Dims : TrainPoint(d) \/ ClassifyPoint(d) \/ ClassifyFails(d)
    \/ \E f \in TestFiles \cup {NoFile} : NameTestFile(f)
    \/ RefuseSettings \/ SettingsNotANumber
    \/ \E k \in Ks, m \in Metrics : SetSettings(k, m)
    \/ ClassifyEnd \/ NameResultsFile

\* What the server does without hearing from the client
ServerStep ==
    \/ CallThrows \/ SendKills \/ AllocateTrain
    \/ ComputeMatrix \/ ComputeFails \/ ShowMatrix \/ Display \/ Download
    \/ Close \/ CloseKills

Over == pc \in {"ended", "dead"} /\ UNCHANGED vars

Next == UserStep \/ ServerStep \/ Hangup \/ Over

SafetySpec == Init /\ [][Next]_vars

\* The thread of the session runs; the user may stop answering for ever.
Spec == SafetySpec /\ WF_vars(ServerStep)

-----------------------------------------------------------------------------
(* Properties *)

Provenances == [set : 1..MaxSets, k : 1..10, metric : Metrics, file : TestFiles]

\* The members of Settings and the heap have the values their types allow.
TypeOK ==
    /\ pc \in Asking \cup Telling \cup {"compute", "closing", "ended", "dead"}
    /\ fault \in {"none", "out_of_range", "invalid_argument", "SIGPIPE",
                  "SIGSEGV", "SIGFPE", "double_delete"}
    /\ (fault = "none") <=> (pc # "dead")
    /\ conn \in {"open", "fin", "reset", "broken", "closed"}
    /\ sets \in Seq([live : BOOLEAN, size : 0..MaxPoints, dims : SUBSET Dims])
    /\ {building, dataSet} \subseteq {Null} \cup DOMAIN sets
    /\ kValue \in 1..10 /\ distanceMetric \in Metrics
    /\ testFile \in TestFiles \cup {NoFile}
    /\ isClassified \in BOOLEAN
    /\ classifiedNames \in Seq(Provenances)

\* Results that may be displayed or saved were all computed from the data set,
\* the K, the metric and the test file that are now in force: every command
\* that changes one of them takes is_classified back.
ResultsCurrent ==
    (isClassified /\ pc \in {"menu", "display", "save", "download"}) =>
        \A i \in DOMAIN classifiedNames : classifiedNames[i] = Provenance

\* The heap holds exactly the data set of the session, or the one that is
\* being read; every path through Upload_Files deletes what it replaces.
OneDataSet ==
    pc \in (Asking \cup Telling) \ {"open", "lines"} =>
        {a \in DOMAIN sets : sets[a].live} = {dataSet} \ {Null}

\* Classify_Data does not look whether there is a data set.  When a test file
\* has been named, it runs with one that is there and not freed, because a test
\* file is only ever named after an upload.  (Without a test file there are no
\* lines, and the data set is not used.)
ClassifyHasDataSet ==
    pc = "classify" /\ testFile # NoFile => dataSet # Null /\ sets[dataSet].live

\* After the session, the only data set that can remain is the one whose
\* upload was interrupted.
OnlyInterruptedUploadLeaks ==
    pc = "ended" => \A a \in DOMAIN sets : sets[a].live => a = building

\* A connection that is lost ends the session (or the process), whatever the
\* command was doing: no command goes on waiting or looping for it.
DisconnectEndsSession ==
    (conn \in {"fin", "reset", "broken"}) ~> (pc \in {"ended", "dead"})

(* What the code's own words say, and the code does not keep *)

\* cli.h, "The data set": the pointer that CLI::start deletes in the end is
\* the session's data set, not one that Upload_Files deleted before.
NoDoubleDelete == fault # "double_delete"

\* "Invalid Command" in CLI::start, and "Invalid value for K, please try again"
\* in Algorithm_Settings: an answer that is out of range is reported and asked
\* for again, and is not the end of the server.
BadAnswerReported ==
    [][(pc \in {"menu", "settings"} /\ Answered) => pc' # "dead"]_vars

\* streams.h, "if there is an error when calling the function ... these
\* should throw exceptions": a failing send is not a signal that kills.
SendErrorsThrow == fault # "SIGPIPE"
=============================================================================
