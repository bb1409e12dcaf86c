# A TLA+ model of the KNN server and its client

The program classifies points by their K nearest neighbours. A server
(`src/server`) accepts TCP clients and runs a text-menu session for each of
them on a thread of a pool; the client (`src/client`) is a "blind follower" that
prints, reads and writes what the server tells it to. This directory models the
parts of it that depend on order, timing, failure or index arithmetic, checks
the models with TLC and proves the most important results with TLAPS.

## The system

| Part | State | Operations | Interacts with |
|---|---|---|---|
| Thread pool (`thread-pool.tpp`) | `should_terminate`, the job queue, one mutex, one condition variable, the threads | constructor, `add_job`, `end`, `thread_loop` | called by main; runs sessions |
| Server (`server.cpp`, `accept_connection` of `streams.cpp`) | listening socket, kernel backlog, client sockets | listen, select with a timeout, accept, `thread_job`, close | kernel, pool, sessions |
| Session (`cli.cpp`, `cli.h`) | `CLI::Settings`: data set, K, metric, test file, classified flag, names | the menu and six commands | `DefaultIO`, data sets, quickselect |
| Remote IO (`DefaultSocketIO` in `cli.h`, `client.cpp`) | two byte streams; the client's open files | `<<`, `>>`, open/read/close input, open/write/close output, close | one session and one client |
| Quickselect (`knn-algo.h`, called from `knn-datastructs.tpp`) | a vector of distances, `l`, `h`, `pi` | `quickselect`, `random_partition`, `partition` | `get_k_nearest` |
| Streams and serialization (`streams.cpp`, `serialization.h`) | a descriptor; how far a loop has come | send and receive loops, tokens, length-prefixed strings | everything remote |
| Vote, distances, confusion matrix (`knn-datastructs.tpp`, `distances.cpp`, `cli.cpp`) | the map of votes, the matrix, during a call | `get_nearest_class`, three metrics, the matrix | session, quickselect |
| Reading points (`knn-io.tpp`) | none between calls | `read_point`, `get_point`, `initialize_dataset` | session |
| `misc::array`, data points | values | copies | data sets |
| `serialization.cpp`, Makefiles | disabled code, no behaviour | | |

What is hard here: fifty workers and main share a queue, with a notification
sent outside the lock and a shutdown that must reach sleeping, busy and waking
workers; the shutdown races with clients that connect; one uncaught exception or
signal in any session ends all of them; a connection can be lost inside any
command, with a data set half replaced; two programs have to stay in step over
a stream in which nothing distinguishes a token from a string, and which the
kernel cuts into pieces as it likes; two functions read the same kind of line in
different ways; the vote depends on the order of an unordered map; and quickselect
has off-by-one boundaries when K meets the number of points. `PROJECT.json` lists each
of these hazards at the line where it bites, and the properties that cover it.

What makes each part correct:

* pool: each job is started once, in order, unless the pool is ended; no lost
  wake-up; `end` returns;
* server: each connection is handed on once and in order; a socket has one user
  and is closed after its session; main leaves last;
* session: the results on display belong to the settings in force; one data set
  is alive and it is freed once; a lost connection ends the session;
* remote IO: the client is indistinguishable from a local terminal and its files,
  up to the loss of the connection, which leaves nobody waiting;
* streams: objects come out whole and in order, whatever the pieces; an end
  inside an object is an exception, after all that arrived before it;
* classifying: the name is one that the neighbours may give in any order of ties;
  the matrix counts every training line in its row; a point is its own neighbour;
* quickselect: a permutation whose first K elements are nearest, with every
  index inside and termination for every pivot.

## Modules

### `ThreadPool`, and `JobQueue` above it

A step is what one thread does between two points at which another can
interfere. A worker is at one of eight points of `thread_loop` (`wpc`); main is
in no call, in `add_job` or in `end` (`mpc`).

| Code | Action |
|---|---|
| acquiring `jobs_mutex` at the top of the loop, or again inside `wait` | `LockJobs` |
| the predicate of `wait` | `JobOrTermination`, `TestPredicate` |
| releasing the mutex and joining the wait set, in one step | `Block` |
| a wake-up nobody asked for | `SpuriousWake` (at most `MaxSpurious`) |
| `if (should_terminate) return` | `Quit`, `GoOn` |
| `front`, `pop`, end of the block | `PopJob` |
| `job()` returns, or throws | `JobReturns`, `JobThrows` |
| `add_job` | `CallAddJob`, `LockToAdd`, `PushJob`, `NotifyOne` |
| `end` | `CallEnd`, `LockToEnd`, `SetTerminate`, `NotifyAll`, `JoinAll` |
| an exception of main itself | `CallerThrows` |

`NotifyOne` is lost when nobody sleeps. An escaping exception sets `aborted`,
after which nothing happens. `submitted` and `started` are history variables.
Each job is submitted at most once, as each connection is accepted once.
`JobQueue` is the same pool without threads, locks or signals: jobs start once,
in order, until it is stopped. `ImplementsJobQueue` is the refinement, with
`queue <- jobs` and `stopped <- shouldTerminate`.

### `Server`

Extends `ThreadPool`; a job is a client's connection. `Connect` is the kernel
completing a connection into a backlog of `Backlog` (10 in the code) as long as
the listening socket is open. `Accept` is select and accept finding one,
and the call of `add_job`; `TimeOut` is select giving up with an empty backlog,
and the call of `end`; `AcceptThrows` is accept failing with no descriptor left;
`SessionEnds` is the rest of `thread_job`. What a session says is not here: it
may return, or throw (`Throwing`), or go on.

### `Session`

One client's session. A step is one exchange: everything the server sends up to
the next answer it waits for, and the answer; or the burst of messages that ends
a command. `pc` names the question that is open. The user's answers and the
contents of the files are nondeterministic, down to what the control depends
on: a choice is a command, exit, invalid, or too large for an int; a line of a
training file is a point with some number of coordinates, the end, or a number
that does not parse.

* `sets` holds every `DataSet` allocated, with its size, the lengths of its
  points and whether it is alive; `dataSet` is the pointer in the settings, and
  `building` the local variable of `initialize_dataset`.
* `OpenTrain` deletes the old data set, `AllocateTrain` allocates, `TrainPoint`
  adds, `TrainEnd` at last assigns the pointer, as the statement order of
  `Upload_Files::execute` has it.
* A classified name is represented by what it was computed from (`Provenance`).
* `NearestClass` is the set of ways in which `get_nearest_class` can end for a
  data set of that size and those lengths, including the undefined reads with
  fewer points than K.
* The connection is `open`, closed by the client (`fin`), `reset` with an error
  not reported yet, `broken` after that, or `closed` here. `CallThrows` is the
  `std::ios_base::failure` that `CLI::start` catches; `SendKills` is SIGPIPE. An exchange does
  not count its sends, so SIGPIPE is possible in each of them once the client has left, also where the
  code sends only once and would be killed by a later send: the model has a few more behaviours, none fewer.
* `Close` is the end of `CLI::start`: the last token, the delete, and the close
  of the socket.

A fault ends the process; that it also ends all other sessions is in `Server`.

### `RemoteIO`, and `LocalIO` above it

`RemoteIO` has the program (any program that opens one file at a time and only
reads or writes it until it is closed, as every command does), two FIFO
channels of serialized objects, and the client of `client.cpp` with a state for
each place where it deserializes. The client compares objects with tokens only
where the code does: inside its file loops everything but `end_token` asks for a
line or announces a string. `Getline` is external: what `std::getline` does to a
string on a good, an ended and a never opened stream.

`Lose` breaks the connection at any time, with any of the objects under way:
each direction keeps a prefix. After it, a call of the program that sends fails at
once and one that waits fails when everything that arrived has been heard
(`ProgramThrows`); the client consumes what arrived and is then ended by an
exception that nothing catches, in a file loop too (`ClientThrows`). An answer sent after the
loss reaches nobody. `saved` is what the client wrote to its `ofstream`; that a
terminated process may lose what the stream still buffers is left out.

`LocalIO` is `DefaultTerminalIO`, each operation acting at once.
`ActsLocally` says that what the client does is a behaviour of `LocalIO`: the
refinement maps the terminal's state to the client's, so that messages still in
flight are operations that have not happened yet, and messages lost are
operations that never happen.

### `TcpStream`, and `Channel` above it

One direction of a connection, byte by byte. `script` is the sequence of objects both
ends have agreed on (that they agree is `RemoteIO!InStep`).

| Code | Action |
|---|---|
| `operator<<` calls `send` for a token or a length, then for the characters | `Serialize`, `SendReturns` |
| one turn of the loop of `send`: the kernel takes some of the bytes | `SendBytes` |
| `::send` returns -1 | `SendThrows` |
| `operator>>` calls `receive` for a token or a length, then for the characters | `Deserialize`, `PrimitiveReceived` |
| one turn of the loop of `receive`: the kernel gives some of the bytes | `ReceiveBytes` |
| `recv` returns 0 or -1 with nothing left to read | `ReceiveThrows` |
| the string is complete, or empty | `StringReceived` |
| the sender closes, or its process ends, inside an object perhaps | `SenderLeaves` |
| the connection is lost with some of the bytes under way | `Reset` |

`Bytes` gives a primitive as many distinct bytes as it has, so that bytes of two
objects never make one by accident; `Decoded` gives any value to such a mixture.
`Channel` is a queue of objects, with `queue` refined by the objects begun and
not yet received.

### `Points`

Operators: `ReadPoint` and `GetPoint` translate the two line readers on a line's fields,
with what `std::getline` leaves in a string when it fails and with `npos + 1`
being 0; `Distance` the three metrics, on integers.

### `Classifier`

`initialize_dataset` line by line (`AddPoint`, `EndTraining`), then either
`Classify_Data` for one test line (`ClassifyLine`) or
`Display_Confusion_Matrix` (`ComputeMatrix`, `NextPoint`, `CountPairs`, `Entry`).
Both call `get_nearest_class`: `MeasureThrows` when lengths differ,
`TooFewPoints` when quickselect has no defined result, `StartVote` for each
choice of K points that none of the others is nearer than, `VisitEntry` for the
entries of the map in any order, `VoteEnds`. The session keeps the results of many
lines; that they are current is in `Session`.

### `QuickSelect`

One call. `vec` holds the index members of `new_vec`; `distance` is the input, any
function from indices to integers and `NaN`, so every tie and order occurs, and so do
comparisons that are false both ways (`Less`). A step is one iteration
of a loop; `ChoosePivot` takes any `r` in `l..h`, as `rand()` may. `n = 0` and
`k > n` are included: they are possible calls.

### Model-checking modules

`MCThreadPool`, `MCServer`, `MCSession`, `MCRemoteIO`, `MCTcpStream`,
`MCClassifier`, `MCQuickSelect` add file contents, strings, lines and a symmetry
set, nothing else; the configurations give the
constants. Symmetry is used only where no liveness is checked, over sets no
action tells apart.

## Runs

| Run | Bounds | Shows |
|---|---|---|
| `pool` | 3 workers, 3 jobs of which one may throw, 1 spurious wake-up | type, `FifoOnce`, `NoPopOfEmpty`, `WorkConserving`, `NoSleeperAtJoin`, `NoJobAfterTermination`, `ImplementsJobQueue`, `EndReturns`, `JobsAreRun` |
| `server` | 2 workers, 4 clients of which one may be fatal, backlog 2, 3 descriptors | type, `NoConnectionLost`, `SessionOwnsSocket`, `SessionsOutlivedByMain`, `ServedOrDropped`, `IdleServerQuits` |
| `session` | K in 1..2 and the default 5, 2 metrics, 2 test files, 2 uploads of up to 2 points of 2 lengths, up to 2 test lines | type, `ResultsCurrent`, `OneDataSet`, `ClassifyHasDataSet`, `OnlyInterruptedUploadLeaks`, `DisconnectEndsSession` |
| `remote` | 7 operations, 1 message, 1 word, a file of two lines and a missing one, 4 objects in flight, one loss | type, `InStep`, `AnswersMatch`, `ActsLocally`, `ReadsAnswered`, `ClosedClientExits` |
| `stream` | 3 objects out of 2 tokens and strings of 0, 1 and 3 bytes, tokens and lengths of 2 bytes, 3 bytes in the kernel | type, `ThrowsAtTheEnd`, `ImplementsChannel`, `DeliveredOrThrown` |
| `classifier` | K 1 to 3, the 3 metrics, up to 3 training lines and a test line out of 11, proper and odd | type, `NamedByNeighbors`, `MatrixAccounts`, `OwnNeighbor` |
| `quickselect` | 0 to 4 points, K 1 to 5, distances 0 to 3 and NaN | type, `EachPointOnce`, `FirstKAreNearest`, `KthInside`, `Terminates` |

Why the bounds are enough. In the pool the interesting differences are between
no, one and several sleepers beside a busy worker, which needs three workers;
a queue longer than there are workers is in the `server` run, which contains the
pool; and the safety properties of the pool are also proved for any numbers. In
the server, more clients than descriptors and than backlog places is what the
extra actions need. In the session two uploads are needed to replace a data set, two
lengths to mix them, and sizes 0, 1 and 2 with K of 1, 2 and 5 give too few,
just enough and more than enough points. Seven operations are enough to open a
file, read past its end, close it, open another for output and write to it, or to print and ask
in between; no code compares two messages, so one is enough. In the stream, a
string is longer than a length and the kernel holds less than a string and its
length, so every send may be cut; three objects put one between two others. In the
classifier, three points and K up to 3 give unanimous, divided and tied votes, with too few, just enough and more than enough points; the odd lines have
one field, no class, a class in the wrong place, too few coordinates and a
trailing comma. Four points with four distances and NaN give every pattern of
order and ties around the pivot and around K, and K of 5 too few points; for any sizes it is
proved.

The runs that end in a violation each show a disagreement between the code and
its own words (`findings` in `PROJECT.json` quotes them):

* `session_double_delete`: a connection lost while a second training file is
  uploaded makes `CLI::start` delete the first data set twice;
* `session_bad_answer`: text for K, or a huge choice, ends the whole server
  instead of being answered;
* `session_sigpipe`: a send to a client that is gone kills instead of throwing;
* `remote_unterminated`: a file without a final newline never ends;
* `quickselect_few`: fewer points than K divide by zero.

More things the models show, which contradict no statement of the code:
clients that are queued when the timeout ends the pool are dropped
(`ServedOrDropped` names this outcome), one silent client keeps the server from quitting
(`IdleServerQuits` names it), and classifying before any upload
counts as classified, with an empty list of results, of which `ResultsCurrent` says nothing. `Points` shows what lines of
unusual form mean: `get_point` reads a test line of one field as two
equal coordinates, so that training points of one coordinate can never be compared
with it and the exception ends the server; `read_point` takes a training line of
one field for a point without coordinates and class, and loses the last
coordinate of a line with a trailing comma. In the matrix the entry "NaN" is
never shown (`MatrixAccounts`): every class in it is the class of a point.

Seen while reading, and outside the models: the client tests `argc < 3` but uses
`argv[3]`; `connect_to` takes the 0 that `inet_pton` returns for a malformed
address for success; `get_address` of an accepted client returns the server's own
address (`getsockname`), which is then logged as the client's.

Deadlock is checked in every run; where a program has ended or a bound is used up, an
explicit stuttering action says so (`Over`, `ProcessOver`, `Finished`,
`Exhausted`, `Returned`).

## Fairness

* `ThreadPool`: weak fairness for each worker's own steps, for the return of its
  job and for main inside a call. The operating system runs threads that can
  run, and a mutex that stays free is acquired by a thread that wants it. Jobs
  are assumed to return. Nothing obliges main to call anything, and no wake-up
  is assumed beyond the notifications.
* `Server`: weak fairness for the steps of the workers and of main, and for main's accept
  loop: with the backlog empty, select's timeout expires; otherwise accept is called. Nothing
  makes a session end: there is no receive timeout, and a client may stay and say nothing. So
  the liveness properties are conditional. `ServedOrDropped` has the premise that no session
  runs for ever (`SessionsEnd`), and `IdleServerQuits` says that the server quits *or* one
  session that never ends keeps `end` in join for ever, which the code allows; what it rules out is any other reason.
* `Session`: weak fairness only for what the server does without an answer. The
  user may be silent for ever.
* `RemoteIO`: both processes run; typing is not fair. That a program which is not
  waiting gets the exception of a lost connection says that it goes on calling operations.
* `TcpStream`: both programs run inside `<<` and `>>`, and the receiver calls `>>`
  again; nothing obliges the sender to begin another object or to leave.
* `Classifier`: no liveness is checked; its loops are over finite collections.
* `QuickSelect`: one thread runs the loop.

## Proofs

The proofs are in `ThreadPoolProofs`, `ServerProofs`, `SessionProofs`,
`RemoteIOProofs`, `TcpStreamProofs`, `QuickSelectProofs`, `PointsProofs` and
`ClassifierProofs`, which state every invariant and every safety property that the runs check. They assume of the constants only the
named assumptions: finitely many workers (at least one), main and `None` distinct
from them; positive limits; for sessions, bounds in Nat and the settings the code
starts with; strings that are not tokens, and files that are sequences of lines;
sizes of tokens and lengths and a capacity of at least one byte; sizes of vectors in Nat, K positive, distances that are integers or `NaN`; coordinates
that are integers, and lines of at least one field that are not empty (an empty line ends a file).

**Pool.** `Invariance` proves an inductive invariant of five parts. Types; who
holds the mutex (a worker is inside its critical section exactly if it is the
holder, which gives mutual exclusion between workers and main); what a worker
has seen (past the predicate the queue is not empty or the pool is ending, at
"pop" it is not empty, at "block" it was empty and the pool not ending: these
stay true only because nobody else changes the shared state meanwhile); FIFO;
and the wake-up invariant. `WorkConserving` alone is not inductive: a worker
that goes to sleep must be known to have seen an empty queue, and `NotifyOne`
moves one unit of the count from main to a woken worker, so the argument counts
with `Cardinality(Awake)`. From it follow `TypeCorrectness`, `QueueIsFifo`,
`PopsAreSafe`, `NoLostWakeup`, `ShutdownWakesAll`, the action property
`TerminationStopsJobs`, and the refinement `PoolImplementsJobQueue` (every step is a
`Submit`, a `Start`, a `Stop` or a stutter).

**Server.** Every step of `ServerNext` is a step of the pool or leaves it alone
(`StepIsPoolStep`), so that `ServerUsesPool` gives all of the pool's theorems to
the server. `ConnectionsKept` proves `NoConnectionLost`: arrivals are the
concatenation of started, queued, handed over and pending connections, which
each step only regroups. `SocketsOwned` needs more than `SessionOwnsSocket`: a client
is in at most one of four places (`OnePlace`: the backlog, `add_job`'s argument, the
queue, a running session), and the open sockets are exactly those of the last three
(`OpenPlaces`), so that no session can be given a socket that another one uses or has
closed. `MainLeavesLast` follows from `LeftLast`, with the pool's invariant at the join.

**Session.** `ResultsCurrent` speaks of the moment at which results are shown; the
invariant (`Current`) has to say since when they are current: all names computed so
far belong to the settings in force while Classify_Data runs, and afterwards as
long as `is_classified` is set and a command that looks at them can be chosen. It cannot be claimed
inside Upload_Files, which replaces the data set before it takes the flag back; there,
nothing looks at the names. `Heap` says for each place in the code which data sets are
alive (none between delete and new, only the new one while it is filled), which
`OneDataSet` and `OnlyInterruptedUploadLeaks` follow from, and `DataSetFirst` that a test file is
named only after an upload. Together they give `ClassifyHasDataSet`: with a test file, Classify_Data runs
with a data set that is there and not freed. Without one it may run with none; the file then has no lines
and the data set is not used.

**Remote IO.** What keeps the ends in step depends on everything that is on its
way. The invariant (`Protocol`) says that there is a path of the client's states from
where it is now, one step for each object under way, to the state in which the program takes
it to be (`Mode`); an operation makes the path longer at one end, the client shortens
it at the other, and a loss cuts it. A path is quantified over, not computed, so no recursion is needed.
`OneQuestion` says that a question is the last object on its way, that then no
answer is, and what was said and heard. From them follow `EndsStayInStep` and `QuestionsAreAnswered`,
for any program and files. `ImplementsLocalIO` proves the refinement `ActsLocally` if
every line of the client's files ends with a newline (`LinesTerminated`): then a stream that stopped
being good has given everything, and getline leaves an empty string (`FileInv`). Without
that hypothesis the refinement fails, as the run `remote_unterminated` shows.

**Streams.** `Layout` says where the objects lie in the stream: one after the other, and as far as the stream reaches, its bytes are its encoding. `SentSoFar` gives,
while the connection is open, the byte that is sent next. When it is lost, bytes
of earlier objects may be missing and a `<<` begun afterwards starts where the stream
was cut: one object begins where the one before it ends only if that is whole or
the connection is open. `Place` puts the receiver at
the start of the object after those it has returned, plus what it has read of it
(`Progress`), and says that these are the bytes that lie there; `Ended` is
`ThrowsAtTheEnd` in these terms. Whatever m bytes the kernel takes or gives, both ends move inside one object, hence
`ExceptionComesLast`, and the refinement `ImplementsObjects`: `Serialize` is a `Send`,
`ReceiveThrows` a `Break`, the step that completes an object a `Receive`, everything else a
stutter.

**Quickselect.** The invariant says that `vec` is a permutation, that all
elements left of `l` are not greater than those from `l` on, and all those
right of `h` not less than those up to `h`; during a scan, that the elements
before `x` are smaller than the pivot and those from `x` to `i` are not. It is proved
inductive for any size, K and choice of pivots, in two parts: `Base` (types, permutation, bounds)
holds for any distances, NaN included, because it follows from the indices alone; the order
is inductive only if all distances are numbers (`Numeric`). It gives `IndicesInside`, `PointsKept`,
`SelectsNearest` and `NeverDividesByZero`. `ResultIsNearest` puts the first two together: a permutation
leaves no point out, so the first K elements are K different points and none of the others is
nearer, which is how `Classifier` takes the result (`Nearest`). `StepsRunOut` is what can be
said of termination without fairness: every step decreases a natural number, `StepsLeft`, for all pivots and
with NaN; that a step is possible until the call returns is what the run checks (`Terminates`).

**Points.** The metrics and the matrix are sums, which the community modules define by recursion over
finite sets. The library's induction rules cannot be used (they take an operator as parameter), but
what they rest on can: the subsets of a finite set are well-founded under strict inclusion, so a
nonempty set of subsets for which a statement fails has a minimal element (`SetInduction`), and a
nonempty set of numbers a least one. From these follow that a sum has its recursion equation
(`SumRecursion`, `SumEquation`), that sums of numbers are numbers and 0 only if all of them are
(`SumsOfNaturals`), that the counts of disjoint sets add up (`CountsAddUp`), and how much rounding down
takes from a sum of quotients (`QuotientsAddUp`). `MetricsSeparate` says of every metric that it is a
number, and 0 only between equal points; `ReadersAgree` that `read_point` reads a well-formed line as
`get_point` reads it without its class.

**Classifier.** The properties speak of a name when it has been given, and relate it to the points; the
invariant has to carry that relation through the vote. `DataIsRead` says that the data points are what
`read_point` made of the lines, `QueryIsCurrent` whose name is looked for, `VoteSoFar` that the votes are those of
some K nearest points and that `best` is a class that has most votes of those visited (at the start
none is visited, and the name is not one of the votes: this is why K must be positive),
`NamesAreElected` that each name given was elected by K nearest points of its own point (`Elected`). From
`Elected` follows `NamesFollowNeighbors`; with the sums, `MatrixIsComplete`; with
`MetricsSeparate` and `ReadersAgree`, `PointsNameThemselves`. `WellFormedFilesAreAnswered` is about the
exceptions that would end the server: training lines of coordinates and a class that are all as long, with a test
line of as many coordinates, lead to none, and K points are enough for an answer.

Model-checked only: the nine liveness properties (`EndReturns`, `JobsAreRun`, `ServedOrDropped`,
`IdleServerQuits`, `DisconnectEndsSession`, `ReadsAnswered`, `ClosedClientExits`, `DeliveredOrThrown`,
`Terminates`), because they depend on fairness and ENABLED, which the prover does not handle. The theorems
`ResultIsNearest`, `StepsRunOut`, `WellFormedFilesAreAnswered`, `MetricsSeparate` and `ReadersAgree` go beyond
what the runs check.

## Not modelled

* Rounding and overflow of `double`: distances are integers in `Points`, and integers or
  NaN in `QuickSelect`.
* `misc::array` beyond the comparison of lengths: values without history, of
  which only the construction from a vector, the copy constructor and the destructor are used.
* `all_distances` and its helpers, `receive` without `force_size`, the serialization of
  vectors, pointers and arrays, and `serialization.cpp`: used by nothing or disabled.
* Menu texts, logging, `get_address`, start-up errors before main listens (among them
  a `bind` that fails after a restart: the socket options are not the ones the comment names).
* Memory lost inside `get_nearest_class` when a distance throws: the process
  ends with that exception.
* The arrays of the confusion matrix (`true_count`, `confusion_matrix`), which leak when the
  connection is lost while the matrix is sent: the heap of `Session` has data sets only.
* That the client's main loop ignores a token it does not know there: no operation of the server sends
  one there, and in `RemoteIO` it would stop the client for good.
* What the client's `ofstream` still buffers when the client is terminated.
* A connection that is lost between select and accept: on Linux accept returns it
  all the same, and the first exchange of the session fails (`Session!Hangup`).

## Plan

1. Done: `ThreadPool` with `JobQueue`, `Server` above it, `Session`, `RemoteIO` with
   `LocalIO`, `TcpStream` with `Channel`, `Points`, `Classifier`, `QuickSelect`; proofs for all of them.
2. Left: what the proofs of the liveness properties need short of fairness, as `StepsRunOut` does it for
   quickselect: a measure that the loops of `TcpStream` and of the vote decrease.
