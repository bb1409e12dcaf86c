-------------------------- MODULE ThreadPoolProofs --------------------------
(***************************************************************************)
(* Proofs, for any finite set of workers and any set of jobs, of the       *)
(* safety properties of ThreadPool.  The inductive invariant is the        *)
(* conjunction of the named parts below; the lock invariant is what makes  *)
(* the others inductive: a worker past the test of wait() holds jobs_mutex,*)
(* so that what it saw of the queue and of should_terminate still holds.   *)
(***************************************************************************)
EXTENDS ThreadPool, SequenceTheorems, FiniteSetTheorems, TLAPS

-----------------------------------------------------------------------------
(* The inductive invariant *)

\* jobs_mutex is held by the thread that is inside a critical section, and
\* by no other.
LockInv ==
    /\ \A w \in Workers : (w \in Holding) <=> (jobsMutex = w)
    /\ (mpc \in {"push", "set"}) <=> (jobsMutex = Main)

\* add_job has a job to push.
ArgInv == mpc \in {"add_lock", "push"} => arg \in Jobs

\* What a worker saw under the lock is still so when it acts on it.
SeenInv ==
    \A w \in Workers :
        /\ wpc[w] = "block" => jobs = <<>> /\ ~shouldTerminate
        /\ wpc[w] = "check" => JobOrTermination
        /\ wpc[w] = "pop" => jobs # <<>> /\ ~shouldTerminate

\* should_terminate is set exactly when end is past its critical section.
StopInv == shouldTerminate <=> mpc \in {"notify_all", "join", "ended"}

IInv ==
    /\ TypeOK
    /\ LockInv
    /\ ArgInv
    /\ SeenInv
    /\ StopInv
    /\ NoSleeperAtJoin
    /\ FifoOnce
    /\ WorkConserving

-----------------------------------------------------------------------------
(* Lemmas on sequences and on the set of awake workers *)

\* Moving the front of a queue to the end of the log keeps their concatenation.
LEMMA MoveHead ==
    ASSUME NEW S, NEW s \in Seq(S), NEW q \in Seq(S), q # <<>>
    PROVE  Append(s, Head(q)) \o Tail(q) = s \o q
<1> DEFINE L == Append(s, Head(q)) \o Tail(q)
           R == s \o q
<1>1. /\ Head(q) \in S /\ Tail(q) \in Seq(S) /\ Len(Tail(q)) = Len(q) - 1
      /\ Len(q) \in Nat \ {0} /\ Len(s) \in Nat
      /\ \A i \in 1..Len(Tail(q)) : Tail(q)[i] = q[i + 1]
  BY HeadTailProperties, EmptySeq, LenProperties
<1>2. /\ Append(s, Head(q)) \in Seq(S)
      /\ Len(Append(s, Head(q))) = Len(s) + 1
      /\ \A i \in 1..Len(s) : Append(s, Head(q))[i] = s[i]
      /\ Append(s, Head(q))[Len(s) + 1] = q[1]
  BY <1>1, AppendProperties
<1>3. L \in Seq(S) /\ Len(L) = Len(s) + Len(q)
  BY <1>1, <1>2, ConcatProperties
<1>4. R \in Seq(S) /\ Len(R) = Len(s) + Len(q)
  BY ConcatProperties
<1>5. ASSUME NEW i \in 1..Len(L)  PROVE L[i] = R[i]
  <2>1. L[i] = IF i <= Len(s) + 1 THEN Append(s, Head(q))[i]
                                  ELSE Tail(q)[i - (Len(s) + 1)]
    BY <1>1, <1>2, <1>3, ConcatProperties
  <2>2. R[i] = IF i <= Len(s) THEN s[i] ELSE q[i - Len(s)]
    BY <1>3, ConcatProperties
  <2>3. CASE i <= Len(s)
    BY <2>1, <2>2, <2>3, <1>1, <1>2
  <2>4. CASE i = Len(s) + 1
    BY <2>1, <2>2, <2>4, <1>1, <1>2
  <2>5. CASE i > Len(s) + 1
    <3>1. i - (Len(s) + 1) \in 1..Len(Tail(q))
      BY <2>5, <1>1, <1>3
    <3>2. Tail(q)[i - (Len(s) + 1)] = q[i - Len(s)]
      BY <3>1, <1>1
    <3>. QED BY <2>1, <2>2, <2>5, <3>2, <1>1
  <2>. QED BY <2>3, <2>4, <2>5, <1>1
<1>. HIDE DEF L, R
<1>6. L = R
  BY <1>3, <1>4, <1>5, SeqEqual
<1>. QED BY <1>6 DEF L, R

\* The awake workers are finitely many.
LEMMA AwakeFinite == IsFiniteSet(Awake) /\ Cardinality(Awake) \in Nat
BY ThreadsAssumption, FS_Subset, FS_CardinalityType DEF Awake
-----------------------------------------------------------------------------
(* Type correctness *)

\* The type invariant holds initially and is kept by every step, given what
\* the lock invariant says about the queue and about add_job's argument.
LEMMA TypeInductive ==
    /\ Init => TypeOK
    /\ TypeOK /\ ArgInv /\ SeenInv /\ [Next]_vars => TypeOK'
<1>1. ASSUME Init  PROVE TypeOK
  <2>1. << >> \in Seq(Jobs)
    BY EmptySeq
  <2>2. 0 \in 0..MaxSpurious
    BY ThreadsAssumption
  <2>3. wpc \in [Workers -> WorkerStates] /\ mpc \in MainStates
    BY <1>1 DEF Init, WorkerStates, MainStates
  <2>4. job \in [Workers -> Jobs \cup {None}] /\ arg \in Jobs \cup {None}
    BY <1>1 DEF Init
  <2>. QED BY <1>1, <2>1, <2>2, <2>3, <2>4 DEF Init, TypeOK
<1>2. ASSUME TypeOK, ArgInv, SeenInv, [Next]_vars  PROVE TypeOK'
  <2>. USE <1>2 DEF TypeOK, WorkerStates, MainStates, sharedVars, historyVars,
                    workerVars, mainVars
  <2>1. ASSUME NEW w \in Workers, LockJobs(w)  PROVE TypeOK'
    BY <2>1 DEF LockJobs, Goto
  <2>2. ASSUME NEW w \in Workers, TestPredicate(w)  PROVE TypeOK'
    BY <2>2 DEF TestPredicate, Goto
  <2>3. ASSUME NEW w \in Workers, Block(w)  PROVE TypeOK'
    BY <2>3 DEF Block, Goto
  <2>4. ASSUME NEW w \in Workers, Quit(w)  PROVE TypeOK'
    BY <2>4 DEF Quit, Goto
  <2>5. ASSUME NEW w \in Workers, GoOn(w)  PROVE TypeOK'
    BY <2>5 DEF GoOn, Goto
  <2>6. ASSUME NEW w \in Workers, PopJob(w)  PROVE TypeOK'
    <3>1. jobs # <<>>
      BY <2>6 DEF PopJob, Goto, SeenInv
    <3>2. Head(jobs) \in Jobs /\ Tail(jobs) \in Seq(Jobs)
      BY <3>1, HeadTailProperties
    <3>3. Append(started, Head(jobs)) \in Seq(Jobs)
      BY <3>2, AppendProperties
    <3>. QED BY <2>6, <3>2, <3>3 DEF PopJob, Goto
  <2>7. ASSUME NEW w \in Workers, JobReturns(w)  PROVE TypeOK'
    BY <2>7 DEF JobReturns, Goto
  <2>8. ASSUME NEW w \in Workers, SpuriousWake(w)  PROVE TypeOK'
    BY <2>8, ThreadsAssumption DEF SpuriousWake, Goto
  <2>9. ASSUME NEW w \in Workers, JobThrows(w)  PROVE TypeOK'
    BY <2>9 DEF JobThrows
  <2>10. ASSUME NEW j \in Jobs, CallAddJob(j)  PROVE TypeOK'
    BY <2>10 DEF CallAddJob
  <2>11. CASE LockToAdd
    BY <2>11 DEF LockToAdd
  <2>12. CASE PushJob
    <3>1. arg \in Jobs
      BY <2>12 DEF PushJob, ArgInv
    <3>2. Append(jobs, arg) \in Seq(Jobs) /\ Append(submitted, arg) \in Seq(Jobs)
      BY <3>1, AppendProperties
    <3>. QED BY <2>12, <3>2 DEF PushJob
  <2>13. CASE NotifyOne
    BY <2>13 DEF NotifyOne, Sleepers
  <2>14. CASE CallEnd \/ CallerThrows
    BY <2>14 DEF CallEnd, CallerThrows
  <2>15. CASE LockToEnd
    BY <2>15 DEF LockToEnd
  <2>16. CASE SetTerminate
    BY <2>16 DEF SetTerminate
  <2>17. CASE NotifyAll
    BY <2>17 DEF NotifyAll, Sleepers
  <2>18. CASE JoinAll
    BY <2>18 DEF JoinAll
  <2>19. CASE UNCHANGED vars
    BY <2>19 DEF vars
  <2>. QED
    BY <1>2, <2>1, <2>2, <2>3, <2>4, <2>5, <2>6, <2>7, <2>8, <2>9, <2>10, <2>11,
       <2>12, <2>13, <2>14, <2>15, <2>16, <2>17, <2>18, <2>19
       DEF Next, LoopStep, ReturnStep, CallStep, Over
<1>. QED BY <1>1, <1>2

-----------------------------------------------------------------------------
(* Mutual exclusion *)

\* The lock invariant is inductive relative to the type invariant alone.
LEMMA LockInductive ==
    /\ Init => LockInv /\ ArgInv
    /\ TypeOK /\ LockInv /\ ArgInv /\ [Next]_vars => LockInv' /\ ArgInv'
<1>1. Init => LockInv /\ ArgInv
  BY ThreadsAssumption DEF Init, LockInv, ArgInv, Holding
<1>2. ASSUME TypeOK, LockInv, ArgInv, [Next]_vars  PROVE LockInv' /\ ArgInv'
  <2>. USE <1>2, ThreadsAssumption
           DEF LockInv, ArgInv, TypeOK, WorkerStates, MainStates, Holding,
               sharedVars, historyVars, workerVars, mainVars
  <2>1. ASSUME NEW w \in Workers, LoopStep(w)  PROVE LockInv' /\ ArgInv'
    <3>1. CASE LockJobs(w)
      BY <3>1 DEF LockJobs, Goto
    <3>2. CASE TestPredicate(w)
      BY <3>2 DEF TestPredicate, Goto
    <3>3. CASE Block(w)
      BY <3>3 DEF Block, Goto
    <3>4. CASE Quit(w)
      BY <3>4 DEF Quit, Goto
    <3>5. CASE GoOn(w)
      BY <3>5 DEF GoOn, Goto
    <3>6. CASE PopJob(w)
      BY <3>6 DEF PopJob, Goto
    <3>. QED BY <2>1, <3>1, <3>2, <3>3, <3>4, <3>5, <3>6 DEF LoopStep
  <2>2. ASSUME NEW w \in Workers, JobReturns(w)  PROVE LockInv' /\ ArgInv'
    BY <2>2 DEF JobReturns, Goto
  <2>3. ASSUME NEW w \in Workers, SpuriousWake(w)  PROVE LockInv' /\ ArgInv'
    BY <2>3 DEF SpuriousWake, Goto
  <2>4. ASSUME NEW w \in Workers, JobThrows(w)  PROVE LockInv' /\ ArgInv'
    BY <2>4 DEF JobThrows
  <2>5. ASSUME NEW j \in Jobs, CallAddJob(j)  PROVE LockInv' /\ ArgInv'
    BY <2>5 DEF CallAddJob
  <2>6. CASE LockToAdd
    BY <2>6 DEF LockToAdd
  <2>7. CASE PushJob
    BY <2>7 DEF PushJob
  <2>8. CASE NotifyOne
    BY <2>8 DEF NotifyOne, Sleepers
  <2>9. CASE CallEnd \/ CallerThrows
    BY <2>9 DEF CallEnd, CallerThrows
  <2>10. CASE LockToEnd
    BY <2>10 DEF LockToEnd
  <2>11. CASE SetTerminate
    BY <2>11 DEF SetTerminate
  <2>12. CASE NotifyAll
    BY <2>12 DEF NotifyAll, Sleepers
  <2>13. CASE JoinAll
    BY <2>13 DEF JoinAll
  <2>14. CASE UNCHANGED vars
    BY <2>14 DEF vars
  <2>. QED
    BY <1>2, <2>1, <2>2, <2>3, <2>4, <2>5, <2>6, <2>7, <2>8, <2>9, <2>10, <2>11,
       <2>12, <2>13, <2>14
       DEF Next, ReturnStep, CallStep, Over
<1>. QED BY <1>1, <1>2

-----------------------------------------------------------------------------
(* What the lock protects *)

\* The facts a worker or main learned under the lock, and the absence of
\* sleepers once end has notified, are kept by every step.
LEMMA SeenInductive ==
    /\ Init => SeenInv /\ StopInv /\ NoSleeperAtJoin
    /\ TypeOK /\ LockInv /\ SeenInv /\ StopInv /\ NoSleeperAtJoin /\ [Next]_vars
       => SeenInv' /\ StopInv' /\ NoSleeperAtJoin'
<1> DEFINE Kept == SeenInv /\ StopInv /\ NoSleeperAtJoin
<1>1. Init => Kept
  BY DEF Init, SeenInv, StopInv, NoSleeperAtJoin
<1>2. ASSUME TypeOK, LockInv, Kept, [Next]_vars  PROVE Kept'
  <2>. USE <1>2, ThreadsAssumption
           DEF SeenInv, StopInv, NoSleeperAtJoin, TypeOK, WorkerStates,
               MainStates, JobOrTermination, sharedVars, historyVars,
               workerVars, mainVars
  <2>1. ASSUME NEW w \in Workers, LoopStep(w)  PROVE Kept'
    <3>1. CASE LockJobs(w)
      BY <3>1 DEF LockJobs, Goto
    <3>2. CASE TestPredicate(w)
      BY <3>2 DEF TestPredicate, Goto
    <3>3. CASE Block(w)
      BY <3>3 DEF Block, Goto
    <3>4. CASE Quit(w)
      BY <3>4 DEF Quit, Goto
    <3>5. CASE GoOn(w)
      BY <3>5 DEF GoOn, Goto
    <3>6. CASE PopJob(w)
      <4>1. \A v \in Workers \ {w} : wpc[v] \notin {"block", "check", "pop"}
        BY <3>6 DEF PopJob, Goto, LockInv, Holding
      <4>. QED BY <3>6, <4>1 DEF PopJob, Goto
    <3>. QED BY <2>1, <3>1, <3>2, <3>3, <3>4, <3>5, <3>6 DEF LoopStep
  <2>2. ASSUME NEW w \in Workers, JobReturns(w)  PROVE Kept'
    BY <2>2 DEF JobReturns, Goto
  <2>3. ASSUME NEW w \in Workers, SpuriousWake(w)  PROVE Kept'
    BY <2>3 DEF SpuriousWake, Goto
  <2>4. ASSUME NEW w \in Workers, JobThrows(w)  PROVE Kept'
    BY <2>4 DEF JobThrows
  <2>5. ASSUME NEW j \in Jobs, CallAddJob(j)  PROVE Kept'
    BY <2>5 DEF CallAddJob
  <2>6. CASE LockToAdd
    BY <2>6 DEF LockToAdd
  <2>7. CASE PushJob
    <3>1. \A v \in Workers : wpc[v] \notin {"block", "check", "pop"}
      BY <2>7 DEF PushJob, LockInv, Holding
    <3>. QED BY <2>7, <3>1 DEF PushJob
  <2>8. CASE NotifyOne
    BY <2>8 DEF NotifyOne, Sleepers
  <2>9. CASE CallEnd \/ CallerThrows
    BY <2>9 DEF CallEnd, CallerThrows
  <2>10. CASE LockToEnd
    BY <2>10 DEF LockToEnd
  <2>11. CASE SetTerminate
    <3>1. \A v \in Workers : wpc[v] \notin {"block", "check", "pop"}
      BY <2>11 DEF SetTerminate, LockInv, Holding
    <3>. QED BY <2>11, <3>1 DEF SetTerminate
  <2>12. CASE NotifyAll
    <3>1. shouldTerminate /\ shouldTerminate' /\ mpc' = "join"
      BY <2>12 DEF NotifyAll
    <3>2. \A v \in Workers : wpc'[v] # "asleep" /\ wpc'[v] # "block"
      BY <2>12, <3>1 DEF NotifyAll, Sleepers
    <3>3. \A v \in Workers : wpc'[v] \in {"check", "pop"} => wpc'[v] = wpc[v]
      BY <2>12 DEF NotifyAll, Sleepers
    <3>. QED BY <2>12, <3>1, <3>2, <3>3 DEF NotifyAll
  <2>13. CASE JoinAll
    BY <2>13 DEF JoinAll
  <2>14. CASE UNCHANGED vars
    BY <2>14 DEF vars
  <2>. QED
    BY <1>2, <2>1, <2>2, <2>3, <2>4, <2>5, <2>6, <2>7, <2>8, <2>9, <2>10, <2>11,
       <2>12, <2>13, <2>14
       DEF Next, ReturnStep, CallStep, Over
<1>. QED BY <1>1, <1>2

-----------------------------------------------------------------------------
(* The queue *)

\* Only the push and the pop touch the queue and its history, and both keep
\* what was submitted equal to what was started followed by what is queued.
LEMMA FifoInductive ==
    /\ Init => FifoOnce
    /\ TypeOK /\ ArgInv /\ SeenInv /\ FifoOnce /\ [Next]_vars => FifoOnce'
<1>1. ASSUME Init  PROVE FifoOnce
  <2>1. << >> \o << >> = << >>
    BY EmptySeq, ConcatEmptySeq
  <2>. QED BY <1>1, <2>1 DEF Init, FifoOnce
<1>2. ASSUME TypeOK, ArgInv, SeenInv, FifoOnce, [Next]_vars  PROVE FifoOnce'
  <2>1. ASSUME NEW w \in Workers, PopJob(w)  PROVE FifoOnce'
    <3>1. jobs # << >> /\ jobs \in Seq(Jobs) /\ started \in Seq(Jobs)
      BY <1>2, <2>1 DEF PopJob, Goto, SeenInv, TypeOK
    <3>2. Append(started, Head(jobs)) \o Tail(jobs) = started \o jobs
      BY <3>1, MoveHead
    <3>. QED BY <1>2, <2>1, <3>2 DEF PopJob, FifoOnce
  <2>2. CASE PushJob
    <3>1. arg \in Jobs /\ jobs \in Seq(Jobs) /\ started \in Seq(Jobs)
      BY <1>2, <2>2 DEF PushJob, ArgInv, TypeOK
    <3>2. started \o jobs \in Seq(Jobs) /\ <<arg>> \in Seq(Jobs)
      BY <3>1, ConcatProperties
    <3>3. Append(started \o jobs, arg) = (started \o jobs) \o <<arg>>
      BY <3>1, <3>2, AppendIsConcat
    <3>4. Append(jobs, arg) = jobs \o <<arg>>
      BY <3>1, AppendIsConcat
    <3>5. (started \o jobs) \o <<arg>> = started \o (jobs \o <<arg>>)
      BY <3>1, <3>2, ConcatAssociative
    <3>. QED BY <1>2, <2>2, <3>3, <3>4, <3>5 DEF PushJob, FifoOnce
  <2>3. ASSUME UNCHANGED <<jobs, submitted, started>>  PROVE FifoOnce'
    BY <1>2, <2>3 DEF FifoOnce
  <2>4. ASSUME NEW w \in Workers, LoopStep(w), ~PopJob(w)
        PROVE  UNCHANGED <<jobs, submitted, started>>
    BY <2>4 DEF LoopStep, LockJobs, TestPredicate, Block, Quit, GoOn,
                sharedVars, historyVars
  <2>5. ASSUME CallStep, ~PushJob  PROVE UNCHANGED <<jobs, submitted, started>>
    BY <2>5 DEF CallStep, LockToAdd, NotifyOne, LockToEnd, SetTerminate,
                NotifyAll, JoinAll, sharedVars, historyVars
  <2>6. ASSUME NEW w \in Workers, ReturnStep(w) \/ SpuriousWake(w) \/ JobThrows(w)
        PROVE  UNCHANGED <<jobs, submitted, started>>
    BY <2>6 DEF ReturnStep, JobReturns, SpuriousWake, JobThrows, sharedVars,
                historyVars
  <2>7. ASSUME CallEnd \/ CallerThrows \/ \E j \in Jobs : CallAddJob(j)
        PROVE  UNCHANGED <<jobs, submitted, started>>
    BY <2>7 DEF CallEnd, CallerThrows, CallAddJob, sharedVars, historyVars
  <2>8. ASSUME UNCHANGED vars  PROVE UNCHANGED <<jobs, submitted, started>>
    BY <2>8 DEF vars
  <2>. QED
    BY <1>2, <2>1, <2>2, <2>3, <2>4, <2>5, <2>6, <2>7, <2>8 DEF Next, Over
<1>. QED BY <1>1, <1>2

-----------------------------------------------------------------------------
(* No lost wake-up *)

\* A worker that enters the awake set adds one to it, one that leaves takes
\* one away, and a move inside or outside it changes nothing.
LEMMA AwakeStep ==
    ASSUME TypeOK, NEW w \in Workers, NEW to \in WorkerStates,
           wpc' = [wpc EXCEPT ![w] = to]
    PROVE  /\ wpc[w] \in {"lock", "test", "check", "pop"}
              /\ to \in {"lock", "test", "check", "pop"} => Awake' = Awake
           /\ wpc[w] \notin {"lock", "test", "check", "pop"}
              /\ to \in {"lock", "test", "check", "pop"}
              => Cardinality(Awake') = Cardinality(Awake) + 1
           /\ wpc[w] \in {"lock", "test", "check", "pop"}
              /\ to \notin {"lock", "test", "check", "pop"}
              => Cardinality(Awake') = Cardinality(Awake) - 1
<1> DEFINE On == {"lock", "test", "check", "pop"}
<1>1. IsFiniteSet(Awake) /\ Cardinality(Awake) \in Nat
  BY AwakeFinite
<1>2. \A v \in Workers : wpc'[v] = IF v = w THEN to ELSE wpc[v]
  BY DEF TypeOK
<1>3. Awake' = {v \in Workers : wpc'[v] \in On}
  BY DEF Awake
<1>4. Awake = {v \in Workers : wpc[v] \in On}
  BY DEF Awake
<1>. HIDE DEF On
<1>5. ASSUME wpc[w] \in On, to \in On  PROVE Awake' = Awake
  BY <1>2, <1>3, <1>4, <1>5
<1>6. ASSUME wpc[w] \notin On, to \in On
      PROVE  Cardinality(Awake') = Cardinality(Awake) + 1
  <2>1. Awake' = Awake \cup {w} /\ w \notin Awake
    BY <1>2, <1>3, <1>4, <1>6
  <2>. QED BY <2>1, <1>1, FS_AddElement
<1>7. ASSUME wpc[w] \in On, to \notin On
      PROVE  Cardinality(Awake') = Cardinality(Awake) - 1
  <2>1. Awake' = Awake \ {w} /\ w \in Awake
    BY <1>2, <1>3, <1>4, <1>7
  <2>. QED BY <2>1, <1>1, FS_RemoveElement
<1>. QED BY <1>5, <1>6, <1>7 DEF On

\* While a worker sleeps, every queued job has an awake worker or a pending
\* notification: the push adds both, the pop takes one of each, and a worker
\* goes to sleep only when it saw the queue empty under the lock.
LEMMA WakeInductive ==
    /\ Init => WorkConserving
    /\ TypeOK /\ SeenInv /\ StopInv /\ WorkConserving /\ [Next]_vars
       => WorkConserving'
<1> DEFINE Pending == IF mpc = "notify_one" THEN 1 ELSE 0
           Covered == Len(jobs) <= Cardinality(Awake) + Pending
<1>1. Init => WorkConserving
  BY DEF Init, WorkConserving, Sleepers
<1>2. ASSUME TypeOK, SeenInv, StopInv, WorkConserving, [Next]_vars,
             Sleepers' # {}, ~shouldTerminate'
      PROVE  Covered'
  <2>1. Cardinality(Awake) \in Nat /\ Len(jobs) \in Nat /\ Pending \in {0, 1}
    BY <1>2, AwakeFinite, LenProperties DEF TypeOK
  <2>2. ~shouldTerminate
    BY <1>2 DEF Next, LoopStep, ReturnStep, CallStep, Over, LockJobs,
       TestPredicate, Block, Quit, GoOn, PopJob, JobReturns, SpuriousWake,
       JobThrows, CallAddJob, CallerThrows, LockToAdd, PushJob, NotifyOne, CallEnd,
       LockToEnd, SetTerminate, NotifyAll, JoinAll, vars, sharedVars
  <2>3. Sleepers # {} => Covered
    BY <1>2, <2>2 DEF WorkConserving
  <2>4. ASSUME UNCHANGED <<wpc, jobs, mpc>>  PROVE Covered'
    <3>1. Sleepers # {} /\ Awake' = Awake
      BY <1>2, <2>4 DEF Sleepers, Awake
    <3>. QED BY <2>3, <2>4, <3>1
  <2>. DEFINE On == {"lock", "test", "check", "pop"}
  <2>5. ASSUME NEW w \in Workers, NEW from \in On, NEW to \in On,
               Goto(w, from, to), UNCHANGED <<jobs, mpc>>
        PROVE  Covered'
    <3>1. Awake' = Awake
      BY <1>2, <2>5, AwakeStep DEF Goto, WorkerStates
    <3>2. Sleepers # {}
      BY <1>2, <2>5 DEF Goto, Sleepers, TypeOK
    <3>. QED BY <2>3, <2>5, <3>1, <3>2
  <2>6. ASSUME NEW w \in Workers, Block(w)  PROVE Covered'
    <3>1. jobs = << >> /\ jobs' = jobs /\ mpc' = mpc
      BY <1>2, <2>6 DEF Block, Goto, SeenInv, sharedVars, mainVars
    <3>2. Cardinality(Awake') = Cardinality(Awake)
      <4>1. Awake' = Awake
        BY <1>2, <2>6 DEF Block, Goto, Awake, TypeOK
      <4>. QED BY <4>1
    <3>3. Len(jobs) = 0
      BY <3>1, EmptySeq
    <3>. QED BY <2>1, <3>1, <3>2, <3>3
  <2>7. ASSUME NEW w \in Workers, TestPredicate(w)  PROVE Covered'
    <3>1. CASE JobOrTermination
      BY <2>5, <2>7, <3>1 DEF TestPredicate, sharedVars, mainVars
    <3>2. CASE ~JobOrTermination
      <4>1. jobs = << >> /\ jobs' = jobs /\ mpc' = mpc
        BY <2>7, <3>2 DEF TestPredicate, JobOrTermination, sharedVars, mainVars
      <4>2. wpc[w] \in On /\ wpc' = [wpc EXCEPT ![w] = "block"]
        BY <2>7, <3>2 DEF TestPredicate, Goto
      <4>3. Cardinality(Awake') = Cardinality(Awake) - 1 /\ w \in Awake
        BY <1>2, <4>2, AwakeStep DEF WorkerStates, Awake
      <4>4. Cardinality(Awake) # 0
        BY <4>3, AwakeFinite, FS_EmptySet
      <4>5. Len(jobs) = 0
        BY <4>1, EmptySeq
      <4>. QED BY <2>1, <4>1, <4>3, <4>4, <4>5
    <3>. QED BY <3>1, <3>2
  <2>8. ASSUME NEW w \in Workers, PopJob(w)  PROVE Covered'
    <3>1. jobs # << >> /\ jobs' = Tail(jobs) /\ mpc' = mpc
      BY <1>2, <2>8 DEF PopJob, Goto, SeenInv, mainVars
    <3>2. Len(jobs') = Len(jobs) - 1
      BY <1>2, <3>1, HeadTailProperties DEF TypeOK
    <3>3. wpc[w] \in On /\ wpc' = [wpc EXCEPT ![w] = "run"]
      BY <2>8 DEF PopJob, Goto
    <3>4. Cardinality(Awake') = Cardinality(Awake) - 1
      BY <1>2, <3>3, AwakeStep DEF WorkerStates
    <3>5. Sleepers # {}
      BY <1>2, <3>3 DEF Sleepers, TypeOK
    <3>. QED BY <2>1, <2>3, <3>1, <3>2, <3>4, <3>5
  <2>9. ASSUME NEW w \in Workers, JobReturns(w) \/ SpuriousWake(w)
        PROVE  Covered'
    <3>1. jobs' = jobs /\ mpc' = mpc
      BY <2>9 DEF JobReturns, SpuriousWake, sharedVars, mainVars
    <3>2. wpc[w] \notin On /\ wpc' = [wpc EXCEPT ![w] = "lock"]
      BY <2>9 DEF JobReturns, SpuriousWake, Goto
    <3>3. Cardinality(Awake') = Cardinality(Awake) + 1
      BY <1>2, <3>2, AwakeStep DEF WorkerStates
    <3>4. Sleepers # {}
      BY <1>2, <3>2 DEF Sleepers, TypeOK
    <3>. QED BY <2>1, <2>3, <3>1, <3>3, <3>4
  <2>10. CASE PushJob
    <3>1. Len(jobs') = Len(jobs) + 1
      BY <1>2, <2>10, AppendProperties DEF PushJob, TypeOK
    <3>2. mpc = "push" /\ mpc' = "notify_one" /\ wpc' = wpc
      BY <2>10 DEF PushJob, workerVars
    <3>3. Sleepers # {} /\ Awake' = Awake
      BY <1>2, <3>2 DEF Sleepers, Awake
    <3>. QED BY <2>1, <2>3, <3>1, <3>2, <3>3
  <2>11. CASE NotifyOne
    <3>1. jobs' = jobs /\ mpc = "notify_one" /\ mpc' = "idle"
      BY <2>11 DEF NotifyOne, sharedVars
    <3>2. Sleepers # {}
      BY <1>2, <2>11 DEF NotifyOne, Sleepers
    <3>3. PICK w \in Sleepers : wpc' = [wpc EXCEPT ![w] = "lock"]
      BY <2>11, <3>2 DEF NotifyOne
    <3>4. Cardinality(Awake') = Cardinality(Awake) + 1
      BY <1>2, <3>3, AwakeStep DEF WorkerStates, Sleepers
    <3>. QED BY <2>1, <2>3, <3>1, <3>2, <3>4
  <2>12. CASE CallStep
    <3>1. ~SetTerminate
      BY <1>2 DEF SetTerminate
    <3>2. ~NotifyAll
      BY <1>2, <2>2 DEF NotifyAll, StopInv
    <3>3. ~JoinAll
      BY <1>2, <2>2 DEF JoinAll, StopInv
    <3>4. ASSUME LockToAdd \/ LockToEnd  PROVE Covered'
      <4>1. UNCHANGED <<wpc, jobs>> /\ Pending' = Pending
        BY <3>4 DEF LockToAdd, LockToEnd, sharedVars, workerVars
      <4>2. Sleepers # {} /\ Awake' = Awake
        BY <1>2, <4>1 DEF Sleepers, Awake
      <4>. QED BY <2>3, <4>1, <4>2
    <3>. QED BY <2>10, <2>11, <2>12, <3>1, <3>2, <3>3, <3>4 DEF CallStep
  <2>13. ASSUME CallEnd \/ CallerThrows \/ \E j \in Jobs : CallAddJob(j)
         PROVE  Covered'
    <3>1. UNCHANGED <<wpc, jobs>> /\ Pending' = Pending
      BY <2>13 DEF CallEnd, CallerThrows, CallAddJob, sharedVars, workerVars,
                   mainVars
    <3>2. Sleepers # {} /\ Awake' = Awake
      BY <1>2, <3>1 DEF Sleepers, Awake
    <3>. QED BY <2>3, <3>1, <3>2
  <2>14. ASSUME NEW w \in Workers, LoopStep(w)  PROVE Covered'
    <3>1. CASE LockJobs(w)
      BY <2>5, <3>1 DEF LockJobs, sharedVars, mainVars
    <3>2. CASE GoOn(w)
      BY <2>5, <3>2 DEF GoOn, sharedVars, mainVars
    <3>3. ~Quit(w)
      BY <2>2 DEF Quit
    <3>. QED BY <2>6, <2>7, <2>8, <2>14, <3>1, <3>2, <3>3 DEF LoopStep
  <2>15. ASSUME NEW w \in Workers, JobThrows(w)  PROVE Covered'
    BY <2>4, <2>15 DEF JobThrows, workerVars, sharedVars, mainVars
  <2>16. CASE UNCHANGED vars
    BY <2>4, <2>16 DEF vars
  <2>. QED
    BY <1>2, <2>9, <2>12, <2>13, <2>14, <2>15, <2>16
       DEF Next, ReturnStep, Over
<1>3. ASSUME TypeOK, SeenInv, StopInv, WorkConserving, [Next]_vars
      PROVE  WorkConserving'
  <2>1. (Sleepers' # {} /\ ~shouldTerminate') => Covered'
    BY <1>2, <1>3
  <2>. QED BY <2>1 DEF WorkConserving
<1>. QED BY <1>1, <1>3

-----------------------------------------------------------------------------
(* Theorems *)

\* Every reachable state of the pool satisfies the inductive invariant.
THEOREM Invariance == SafetySpec => []IInv
<1>1. Init => IInv
  BY TypeInductive, LockInductive, SeenInductive, FifoInductive, WakeInductive
     DEF IInv
<1>2. IInv /\ [Next]_vars => IInv'
  BY TypeInductive, LockInductive, SeenInductive, FifoInductive, WakeInductive
     DEF IInv
<1>. QED BY <1>1, <1>2, PTL DEF SafetySpec

\* Type correctness of the pool for any workers and jobs.
THEOREM TypeCorrectness == SafetySpec => []TypeOK
<1>1. IInv => TypeOK
  BY DEF IInv
<1>. QED BY <1>1, Invariance, PTL

\* No job pushed by add_job is lost, duplicated or overtaken.
THEOREM QueueIsFifo == SafetySpec => []FifoOnce
<1>1. IInv => FifoOnce
  BY DEF IInv
<1>. QED BY <1>1, Invariance, PTL

\* thread_loop never calls front() or pop() on an empty queue.
THEOREM PopsAreSafe == SafetySpec => []NoPopOfEmpty
<1>1. IInv => NoPopOfEmpty
  BY DEF IInv, SeenInv, NoPopOfEmpty
<1>. QED BY <1>1, Invariance, PTL

\* A worker never sleeps on a queued job that nobody else is coming for,
\* although add_job notifies after it has released jobs_mutex.
THEOREM NoLostWakeup == SafetySpec => []WorkConserving
<1>1. IInv => WorkConserving
  BY DEF IInv
<1>. QED BY <1>1, Invariance, PTL

\* The notify_all of end reaches every worker that join will wait for.
THEOREM ShutdownWakesAll == SafetySpec => []NoSleeperAtJoin
<1>1. IInv => NoSleeperAtJoin
  BY DEF IInv
<1>. QED BY <1>1, Invariance, PTL

\* No job is started once should_terminate is set, as the comment of end
\* promises.
THEOREM TerminationStopsJobs == SafetySpec => NoJobAfterTermination
<1>1. ASSUME IInv, [Next]_vars, shouldTerminate  PROVE started' = started
  <2>1. \A w \in Workers : ~PopJob(w)
    BY <1>1 DEF IInv, SeenInv, PopJob, Goto
  <2>2. \A w \in Workers : LoopStep(w) => started' = started
    BY <2>1 DEF LoopStep, LockJobs, TestPredicate, Block, Quit, GoOn, historyVars
  <2>3. CallStep => started' = started
    BY DEF CallStep, LockToAdd, PushJob, NotifyOne, LockToEnd, SetTerminate,
           NotifyAll, JoinAll, historyVars
  <2>. QED
    BY <1>1, <2>2, <2>3 DEF Next, ReturnStep, JobReturns, SpuriousWake,
       JobThrows, CallEnd, CallerThrows, CallAddJob, Over, vars, historyVars
<1>2. IInv /\ [Next]_vars => [shouldTerminate => started' = started]_vars
  BY <1>1
<1>. QED BY <1>2, Invariance, PTL DEF SafetySpec, NoJobAfterTermination

\* The pool implements the abstract job queue: its queue, its log of started
\* jobs and should_terminate behave as JobQueue allows, whatever the threads do.
THEOREM PoolImplementsJobQueue == SafetySpec => ImplementsJobQueue
<1>1. Init => JQ!Init
  BY DEF Init, JQ!Init
<1>2. ASSUME IInv, [Next]_vars  PROVE [JQ!Next]_(JQ!vars)
  <2>1. ASSUME NEW w \in Workers, PopJob(w)  PROVE JQ!Start
    BY <1>2, <2>1 DEF IInv, SeenInv, PopJob, Goto, JQ!Start
  <2>2. CASE PushJob
    <3>1. arg \in Jobs
      BY <1>2, <2>2 DEF IInv, ArgInv, PushJob
    <3>. QED BY <2>2, <3>1 DEF PushJob, JQ!Next, JQ!Submit
  <2>3. CASE SetTerminate
    BY <2>3 DEF SetTerminate, historyVars, JQ!Next, JQ!Stop
  <2>4. ASSUME UNCHANGED <<jobs, started, shouldTerminate>>
        PROVE  UNCHANGED JQ!vars
    BY <2>4 DEF JQ!vars
  <2>5. ASSUME NEW w \in Workers, LoopStep(w), ~PopJob(w)
        PROVE  UNCHANGED <<jobs, started, shouldTerminate>>
    BY <2>5 DEF LoopStep, LockJobs, TestPredicate, Block, Quit, GoOn,
                sharedVars, historyVars
  <2>6. ASSUME CallStep, ~PushJob, ~SetTerminate
        PROVE  UNCHANGED <<jobs, started, shouldTerminate>>
    BY <2>6 DEF CallStep, LockToAdd, NotifyOne, LockToEnd, NotifyAll, JoinAll,
                sharedVars, historyVars
  <2>7. ASSUME NEW w \in Workers, ReturnStep(w) \/ SpuriousWake(w) \/ JobThrows(w)
        PROVE  UNCHANGED <<jobs, started, shouldTerminate>>
    BY <2>7 DEF ReturnStep, JobReturns, SpuriousWake, JobThrows, sharedVars,
                historyVars
  <2>8. ASSUME CallEnd \/ CallerThrows \/ \E j \in Jobs : CallAddJob(j)
        PROVE  UNCHANGED <<jobs, started, shouldTerminate>>
    BY <2>8 DEF CallEnd, CallerThrows, CallAddJob, sharedVars, historyVars
  <2>9. ASSUME UNCHANGED vars
        PROVE  UNCHANGED <<jobs, started, shouldTerminate>>
    BY <2>9 DEF vars
  <2>. QED
    BY <1>2, <2>1, <2>2, <2>3, <2>4, <2>5, <2>6, <2>7, <2>8, <2>9
       DEF Next, Over, JQ!Next
<1>. QED
  BY <1>1, <1>2, Invariance, PTL DEF SafetySpec, ImplementsJobQueue, JQ!SafetySpec
=============================================================================
