----------------------------- MODULE ThreadPool -----------------------------
(***************************************************************************)
(* The thread pool of server/lib/thread-pool.tpp: worker threads that run  *)
(* thread_loop, and the one thread (main, in server.cpp) that calls        *)
(* add_job and end.  The shared state is should_terminate and the job      *)
(* queue, both guarded by jobs_mutex, and the wait set of mutex_condition. *)
(* A step is what one thread does between two points where another thread  *)
(* can interfere; code that runs with jobs_mutex held is still split where *)
(* the lock is the only thing that keeps the others out.                   *)
(***************************************************************************)
EXTENDS Naturals, Sequences, FiniteSets, Functions

CONSTANTS Workers,      \* the threads of the pool
          Jobs,         \* the jobs that may be submitted, each at most once
          Throwing,     \* the jobs that may let an exception escape
          Main,         \* the thread that calls add_job and end
          None,         \* no thread, no job
          MaxSpurious   \* bound on spurious wake-ups of mutex_condition

ASSUME ThreadsAssumption ==
    /\ IsFiniteSet(Workers)
    /\ Workers # {}
    /\ Main \notin Workers
    /\ None \notin Workers \cup Jobs \cup {Main}
    /\ Throwing \subseteq Jobs
    /\ MaxSpurious \in Nat

VARIABLES shouldTerminate,  \* ThreadPool::should_terminate
          jobsMutex,        \* the thread that holds jobs_mutex, or None
          jobs,             \* ThreadPool::jobs, front first
          wpc,              \* where each worker is in thread_loop
          job,              \* the local variable job of each worker
          mpc,              \* where main is: in no call, in add_job or in end
          arg,              \* the job that add_job was called with
          aborted,          \* TRUE after std::terminate: the process is gone
          spurious,         \* spurious wake-ups so far
          submitted,        \* history: every job pushed, in order
          started           \* history: every job popped, in order

sharedVars  == <<shouldTerminate, jobs>>
historyVars == <<submitted, started>>
workerVars  == <<wpc, job>>
mainVars    == <<mpc, arg>>
vars == <<shouldTerminate, jobsMutex, jobs, wpc, job, mpc, arg, aborted,
          spurious, submitted, started>>

\* "lock": about to acquire jobs_mutex, at the top of the loop or inside
\* wait(); "test": evaluating the predicate of wait(); "block": the predicate
\* was false; "asleep": in the wait set; "check": past wait(); "pop": about to
\* take the front job; "run": inside job(); "exited": returned.
WorkerStates == {"lock", "test", "block", "asleep", "check", "pop", "run",
                 "exited"}
MainStates == {"idle", "add_lock", "push", "notify_one", "end_lock", "set",
               "notify_all", "join", "ended"}

Holding  == {w \in Workers : wpc[w] \in {"test", "block", "check", "pop"}}
Sleepers == {w \in Workers : wpc[w] = "asleep"}
Awake    == {w \in Workers : wpc[w] \in {"lock", "test", "check", "pop"}}

\* The constructor starts every worker on thread_loop before main can call
\* anything; a thread not yet scheduled is one that still stands at "lock".
Init ==
    /\ shouldTerminate = FALSE
    /\ jobsMutex = None
    /\ jobs = <<>>
    /\ wpc = [w \in Workers |-> "lock"]
    /\ job = [w \in Workers |-> None]
    /\ mpc = "idle"
    /\ arg = None
    /\ aborted = FALSE
    /\ spurious = 0
    /\ submitted = <<>>
    /\ started = <<>>

Goto(w, from, to) ==
    /\ wpc[w] = from
    /\ wpc' = [wpc EXCEPT ![w] = to]

-----------------------------------------------------------------------------
(* thread_loop *)

LockJobs(w) ==
    /\ Goto(w, "lock", "test")
    /\ jobsMutex = None
    /\ jobsMutex' = w
    /\ UNCHANGED <<sharedVars, job, mainVars, aborted, spurious, historyVars>>

\* mutant: the predicate forgets that the pool may be ended
PredicateWithoutTermination == jobs # <<>>

\* mutant: wait(lock) without a predicate
NoPredicate == TRUE

JobOrTermination == jobs # <<>> \/ shouldTerminate

\* wait(lock, predicate) returns with the lock held when the predicate holds
TestPredicate(w) ==
    /\ Goto(w, "test", IF JobOrTermination THEN "check" ELSE "block")
    /\ UNCHANGED <<sharedVars, jobsMutex, job, mainVars, aborted, spurious,
                   historyVars>>

\* otherwise it releases the lock and joins the wait set in one step
Block(w) ==
    /\ Goto(w, "block", "asleep")
    /\ jobsMutex' = None
    /\ UNCHANGED <<sharedVars, job, mainVars, aborted, spurious, historyVars>>

SpuriousWake(w) ==
    /\ Goto(w, "asleep", "lock")
    /\ spurious < MaxSpurious
    /\ spurious' = spurious + 1
    /\ UNCHANGED <<sharedVars, jobsMutex, job, mainVars, aborted, historyVars>>

\* if (should_terminate) return: the destructor of lock releases jobs_mutex
Quit(w) ==
    /\ shouldTerminate
    /\ Goto(w, "check", "exited")
    /\ jobsMutex' = None
    /\ UNCHANGED <<sharedVars, job, mainVars, aborted, spurious, historyVars>>

GoOn(w) ==
    /\ ~shouldTerminate
    /\ Goto(w, "check", "pop")
    /\ UNCHANGED <<sharedVars, jobsMutex, job, mainVars, aborted, spurious,
                   historyVars>>

\* mutant: front() without pop()
PopJobKept(w) ==
    /\ Goto(w, "pop", "run")
    /\ job' = [job EXCEPT ![w] = Head(jobs)]
    /\ started' = Append(started, Head(jobs))
    /\ jobsMutex' = None
    /\ UNCHANGED <<sharedVars, mainVars, aborted, spurious, submitted>>

\* mutant: a stack, the newest job first
PopJobNewest(w) ==
    /\ Goto(w, "pop", "run")
    /\ job' = [job EXCEPT ![w] = jobs[Len(jobs)]]
    /\ jobs' = SubSeq(jobs, 1, Len(jobs) - 1)
    /\ started' = Append(started, jobs[Len(jobs)])
    /\ jobsMutex' = None
    /\ UNCHANGED <<shouldTerminate, mainVars, aborted, spurious, submitted>>

PopJob(w) ==
    /\ Goto(w, "pop", "run")
    /\ job' = [job EXCEPT ![w] = Head(jobs)]
    /\ jobs' = Tail(jobs)
    /\ started' = Append(started, Head(jobs))
    /\ jobsMutex' = None
    /\ UNCHANGED <<shouldTerminate, mainVars, aborted, spurious, submitted>>

JobReturns(w) ==
    /\ Goto(w, "run", "lock")
    /\ job' = [job EXCEPT ![w] = None]
    /\ UNCHANGED <<sharedVars, jobsMutex, mainVars, aborted, spurious,
                   historyVars>>

\* thread_loop catches nothing: an exception leaves the thread's function
\* and std::terminate ends the process.
JobThrows(w) ==
    /\ wpc[w] = "run"
    /\ job[w] \in Throwing
    /\ aborted' = TRUE
    /\ UNCHANGED <<sharedVars, jobsMutex, workerVars, mainVars, spurious,
                   historyVars>>

-----------------------------------------------------------------------------
(* add_job *)

CallAddJob(j) ==
    /\ mpc = "idle"
    /\ j \notin Range(submitted)
    /\ mpc' = "add_lock"
    /\ arg' = j
    /\ UNCHANGED <<sharedVars, jobsMutex, workerVars, aborted, spurious,
                   historyVars>>

LockToAdd ==
    /\ mpc = "add_lock"
    /\ jobsMutex = None
    /\ jobsMutex' = Main
    /\ mpc' = "push"
    /\ UNCHANGED <<sharedVars, workerVars, arg, aborted, spurious, historyVars>>

\* mutant: the pushed Job is default-constructed and holds no function
PushJobEmpty ==
    /\ mpc = "push"
    /\ jobs' = Append(jobs, None)
    /\ submitted' = Append(submitted, None)
    /\ jobsMutex' = None
    /\ mpc' = "notify_one"
    /\ UNCHANGED <<shouldTerminate, workerVars, arg, aborted, spurious, started>>

PushJob ==
    /\ mpc = "push"
    /\ jobs' = Append(jobs, arg)
    /\ submitted' = Append(submitted, arg)
    /\ jobsMutex' = None
    /\ mpc' = "notify_one"
    /\ UNCHANGED <<shouldTerminate, workerVars, arg, aborted, spurious, started>>

\* mutant: add_job does not notify
NotifyOneForgotten ==
    /\ mpc = "notify_one"
    /\ mpc' = "idle"
    /\ arg' = None
    /\ UNCHANGED <<sharedVars, jobsMutex, workerVars, aborted, spurious,
                   historyVars>>

\* The lock is released before the notification, which is lost when no
\* thread is in the wait set.
NotifyOne ==
    /\ mpc = "notify_one"
    /\ mpc' = "idle"
    /\ arg' = None
    /\ IF Sleepers = {}
       THEN UNCHANGED wpc
       ELSE \E w \in Sleepers : wpc' = [wpc EXCEPT ![w] = "lock"]
    /\ UNCHANGED <<sharedVars, jobsMutex, job, aborted, spurious, historyVars>>

-----------------------------------------------------------------------------
(* end *)

CallEnd ==
    /\ mpc = "idle"
    /\ mpc' = "end_lock"
    /\ UNCHANGED <<sharedVars, jobsMutex, workerVars, arg, aborted, spurious,
                   historyVars>>

\* mutant: end writes should_terminate without taking the lock
LockToEndSkipped ==
    /\ mpc = "end_lock"
    /\ mpc' = "set"
    /\ UNCHANGED <<sharedVars, jobsMutex, workerVars, arg, aborted, spurious,
                   historyVars>>

LockToEnd ==
    /\ mpc = "end_lock"
    /\ jobsMutex = None
    /\ jobsMutex' = Main
    /\ mpc' = "set"
    /\ UNCHANGED <<sharedVars, workerVars, arg, aborted, spurious, historyVars>>

SetTerminate ==
    /\ mpc = "set"
    /\ shouldTerminate' = TRUE
    /\ jobsMutex' = None
    /\ mpc' = "notify_all"
    /\ UNCHANGED <<jobs, workerVars, arg, aborted, spurious, historyVars>>

\* mutant: end calls notify_one instead of notify_all
NotifyAllOnlyOne ==
    /\ mpc = "notify_all"
    /\ IF Sleepers = {}
       THEN UNCHANGED wpc
       ELSE \E w \in Sleepers : wpc' = [wpc EXCEPT ![w] = "lock"]
    /\ mpc' = "join"
    /\ UNCHANGED <<sharedVars, jobsMutex, job, arg, aborted, spurious,
                   historyVars>>

NotifyAll ==
    /\ mpc = "notify_all"
    /\ wpc' = [w \in Workers |-> IF w \in Sleepers THEN "lock" ELSE wpc[w]]
    /\ mpc' = "join"
    /\ UNCHANGED <<sharedVars, jobsMutex, job, arg, aborted, spurious,
                   historyVars>>

\* end returns when the last worker it joins has returned
JoinAll ==
    /\ mpc = "join"
    /\ \A w \in Workers : wpc[w] = "exited"
    /\ mpc' = "ended"
    /\ UNCHANGED <<sharedVars, jobsMutex, workerVars, arg, aborted, spurious,
                   historyVars>>

-----------------------------------------------------------------------------
\* main may also end the process by itself, with an exception of its own code
CallerThrows ==
    /\ mpc = "idle"
    /\ aborted' = TRUE
    /\ UNCHANGED <<sharedVars, jobsMutex, workerVars, mainVars, spurious,
                   historyVars>>

\* What a worker does by itself, the job it runs left aside
LoopStep(w) ==
    /\ ~aborted
    /\ \/ LockJobs(w) \/ TestPredicate(w) \/ Block(w)
       \/ Quit(w) \/ GoOn(w) \/ PopJob(w)

\* What main does inside a call of add_job or end
CallStep ==
    /\ ~aborted
    /\ \/ LockToAdd \/ PushJob \/ NotifyOne
       \/ LockToEnd \/ SetTerminate \/ NotifyAll \/ JoinAll

ReturnStep(w) == ~aborted /\ JobReturns(w)

\* The process is over: main has left end, or std::terminate was called
Over == (mpc = "ended" \/ aborted) /\ UNCHANGED vars

Next ==
    \/ \E w \in Workers : LoopStep(w) \/ ReturnStep(w)
    \/ CallStep
    \/ \E w \in Workers : ~aborted /\ (SpuriousWake(w) \/ JobThrows(w))
    \/ ~aborted /\ (CallEnd \/ CallerThrows \/ \E j \in Jobs : CallAddJob(j))
    \/ Over

SafetySpec == Init /\ [][Next]_vars

\* The operating system runs every thread that can run and hands jobs_mutex
\* to a thread that waits for it when it stays free; jobs are assumed to
\* return.  Nothing makes main call add_job or end.
Fairness ==
    /\ \A w \in Workers : WF_vars(LoopStep(w)) /\ WF_vars(ReturnStep(w))
    /\ WF_vars(CallStep)

Spec == SafetySpec /\ Fairness

-----------------------------------------------------------------------------
(* Properties *)

\* Every variable has the values its C++ type and use allow.
TypeOK ==
    /\ shouldTerminate \in BOOLEAN
    /\ jobsMutex \in Workers \cup {Main, None}
    /\ jobs \in Seq(Jobs)
    /\ wpc \in [Workers -> WorkerStates]
    /\ job \in [Workers -> Jobs \cup {None}]
    /\ mpc \in MainStates
    /\ arg \in Jobs \cup {None}
    /\ aborted \in BOOLEAN
    /\ spurious \in 0..MaxSpurious
    /\ submitted \in Seq(Jobs)
    /\ started \in Seq(Jobs)

\* No job is lost, duplicated or overtaken: what was pushed is exactly what
\* was popped followed by what is still queued (the queue of add_job and
\* thread_loop is shared by all threads).
FifoOnce == submitted = started \o jobs

\* pop() never meets an empty queue: between the test of wait() and the pop no
\* other worker gets in, even when several were woken for one job.
NoPopOfEmpty == \A w \in Workers : wpc[w] = "pop" => jobs # <<>>

\* No lost wake-up: while some worker sleeps, every queued job has a worker
\* that is awake and on its way to the queue, or main is about to notify one.
\* This is why add_job may notify after it has released the lock.
WorkConserving ==
    (Sleepers # {} /\ ~shouldTerminate)
        => Len(jobs) <= Cardinality(Awake)
                        + (IF mpc = "notify_one" THEN 1 ELSE 0)

\* No lost shutdown: once end has notified and waits in join, no worker is
\* in the wait set or on its way into it, where nobody would wake it again.
NoSleeperAtJoin ==
    mpc \in {"join", "ended"} => \A w \in Workers : wpc[w] \notin {"asleep", "block"}

\* The comment of end: should_terminate is written under the lock so that no
\* badly placed context switch lets another job run after it was set.
NoJobAfterTermination == [][shouldTerminate => started' = started]_vars

\* end returns: whenever it was called it joins every worker.
EndReturns == (mpc = "end_lock") ~> (mpc = "ended" \/ aborted)

\* Every job handed to add_job is run, unless the pool is ended first.
JobsAreRun ==
    \A j \in Jobs : (arg = j) ~> (j \in Range(started) \/ shouldTerminate \/ aborted)

\* The pool keeps the promise of the abstract job queue.
JQ == INSTANCE JobQueue WITH queue <- jobs, stopped <- shouldTerminate
ImplementsJobQueue == JQ!SafetySpec
=============================================================================
