------------------------------ MODULE JobQueue ------------------------------
(***************************************************************************)
(* What a thread pool promises its user, with no thread, lock or condition *)
(* variable in sight: submitted jobs are started once each, in the order   *)
(* of submission, until the pool is stopped; from then on none is started. *)
(* ThreadPool is shown to implement this module.                           *)
(***************************************************************************)
EXTENDS Sequences

CONSTANT Jobs

VARIABLES queue,    \* submitted jobs that have not been started
          started,  \* the jobs started so far, in the order they were started
          stopped   \* TRUE once the pool was told to end

vars == <<queue, started, stopped>>

Init ==
    /\ queue = <<>>
    /\ started = <<>>
    /\ stopped = FALSE

Submit(j) ==
    /\ queue' = Append(queue, j)
    /\ UNCHANGED <<started, stopped>>

Start ==
    /\ ~stopped
    /\ queue # <<>>
    /\ started' = Append(started, Head(queue))
    /\ queue' = Tail(queue)
    /\ UNCHANGED stopped

Stop ==
    /\ stopped' = TRUE
    /\ UNCHANGED <<queue, started>>

Next == (\E j \in Jobs : Submit(j)) \/ Start \/ Stop

SafetySpec == Init /\ [][Next]_vars

\* The queue keeps moving as long as jobs return: a pending job is started
\* or the pool is stopped.
Spec == SafetySpec /\ WF_vars(Start)
=============================================================================
