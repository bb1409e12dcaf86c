---------------------------- MODULE ServerProofs ----------------------------
(***************************************************************************)
(* Proofs about Server for any number of clients and workers and any       *)
(* limits.  Its behaviours are behaviours of ThreadPool, so that what is   *)
(* proved of the pool holds in the server; and no connection is lost on    *)
(* the way from the kernel to a worker.                                    *)
(***************************************************************************)
EXTENDS Server, ThreadPoolProofs

-----------------------------------------------------------------------------
(* The server is a user of the pool *)

\* Every step of the server is a step of the pool or does not concern it.
LEMMA StepIsPoolStep ==
    ServerTypeOK /\ [ServerNext]_allVars => [Next]_vars
<1>. SUFFICES ASSUME ServerTypeOK, [ServerNext]_allVars  PROVE [Next]_vars
  OBVIOUS
<1>1. ASSUME NEW w \in Workers, PoolStep(w) \/ SessionStep(w)  PROVE Next
  BY <1>1 DEF PoolStep, SessionStep, SessionEnds, ReturnStep, Next
<1>2. CASE MainStep
  BY <1>2 DEF MainStep, Next
<1>3. ASSUME ~aborted, Accept  PROVE Next
  <2>1. Head(backlog) \in Jobs
    BY <1>3, HeadTailProperties DEF Accept, ServerTypeOK
  <2>. QED BY <1>3, <2>1 DEF Accept, Next
<1>4. ASSUME ~aborted, AcceptThrows \/ TimeOut  PROVE Next
  BY <1>4 DEF AcceptThrows, TimeOut, Next
<1>5. CASE CloseServer
  BY <1>5 DEF CloseServer
<1>6. ASSUME NEW w \in Workers, ~aborted, SpuriousWake(w) \/ JobThrows(w)  PROVE Next
  BY <1>6 DEF Next
<1>7. ASSUME NEW c \in Jobs, Connect(c)  PROVE UNCHANGED vars
  BY <1>7 DEF Connect
<1>8. CASE ProcessOver
  BY <1>8 DEF ProcessOver, allVars
<1>9. CASE UNCHANGED allVars
  BY <1>9 DEF allVars
<1>. QED
  BY <1>1, <1>2, <1>3, <1>4, <1>5, <1>6, <1>7, <1>8, <1>9
     DEF ServerNext, AcceptStep

\* The sockets and the backlog keep their types.
LEMMA ServerTypeInductive ==
    /\ ServerInit => ServerTypeOK
    /\ TypeOK /\ ServerTypeOK /\ [ServerNext]_allVars => ServerTypeOK'
<1>1. ASSUME ServerInit  PROVE ServerTypeOK
  <2>1. << >> \in Seq(Jobs) /\ Len(<< >>) = 0
    BY EmptySeq
  <2>2. OpenSockets = {}
    BY <1>1 DEF ServerInit, OpenSockets
  <2>3. DescriptorsBounded
    BY <2>2, FS_EmptySet, LimitsAssumption DEF DescriptorsBounded
  <2>. QED BY <1>1, <2>1, <2>3, LimitsAssumption DEF ServerInit, ServerTypeOK
<1>2. ASSUME TypeOK, ServerTypeOK, [ServerNext]_allVars  PROVE ServerTypeOK'
  <2>. USE DEF ServerTypeOK
  <2>0. ASSUME OpenSockets' \subseteq OpenSockets  PROVE DescriptorsBounded'
    <3>1. /\ IsFiniteSet(OpenSockets') /\ Cardinality(OpenSockets') \in Nat
          /\ Cardinality(OpenSockets) \in Nat
          /\ Cardinality(OpenSockets') <= Cardinality(OpenSockets)
      BY <1>2, <2>0, FS_Subset, FS_CardinalityType DEF DescriptorsBounded
    <3>. QED BY <1>2, <3>1, LimitsAssumption DEF DescriptorsBounded
  <2>1. ASSUME NEW c \in Jobs, Connect(c)  PROVE ServerTypeOK'
    <3>1. /\ backlog \in Seq(Jobs) /\ arrived \in Seq(Jobs)
          /\ Len(backlog) \in Nat /\ Backlog \in Nat
      BY <1>2, LenProperties, LimitsAssumption DEF ServerTypeOK
    <3>2. /\ backlog' \in Seq(Jobs) /\ Len(backlog') = Len(backlog) + 1
          /\ arrived' \in Seq(Jobs)
      BY <2>1, <3>1, AppendProperties DEF Connect
    <3>3. Len(backlog') <= Backlog
      BY <2>1, <3>1, <3>2 DEF Connect
    <3>4. DescriptorsBounded'
      <4>1. OpenSockets' \subseteq OpenSockets
        BY <1>2, <2>1 DEF Connect, OpenSockets
      <4>. QED BY <2>0, <4>1
    <3>. QED BY <1>2, <2>1, <3>2, <3>3, <3>4 DEF Connect
  <2>2. CASE Accept
    <3>1. /\ Head(backlog) \in Jobs /\ backlog' \in Seq(Jobs)
          /\ Len(backlog') = Len(backlog) - 1
      BY <1>2, <2>2, HeadTailProperties DEF Accept, ServerTypeOK
    <3>2. Len(backlog) \in Nat /\ Backlog \in Nat
      BY <1>2, LenProperties, LimitsAssumption DEF ServerTypeOK
    <3>3. Len(backlog') <= Backlog
      BY <1>2, <3>1, <3>2 DEF ServerTypeOK
    <3>4. DescriptorsBounded'
      <4>1. OpenSockets' = OpenSockets \cup {Head(backlog)}
        BY <1>2, <2>2, <3>1 DEF Accept, OpenSockets
      <4>2. /\ IsFiniteSet(OpenSockets) /\ Cardinality(OpenSockets) \in Nat
            /\ Cardinality(OpenSockets) < FdLimit
        BY <1>2, <2>2, FS_CardinalityType DEF Accept, DescriptorsBounded
      <4>3. /\ IsFiniteSet(OpenSockets')
            /\ Cardinality(OpenSockets') <= Cardinality(OpenSockets) + 1
        BY <4>1, <4>2, FS_AddElement
      <4>4. Cardinality(OpenSockets') \in Nat
        BY <4>3, FS_CardinalityType
      <4>. QED BY <4>2, <4>3, <4>4, LimitsAssumption DEF DescriptorsBounded
    <3>. QED BY <1>2, <2>2, <3>1, <3>3, <3>4 DEF Accept
  <2>3. ASSUME NEW w \in Workers, SessionEnds(w)  PROVE ServerTypeOK'
    <3>1. OpenSockets' \subseteq OpenSockets
      BY <1>2, <2>3 DEF SessionEnds, OpenSockets
    <3>. QED BY <1>2, <2>0, <2>3, <3>1 DEF SessionEnds
  <2>4. CASE CloseServer
    <3>1. OpenSockets' \subseteq OpenSockets
      BY <2>4 DEF CloseServer, OpenSockets
    <3>. QED BY <1>2, <2>0, <2>4, <3>1 DEF CloseServer
  <2>5. CASE UNCHANGED socketVars
    <3>1. OpenSockets' \subseteq OpenSockets
      BY <2>5 DEF socketVars, OpenSockets
    <3>. QED BY <1>2, <2>0, <2>5, <3>1 DEF socketVars
  <2>. QED
    BY <1>2, <2>1, <2>2, <2>3, <2>4, <2>5
       DEF ServerNext, PoolStep, SessionStep, MainStep, AcceptStep,
           AcceptThrows, TimeOut, ProcessOver, allVars
<1>. QED BY <1>1, <1>2

\* The invariants of the pool and the types of the server together.
THEOREM ServerInvariance == ServerSafetySpec => [](IInv /\ ServerTypeOK)
<1>1. ServerInit => IInv /\ ServerTypeOK
  BY ServerTypeInductive, TypeInductive, LockInductive, SeenInductive,
     FifoInductive, WakeInductive DEF ServerInit, IInv
<1>2. IInv /\ ServerTypeOK /\ [ServerNext]_allVars => IInv' /\ ServerTypeOK'
  <2>. SUFFICES ASSUME IInv, ServerTypeOK, [ServerNext]_allVars
                PROVE  IInv' /\ ServerTypeOK'
    OBVIOUS
  <2>1. [Next]_vars
    BY StepIsPoolStep
  <2>2. IInv'
    BY <2>1, TypeInductive, LockInductive, SeenInductive, FifoInductive,
       WakeInductive DEF IInv
  <2>3. ServerTypeOK'
    BY ServerTypeInductive DEF IInv
  <2>. QED BY <2>2, <2>3
<1>. QED BY <1>1, <1>2, PTL DEF ServerSafetySpec

\* The sockets, the backlog and the record of arrivals keep their types.
THEOREM ServerTypeCorrectness == ServerSafetySpec => []ServerTypeOK
BY ServerInvariance, PTL

\* Every behaviour of the server is, seen from the pool, one of ThreadPool:
\* main uses add_job and end as the pool expects.
THEOREM ServerUsesPool == ServerSafetySpec => SafetySpec
<1>1. ServerInit => Init
  BY DEF ServerInit
<1>2. ServerTypeOK /\ [ServerNext]_allVars => [Next]_vars
  BY StepIsPoolStep
<1>. QED BY <1>1, <1>2, ServerInvariance, PTL DEF ServerSafetySpec, SafetySpec

-----------------------------------------------------------------------------
(* No connection is lost *)

\* Concatenation is associative when one of the parts is a single element.
LEMMA SingleAssociative ==
    \A s, t \in Seq(Jobs), e \in Jobs :
        /\ (s \o t) \o <<e>> = s \o (t \o <<e>>)
        /\ (s \o <<e>>) \o t = s \o (<<e>> \o t)
<1>. SUFFICES ASSUME NEW s \in Seq(Jobs), NEW t \in Seq(Jobs), NEW e \in Jobs
     PROVE  /\ (s \o t) \o <<e>> = s \o (t \o <<e>>)
            /\ (s \o <<e>>) \o t = s \o (<<e>> \o t)
  OBVIOUS
<1>. DEFINE u == <<e>>
<1>1. u \in Seq(Jobs)
  OBVIOUS
<1>. HIDE DEF u
<1>2. (s \o t) \o u = s \o (t \o u)
  BY <1>1, ConcatAssociative
<1>3. (s \o u) \o t = s \o (u \o t)
  BY <1>1, ConcatAssociative
<1>. QED BY <1>2, <1>3 DEF u

\* A connection arrives at the back of the chain backlog, add_job, queue,
\* started, and every later step moves it one place towards the front.
LEMMA ArrivalInductive ==
    /\ ServerInit => NoConnectionLost
    /\ IInv /\ ServerTypeOK /\ NoConnectionLost /\ [ServerNext]_allVars
       => NoConnectionLost'
<1>1. ASSUME ServerInit  PROVE NoConnectionLost
  <2>1. << >> \o << >> = << >>
    BY EmptySeq, ConcatEmptySeq
  <2>2. InAddJob = << >>
    BY <1>1 DEF ServerInit, Init, InAddJob
  <2>. QED BY <1>1, <2>1, <2>2 DEF ServerInit, Init, NoConnectionLost
<1>2. ASSUME IInv, ServerTypeOK, NoConnectionLost, [ServerNext]_allVars
      PROVE  NoConnectionLost'
  <2>. DEFINE A == InAddJob
  <2>1. /\ started \in Seq(Jobs) /\ jobs \in Seq(Jobs) /\ backlog \in Seq(Jobs)
        /\ arrived \in Seq(Jobs) /\ << >> \in Seq(Jobs)
    BY <1>2, EmptySeq DEF IInv, TypeOK, ServerTypeOK
  <2>2. A \in Seq(Jobs)
    <3>1. CASE mpc \in {"add_lock", "push"}
      <4>1. arg \in Jobs
        BY <1>2, <3>1 DEF IInv, ArgInv
      <4>2. <<arg>> \in Seq(Jobs)
        BY <4>1
      <4>. QED BY <3>1, <4>2 DEF InAddJob
    <3>2. CASE mpc \notin {"add_lock", "push"}
      BY <3>2, <2>1 DEF InAddJob
    <3>. QED BY <3>1, <3>2
  <2>3. arrived = ((started \o jobs) \o A) \o backlog
    BY <1>2 DEF NoConnectionLost
  <2>4. started \o jobs \in Seq(Jobs) /\ (started \o jobs) \o A \in Seq(Jobs)
    BY <2>1, <2>2, ConcatProperties
  <2>5. ASSUME NEW c \in Jobs, Connect(c)  PROVE NoConnectionLost'
    <3>1. /\ arrived' = Append(arrived, c) /\ backlog' = Append(backlog, c)
          /\ UNCHANGED <<started, jobs, mpc, arg>>
      BY <2>5 DEF Connect, vars
    <3>3. arrived' = arrived \o <<c>> /\ backlog' = backlog \o <<c>>
      BY <2>1, <3>1, AppendIsConcat
    <3>4. (((started \o jobs) \o A) \o backlog) \o <<c>>
            = ((started \o jobs) \o A) \o (backlog \o <<c>>)
      <4>. DEFINE P == (started \o jobs) \o A
      <4>1. P \in Seq(Jobs)
        BY <2>4
      <4>. HIDE DEF P
      <4>2. (P \o backlog) \o <<c>> = P \o (backlog \o <<c>>)
        BY <2>1, <4>1, SingleAssociative
      <4>. QED BY <4>2 DEF P
    <3>5. InAddJob' = A
      BY <3>1 DEF InAddJob
    <3>. QED BY <2>3, <3>1, <3>3, <3>4, <3>5 DEF NoConnectionLost
  <2>6. CASE Accept
    <3>1. /\ backlog # << >> /\ backlog' = Tail(backlog) /\ mpc = "idle"
          /\ mpc' = "add_lock" /\ arg' = Head(backlog)
          /\ UNCHANGED <<started, jobs, arrived>>
      BY <2>6 DEF Accept, CallAddJob, sharedVars, historyVars
    <3>2. A = << >> /\ InAddJob' = <<Head(backlog)>>
      BY <3>1 DEF InAddJob
    <3>3. Head(backlog) \in Jobs /\ Tail(backlog) \in Seq(Jobs)
      BY <2>1, <3>1, HeadTailProperties
    <3>5. <<Head(backlog)>> \o Tail(backlog) = backlog
      BY <2>1, <3>1, HeadTailProperties
    <3>6. ((started \o jobs) \o <<Head(backlog)>>) \o Tail(backlog)
            = (started \o jobs) \o (<<Head(backlog)>> \o Tail(backlog))
      BY <2>4, <3>3, SingleAssociative
    <3>7. (started \o jobs) \o << >> = started \o jobs
      BY <2>4, ConcatEmptySeq
    <3>. QED BY <2>3, <3>1, <3>2, <3>5, <3>6, <3>7 DEF NoConnectionLost
  <2>7. ASSUME NEW w \in Workers, PopJob(w), UNCHANGED socketVars
        PROVE  NoConnectionLost'
    <3>1. jobs # << >>
      BY <1>2, <2>7 DEF IInv, SeenInv, PopJob, Goto
    <3>2. Append(started, Head(jobs)) \o Tail(jobs) = started \o jobs
      BY <2>1, <3>1, MoveHead
    <3>3. /\ started' = Append(started, Head(jobs)) /\ jobs' = Tail(jobs)
          /\ UNCHANGED <<mpc, arg, backlog, arrived>>
      BY <2>7 DEF PopJob, socketVars, mainVars
    <3>4. InAddJob' = A
      BY <3>3 DEF InAddJob
    <3>. QED BY <2>3, <3>2, <3>3, <3>4 DEF NoConnectionLost
  <2>8. ASSUME PushJob, UNCHANGED socketVars  PROVE NoConnectionLost'
    <3>1. /\ mpc = "push" /\ mpc' = "notify_one" /\ jobs' = Append(jobs, arg)
          /\ UNCHANGED <<started, backlog, arrived>>
      BY <2>8 DEF PushJob, socketVars
    <3>2. A = <<arg>> /\ InAddJob' = << >>
      BY <3>1 DEF InAddJob
    <3>3. arg \in Jobs
      BY <1>2, <3>1 DEF IInv, ArgInv
    <3>4. Append(jobs, arg) = jobs \o <<arg>> /\ <<arg>> \in Seq(Jobs)
      BY <2>1, <3>3, AppendIsConcat
    <3>5. (started \o jobs) \o <<arg>> = started \o (jobs \o <<arg>>)
      BY <2>1, <3>3, SingleAssociative
    <3>6. (started \o (jobs \o <<arg>>)) \o << >> = started \o (jobs \o <<arg>>)
      BY <2>2, <2>4, <3>2, <3>5, ConcatEmptySeq
    <3>. QED BY <2>3, <3>1, <3>2, <3>4, <3>5, <3>6 DEF NoConnectionLost
  <2>9. ASSUME UNCHANGED <<started, jobs, backlog, arrived>>, InAddJob' = InAddJob
        PROVE  NoConnectionLost'
    BY <1>2, <2>9 DEF NoConnectionLost
  <2>10. ASSUME NEW w \in Workers, PoolStep(w), ~PopJob(w)
         PROVE  NoConnectionLost'
    <3>1. UNCHANGED <<started, jobs, backlog, arrived, mpc, arg>>
      BY <2>10 DEF PoolStep, LoopStep, LockJobs, TestPredicate, Block, Quit,
                   GoOn, sharedVars, historyVars, mainVars, socketVars
    <3>. QED BY <2>9, <3>1 DEF InAddJob
  <2>11. ASSUME NEW w \in Workers, SessionStep(w)  PROVE NoConnectionLost'
    <3>1. UNCHANGED <<started, jobs, backlog, arrived, mpc, arg>>
      BY <2>11 DEF SessionStep, SessionEnds, JobReturns, sharedVars,
                   historyVars, mainVars
    <3>. QED BY <2>9, <3>1 DEF InAddJob
  <2>12. ASSUME MainStep, ~PushJob  PROVE NoConnectionLost'
    <3>1. UNCHANGED <<started, jobs, backlog, arrived>>
      BY <2>12 DEF MainStep, CallStep, LockToAdd, NotifyOne, LockToEnd,
                   SetTerminate, NotifyAll, JoinAll, sharedVars, historyVars,
                   socketVars
    <3>2. InAddJob' = InAddJob
      BY <2>12 DEF MainStep, CallStep, LockToAdd, NotifyOne, LockToEnd,
                   SetTerminate, NotifyAll, JoinAll, InAddJob
    <3>. QED BY <2>9, <3>1, <3>2
  <2>13. ASSUME AcceptThrows \/ TimeOut  PROVE NoConnectionLost'
    <3>1. UNCHANGED <<started, jobs, backlog, arrived>>
      BY <2>13 DEF AcceptThrows, TimeOut, CallerThrows, CallEnd, sharedVars,
                   historyVars, socketVars
    <3>2. InAddJob' = InAddJob
      BY <2>13 DEF AcceptThrows, TimeOut, CallerThrows, CallEnd, InAddJob,
                   mainVars
    <3>. QED BY <2>9, <3>1, <3>2
  <2>14. CASE CloseServer
    <3>1. UNCHANGED <<started, jobs, backlog, arrived, mpc, arg>>
      BY <2>14 DEF CloseServer, vars
    <3>. QED BY <2>9, <3>1 DEF InAddJob
  <2>15. ASSUME NEW w \in Workers, SpuriousWake(w) \/ JobThrows(w),
                UNCHANGED socketVars
         PROVE  NoConnectionLost'
    <3>1. UNCHANGED <<started, jobs, backlog, arrived, mpc, arg>>
      BY <2>15 DEF SpuriousWake, JobThrows, sharedVars, historyVars, mainVars,
                   socketVars
    <3>. QED BY <2>9, <3>1 DEF InAddJob
  <2>16. ASSUME UNCHANGED allVars  PROVE NoConnectionLost'
    <3>1. UNCHANGED <<started, jobs, backlog, arrived, mpc, arg>>
      BY <2>16 DEF allVars, vars, socketVars
    <3>. QED BY <2>9, <3>1 DEF InAddJob
  <2>17. CASE MainStep
    BY <2>8, <2>12, <2>17 DEF MainStep
  <2>18. ASSUME NEW w \in Workers, PoolStep(w)  PROVE NoConnectionLost'
    BY <2>7, <2>10, <2>18 DEF PoolStep
  <2>. QED
    BY <1>2, <2>5, <2>6, <2>11, <2>13, <2>14, <2>15, <2>16, <2>17, <2>18
       DEF ServerNext, AcceptStep, ProcessOver
<1>. QED BY <1>1, <1>2

\* No connection is lost or overtaken between the kernel and a worker.
THEOREM ConnectionsKept == ServerSafetySpec => []NoConnectionLost
<1>1. ServerInit => NoConnectionLost
  BY ArrivalInductive
<1>2. IInv /\ ServerTypeOK /\ NoConnectionLost /\ [ServerNext]_allVars
      => NoConnectionLost'
  BY ArrivalInductive
<1>. QED BY <1>1, <1>2, ServerInvariance, PTL DEF ServerSafetySpec
-----------------------------------------------------------------------------
(* Every socket has one user *)

Distinct(s) == \A i, j \in DOMAIN s : i # j => s[i] # s[j]

\* The elements of a sequence that grows at its end, and of one that loses its
\* head.
LEMMA AppendDistinct ==
    ASSUME NEW S, NEW s \in Seq(S), NEW e \in S
    PROVE  /\ Range(Append(s, e)) = Range(s) \cup {e}
           /\ Distinct(s) /\ e \notin Range(s) => Distinct(Append(s, e))
<1>. DEFINE t == Append(s, e)
<1>1. /\ t \in Seq(S) /\ Len(s) \in Nat /\ DOMAIN s = 1..Len(s)
      /\ DOMAIN t = 1..(Len(s) + 1) /\ t[Len(s) + 1] = e
      /\ \A i \in 1..Len(s) : t[i] = s[i]
  BY AppendProperties, LenProperties
<1>. HIDE DEF t
<1>2. Range(t) = Range(s) \cup {e}
  <2>1. \A i \in DOMAIN t : t[i] \in Range(s) \cup {e}
    BY <1>1 DEF Range
  <2>2. \A i \in DOMAIN s : s[i] \in Range(t)
    BY <1>1 DEF Range
  <2>3. e \in Range(t)
    BY <1>1 DEF Range
  <2>. QED BY <2>1, <2>2, <2>3 DEF Range
<1>3. ASSUME Distinct(s), e \notin Range(s)  PROVE Distinct(t)
  BY <1>1, <1>3 DEF Distinct, Range
<1>. QED BY <1>2, <1>3 DEF t

\* What is left of a sequence without repetitions does not hold its head.
LEMMA TailDistinct ==
    ASSUME NEW S, NEW s \in Seq(S), s # << >>
    PROVE  /\ Range(s) = {Head(s)} \cup Range(Tail(s))
           /\ Distinct(s) => Distinct(Tail(s)) /\ Head(s) \notin Range(Tail(s))
<1>. DEFINE t == Tail(s)
<1>1. /\ t \in Seq(S) /\ Len(s) \in Nat /\ Len(s) # 0 /\ DOMAIN s = 1..Len(s)
      /\ Head(s) = s[1]
      /\ DOMAIN t = 1..(Len(s) - 1) /\ \A i \in 1..(Len(s) - 1) : t[i] = s[i + 1]
  BY HeadTailProperties, LenProperties, EmptySeq
<1>. HIDE DEF t
<1>2. Range(s) = {Head(s)} \cup Range(t)
  <2>1. \A i \in DOMAIN s : s[i] \in {Head(s)} \cup Range(t)
    <3>. SUFFICES ASSUME NEW i \in DOMAIN s, i # 1  PROVE s[i] \in Range(t)
      BY <1>1
    <3>1. i - 1 \in DOMAIN t /\ t[i - 1] = s[i]
      BY <1>1
    <3>. QED BY <3>1 DEF Range
  <2>2. \A i \in DOMAIN t : t[i] \in Range(s)
    BY <1>1 DEF Range
  <2>3. Head(s) \in Range(s)
    BY <1>1 DEF Range
  <2>. QED BY <2>1, <2>2, <2>3 DEF Range
<1>3. ASSUME Distinct(s)  PROVE Distinct(t) /\ Head(s) \notin Range(t)
  <2>1. \A i \in DOMAIN t : i + 1 \in DOMAIN s /\ t[i] = s[i + 1] /\ i \in Nat
    BY <1>1
  <2>2. Distinct(t)
    BY <1>3, <2>1 DEF Distinct
  <2>3. \A i \in DOMAIN t : t[i] # s[1]
    BY <1>1, <1>3, <2>1 DEF Distinct
  <2>. QED BY <1>1, <2>2, <2>3 DEF Range
<1>. QED BY <1>2, <1>3 DEF t

Runs(w) == wpc[w] = "run"
Adding == mpc \in {"add_lock", "push"}

\* No client is in two places.
OnePlace ==
    /\ Distinct(jobs)
    /\ Distinct(backlog)
    /\ \A v, w \in Workers : Runs(v) /\ Runs(w) /\ v # w => job[v] # job[w]
    /\ \A w \in Workers : Runs(w) => job[w] \notin Range(jobs)
    /\ Adding => arg \notin Range(jobs) /\ \A w \in Workers : Runs(w) => job[w] # arg

\* The open sockets are those of the clients from add_job to the session.
OpenPlaces ==
    /\ Range(backlog) \subseteq {c \in Jobs : sock[c] = "pending"}
    /\ Range(jobs) \subseteq OpenSockets
    /\ \A w \in Workers : Runs(w) => job[w] \in OpenSockets
    /\ Adding => arg \in OpenSockets
    /\ \A c \in OpenSockets :
          c \in Range(jobs) \/ (\E w \in Workers : Runs(w) /\ job[w] = c) \/ (Adding /\ c = arg)

\* main closes its socket after end, and end returns after the last worker.
LeftLast ==
    /\ mpc = "ended" => \A w \in Workers : wpc[w] = "exited"
    /\ ~listening => mpc = "ended"

OwnInv == OnePlace /\ OpenPlaces /\ LeftLast

\* A step that moves no client keeps every client in its place.
LEMMA NobodyMoves ==
    ASSUME OnePlace, OpenPlaces, UNCHANGED <<jobs, backlog, sock, job>>,
           \A w \in Workers : Runs(w)' <=> Runs(w),
           Adding' <=> Adding, Adding => arg' = arg
    PROVE  OnePlace' /\ OpenPlaces'
<1>1. OpenSockets' = OpenSockets
  BY DEF OpenSockets
<1>2. OnePlace'
  BY DEF OnePlace
<1>3. OpenPlaces'
  BY <1>1 DEF OpenPlaces
<1>. QED BY <1>2, <1>3

\* A client that connects is pending and in no other place.
LEMMA ConnectPlaces ==
    ASSUME ServerTypeOK, OnePlace, OpenPlaces, NEW c \in Jobs, Connect(c)
    PROVE  OnePlace' /\ OpenPlaces'
<1>1. /\ sock' = [sock EXCEPT ![c] = "pending"] /\ sock[c] = "none"
      /\ backlog' = Append(backlog, c)
      /\ UNCHANGED <<jobs, wpc, job, mpc, arg>>
  BY DEF Connect, vars
<1>2. c \notin Range(backlog)
  BY <1>1 DEF OpenPlaces
<1>3. Range(backlog') = Range(backlog) \cup {c} /\ Distinct(backlog')
  BY <1>1, <1>2, AppendDistinct DEF ServerTypeOK, OnePlace
<1>4. OpenSockets' = OpenSockets
  BY <1>1 DEF ServerTypeOK, OpenSockets
<1>5. OnePlace'
  BY <1>1, <1>3 DEF OnePlace, Runs, Adding
<1>6. Range(backlog') \subseteq {d \in Jobs : sock'[d] = "pending"}
  BY <1>1, <1>3 DEF ServerTypeOK, OpenPlaces
<1>7. OpenPlaces'
  BY <1>1, <1>4, <1>6 DEF OpenPlaces, Runs, Adding
<1>. QED BY <1>5, <1>7

\* accept takes the client out of the backlog and hands it to add_job.
LEMMA AcceptPlaces ==
    ASSUME ServerTypeOK, OnePlace, OpenPlaces, Accept
    PROVE  OnePlace' /\ OpenPlaces'
<1>. DEFINE c == Head(backlog)
<1>1. /\ sock' = [sock EXCEPT ![c] = "open"] /\ backlog # << >>
      /\ backlog' = Tail(backlog) /\ ~Adding /\ Adding' /\ arg' = c
      /\ UNCHANGED <<jobs, wpc, job>>
  BY DEF Accept, CallAddJob, Adding, sharedVars, workerVars
<1>2. /\ Range(backlog) = {c} \cup Range(backlog')
      /\ Distinct(backlog') /\ c \notin Range(backlog')
  BY <1>1, TailDistinct DEF ServerTypeOK, OnePlace
<1>3. c \in Jobs /\ sock[c] = "pending"
  BY <1>2 DEF OpenPlaces
<1>. HIDE DEF c
<1>4. OpenSockets' = OpenSockets \cup {c} /\ c \notin OpenSockets
  BY <1>1, <1>3 DEF ServerTypeOK, OpenSockets
<1>5. OnePlace'
  BY <1>1, <1>2, <1>4 DEF OnePlace, OpenPlaces, Runs
<1>6. Range(backlog') \subseteq {d \in Jobs : sock'[d] = "pending"}
  BY <1>1, <1>2 DEF ServerTypeOK, OpenPlaces
<1>7. OpenPlaces'
  BY <1>1, <1>4, <1>6 DEF OpenPlaces, Runs
<1>. QED BY <1>5, <1>7

\* add_job moves its argument to the queue.
LEMMA PushPlaces ==
    ASSUME TypeOK, ArgInv, OnePlace, OpenPlaces, PushJob, UNCHANGED socketVars
    PROVE  OnePlace' /\ OpenPlaces'
<1>1. /\ Adding /\ ~Adding' /\ jobs' = Append(jobs, arg) /\ arg \in Jobs
      /\ UNCHANGED <<wpc, job, backlog, sock>>
  BY DEF PushJob, Adding, ArgInv, workerVars, socketVars
<1>2. Range(jobs') = Range(jobs) \cup {arg} /\ Distinct(jobs')
  BY <1>1, AppendDistinct DEF TypeOK, OnePlace
<1>3. OpenSockets' = OpenSockets
  BY <1>1 DEF OpenSockets
<1>4. OnePlace'
  BY <1>1, <1>2 DEF OnePlace, Runs
<1>5. OpenPlaces'
  BY <1>1, <1>2, <1>3 DEF OpenPlaces, Runs
<1>. QED BY <1>4, <1>5

\* A worker takes the head of the queue.
LEMMA PopPlaces ==
    ASSUME TypeOK, SeenInv, OnePlace, OpenPlaces,
           NEW w \in Workers, PopJob(w), UNCHANGED socketVars
    PROVE  OnePlace' /\ OpenPlaces'
<1>. DEFINE c == Head(jobs)
<1>1. /\ jobs # << >> /\ jobs' = Tail(jobs)
      /\ wpc[w] = "pop" /\ wpc' = [wpc EXCEPT ![w] = "run"]
      /\ job' = [job EXCEPT ![w] = c]
      /\ UNCHANGED <<mpc, arg, backlog, sock>>
  BY DEF PopJob, Goto, SeenInv, mainVars, socketVars
<1>2. /\ Range(jobs) = {c} \cup Range(jobs')
      /\ Distinct(jobs') /\ c \notin Range(jobs')
  BY <1>1, TailDistinct DEF TypeOK, OnePlace
<1>. HIDE DEF c
<1>3. OpenSockets' = OpenSockets /\ (Adding' <=> Adding)
  BY <1>1 DEF OpenSockets, Adding
<1>4. /\ Runs(w)' /\ ~Runs(w) /\ job'[w] = c
      /\ \A v \in Workers \ {w} : (Runs(v)' <=> Runs(v)) /\ job'[v] = job[v]
  BY <1>1 DEF TypeOK, Runs
<1>5. OnePlace'
  <2>1. \A u, v \in Workers : Runs(u)' /\ Runs(v)' /\ u # v => job'[u] # job'[v]
    BY <1>2, <1>4 DEF OnePlace
  <2>2. \A v \in Workers : Runs(v)' => job'[v] \notin Range(jobs')
    BY <1>2, <1>4 DEF OnePlace
  <2>3. Adding => arg \notin Range(jobs') /\ \A v \in Workers : Runs(v)' => job'[v] # arg
    BY <1>2, <1>4 DEF OnePlace
  <2>. QED BY <1>1, <1>2, <1>3, <2>1, <2>2, <2>3 DEF OnePlace
<1>6. OpenPlaces'
  <2>1. \A v \in Workers : Runs(v)' => job'[v] \in OpenSockets
    BY <1>2, <1>4 DEF OpenPlaces
  <2>2. ASSUME NEW d \in OpenSockets, d \notin Range(jobs'), ~(Adding /\ d = arg)
        PROVE  \E v \in Workers : Runs(v)' /\ job'[v] = d
    <3>1. CASE d = c
      BY <1>4, <3>1
    <3>2. CASE d # c
      <4>1. PICK v \in Workers : Runs(v) /\ job[v] = d
        BY <1>2, <2>2, <3>2 DEF OpenPlaces
      <4>. QED BY <1>4, <4>1
    <3>. QED BY <3>1, <3>2
  <2>3. /\ Range(jobs') \subseteq OpenSockets
        /\ Range(backlog') \subseteq {d \in Jobs : sock'[d] = "pending"}
    BY <1>1, <1>2 DEF OpenPlaces
  <2>4. Adding => arg \in OpenSockets
    BY DEF OpenPlaces
  <2>. QED BY <1>1, <1>3, <2>1, <2>2, <2>3, <2>4 DEF OpenPlaces
<1>. QED BY <1>5, <1>6

\* A session that ends closes the socket of its client, and no other.
LEMMA EndPlaces ==
    ASSUME TypeOK, ServerTypeOK, OnePlace, OpenPlaces,
           NEW w \in Workers, SessionEnds(w)
    PROVE  OnePlace' /\ OpenPlaces'
<1>. DEFINE c == job[w]
<1>1. /\ Runs(w) /\ wpc' = [wpc EXCEPT ![w] = "lock"]
      /\ job' = [job EXCEPT ![w] = None]
      /\ sock' = [sock EXCEPT ![c] = "closed"]
      /\ UNCHANGED <<jobs, mpc, arg, backlog>>
  BY DEF SessionEnds, JobReturns, Goto, Runs, sharedVars, mainVars
<1>2. c \in OpenSockets /\ c \in Jobs
  BY <1>1 DEF OpenPlaces, OpenSockets
<1>. HIDE DEF c
<1>3. OpenSockets' = OpenSockets \ {c}
  BY <1>1, <1>2 DEF ServerTypeOK, OpenSockets
<1>4. /\ ~Runs(w)'
      /\ \A v \in Workers \ {w} : (Runs(v)' <=> Runs(v)) /\ job'[v] = job[v]
  BY <1>1 DEF TypeOK, Runs
<1>5. OnePlace'
  BY <1>1, <1>4 DEF OnePlace, Adding
<1>6. OpenPlaces'
  <2>1. Range(backlog') \subseteq {d \in Jobs : sock'[d] = "pending"}
    BY <1>1, <1>2 DEF ServerTypeOK, OpenPlaces, OpenSockets
  <2>2. c \notin Range(jobs) /\ (Adding => arg # c)
    BY <1>1 DEF OnePlace, c
  <2>3. \A v \in Workers \ {w} : Runs(v) => job[v] # c
    BY <1>1 DEF OnePlace, c
  <2>4. \A v \in Workers : Runs(v)' => job'[v] \in OpenSockets'
    BY <1>3, <1>4, <2>3 DEF OpenPlaces
  <2>5. ASSUME NEW d \in OpenSockets', d \notin Range(jobs), ~(Adding /\ d = arg)
        PROVE  \E v \in Workers : Runs(v)' /\ job'[v] = d
    <3>1. PICK v \in Workers : Runs(v) /\ job[v] = d
      BY <1>3, <2>5 DEF OpenPlaces
    <3>2. v # w
      BY <1>3, <3>1 DEF c
    <3>. QED BY <1>4, <3>1, <3>2
  <2>6. Range(jobs') \subseteq OpenSockets' /\ (Adding' => arg' \in OpenSockets')
    BY <1>1, <1>3, <2>2 DEF OpenPlaces, Adding
  <2>7. Adding' <=> Adding
    BY <1>1 DEF Adding
  <2>. QED BY <1>1, <2>1, <2>4, <2>5, <2>6, <2>7 DEF OpenPlaces
<1>. QED BY <1>5, <1>6

\* Every step leaves each client in one place.
LEMMA PlacesInductive ==
    /\ ServerInit => OnePlace /\ OpenPlaces
    /\ IInv /\ ServerTypeOK /\ OnePlace /\ OpenPlaces /\ [ServerNext]_allVars
       => OnePlace' /\ OpenPlaces'
<1>1. ASSUME ServerInit  PROVE OnePlace /\ OpenPlaces
  <2>1. /\ jobs = << >> /\ backlog = << >> /\ ~Adding
        /\ \A w \in Workers : ~Runs(w)
    BY <1>1 DEF ServerInit, Init, Adding, Runs
  <2>2. DOMAIN << >> = {} /\ Range(<< >>) = {}
    BY EmptySeq DEF Range
  <2>3. OpenSockets = {}
    BY <1>1 DEF ServerInit, OpenSockets
  <2>. QED BY <2>1, <2>2, <2>3 DEF OnePlace, OpenPlaces, Distinct
<1>2. ASSUME IInv, ServerTypeOK, OnePlace, OpenPlaces, [ServerNext]_allVars
      PROVE  OnePlace' /\ OpenPlaces'
  <2>. USE <1>2
  <2>0. TypeOK /\ SeenInv /\ ArgInv
    BY DEF IInv
  <2>1. ASSUME NEW c \in Jobs, Connect(c)  PROVE OnePlace' /\ OpenPlaces'
    BY <2>1, ConnectPlaces
  <2>2. CASE Accept
    BY <2>2, AcceptPlaces
  <2>3. CASE MainStep
    <3>1. CASE PushJob
      BY <2>0, <2>3, <3>1, PushPlaces DEF MainStep
    <3>2. CASE ~PushJob
      <4>1. /\ UNCHANGED <<jobs, job, backlog, sock>>
            /\ (Adding' <=> Adding) /\ (Adding => arg' = arg)
        BY <2>3, <3>2
           DEF MainStep, CallStep, LockToAdd, NotifyOne, LockToEnd, SetTerminate,
               NotifyAll, JoinAll, Adding, sharedVars, workerVars, socketVars
      <4>2. \A w \in Workers : Runs(w)' <=> Runs(w)
        <5>1. CASE NotifyOne
          BY <2>0, <5>1 DEF NotifyOne, Sleepers, TypeOK, Runs
        <5>2. CASE NotifyAll
          BY <5>2 DEF NotifyAll, Sleepers, Runs
        <5>3. CASE LockToAdd \/ LockToEnd \/ SetTerminate \/ JoinAll
          BY <5>3 DEF LockToAdd, LockToEnd, SetTerminate, JoinAll, workerVars, Runs
        <5>. QED BY <2>3, <3>2, <5>1, <5>2, <5>3 DEF MainStep, CallStep
      <4>. QED BY <4>1, <4>2, NobodyMoves
    <3>. QED BY <3>1, <3>2
  <2>4. ASSUME NEW w \in Workers, PoolStep(w)  PROVE OnePlace' /\ OpenPlaces'
    <3>1. CASE PopJob(w)
      BY <2>0, <2>4, <3>1, PopPlaces DEF PoolStep
    <3>2. CASE ~PopJob(w)
      <4>1. UNCHANGED <<jobs, job, backlog, sock, mpc, arg>>
        BY <2>4, <3>2
           DEF PoolStep, LoopStep, LockJobs, TestPredicate, Block, Quit, GoOn,
               sharedVars, mainVars, socketVars
      <4>2. \A v \in Workers : Runs(v)' <=> Runs(v)
        BY <2>0, <2>4, <3>2
           DEF PoolStep, LoopStep, LockJobs, TestPredicate, Block, Quit, GoOn,
               Goto, TypeOK, Runs
      <4>. QED BY <4>1, <4>2, NobodyMoves DEF Adding
    <3>. QED BY <3>1, <3>2
  <2>5. ASSUME NEW w \in Workers, SessionStep(w)  PROVE OnePlace' /\ OpenPlaces'
    BY <2>0, <2>5, EndPlaces DEF SessionStep
  <2>6. CASE AcceptThrows \/ TimeOut \/ CloseServer
    <3>1. /\ UNCHANGED <<jobs, job, wpc, backlog, sock>>
          /\ (Adding' <=> Adding) /\ (Adding => arg' = arg)
      BY <2>6 DEF AcceptThrows, TimeOut, CloseServer, CallerThrows, CallEnd, Adding,
                  sharedVars, workerVars, mainVars, vars, socketVars
    <3>. QED BY <3>1, NobodyMoves DEF Runs
  <2>7. ASSUME NEW w \in Workers, SpuriousWake(w) \/ JobThrows(w), UNCHANGED socketVars
        PROVE  OnePlace' /\ OpenPlaces'
    <3>1. UNCHANGED <<jobs, job, backlog, sock, mpc, arg>>
      BY <2>7 DEF SpuriousWake, JobThrows, sharedVars, workerVars, mainVars, socketVars
    <3>2. \A v \in Workers : Runs(v)' <=> Runs(v)
      BY <2>0, <2>7 DEF SpuriousWake, JobThrows, Goto, workerVars, TypeOK, Runs
    <3>. QED BY <3>1, <3>2, NobodyMoves DEF Adding
  <2>8. CASE UNCHANGED allVars
    <3>1. UNCHANGED <<jobs, job, wpc, backlog, sock, mpc, arg>>
      BY <2>8 DEF allVars, vars, socketVars
    <3>. QED BY <3>1, NobodyMoves DEF Adding, Runs
  <2>. QED
    BY <2>1, <2>2, <2>3, <2>4, <2>5, <2>6, <2>7, <2>8
       DEF ServerNext, AcceptStep, ProcessOver
<1>. QED BY <1>1, <1>2

\* Nothing moves once the last worker has returned, but main.
LEMMA LeftLastInductive ==
    /\ ServerInit => LeftLast
    /\ IInv /\ LeftLast /\ [ServerNext]_allVars => LeftLast'
<1>1. ServerInit => LeftLast
  BY DEF ServerInit, Init, LeftLast
<1>2. ASSUME IInv, LeftLast, [ServerNext]_allVars  PROVE LeftLast'
  <2>. USE <1>2
  <2>1. TypeOK
    BY DEF IInv
  <2>2. ASSUME NEW c \in Jobs, Connect(c)  PROVE LeftLast'
    BY <2>2 DEF Connect, vars, LeftLast
  <2>3. CASE Accept \/ AcceptThrows \/ TimeOut
    BY <2>3 DEF Accept, CallAddJob, AcceptThrows, CallerThrows, TimeOut, CallEnd,
                mainVars, workerVars, socketVars, LeftLast
  <2>4. CASE CloseServer
    BY <2>4 DEF CloseServer, vars, LeftLast
  <2>5. CASE MainStep
    <3>1. mpc # "ended"
      BY <2>5 DEF MainStep, CallStep, LockToAdd, PushJob, NotifyOne, LockToEnd,
                  SetTerminate, NotifyAll, JoinAll
    <3>2. listening' /\ (mpc' = "ended" => JoinAll)
      BY <2>5, <3>1 DEF MainStep, CallStep, LockToAdd, PushJob, NotifyOne, LockToEnd,
                  SetTerminate, NotifyAll, socketVars, LeftLast
    <3>. QED BY <3>2 DEF JoinAll, workerVars, LeftLast
  <2>6. ASSUME NEW w \in Workers, PoolStep(w) \/ SessionStep(w)  PROVE LeftLast'
    <3>1. wpc[w] # "exited" /\ UNCHANGED <<mpc, listening>>
      BY <2>6 DEF PoolStep, LoopStep, LockJobs, TestPredicate, Block, Quit, GoOn,
                  PopJob, SessionStep, SessionEnds, JobReturns, Goto, mainVars,
                  socketVars
    <3>. QED BY <3>1 DEF LeftLast
  <2>7. ASSUME NEW w \in Workers, SpuriousWake(w) \/ JobThrows(w), UNCHANGED socketVars
        PROVE  LeftLast'
    <3>1. wpc[w] # "exited" /\ UNCHANGED <<mpc, listening>>
      BY <2>7 DEF SpuriousWake, JobThrows, Goto, mainVars, socketVars
    <3>. QED BY <3>1 DEF LeftLast
  <2>8. CASE UNCHANGED allVars
    BY <2>8 DEF allVars, vars, socketVars, LeftLast
  <2>. QED
    BY <2>2, <2>3, <2>4, <2>5, <2>6, <2>7, <2>8
       DEF ServerNext, AcceptStep, ProcessOver
<1>. QED BY <1>1, <1>2

\* main, accept_connection and thread_job keep the invariant.
LEMMA OwnInvariance == ServerSafetySpec => []OwnInv
<1>1. ServerInit => OwnInv
  BY PlacesInductive, LeftLastInductive DEF OwnInv
<1>2. IInv /\ ServerTypeOK /\ OwnInv /\ [ServerNext]_allVars => OwnInv'
  BY PlacesInductive, LeftLastInductive DEF OwnInv
<1>. QED BY <1>1, <1>2, ServerInvariance, PTL DEF ServerSafetySpec

\* The copies of a TCPSocket that share a descriptor have one user, and the
\* descriptor is open from accept to the end of the session.
THEOREM SocketsOwned == ServerSafetySpec => []SessionOwnsSocket
<1>1. OwnInv => SessionOwnsSocket
  <2>. SUFFICES ASSUME OwnInv  PROVE SessionOwnsSocket
    OBVIOUS
  <2>. DEFINE Running == {job[w] : w \in {v \in Workers : wpc[v] = "run"}}
  <2>1. Range(InAddJob) = IF Adding THEN {arg} ELSE {}
    <3>1. Range(<< >>) = {} /\ Range(<<arg>>) = {arg}
      BY DEF Range
    <3>. QED BY <3>1 DEF InAddJob, Adding
  <2>2. OpenSockets \subseteq Running \cup Range(jobs) \cup Range(InAddJob)
    BY <2>1 DEF OwnInv, OpenPlaces, Runs
  <2>3. Running \cup Range(jobs) \cup Range(InAddJob) \subseteq OpenSockets
    BY <2>1 DEF OwnInv, OpenPlaces, Runs
  <2>4. OpenSockets = Running \cup Range(jobs) \cup Range(InAddJob)
    BY <2>2, <2>3
  <2>. QED BY <2>4 DEF OwnInv, OnePlace, Runs, SessionOwnsSocket
<1>. QED BY <1>1, OwnInvariance, PTL

\* When main has closed its socket every started session is over.
THEOREM MainLeavesLast == ServerSafetySpec => []SessionsOutlivedByMain
<1>1. OwnInv => SessionsOutlivedByMain
  <2>. SUFFICES ASSUME OwnInv, ~listening  PROVE OpenSockets \subseteq Range(jobs)
    BY DEF SessionsOutlivedByMain
  <2>1. ~Adding /\ \A w \in Workers : ~Runs(w)
    BY DEF OwnInv, LeftLast, Adding, Runs
  <2>. QED BY <2>1 DEF OwnInv, OpenPlaces
<1>. QED BY <1>1, OwnInvariance, PTL
=============================================================================
