------------------------------- MODULE Server -------------------------------
(***************************************************************************)
(* The server of server/src/server.cpp: main accepts connections and hands *)
(* each to the thread pool as a job (thread_job), until select has waited  *)
(* its timeout out with no connection pending; then it ends the pool and   *)
(* closes the listening socket.  The jobs of ThreadPool are the clients.   *)
(* What a session says to its client is modelled in Session; here it runs, *)
(* and may end, or take the process down (ThreadPool!JobThrows).           *)
(***************************************************************************)
EXTENDS ThreadPool

CONSTANTS Backlog,      \* how many connections the kernel keeps for accept
          FdLimit       \* how many client sockets the process may have open

ASSUME LimitsAssumption == Backlog \in Nat \ {0} /\ FdLimit \in Nat \ {0}

VARIABLES listening,    \* the listening socket is open
          backlog,      \* established connections that wait for accept
          sock,         \* the server's end of each client's connection
          arrived       \* history: every client that connected, in order

socketVars == <<listening, backlog, sock, arrived>>
allVars == <<vars, socketVars>>

OpenSockets == {c \in Jobs : sock[c] = "open"}

ServerInit ==
    /\ Init
    /\ listening = TRUE
    /\ backlog = <<>>
    /\ sock = [c \in Jobs |-> "none"]
    /\ arrived = <<>>

-----------------------------------------------------------------------------
(* The clients and the kernel *)

\* The kernel completes a connection as long as the listening socket is open,
\* whether or not main still calls accept.
Connect(c) ==
    /\ listening
    /\ sock[c] = "none"
    /\ Len(backlog) < Backlog
    /\ backlog' = Append(backlog, c)
    /\ arrived' = Append(arrived, c)
    /\ sock' = [sock EXCEPT ![c] = "pending"]
    /\ UNCHANGED <<vars, listening>>

-----------------------------------------------------------------------------
(* main *)

\* mutant: accept's result is not tested, and what it returned is handed on
AcceptUnchecked ==
    /\ backlog # <<>>
    /\ CallAddJob(Head(backlog))
    /\ backlog' = Tail(backlog)
    /\ sock' = [sock EXCEPT ![Head(backlog)] = "open"]
    /\ UNCHANGED <<listening, arrived>>

\* select found a connection: accept it and call add_job with its socket
Accept ==
    /\ backlog # <<>>
    /\ Cardinality(OpenSockets) < FdLimit
    /\ CallAddJob(Head(backlog))
    /\ backlog' = Tail(backlog)
    /\ sock' = [sock EXCEPT ![Head(backlog)] = "open"]
    /\ UNCHANGED <<listening, arrived>>

\* accept returns -1 when the process has no descriptor left; main does not
\* catch the exception.
AcceptThrows ==
    /\ backlog # <<>>
    /\ Cardinality(OpenSockets) >= FdLimit
    /\ CallerThrows
    /\ UNCHANGED socketVars

\* mutant: main ends the pool without looking at the listening socket again
TimeOutBlind ==
    /\ CallEnd
    /\ UNCHANGED socketVars

\* select waited for the whole timeout and no connection was pending
TimeOut ==
    /\ backlog = <<>>
    /\ CallEnd
    /\ UNCHANGED socketVars

\* mutant: main closes the listening socket and leaves while end still joins
CloseServerEarly ==
    /\ mpc \in {"join", "ended"}
    /\ listening
    /\ listening' = FALSE
    /\ UNCHANGED <<vars, backlog, sock, arrived>>

CloseServer ==
    /\ mpc = "ended"
    /\ listening
    /\ listening' = FALSE
    /\ UNCHANGED <<vars, backlog, sock, arrived>>

-----------------------------------------------------------------------------
(* thread_job *)

\* mutant: thread_job leaves the socket open
SessionEndsOpen(w) ==
    /\ JobReturns(w)
    /\ UNCHANGED socketVars

\* cli.start returned: thread_job closes the socket and returns
SessionEnds(w) ==
    /\ JobReturns(w)
    /\ sock' = [sock EXCEPT ![job[w]] = "closed"]
    /\ UNCHANGED <<listening, backlog, arrived>>

-----------------------------------------------------------------------------
PoolStep(w) == LoopStep(w) /\ UNCHANGED socketVars
MainStep == CallStep /\ UNCHANGED socketVars
SessionStep(w) == ~aborted /\ SessionEnds(w)
AcceptStep == ~aborted /\ (Accept \/ AcceptThrows \/ TimeOut \/ CloseServer)

\* The process has returned from main or was terminated
ProcessOver == ((mpc = "ended" /\ ~listening) \/ aborted) /\ UNCHANGED allVars

ServerNext ==
    \/ \E w \in Workers : PoolStep(w) \/ SessionStep(w)
    \/ MainStep
    \/ AcceptStep
    \/ \E w \in Workers :
          /\ ~aborted
          /\ SpuriousWake(w) \/ JobThrows(w)
          /\ UNCHANGED socketVars
    \/ ~aborted /\ \E c \in Jobs : Connect(c)
    \/ ProcessOver

ServerSafetySpec == ServerInit /\ [][ServerNext]_allVars

\* Threads that can run do run, and select's timeout is a bound on how long
\* main waits, so with no connection pending it does give up.  No session is
\* assumed to end: receive has no timeout, and a client may stay and be silent.
ServerFairness ==
    /\ \A w \in Workers : WF_allVars(PoolStep(w))
    /\ WF_allVars(MainStep)
    /\ WF_allVars(AcceptStep)

ServerSpec == ServerSafetySpec /\ ServerFairness

-----------------------------------------------------------------------------
(* Properties *)

\* The open sockets are not more than the process may have.
DescriptorsBounded ==
    IsFiniteSet(OpenSockets) /\ Cardinality(OpenSockets) <= FdLimit

\* The sockets and the backlog have the values the system calls give them.
ServerTypeOK ==
    /\ listening \in BOOLEAN
    /\ backlog \in Seq(Jobs)
    /\ Len(backlog) <= Backlog
    /\ sock \in [Jobs -> {"none", "pending", "open", "closed"}]
    /\ arrived \in Seq(Jobs)
    /\ DescriptorsBounded

InAddJob == IF mpc \in {"add_lock", "push"} THEN <<arg>> ELSE <<>>

\* No client is lost or overtaken on its way from the kernel through accept,
\* add_job and the queue to a worker: together they hold every client that
\* connected, in the order of arrival.
NoConnectionLost == arrived = started \o jobs \o InAddJob \o backlog

\* The descriptor that TCPSocket copies share is used by at most one session,
\* and it is open from accept until that session has ended.
SessionOwnsSocket ==
    /\ \A v, w \in Workers :
          (wpc[v] = "run" /\ wpc[w] = "run" /\ v # w) => job[v] # job[w]
    /\ OpenSockets = {job[w] : w \in {v \in Workers : wpc[v] = "run"}}
                     \cup Range(jobs) \cup Range(InAddJob)

\* main leaves only after every session that was started has ended and closed
\* its socket; the open sockets that remain are those of queued clients that
\* the shutdown drops.
SessionsOutlivedByMain == ~listening => OpenSockets \subseteq Range(jobs)

\* What the clients decide and not the server: no session lasts for ever.
SessionsEnd == \A w \in Workers : []<>(wpc[w] # "run")

\* If sessions end, every client that is in the backlog while main still
\* accepts, or whose connection was accepted, gets its session and has its
\* socket closed, unless the shutdown finds it in the queue of the pool: select
\* gives up only when the backlog is empty.
ServedOrDropped ==
    SessionsEnd =>
        \A c \in Jobs :
            (\/ sock[c] = "pending" /\ mpc \in {"idle", "add_lock", "push", "notify_one"}
             \/ sock[c] = "open")
            ~> (\/ sock[c] = "closed"
                \/ ~listening /\ c \in Range(jobs)
                \/ aborted)

\* The server quits once clients stop coming, or one session that never ends
\* keeps end in join for ever: the timeout is always reached, and neither a
\* sleeping worker nor a lock nor a queued job keeps end from returning.
IdleServerQuits ==
    \/ <>(~listening \/ aborted)
    \/ \E w \in Workers : <>[](mpc = "join" /\ wpc[w] = "run")
=============================================================================
