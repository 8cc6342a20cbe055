------------------------------ MODULE RefreshJob ------------------------------
(***************************************************************************)
(* A refresh job as the scheduler sees it: the supervisor process          *)
(* (operations/refresh.py: supervise, main) around RefreshWorker.  It      *)
(* watches a deadline and its own signals, terminates, kills and reaps the *)
(* worker, and ends with a documented exit status.  It may be killed       *)
(* itself, and leave the worker to go on alone.                            *)
(***************************************************************************)
EXTENDS RefreshWorker

VARIABLES
    supervisor,  \* where supervise() of each job is
    status       \* the exit status it has decided on, -1 while undecided

supervisorVars == <<supervisor, status>>
vars == <<workerVars, supervisorVars>>

SupervisorStates ==
    {"idle", "watching", "stopping", "joining", "killing",
     "returned", "raised", "escaped", "lost"}

JobTypeOK ==
    /\ TypeOK
    /\ supervisor \in [Jobs -> SupervisorStates]
    /\ status \in [Jobs -> ExitCodes \cup {-1, 4}]

JobInit ==
    /\ Init
    /\ supervisor = [j \in Jobs |-> "idle"]
    /\ status = [j \in Jobs |-> -1]

Moves(j, from, to) ==
    /\ supervisor[j] = from
    /\ supervisor' = [supervisor EXCEPT ![j] = to]

Sets(j, s) == status' = [status EXCEPT ![j] = s]

StartProcess(j) ==
    /\ Moves(j, "idle", "watching")
    /\ Launch(j)
    /\ UNCHANGED status

\* process.start raises: there is no worker to stop.
StartFails(j) ==
    /\ Moves(j, "idle", "returned")
    /\ Sets(j, 1)
    /\ UNCHANGED workerVars

\* Fault: whatever ends the worker counts as an end in order.
ObserveAnyExit(j) ==
    /\ Moves(j, "watching", "stopping")
    /\ Dead(j)
    /\ Sets(j, IF At(j, "exited") THEN code[j] ELSE 0)
    /\ UNCHANGED workerVars

\* is_alive is false: the exit code, or 1 for a code that means nothing here.
ObserveExit(j) ==
    /\ Moves(j, "watching", "stopping")
    /\ Dead(j)
    /\ Sets(j, IF At(j, "exited") THEN code[j] ELSE 1)
    /\ UNCHANGED workerVars

\* Fault: the deadline is only looked at when the worker has ended.
DeadlineAfterJoin(j) ==
    /\ Moves(j, "watching", "stopping")
    /\ Dead(j)
    /\ Sets(j, 4)
    /\ UNCHANGED workerVars

\* The worker was alive at the last poll, and may have ended since.
Deadline(j) ==
    /\ Moves(j, "watching", "stopping")
    /\ Sets(j, 4)
    /\ UNCHANGED workerVars

\* SIGINT or SIGTERM for the supervisor.
Interrupt(j) ==
    /\ Moves(j, "watching", "stopping")
    /\ Sets(j, 5)
    /\ UNCHANGED workerVars

\* A second signal that arrives before the finally clause has ignored both.
Escape(j) ==
    /\ Moves(j, "stopping", "escaped")
    /\ Sets(j, 1)
    /\ UNCHANGED workerVars

\* Both signals are ignored from here; a live worker gets SIGTERM, which it may
\* take at any later step or never.
Terminate(j) ==
    /\ Moves(j, "stopping", IF Alive(j) THEN "joining" ELSE "returned")
    /\ UNCHANGED <<status, workerVars>>

\* Fault: no SIGKILL after SIGTERM.
JoinWithoutKill(j) ==
    /\ Moves(j, "joining", "returned")
    /\ UNCHANGED <<status, workerVars>>

\* Five seconds to end, then SIGKILL.
JoinTerminated(j) ==
    /\ Moves(j, "joining", IF Alive(j) THEN "killing" ELSE "returned")
    /\ UNCHANGED <<status, workerVars>>

\* Five seconds more, then close, which raises for a process still running.
JoinKilled(j) ==
    /\ Moves(j, "killing", IF Alive(j) THEN "raised" ELSE "returned")
    /\ IF Alive(j) THEN Sets(j, 1) ELSE UNCHANGED status
    /\ UNCHANGED workerVars

\* The pending SIGKILL takes effect.
DieKilled(j) ==
    /\ supervisor[j] \in {"killing", "raised"}
    /\ Die(j)
    /\ UNCHANGED supervisorVars

\* SIGKILL of the supervisor: no clean-up runs, no status is reported, and the
\* worker goes on.
KillSupervisor(j) ==
    /\ supervisor[j] \in {"watching", "stopping", "joining", "killing"}
    /\ supervisor' = [supervisor EXCEPT ![j] = "lost"]
    /\ Sets(j, -1)
    /\ UNCHANGED workerVars

SupervisorStep(j) ==
    \/ ObserveExit(j) \/ Deadline(j) \/ Terminate(j)
    \/ JoinTerminated(j) \/ JoinKilled(j)

SchedulerStep(j) ==
    StartProcess(j) \/ StartFails(j) \/ Interrupt(j) \/ Escape(j) \/ KillSupervisor(j)

WorkerStep(j) == RunningStep(j) /\ UNCHANGED supervisorVars

\* Every job has ended and the server has forgotten it.
AllEnded ==
    /\ \A j \in Jobs : /\ supervisor[j] \in {"returned", "raised", "escaped", "lost"}
                       /\ ~ Alive(j)
                       /\ ~ InTx(j)
    /\ lockHolder = NoJob
    /\ UNCHANGED vars

JobNext ==
    \/ \E j \in Jobs : SupervisorStep(j) \/ SchedulerStep(j) \/ WorkerStep(j) \/ DieKilled(j)
    \/ AllEnded

JobSpec == JobInit /\ [][JobNext]_vars

\* The supervisor's loop and its timeouts go on, the kernel delivers SIGKILL, and
\* the server ends sessions that have no client.  The worker promises nothing: a
\* fetch may hang, a signal may be held up in a system call.
FairJobSpec ==
    /\ JobSpec
    /\ \A j \in Jobs :
         /\ WF_vars(SupervisorStep(j))
         /\ WF_vars(DieKilled(j))
         /\ WF_vars(ReapLockSession(j) /\ UNCHANGED supervisorVars)
         /\ WF_vars(ReapLoadSession(j) /\ UNCHANGED supervisorVars)

-----------------------------------------------------------------------------
(* Safety. *)

\* The exit statuses of docs/guides/source-operations.md, lines 118-125: 0 only for
\* a committed or verified snapshot with this run's evidence archived, 3 only for a
\* run that left no evidence and opened no transaction; 4 and 5 promise nothing.
StatusIsTruthful ==
    \A j \in Jobs :
        /\ status[j] = 0 => bundle[j] \in accepted /\ Twin(j)
        /\ status[j] = 3 => /\ tx[j] = "none"
                            /\ \A b \in accepted \cup rejected : b.run # j

\* supervise returns a status only when the worker is gone, whatever the worker
\* was doing when the deadline or the signal came.
ReturnedMeansReaped ==
    \A j \in Jobs : supervisor[j] = "returned" => ~ Alive(j)

\* "A second interrupt must not skip termination/reaping of the worker"
\* (refresh.py, line 372): no way out of supervise leaves a worker running that
\* nobody has killed.
SecondInterruptKeepsReaping ==
    \A j \in Jobs : supervisor[j] = "escaped" => ~ Alive(j)

-----------------------------------------------------------------------------
(* Liveness, under FairJobSpec. *)

\* However the worker hangs, a launched job ends unless its supervisor is killed.
JobEnds ==
    \A j \in Jobs :
        supervisor[j] = "watching" ~>
            supervisor[j] \in {"returned", "raised", "escaped", "lost"}

\* The source does not stay locked, unless nobody is left to stop the worker.
LockFreed ==
    \A j \in Jobs :
        lockHolder = j ~> lockHolder # j \/ supervisor[j] \in {"escaped", "lost"}

\* A transaction is never left open behind a job that has ended: the loaders of
\* every other job can take the transaction lock again.
TransactionEnds ==
    \A j \in Jobs :
        tx[j] = "open" ~> tx[j] # "open" \/ supervisor[j] \in {"escaped", "lost"}

\* A job ends, and nothing that it held keeps the next one out.
SourceFreed == JobEnds /\ LockFreed /\ TransactionEnds
=============================================================================
