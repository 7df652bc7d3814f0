------------------------------- MODULE InternJobs -------------------------------
(***************************************************************************)
(* InternJobManager of edict/edict_worker_primitives.cpp with the workers  *)
(* of edict/edict_worker_runtime.cpp: asynchronous jobs that coordinators  *)
(* start, cancel, collect, drain and drop while detached threads run them. *)
(*                                                                         *)
(* mutex_ guards the table of jobs; the join slot, the cancellation token  *)
(* and the abandoned flag of a job are read and written outside it.  Only  *)
(* drop works on those while it holds the mutex, so only drop shows its    *)
(* critical section; every other one is a single step that needs the mutex *)
(* free.  Calls that find no job or a running one change nothing and are   *)
(* left out.                                                               *)
(***************************************************************************)
EXTENDS Naturals, FiniteSets

CONSTANTS
  Callers,       \* threads that use the manager
  Isolations,    \* where workers run: "thread", or "process" (forked or execed)
  MaxActive,     \* max_active_jobs of every task
  MaxRetained,   \* maxRetainedTerminalJobs_
  MaxJobs,       \* bound: jobs started
  NoJob          \* what an idle caller works on

ASSUME InternJobsAssumption ==
  /\ IsFiniteSet(Callers)
  /\ Isolations \subseteq {"thread", "process"}
  /\ MaxActive \in Nat /\ MaxRetained \in Nat /\ MaxJobs \in Nat
  /\ NoJob \notin Nat

VARIABLES
  tracked,          \* jobs_
  id,               \* the number each job is known by
  isolation,        \* where its worker runs
  outcome,          \* its join slot, "none" until it is ready
  cancelRequested,  \* its cancellation token
  abandoned,        \* its abandoned flag
  sequence,         \* terminalSequence, 0 until terminalObserved
  mailbox,          \* descriptors in the ring of its participant
  worker,           \* where its detached thread is
  saw,              \* the value of abandoned that thread has loaded
  caller,           \* what each caller is doing
  answer,           \* the last terminal state collected of each job
  nextJobId, nextSequence,
  started, finished, abandonedRunning, totalAbandoned, dropped, swept

job      == <<id, isolation, outcome, cancelRequested, abandoned, sequence>>
thread   == <<worker, saw>>
counters == <<started, finished, abandonedRunning, totalAbandoned, dropped, swept>>
vars     == <<tracked, job, mailbox, thread, caller, answer,
              nextJobId, nextSequence, counters>>

Jobs     == 1..MaxJobs
Outcomes == {"none", "ok", "error", "cancelled"}
Kinds    == {"Cancelled", "Complete", "Error"}

(* What a caller carries from step to step: a job, or the id it has read. *)
Idle == [pc |-> "idle", job |-> NoJob, told |-> "none"]

TypeOK ==
  /\ tracked \subseteq Jobs
  /\ id \in [Jobs -> 0..MaxJobs]
  /\ isolation \in [Jobs -> Isolations \cup {"none"}]
  /\ outcome \in [Jobs -> Outcomes]
  /\ cancelRequested \in [Jobs -> BOOLEAN]
  /\ abandoned \in [Jobs -> BOOLEAN]
  /\ sequence \in [Jobs -> 0..MaxJobs]
  /\ mailbox \in [Jobs -> SUBSET Kinds]
  /\ worker \in [Jobs -> {"none", "running", "yielded", "stored",
                          "loaded", "publish", "done"}]
  /\ saw \in [Jobs -> BOOLEAN]
  /\ caller \in [Callers ->
       [pc : {"idle", "admitted", "read", "drawn", "launch", "cancel", "collect", "drop"},
        job : Nat \cup {NoJob}, told : Outcomes]]
  /\ answer \in [Jobs -> Outcomes]
  /\ nextJobId \in 1..(MaxJobs + 1)
  /\ nextSequence \in 1..(MaxJobs + 1)
  /\ started \in 0..MaxJobs /\ finished \in 0..MaxJobs
  /\ abandonedRunning \in 0..MaxJobs /\ totalAbandoned \in 0..MaxJobs
  /\ dropped \in 0..MaxJobs /\ swept \in 0..MaxJobs

Init ==
  /\ tracked = {}
  /\ id = [j \in Jobs |-> 0]
  /\ isolation = [j \in Jobs |-> "none"]
  /\ outcome = [j \in Jobs |-> "none"]
  /\ cancelRequested = [j \in Jobs |-> FALSE]
  /\ abandoned = [j \in Jobs |-> FALSE]
  /\ sequence = [j \in Jobs |-> 0]
  /\ mailbox = [j \in Jobs |-> {}]
  /\ worker = [j \in Jobs |-> "none"]
  /\ saw = [j \in Jobs |-> FALSE]
  /\ caller = [c \in Callers |-> Idle]
  /\ answer = [j \in Jobs |-> "none"]
  /\ nextJobId = 1 /\ nextSequence = 1
  /\ started = 0 /\ finished = 0 /\ abandonedRunning = 0
  /\ totalAbandoned = 0 /\ dropped = 0 /\ swept = 0

MutexFree == \A c \in Callers : caller[c].pc # "drop"
Ready(j)  == outcome[j] # "none"

At(c, pc)      == caller[c].pc = pc
Goes(c, pc, j) == caller' = [caller EXCEPT ![c] = [pc |-> pc, job |-> j, told |-> "none"]]
Returns(c)     == caller' = [caller EXCEPT ![c] = Idle]

(* A job that somebody has the id of: launchJob has returned. *)
Launched(j) == worker[j] # "none"

Active == {j \in tracked : ~Ready(j) /\ ~abandoned[j]}

-----------------------------------------------------------------------------
(* Variants with one mistake each, used by no other definition. *)

(* startStatusWithLimit with > for >=. *)
NotOverLimit == Cardinality(Active) <= MaxActive

(* The sweep with one job too many kept. *)
Retained(seq) == {j \in tracked : seq[j] > 0 /\ Ready(j)}
SweptLate(seq) ==
  {j \in Retained(seq) :
     Cardinality({k \in Retained(seq) : seq[k] >= seq[j]}) > MaxRetained + 1}

(* jobs_.erase forgotten. *)
EraseNothing(js) == tracked' = tracked

(* requestCancelEvents without its test of the slot. *)
CancellableAlways(j) == TRUE

(* runInternWorker without the checkpoint. *)
SeesNothing(j) == FALSE

(* A thread that counts down whoever has been abandoned. *)
CountsDownForAnyone(j) == abandonedRunning > 0

(* A thread that says nothing of a cancelled job. *)
SilentWhenCancelled(j) == saw[j] \/ cancelRequested[j]

-----------------------------------------------------------------------------
(* startStatusWithLimit and launchJob *)

BelowLimit == Cardinality(Active) < MaxActive

Starting == {c \in Callers : caller[c].pc \in {"admitted", "read", "drawn"}}

(* Below the limit; the mutex is given up before the job enters the table. *)
Admit(c) ==
  /\ At(c, "idle")
  /\ MutexFree
  /\ BelowLimit
  /\ started + Cardinality(Starting) < MaxJobs
  /\ Goes(c, "admitted", NoJob)
  /\ UNCHANGED <<tracked, job, mailbox, thread, answer, nextJobId, nextSequence, counters>>

(* nextJobId_++ without the mutex: two callers may read the same number. *)
ReadId(c) ==
  /\ At(c, "admitted")
  /\ Goes(c, "read", nextJobId)
  /\ UNCHANGED <<tracked, job, mailbox, thread, answer, nextJobId, nextSequence, counters>>

WriteId(c) ==
  /\ At(c, "read")
  /\ nextJobId' = caller[c].job + 1
  /\ Goes(c, "drawn", caller[c].job)
  /\ UNCHANGED <<tracked, job, mailbox, thread, answer, nextSequence, counters>>

(* jobs_[jobId] = job: a job known by the same number falls out. *)
Insert(c) ==
  LET j == started + 1 IN
  /\ At(c, "drawn")
  /\ MutexFree
  /\ started' = j
  /\ id' = [id EXCEPT ![j] = caller[c].job]
  /\ tracked' = {k \in tracked : id[k] # caller[c].job} \cup {j}
  /\ Goes(c, "launch", j)
  /\ UNCHANGED <<isolation, outcome, cancelRequested, abandoned, sequence, mailbox, thread,
                 answer, nextJobId, nextSequence, finished, abandonedRunning,
                 totalAbandoned, dropped, swept>>

(* The worker is launched, or a process that cannot be is an error outcome. *)
Launch(c) ==
  LET j == caller[c].job IN
  /\ At(c, "launch")
  /\ \E i \in Isolations :
       /\ isolation' = [isolation EXCEPT ![j] = i]
       /\ \/ /\ worker' = [worker EXCEPT ![j] = "running"]
             /\ UNCHANGED outcome
          \/ /\ i = "process"
             /\ outcome' = [outcome EXCEPT ![j] = "error"]
             /\ worker' = [worker EXCEPT ![j] = "stored"]
  /\ Returns(c)
  /\ UNCHANGED <<tracked, id, cancelRequested, abandoned, sequence, mailbox, saw, answer,
                 nextJobId, nextSequence, counters>>

-----------------------------------------------------------------------------
(* The worker and its detached thread *)

Store(j, o) ==
  /\ outcome' = [outcome EXCEPT ![j] = o]
  /\ worker' = [worker EXCEPT ![j] = "stored"]
  /\ UNCHANGED <<id, isolation, cancelRequested, abandoned, sequence>>

(* The program yields or ends; a process may also be lost. *)
Run(j) ==
  /\ worker[j] = "running"
  /\ \/ /\ worker' = [worker EXCEPT ![j] = "yielded"]
        /\ UNCHANGED job
     \/ \E o \in {"ok", "error"} : Store(j, o)
  /\ UNCHANGED <<tracked, mailbox, saw, caller, answer, nextJobId, nextSequence, counters>>

(* The checkpoint at a yield.  A process has the token as it was when it   *)
(* was forked, or none.                                                    *)
SeesCancel(j) == isolation[j] = "thread" /\ cancelRequested[j]

Checkpoint(j) ==
  /\ worker[j] = "yielded"
  /\ \/ SeesCancel(j) /\ Store(j, "cancelled")
     \/ /\ ~SeesCancel(j)
        /\ worker' = [worker EXCEPT ![j] = "running"]
        /\ UNCHANGED job
  /\ UNCHANGED <<tracked, mailbox, saw, caller, answer, nextJobId, nextSequence, counters>>

LoadAbandoned(j) ==
  /\ worker[j] = "stored"
  /\ saw' = [saw EXCEPT ![j] = abandoned[j]]
  /\ worker' = [worker EXCEPT ![j] = "loaded"]
  /\ UNCHANGED <<tracked, job, mailbox, caller, answer, nextJobId, nextSequence, counters>>

(* Both by what the thread has loaded, not by what has become of the job. *)
CountsDown(j) == saw[j] /\ abandonedRunning > 0
Silent(j)     == saw[j]

Finish(j) ==
  /\ worker[j] = "loaded"
  /\ MutexFree
  /\ finished' = finished + 1
  /\ abandonedRunning' = IF CountsDown(j)
                         THEN abandonedRunning - 1 ELSE abandonedRunning
  /\ worker' = [worker EXCEPT ![j] = IF Silent(j) THEN "done" ELSE "publish"]
  /\ UNCHANGED <<tracked, job, mailbox, saw, caller, answer, nextJobId, nextSequence,
                 started, totalAbandoned, dropped, swept>>

Publish(j) ==
  /\ worker[j] = "publish"
  /\ mailbox' = [mailbox EXCEPT ![j] =
                   @ \cup {IF outcome[j] = "ok" THEN "Complete" ELSE "Error"}]
  /\ worker' = [worker EXCEPT ![j] = "done"]
  /\ UNCHANGED <<tracked, job, saw, caller, answer, nextJobId, nextSequence, counters>>

-----------------------------------------------------------------------------
(* requestCancelEvents, drainEvents, collectStatus, drop *)

(* Taken out of jobs_. *)
Erase(js) == tracked' = tracked \ js

Cancellable(j) == ~Ready(j)

(* The job is found and not ready yet... *)
CancelCheck(c, j) ==
  /\ At(c, "idle") /\ MutexFree
  /\ j \in tracked /\ Launched(j)
  /\ Cancellable(j)
  /\ Goes(c, "cancel", j)
  /\ UNCHANGED <<tracked, job, mailbox, thread, answer, nextJobId, nextSequence, counters>>

(* ... and its token is set, whatever has happened to it since. *)
CancelSet(c) ==
  LET j == caller[c].job IN
  /\ At(c, "cancel")
  /\ cancelRequested' = [cancelRequested EXCEPT ![j] = TRUE]
  /\ mailbox' = IF cancelRequested[j] THEN mailbox
                ELSE [mailbox EXCEPT ![j] = @ \cup {"Cancelled"}]
  /\ Returns(c)
  /\ UNCHANGED <<tracked, id, isolation, outcome, abandoned, sequence, thread, answer,
                 nextJobId, nextSequence, counters>>

DrainEvents(c, j) ==
  /\ At(c, "idle") /\ MutexFree
  /\ j \in tracked /\ Launched(j)
  /\ mailbox' = [mailbox EXCEPT ![j] = {}]
  /\ UNCHANGED <<tracked, job, thread, caller, answer, nextJobId, nextSequence, counters>>

(* What a ready job's status says: a request to cancel beats the result. *)
Told(j) == IF cancelRequested[j] THEN "cancelled" ELSE outcome[j]

CollectRead(c, j) ==
  /\ At(c, "idle") /\ MutexFree
  /\ j \in tracked /\ Launched(j)
  /\ Ready(j)
  /\ caller' = [caller EXCEPT ![c] = [pc |-> "collect", job |-> j, told |-> Told(j)]]
  /\ UNCHANGED <<tracked, job, mailbox, thread, answer, nextJobId, nextSequence, counters>>

(* sweepRetainedTerminalJobsLocked: the oldest observed jobs over the limit. *)
Swept(seq) ==
  {j \in Retained(seq) :
     Cardinality({k \in Retained(seq) : seq[k] >= seq[j]}) > MaxRetained}

(* The job is looked up again by its id and becomes a retained one. *)
Observed(j) ==
  {k \in tracked : id[k] = id[j] /\ sequence[k] = 0}

CollectObserve(c) ==
  LET j   == caller[c].job
      seq == [k \in Jobs |-> IF k \in Observed(j) THEN nextSequence ELSE sequence[k]]
      out == IF \E k \in tracked : id[k] = id[j] THEN Swept(seq) ELSE {} IN
  /\ At(c, "collect")
  /\ MutexFree
  /\ sequence' = seq
  /\ nextSequence' = IF Observed(j) = {} THEN nextSequence ELSE nextSequence + 1
  /\ Erase(out)
  /\ swept' = swept + Cardinality(out)
  /\ answer' = [answer EXCEPT ![j] = caller[c].told]
  /\ Returns(c)
  /\ UNCHANGED <<id, isolation, outcome, cancelRequested, abandoned, mailbox, thread,
                 nextJobId, started, finished, abandonedRunning, totalAbandoned, dropped>>

(* drop takes the mutex and looks whether the job is ready... *)
DropCheck(c, j) ==
  /\ At(c, "idle") /\ MutexFree
  /\ j \in tracked /\ Launched(j)
  /\ caller' = [caller EXCEPT ![c] = [pc |-> "drop", job |-> j, told |-> outcome[j]]]
  /\ UNCHANGED <<tracked, job, mailbox, thread, answer, nextJobId, nextSequence, counters>>

(* ... and abandons it if it was not. *)
DropErase(c) ==
  LET j == caller[c].job IN
  /\ At(c, "drop")
  /\ \/ /\ caller[c].told = "none"
        /\ abandoned' = [abandoned EXCEPT ![j] = TRUE]
        /\ abandonedRunning' = abandonedRunning + 1
        /\ totalAbandoned' = totalAbandoned + 1
        /\ UNCHANGED dropped
     \/ /\ caller[c].told # "none"
        /\ dropped' = dropped + 1
        /\ UNCHANGED <<abandoned, abandonedRunning, totalAbandoned>>
  /\ Erase({j})
  /\ Returns(c)
  /\ UNCHANGED <<id, isolation, outcome, cancelRequested, sequence, mailbox, thread, answer,
                 nextJobId, nextSequence, started, finished, swept>>

-----------------------------------------------------------------------------
WorkerStep(j) ==
  Run(j) \/ Checkpoint(j) \/ LoadAbandoned(j) \/ Finish(j) \/ Publish(j)

CallerStep(c) ==
  Admit(c) \/ ReadId(c) \/ WriteId(c) \/ Insert(c) \/ Launch(c)
    \/ CancelSet(c) \/ CollectObserve(c) \/ DropErase(c)

Next ==
  \/ \E c \in Callers : CallerStep(c)
  \/ \E c \in Callers, j \in Jobs :
       CancelCheck(c, j) \/ DrainEvents(c, j) \/ CollectRead(c, j) \/ DropCheck(c, j)
  \/ \E j \in Jobs : WorkerStep(j)

Spec == Init /\ [][Next]_vars

(* Threads run and drop gives the mutex up; nobody must start, cancel,     *)
(* collect or drop anything.                                               *)
FairSpec ==
  /\ Spec
  /\ \A c \in Callers : WF_vars(DropErase(c))
  /\ \A j \in Jobs : WF_vars(WorkerStep(j))

-----------------------------------------------------------------------------
(***************************************************************************)
(* Every job started is in the table or was abandoned, dropped or swept,   *)
(* and counted once, whatever drops and sweeps come together.  One caller: *)
(* two may draw one id.  (launchJob, drop, the sweep.)                     *)
(***************************************************************************)
JobsAccounted ==
  MutexFree => started = Cardinality(tracked) + totalAbandoned + dropped + swept

(***************************************************************************)
(* No more than maxRetainedTerminalJobs_ jobs whose end has been collected *)
(* stay in the table, and never more jobs run at once than the limit       *)
(* allows, those abandoned not counted.  One caller: the limit is tested   *)
(* in a critical section before the one that enters the job.               *)
(* (sweepRetainedTerminalJobsLocked, collectStatus; startStatusWithLimit,  *)
(* launchJob.)                                                             *)
(***************************************************************************)
WithinLimits ==
  /\ Cardinality({j \in tracked : sequence[j] > 0 /\ Ready(j)}) <= MaxRetained
  /\ Cardinality({j \in tracked : outcome[j] = "none"}) <= MaxActive

(***************************************************************************)
(* Once a caller has been told how a job ended, every later collection     *)
(* tells the same.  One caller: a second one may cancel in between.        *)
(* (collectStatus, requestCancelEvents, the worker.)                       *)
(***************************************************************************)
AnswerIsStable ==
  [][\A j \in Jobs : answer[j] # "none" => answer'[j] = answer[j]]_vars

(***************************************************************************)
(* abandoned_running_jobs is never below the number of abandoned jobs      *)
(* whose thread has not finished, however drops and ends come together.    *)
(* (drop and the end of the detached thread.)                              *)
(***************************************************************************)
NeverUndercounts ==
  Cardinality({j \in Jobs : abandoned[j] /\ worker[j] \notin {"publish", "done"}})
    <= abandonedRunning

(***************************************************************************)
(* A job on a thread whose cancellation was asked for ends, if its program *)
(* yields or ends again and again.  (requestCancelEvents and the           *)
(* checkpoint of runInternWorker.)                                         *)
(***************************************************************************)
CancelledJobEnds ==
  \A j \in Jobs : (cancelRequested[j] /\ isolation[j] = "thread") ~> Ready(j)

(***************************************************************************)
(* The end of every job that is not abandoned is announced in its mailbox. *)
(* (The end of the detached thread.)                                       *)
(***************************************************************************)
EndIsAnnounced ==
  \A j \in Jobs :
    worker[j] = "stored" ~> (abandoned[j] \/ mailbox[j] \cap {"Complete", "Error"} # {})

(***************************************************************************)
(* What the manager counts is true and within its limits: each count above *)
(* (start, drop, the sweep and the end of the thread share them under      *)
(* mutex_, and outside of it).  Every job comes to its announced end.      *)
(***************************************************************************)
CountersAreTrue == TypeOK /\ JobsAccounted /\ WithinLimits /\ NeverUndercounts

JobsEnd == CancelledJobEnds /\ EndIsAnnounced
=============================================================================
