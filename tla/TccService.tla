----------------------------- MODULE TccService -----------------------------
(***************************************************************************)
(* The TinyCC service of an Edict VM, edict/tcc_runtime.cpp: C source is   *)
(* compiled and run by worker processes (tcc_worker_native.cpp), each with *)
(* a pipe for its request and one for its envelope.  compile and run wait  *)
(* for the envelope; an isolated job is asked for it later, by status,     *)
(* collect and cancel.  The VMs of a process each have a service of their  *)
(* own, and all of them one table of file descriptors.                     *)
(***************************************************************************)
EXTENDS Naturals, FiniteSets

CONSTANTS VMs, Host,   \* the VMs, and the process they run in
          Pids,        \* process ids, used again once a worker is reaped
          Jobs,        \* bound on the isolated jobs of a behaviour
          Symbols,     \* host symbols programs may be allowed
          Uses,        \* those the program of the instance uses
          Outcomes,    \* what it does, by its arguments
          NoPid        \* no process

TccAssumption ==
  /\ Host \notin Pids /\ NoPid \notin Pids
  /\ Uses \subseteq Symbols
  /\ Outcomes \subseteq {"answers", "fails", "crashes", "loops", "floods"}

VARIABLES exports, \* the symbols the libraries of the machine export
          allowed, \* allowedSymbols of each VM
          modules, \* the modules of each VM, by their bound symbols
          worker,  \* the processes
          pipe,    \* their output pipes: what is in, who holds a write end
          job,     \* the isolated jobs
          call     \* what each VM waits for

vars == <<exports, allowed, modules, worker, pipe, job, call>>

NoWorker == [st |-> "none"]
NoPipe == [buf |-> "empty", ends |-> {}]
NoJob == [st |-> "none"]
Idle == [op |-> "idle"]

-----------------------------------------------------------------------------
(* The worker process.                                                     *)

\* compileModule: every bound symbol is resolved again, in this process.
Resolves(symbols) == symbols \subseteq exports
Compiles(bound) == Resolves(bound) /\ Uses \subseteq bound

\* runModule: the envelope of a module's entry; one that floods the logs is
\* larger than what a pipe holds.
RunModule(does) ==
  CASE does = "answers" -> "ok"
    [] does = "fails" -> "entry_error"
    [] does = "floods" -> "large"

\* A process that ends leaves every write end it had, its own pipe's and the
\* ones it was born with.
Ends(w) == pipe' = [u \in Pids |-> [pipe[u] EXCEPT !.ends = @ \ {w}]]

WorkerRun(w) ==
  LET does == worker[w].does
      runs == does # "compiles" /\ Compiles(worker[w].mod)
      env == IF ~Compiles(worker[w].mod) THEN "compile_error"
             ELSE IF runs THEN RunModule(does) ELSE "ok"
  IN  /\ worker[w].st = "working"
      /\ runs => does # "loops"
      /\ IF runs /\ does = "crashes"
         THEN worker' = [worker EXCEPT ![w] = [st |-> "signalled"]] /\ Ends(w)
         ELSE worker' = [worker EXCEPT ![w] = [st |-> "writing", env |-> env]]
              /\ UNCHANGED pipe
      /\ UNCHANGED <<exports, allowed, modules, job, call>>

\* Somebody reads the pipe of w while w writes.
Reads(w) == \E v \in VMs : call[v].op = "reading" /\ call[v].pid = w

\* writeEnvelope: what does not fit waits for a reader; then the worker exits.
WorkerWrite(w) ==
  /\ worker[w].st = "writing"
  /\ IF worker[w].env = "large" /\ ~Reads(w)
     THEN /\ pipe[w].buf = "empty"
          /\ pipe' = [pipe EXCEPT ![w].buf = "part"] /\ UNCHANGED worker
     ELSE /\ pipe' = [u \in Pids |->
                        [buf |-> IF u = w THEN worker[w].env ELSE pipe[u].buf,
                         ends |-> pipe[u].ends \ {w}]]
          /\ worker' = [worker EXCEPT ![w] = [st |-> "exited"]]
  /\ UNCHANGED <<exports, allowed, modules, job, call>>

-----------------------------------------------------------------------------
(* launchWorker, in the steps between which other threads may spawn.       *)

\* A pid the kernel may give out; the instance keeps one from being used
\* again while its last owner's pipe is read.
FreePids == {w \in Pids : /\ worker[w] = NoWorker
                          /\ \A v \in VMs : call[v].op = "idle" \/ call[v].pid # w}

\* Both pipes are made; `j' is the job to record, or NoPid for a call that
\* waits.
Launch(v, does, mod, j, timeout) ==
  \E w \in FreePids :
    /\ call[v] = Idle
    /\ call' = [call EXCEPT ![v] = [op |-> "spawning", pid |-> w, does |-> does,
                                    mod |-> mod, job |-> j, timeout |-> timeout]]
    /\ pipe' = [pipe EXCEPT ![w] = [buf |-> "empty", ends |-> {Host}]]
    /\ UNCHANGED <<exports, allowed, modules, worker, job>>

\* posix_spawn: the child keeps every write end that is open in the process,
\* also of the pipe another thread has just made.  Then the own write end is
\* closed and the request written; a job is recorded.
Spawn(v) ==
  LET c == call[v]
      w == c.pid
      Kept(ends, u) == IF Host \in ends THEN (ends \cup {w}) \ (IF u = w THEN {Host} ELSE {})
                       ELSE ends
  IN  /\ c.op = "spawning"
      /\ worker' = [worker EXCEPT ![w] = [st |-> "working", does |-> c.does, mod |-> c.mod]]
      /\ pipe' = [u \in Pids |-> [pipe[u] EXCEPT !.ends = Kept(@, u)]]
      /\ IF c.job = NoPid
         THEN /\ call' = [call EXCEPT ![v] = [op |-> "reading", pid |-> w, does |-> c.does,
                                              mod |-> c.mod, job |-> NoPid]]
              /\ UNCHANGED job
         ELSE /\ job' = [job EXCEPT ![c.job] =
                    [st |-> "running", vm |-> v, pid |-> w, does |-> c.does,
                     timeout |-> c.timeout, late |-> FALSE]]
              /\ call' = [call EXCEPT ![v] = Idle]
      /\ UNCHANGED <<exports, allowed, modules>>

\* readEnvelope returns: with the whole envelope, or at the end of the file.
Whole(w) == pipe[w].buf \notin {"empty", "part"}
Readable(w) == Whole(w) \/ pipe[w].ends = {}

\* The pipe is closed and waitpid frees the process id; a worker that is
\* killed leaves its write ends.
Reaped(W) ==
  /\ worker' = [w \in Pids |-> IF w \in W THEN NoWorker ELSE worker[w]]
  /\ pipe' = [w \in Pids |-> IF w \in W THEN NoPipe
                              ELSE [pipe[w] EXCEPT !.ends = @ \ W]]
Dead(w) == worker[w].st \in {"exited", "signalled"}

\* The caller that waits has its envelope; a compiled module is stored.
Answered(v) ==
  LET c == call[v]
      compiled == c.does = "compiles" /\ pipe[c.pid].buf = "ok"
  IN  /\ c.op = "reading" /\ Readable(c.pid) /\ Dead(c.pid)
      /\ Reaped({c.pid})
      /\ modules' = [modules EXCEPT ![v] = IF compiled THEN @ \cup {c.mod} ELSE @]
      /\ call' = [call EXCEPT ![v] = Idle]
      /\ UNCHANGED <<exports, allowed, job>>

-----------------------------------------------------------------------------
(* The operations of the service.                                          *)

\* compile takes the symbols allowed at the moment.  The instance compiles its
\* program once for each set of symbols.
OpCompile(v) ==
  /\ allowed[v] \notin modules[v]
  /\ Launch(v, "compiles", allowed[v], NoPid, FALSE)

OpRun(v) ==
  \E mod \in modules[v], does \in Outcomes :
    Launch(v, does, mod, NoPid, FALSE)

OpStartIsolated(v) ==
  \E mod \in modules[v], does \in Outcomes, timeout \in BOOLEAN :
  \E j \in {i \in Jobs : job[i] = NoJob} :
    /\ \A u \in VMs : call[u] # Idle => call[u].job # j
    /\ Launch(v, does, mod, j, timeout)

OpDrop(v) ==
  \E mod \in modules[v] :
    /\ call[v] = Idle
    /\ modules' = [modules EXCEPT ![v] = @ \ {mod}]
    /\ UNCHANGED <<exports, allowed, worker, pipe, job, call>>

\* allowSymbol tests that the symbol can be resolved now.
AllowSymbol(v) ==
  \E s \in exports :
    /\ call[v] = Idle /\ Resolves({s})
    /\ allowed' = [allowed EXCEPT ![v] = @ \cup {s}]
    /\ UNCHANGED <<exports, modules, worker, pipe, job, call>>
ClearAllowedSymbols(v) ==
  /\ call[v] = Idle
  /\ allowed' = [allowed EXCEPT ![v] = {}]
  /\ UNCHANGED <<exports, modules, worker, pipe, job, call>>

Done(j, answer) == [st |-> "done", vm |-> job[j].vm, pid |-> job[j].pid, answer |-> answer]
End(j, answer) == job' = [job EXCEPT ![j] = Done(j, answer)]

\* finalizeJob
Result(w) == IF Whole(w) THEN pipe[w].buf
             ELSE IF worker[w].st = "signalled" THEN "runtime_signal"
             ELSE "worker_exit_without_result"

\* The mistake of a status that leaves timeouts to the caller.
TestOnly(v, j) ==
  LET w == job[j].pid
  IN  /\ Dead(w) /\ Readable(w)
      /\ End(j, Result(w)) /\ Reaped({w})

\* status of a job that is not done: its process has ended and its envelope
\* is read (which waits for the end of the file where there is none), or its
\* time is up.
Test(v, j) ==
  LET w == job[j].pid
  IN  \/ /\ Dead(w) /\ Readable(w)
         /\ End(j, Result(w)) /\ Reaped({w})
      \/ /\ ~Dead(w) /\ job[j].timeout /\ job[j].late
         /\ End(j, "timed_out") /\ Reaped({w})

OpStatus(v) ==
  \E j \in Jobs :
    /\ call[v] = Idle /\ job[j].st = "running" /\ job[j].vm = v
    /\ Test(v, j)
    /\ UNCHANGED <<exports, allowed, modules, call>>

\* collect asks for the status until it is no longer running.
OpCollect(v) ==
  \E j \in Jobs :
    /\ call[v] = Idle /\ job[j].st = "running" /\ job[j].vm = v
    /\ call' = [call EXCEPT ![v] = [op |-> "collecting", pid |-> job[j].pid, job |-> j]]
    /\ UNCHANGED <<exports, allowed, modules, worker, pipe, job>>
Collected(v) ==
  /\ call[v].op = "collecting"
  /\ Test(v, call[v].job)
  /\ call' = [call EXCEPT ![v] = Idle]
  /\ UNCHANGED <<exports, allowed, modules>>

\* The mistake of a cancel that asks nobody whether the job has ended.
CancelAnyhow(j) ==
  job[j].st # "none" /\ End(j, "cancelled") /\ Reaped({job[j].pid})
Cancel(j) ==
  job[j].st = "running" /\ End(j, "cancelled") /\ Reaped({job[j].pid})
OpCancel(v) ==
  \E j \in Jobs :
    /\ call[v] = Idle /\ job[j].st # "none" /\ job[j].vm = v
    /\ Cancel(j)
    /\ UNCHANGED <<exports, allowed, modules, call>>

\* ~TccCompilerService: what still runs is killed.
Destroy(v) ==
  LET mine == {j \in Jobs : job[j].st = "running" /\ job[j].vm = v}
      gone == {job[j].pid : j \in mine}
  IN  /\ call[v] = Idle /\ mine # {}
      /\ Reaped(gone)
      /\ job' = [j \in Jobs |-> IF j \in mine
                   THEN Done(j, "destroyed") ELSE job[j]]
      /\ modules' = [modules EXCEPT ![v] = {}] /\ allowed' = [allowed EXCEPT ![v] = {}]
      /\ UNCHANGED <<exports, call>>

-----------------------------------------------------------------------------
(* The clock, and the libraries of the machine.                            *)

TimeUp(j) ==
  /\ job[j].st = "running" /\ job[j].timeout /\ ~job[j].late
  /\ job' = [job EXCEPT ![j].late = TRUE]
  /\ UNCHANGED <<exports, allowed, modules, worker, pipe, call>>
LibraryReplaced ==
  /\ \E S \in SUBSET exports : S # exports /\ exports' = S
  /\ UNCHANGED <<allowed, modules, worker, pipe, job, call>>

Init ==
  /\ exports = Symbols
  /\ allowed = [v \in VMs |-> {}] /\ modules = [v \in VMs |-> {}]
  /\ worker = [w \in Pids |-> NoWorker]
  /\ pipe = [w \in Pids |-> NoPipe]
  /\ job = [j \in Jobs |-> NoJob]
  /\ call = [v \in VMs |-> Idle]

Next ==
  \/ \E v \in VMs :
       \/ OpCompile(v) \/ OpRun(v) \/ OpStartIsolated(v) \/ OpDrop(v)
       \/ AllowSymbol(v) \/ ClearAllowedSymbols(v)
       \/ Spawn(v) \/ Answered(v)
       \/ OpStatus(v) \/ OpCollect(v) \/ Collected(v) \/ OpCancel(v) \/ Destroy(v)
  \/ \E w \in Pids : WorkerRun(w) \/ WorkerWrite(w)
  \/ \E j \in Jobs : TimeUp(j)
  \/ LibraryReplaced

\* A call goes on once it has begun, a process that can take a step takes
\* it, and time passes.
Fairness ==
  /\ \A v \in VMs : WF_vars(Spawn(v) \/ Answered(v) \/ Collected(v))
  /\ \A w \in Pids : WF_vars(WorkerRun(w) \/ WorkerWrite(w))
  /\ \A j \in Jobs : WF_vars(TimeUp(j))

Spec == Init /\ [][Next]_vars /\ Fairness

-----------------------------------------------------------------------------

\* SIGKILL and waitpid know a number only, and a number the kernel has given
\* to a later worker is that worker's: whoever still waits for a process of
\* his own finds it, and no two of them have one process.
OwnProcess ==
  LET waiting == {<<"call", v>> : v \in {u \in VMs : call[u].op = "reading"}}
                 \cup {<<"job", j>> : j \in {i \in Jobs : job[i].st = "running"}}
      pid(q) == IF q[1] = "call" THEN call[q[2]].pid ELSE job[q[2]].pid
  IN  \A q \in waiting : /\ worker[pid(q)] # NoWorker
                          /\ \A other \in waiting : pid(other) = pid(q) => other = q

\* The pipe of the job a VM collects is kept open by a worker another VM
\* spawned between pipe() and close().
HeldElsewhere(v) ==
  call[v].op = "collecting" /\ pipe[call[v].pid].ends \ {call[v].pid} # {}

\* collect returns for a job with a timeout, and for one that ends with an
\* envelope the pipe holds (a larger one is never read: the worker waits for
\* the reader and the reader for its exit).  It may wait for the worker that
\* has inherited the pipe.
Collectable(v) ==
  /\ call[v].op = "collecting"
  /\ \/ job[call[v].job].timeout
     \/ job[call[v].job].does \in {"answers", "fails", "crashes"}
CollectReturns ==
  \A v \in VMs : Collectable(v) ~> (call[v] = Idle \/ HeldElsewhere(v))
=============================================================================
