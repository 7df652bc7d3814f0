------------------------------ MODULE HostProofs ------------------------------
(***************************************************************************)
(* Proofs about what a host program runs beside its VMs, part by part as   *)
(* HostParts composes them, for every value of their constants: the C      *)
(* workers (TccService), the streams of the agent runtime (AgentStreams),  *)
(* the mailboxes of a mapped slab (CoordinationSlab), the publications of  *)
(* the broker (Root1Publications), the handles of values in C code         *)
(* (LtvHandles) and the Root1 words (Root1Primitives).                     *)
(***************************************************************************)
EXTENDS HostParts, SequenceTheorems, FiniteSetTheorems, NaturalsInduction,
        WellFoundedInduction, TLAPS

-----------------------------------------------------------------------------
(* TccService: whoever waits for a process has it for himself.             *)

\* A call that has, or is about to have, a process of its own.
Busy(v) == call[v].op \in {"spawning", "reading"}

CallerOf(v) ==
  /\ call[v].op \in {"idle", "spawning", "reading", "collecting"}
  /\ call[v].op # "idle" => call[v].pid \in Pids
  /\ call[v].op = "spawning" =>
       /\ worker[call[v].pid] = NoWorker
       /\ call[v].job # NoPid => call[v].job \in Jobs /\ job[call[v].job] = NoJob
  /\ call[v].op = "reading" => worker[call[v].pid] # NoWorker
  /\ call[v].op = "collecting" =>
       /\ call[v].job \in Jobs /\ job[call[v].job].st = "running"
       /\ job[call[v].job].vm = v /\ job[call[v].job].pid = call[v].pid

Apart(u, v) ==
  /\ call[u].pid # call[v].pid
  /\ call[u].op = "spawning" /\ call[v].op = "spawning" /\ call[u].job = call[v].job =>
       call[u].job = NoPid

JobOf(j) ==
  job[j].st = "running" =>
    /\ {"st", "vm", "pid"} \subseteq DOMAIN job[j]
    /\ job[j].pid \in Pids /\ worker[job[j].pid] # NoWorker
    /\ \A i \in Jobs : i # j /\ job[i].st = "running" => job[i].pid # job[j].pid
    /\ \A v \in VMs : Busy(v) => call[v].pid # job[j].pid

TccInv ==
  /\ DOMAIN worker = Pids /\ DOMAIN job = Jobs /\ DOMAIN call = VMs
  /\ \A v \in VMs : CallerOf(v)
  /\ \A u, v \in VMs : u # v /\ Busy(u) /\ Busy(v) => Apart(u, v)
  /\ \A j \in Jobs : JobOf(j)

LEMMA TccInit == Init => TccInv
<1> SUFFICES ASSUME Init PROVE TccInv
  OBVIOUS
<1>1. DOMAIN worker = Pids /\ DOMAIN job = Jobs /\ DOMAIN call = VMs
  BY DEF Init
<1>2. (\A v \in VMs : call[v].op = "idle") /\ (\A j \in Jobs : job[j].st = "none")
  BY DEF Init, Idle, NoJob
<1> QED BY <1>1, <1>2 DEF TccInv, CallerOf, JobOf, Busy

(* Workers that run and write keep their number.                           *)
LEMMA WorkersKeep ==
  ASSUME TccInv, UNCHANGED <<job, call>>, DOMAIN worker' = Pids,
         \A w \in Pids : worker'[w] = NoWorker <=> worker[w] = NoWorker
  PROVE  TccInv'
BY DEF TccInv, CallerOf, JobOf, Busy, Apart

LEMMA LaunchKeeps ==
  ASSUME TccInv, NEW v \in VMs, NEW does, NEW mod, NEW j, NEW timeout,
         Launch(v, does, mod, j, timeout),
         j # NoPid => /\ j \in Jobs /\ job[j] = NoJob
                      /\ \A u \in VMs : call[u] # Idle => call[u].job # j
  PROVE  TccInv'
<1>1. PICK w \in FreePids :
        /\ call[v] = Idle
        /\ call' = [call EXCEPT ![v] = [op |-> "spawning", pid |-> w, does |-> does,
                                        mod |-> mod, job |-> j, timeout |-> timeout]]
        /\ worker' = worker /\ job' = job
  BY DEF Launch
<1>2. /\ w \in Pids /\ worker[w] = NoWorker
      /\ \A u \in VMs : call[u].op = "idle" \/ call[u].pid # w
  BY DEF FreePids
<1>3. /\ call'[v].op = "spawning" /\ call'[v].pid = w /\ call'[v].job = j
      /\ \A u \in VMs : u # v => call'[u] = call[u]
      /\ DOMAIN call' = VMs
  BY <1>1 DEF TccInv
<1>4. ASSUME NEW u \in VMs PROVE CallerOf(u)'
  <2>1. CASE u = v
    BY <1>1, <1>2, <1>3, <2>1 DEF CallerOf
  <2>2. CASE u # v
    BY <1>1, <1>3, <2>2 DEF TccInv, CallerOf
  <2> QED BY <2>1, <2>2
<1>5. ASSUME NEW u \in VMs, u # v, Busy(u)
      PROVE  /\ call[u].pid # w
             /\ call[u].job = j => j = NoPid
  BY <1>2, <1>5 DEF Busy, Idle
<1>6. ASSUME NEW t \in VMs, NEW u \in VMs, t # u, Busy(t)', Busy(u)' PROVE Apart(t, u)'
  <2>1. CASE t = v
    BY <1>3, <1>5, <1>6, <2>1 DEF Busy, Apart
  <2>2. CASE u = v
    BY <1>3, <1>5, <1>6, <2>2 DEF Busy, Apart
  <2>3. CASE t # v /\ u # v
    BY <1>3, <1>6, <2>3 DEF TccInv, Busy, Apart
  <2> QED BY <2>1, <2>2, <2>3
<1>7. ASSUME NEW i \in Jobs PROVE JobOf(i)'
  BY <1>1, <1>2, <1>3 DEF TccInv, JobOf, Busy
<1> QED BY <1>1, <1>3, <1>4, <1>6, <1>7 DEF TccInv

LEMMA SpawnKeeps ==
  ASSUME TccInv, NEW v \in VMs, Spawn(v)
  PROVE  TccInv'
<1> DEFINE w == call[v].pid
           j == call[v].job
<1>1. /\ call[v].op = "spawning" /\ w \in Pids /\ worker[w] = NoWorker
      /\ j # NoPid => j \in Jobs /\ job[j] = NoJob
  BY DEF Spawn, TccInv, CallerOf
<1>2. /\ DOMAIN worker' = Pids /\ worker'[w] # NoWorker
      /\ \A u \in Pids : u # w => worker'[u] = worker[u]
  BY <1>1 DEF Spawn, TccInv, NoWorker
<1>3. /\ \A u \in VMs : u # v => call'[u] = call[u]
      /\ DOMAIN call' = VMs
  BY DEF Spawn, TccInv
<1>4. ASSUME NEW u \in VMs, u # v, call[u].op # "idle"
      PROVE  (Busy(u) => call[u].pid # w) /\ (call[u].op = "spawning" => j = NoPid \/ call[u].job # j)
  BY <1>1, <1>4 DEF TccInv, Apart, Busy
<1>5. ASSUME NEW i \in Jobs, job[i].st = "running"
      PROVE  job[i].pid \in Pids /\ job[i].pid # w
  BY <1>1, <1>5 DEF TccInv, JobOf
<1>6. CASE j = NoPid
  <2>1. /\ job' = job /\ call'[v].op = "reading" /\ call'[v].pid = w
    BY <1>6 DEF Spawn, TccInv
  <2>2. ASSUME NEW u \in VMs PROVE CallerOf(u)'
    <3>1. CASE u = v
      BY <1>1, <1>2, <2>1, <3>1 DEF CallerOf
    <3>2. CASE u # v
      BY <1>2, <1>3, <1>4, <2>1, <3>2 DEF TccInv, CallerOf, Busy
    <3> QED BY <3>1, <3>2
  <2>3. ASSUME NEW t \in VMs, NEW u \in VMs, t # u, Busy(t)', Busy(u)' PROVE Apart(t, u)'
    <3>1. Busy(t) /\ Busy(u)
      BY <1>1, <1>3, <2>3 DEF Busy
    <3>2. Apart(t, u)
      BY <2>3, <3>1 DEF TccInv
    <3> QED BY <1>3, <2>1, <2>3, <3>2 DEF Apart
  <2>4. ASSUME NEW i \in Jobs PROVE JobOf(i)'
    <3>1. \A u \in VMs : Busy(u)' => Busy(u) /\ call'[u].pid = call[u].pid
      BY <1>1, <1>3, <2>1 DEF Busy
    <3> QED BY <1>2, <1>5, <2>1, <3>1 DEF TccInv, JobOf
  <2> QED BY <1>2, <1>3, <2>1, <2>2, <2>3, <2>4 DEF TccInv
<1>7. CASE j # NoPid
  <2>1. /\ DOMAIN job' = Jobs /\ call'[v] = Idle
        /\ job'[j].st = "running" /\ job'[j].vm = v /\ job'[j].pid = w
        /\ {"st", "vm", "pid"} \subseteq DOMAIN job'[j]
        /\ \A i \in Jobs : i # j => job'[i] = job[i]
    BY <1>1, <1>7 DEF Spawn, TccInv
  <2>2. ASSUME NEW u \in VMs PROVE CallerOf(u)'
    <3>1. CASE u = v
      BY <2>1, <3>1 DEF CallerOf, Idle
    <3>2. CASE u # v
      <4>1. CallerOf(u) /\ call'[u] = call[u]
        BY <1>3, <3>2 DEF TccInv
      <4>2. call[u].op = "spawning" => call[u].job # j /\ call[u].pid # w
        BY <1>4, <1>7, <3>2 DEF Busy
      <4>3. call[u].op = "collecting" => call[u].job # j
        BY <1>1, <1>7, <4>1 DEF CallerOf, NoJob
      <4> QED BY <1>2, <2>1, <4>1, <4>2, <4>3 DEF CallerOf
    <3> QED BY <3>1, <3>2
  <2>3. ASSUME NEW t \in VMs, NEW u \in VMs, t # u, Busy(t)', Busy(u)' PROVE Apart(t, u)'
    <3>1. t # v /\ u # v /\ Busy(t) /\ Busy(u)
      BY <1>3, <2>1, <2>3 DEF Busy, Idle
    <3>2. Apart(t, u)
      BY <2>3, <3>1 DEF TccInv
    <3> QED BY <1>3, <3>1, <3>2 DEF Apart
  <2>4. ASSUME NEW u \in VMs, Busy(u)'
        PROVE  u # v /\ Busy(u) /\ call'[u].pid = call[u].pid /\ call[u].pid # w
    <3>1. u # v
      BY <2>1, <2>4 DEF Busy, Idle
    <3>2. Busy(u) /\ call'[u] = call[u]
      BY <1>3, <2>4, <3>1 DEF Busy
    <3> QED BY <1>4, <3>1, <3>2 DEF Busy
  <2>5. ASSUME NEW i \in Jobs PROVE JobOf(i)'
    <3>1. CASE i = j
      BY <1>1, <1>2, <1>5, <2>1, <2>4, <3>1 DEF JobOf
    <3>2. CASE i # j
      BY <1>1, <1>2, <1>5, <2>1, <2>4, <3>2 DEF TccInv, JobOf
    <3> QED BY <3>1, <3>2
  <2> QED BY <1>2, <1>3, <2>1, <2>2, <2>3, <2>5 DEF TccInv
<1> QED BY <1>6, <1>7

(* The call that waited has its envelope.                                  *)
LEMMA AnsweredKeeps ==
  ASSUME TccInv, NEW v \in VMs, Answered(v)
  PROVE  TccInv'
<1> DEFINE w == call[v].pid
<1>1. call[v].op = "reading" /\ w \in Pids /\ job' = job
  BY DEF Answered, TccInv, CallerOf
<1>2. /\ DOMAIN worker' = Pids
      /\ \A u \in Pids : u # w => worker'[u] = worker[u]
      /\ worker'[w] = NoWorker
  BY <1>1 DEF Answered, Reaped
<1>3. /\ \A u \in VMs : u # v => call'[u] = call[u]
      /\ DOMAIN call' = VMs /\ call'[v] = Idle
  BY DEF Answered, TccInv
<1>4. ASSUME NEW u \in VMs, u # v, Busy(u) PROVE call[u].pid # w
  BY <1>1, <1>4 DEF TccInv, Apart, Busy
<1>5. ASSUME NEW u \in VMs PROVE CallerOf(u)'
  <2>1. CASE u = v
    BY <1>3, <2>1 DEF CallerOf, Idle
  <2>2. CASE u # v
    BY <1>1, <1>2, <1>3, <1>4, <2>2 DEF TccInv, CallerOf, Busy
  <2> QED BY <2>1, <2>2
<1>6. \A u \in VMs : Busy(u)' => u # v /\ Busy(u) /\ call'[u] = call[u]
  BY <1>3 DEF Busy, Idle
<1>7. ASSUME NEW t \in VMs, NEW u \in VMs, t # u, Busy(t)', Busy(u)' PROVE Apart(t, u)'
  BY <1>6, <1>7 DEF TccInv, Apart
<1>8. ASSUME NEW i \in Jobs PROVE JobOf(i)'
  <2>1. job[i].st = "running" => job[i].pid # w
    BY <1>1 DEF TccInv, JobOf, Busy
  <2> QED BY <1>1, <1>2, <1>6, <2>1 DEF TccInv, JobOf
<1> QED BY <1>1, <1>2, <1>3, <1>5, <1>7, <1>8 DEF TccInv

(* Jobs of one VM, that does not wait for another process, end; their      *)
(* processes are killed and reaped, and nobody else's.                     *)
LEMMA EndsKeep ==
  ASSUME TccInv, NEW v \in VMs, ~Busy(v), NEW M \in SUBSET Jobs,
         \A j \in M : job[j].st = "running" /\ job[j].vm = v,
         call[v].op = "collecting" => call'[v] = Idle,
         call'[v] = Idle \/ call'[v] = call[v],
         \A u \in VMs : u # v => call'[u] = call[u],
         DOMAIN call' = VMs, DOMAIN job' = Jobs,
         \A j \in M : job'[j].st = "done",
         \A j \in Jobs \ M : job'[j] = job[j],
         Reaped({job[j].pid : j \in M})
  PROVE  TccInv'
<1> DEFINE W == {job[j].pid : j \in M}
<1>1. /\ DOMAIN worker' = Pids
      /\ \A u \in Pids : u \notin W => worker'[u] = worker[u]
      /\ \A u \in Pids : u \in W => worker'[u] = NoWorker
  BY DEF Reaped
<1>2. ASSUME NEW u \in VMs, Busy(u) PROVE call[u].pid \notin W
  BY <1>2 DEF TccInv, JobOf
<1>3. ASSUME NEW i \in Jobs, i \notin M, job[i].st = "running" PROVE job[i].pid \notin W
  BY <1>3 DEF TccInv, JobOf
<1> HIDE DEF W
<1>4. ASSUME NEW u \in VMs PROVE CallerOf(u)'
  <2>1. CASE call'[u] = Idle
    BY <2>1 DEF CallerOf, Idle
  <2>2. CASE call'[u] = call[u] /\ call'[u] # Idle
    <3>1. CallerOf(u) /\ (u = v => call[u].op # "collecting")
      BY <2>2 DEF TccInv
    <3>2. call[u].op = "spawning" /\ call[u].job # NoPid => call[u].job \notin M
      BY <3>1 DEF CallerOf, NoJob
    <3>3. call[u].op = "collecting" => call[u].job \notin M
      BY <3>1 DEF CallerOf
    <3> QED BY <1>1, <1>2, <2>2, <3>1, <3>2, <3>3 DEF CallerOf, Busy
  <2> QED BY <2>1, <2>2
<1>5. \A u \in VMs : Busy(u)' => Busy(u) /\ call'[u] = call[u]
  BY DEF Busy, Idle
<1>6. ASSUME NEW t \in VMs, NEW u \in VMs, t # u, Busy(t)', Busy(u)' PROVE Apart(t, u)'
  BY <1>5, <1>6 DEF TccInv, Apart
<1>7. ASSUME NEW i \in Jobs PROVE JobOf(i)'
  <2>1. \A k \in Jobs : job'[k].st = "running" => k \notin M /\ job'[k] = job[k]
    OBVIOUS
  <2> QED BY <1>1, <1>3, <1>5, <2>1 DEF TccInv, JobOf
<1> QED BY <1>1, <1>4, <1>6, <1>7 DEF TccInv

LEMMA TestKeeps ==
  ASSUME TccInv, NEW v \in VMs, NEW j \in Jobs, job[j].st = "running", job[j].vm = v,
         Test(v, j) \/ Cancel(j),
         \/ call[v] = Idle /\ call' = call
         \/ call[v].op = "collecting" /\ call' = [call EXCEPT ![v] = Idle]
  PROVE  TccInv'
<1>1. PICK a : job' = [job EXCEPT ![j] = Done(j, a)] /\ Reaped({job[j].pid})
  BY DEF Test, Cancel, End
<1>2. {job[j].pid} = {job[i].pid : i \in {j}}
  OBVIOUS
<1>3. ~Busy(v)
  BY DEF Busy, Idle
<1>4. /\ DOMAIN job' = Jobs /\ job'[j].st = "done"
      /\ \A i \in Jobs \ {j} : job'[i] = job[i]
  BY <1>1 DEF TccInv, Done
<1>5. /\ call[v].op = "collecting" => call'[v] = Idle
      /\ call'[v] = Idle \/ call'[v] = call[v]
      /\ \A u \in VMs : u # v => call'[u] = call[u]
      /\ DOMAIN call' = VMs
  BY DEF TccInv, Idle
<1> DEFINE M == {j}
<1>6. /\ Reaped({job[i].pid : i \in M}) /\ M \in SUBSET Jobs
      /\ \A i \in M : job[i].st = "running" /\ job[i].vm = v /\ job'[i].st = "done"
      /\ \A i \in Jobs \ M : job'[i] = job[i]
  BY <1>1, <1>2, <1>4
<1> HIDE DEF M
<1> QED BY <1>3, <1>4, <1>5, <1>6, EndsKeep

LEMMA DestroyKeeps ==
  ASSUME TccInv, NEW v \in VMs, Destroy(v)
  PROVE  TccInv'
<1> DEFINE M == {j \in Jobs : job[j].st = "running" /\ job[j].vm = v}
<1>1. call[v] = Idle /\ call' = call /\ Reaped({job[j].pid : j \in M})
  BY DEF Destroy
<1>2. job' = [j \in Jobs |-> IF j \in M THEN Done(j, "destroyed") ELSE job[j]]
  BY DEF Destroy
<1>3. ~Busy(v) /\ call[v].op # "collecting"
  BY <1>1 DEF Busy, Idle
<1>4. DOMAIN job' = Jobs /\ (\A j \in M : job'[j].st = "done")
      /\ \A j \in Jobs \ M : job'[j] = job[j]
  BY <1>2 DEF Done
<1>5. \A j \in M : job[j].st = "running" /\ job[j].vm = v
  OBVIOUS
<1>6. M \in SUBSET Jobs
  OBVIOUS
<1> HIDE DEF M
<1> QED BY <1>1, <1>3, <1>4, <1>5, <1>6, EndsKeep DEF TccInv

LEMMA CollectKeeps ==
  ASSUME TccInv, NEW v \in VMs, OpCollect(v)
  PROVE  TccInv'
<1>1. PICK j \in Jobs :
        /\ call[v] = Idle /\ job[j].st = "running" /\ job[j].vm = v
        /\ call' = [call EXCEPT ![v] = [op |-> "collecting", pid |-> job[j].pid, job |-> j]]
        /\ worker' = worker /\ job' = job
  BY DEF OpCollect
<1>2. /\ call'[v].op = "collecting" /\ call'[v].pid = job[j].pid /\ call'[v].job = j
      /\ \A u \in VMs : u # v => call'[u] = call[u]
      /\ DOMAIN call' = VMs
  BY <1>1 DEF TccInv
<1>3. job[j].pid \in Pids
  BY <1>1 DEF TccInv, JobOf
<1>4. ASSUME NEW u \in VMs PROVE CallerOf(u)'
  <2>1. CASE u = v
    BY <1>1, <1>2, <1>3, <2>1 DEF CallerOf
  <2>2. CASE u # v
    BY <1>1, <1>2, <2>2 DEF TccInv, CallerOf
  <2> QED BY <2>1, <2>2
<1>5. \A u \in VMs : Busy(u)' => Busy(u) /\ call'[u] = call[u]
  BY <1>2 DEF Busy
<1>6. ASSUME NEW t \in VMs, NEW u \in VMs, t # u, Busy(t)', Busy(u)' PROVE Apart(t, u)'
  BY <1>5, <1>6 DEF TccInv, Apart
<1>7. ASSUME NEW i \in Jobs PROVE JobOf(i)'
  BY <1>1, <1>5 DEF TccInv, JobOf
<1> QED BY <1>1, <1>2, <1>4, <1>6, <1>7 DEF TccInv

LEMMA TimeUpKeeps ==
  ASSUME TccInv, NEW j \in Jobs, TimeUp(j)
  PROVE  TccInv'
<1>1. /\ job[j].st = "running" /\ worker' = worker /\ call' = call
      /\ job' = [job EXCEPT ![j].late = TRUE]
  BY DEF TimeUp
<1>2. /\ DOMAIN job' = Jobs
      /\ \A i \in Jobs : i # j => job'[i] = job[i]
      /\ job'[j] = [job[j] EXCEPT !.late = TRUE]
  BY <1>1 DEF TccInv
<1>3. {"st", "vm", "pid"} \subseteq DOMAIN job[j]
  BY <1>1 DEF TccInv, JobOf
<1>4. /\ job'[j].st = job[j].st /\ job'[j].vm = job[j].vm /\ job'[j].pid = job[j].pid
      /\ DOMAIN job'[j] = DOMAIN job[j]
  BY <1>2, <1>3
<1>5. \A i \in Jobs : /\ job'[i].st = job[i].st
                      /\ job'[i].vm = job[i].vm /\ job'[i].pid = job[i].pid
                      /\ job[i] = NoJob => job'[i] = NoJob
                      /\ DOMAIN job'[i] = DOMAIN job[i]
  BY <1>1, <1>2, <1>4 DEF NoJob
<1>6. \A v \in VMs : CallerOf(v)'
  BY <1>1, <1>5 DEF TccInv, CallerOf
<1>7. \A i \in Jobs : JobOf(i)'
  BY <1>1, <1>5 DEF TccInv, JobOf, Busy
<1> QED BY <1>1, <1>2, <1>6, <1>7 DEF TccInv, Busy, Apart

LEMMA TccStep ==
  ASSUME TccInv, [Next]_vars
  PROVE  TccInv'
<1>0. DOMAIN worker = Pids
  BY DEF TccInv
<1>1. ASSUME NEW v \in VMs,
             OpDrop(v) \/ AllowSymbol(v) \/ ClearAllowedSymbols(v)
      PROVE  TccInv'
  <2>1. UNCHANGED <<worker, job, call>>
    BY <1>1 DEF OpDrop, AllowSymbol, ClearAllowedSymbols
  <2> QED BY <1>0, <2>1, WorkersKeep
<1>2. CASE LibraryReplaced \/ UNCHANGED vars
  <2>1. UNCHANGED <<worker, job, call>>
    BY <1>2 DEF LibraryReplaced, vars
  <2> QED BY <1>0, <2>1, WorkersKeep
<1>3. ASSUME NEW w \in Pids, WorkerRun(w) \/ WorkerWrite(w) PROVE TccInv'
  <2>1. UNCHANGED <<job, call>> /\ worker[w] # NoWorker
    BY <1>3 DEF WorkerRun, WorkerWrite, NoWorker
  <2>2. /\ DOMAIN worker' = Pids
        /\ \A u \in Pids : u # w => worker'[u] = worker[u]
        /\ worker'[w] # NoWorker
    BY <1>0, <1>3 DEF WorkerRun, WorkerWrite, NoWorker
  <2> QED BY <2>1, <2>2, WorkersKeep
<1>4. ASSUME NEW j \in Jobs, TimeUp(j) PROVE TccInv'
  BY <1>4, TimeUpKeeps
<1>5. ASSUME NEW v \in VMs, OpCompile(v) \/ OpRun(v) PROVE TccInv'
  <2>1. \E does, mod : Launch(v, does, mod, NoPid, FALSE)
    BY <1>5 DEF OpCompile, OpRun
  <2> QED BY <2>1, LaunchKeeps
<1>6. ASSUME NEW v \in VMs, OpStartIsolated(v) PROVE TccInv'
  BY <1>6, LaunchKeeps DEF OpStartIsolated
<1>7. ASSUME NEW v \in VMs, OpStatus(v) \/ Collected(v) \/ OpCancel(v) PROVE TccInv'
  <2>1. CASE OpStatus(v)
    BY <2>1, TestKeeps DEF OpStatus
  <2>2. CASE Collected(v)
    <3>1. call[v].job \in Jobs /\ job[call[v].job].st = "running" /\ job[call[v].job].vm = v
      BY <2>2 DEF Collected, TccInv, CallerOf
    <3> QED BY <2>2, <3>1, TestKeeps DEF Collected
  <2>3. CASE OpCancel(v)
    <3>1. PICK j \in Jobs : call[v] = Idle /\ job[j].vm = v /\ Cancel(j) /\ call' = call
      BY <2>3 DEF OpCancel
    <3>2. job[j].st = "running"
      BY <3>1 DEF Cancel
    <3> QED BY <3>1, <3>2, TestKeeps
  <2> QED BY <1>7, <2>1, <2>2, <2>3
<1> QED BY <1>1, <1>2, <1>3, <1>4, <1>5, <1>6, <1>7, SpawnKeeps, AnsweredKeeps,
           CollectKeeps, DestroyKeeps DEF Next

(* SIGKILL, waitpid and readEnvelope reach the process they are meant for: *)
(* a call that reads and a job that runs have a worker, and none of them   *)
(* has that of another, however often the numbers of processes are used    *)
(* again (launchWorker, finalizeJob and cancel, tcc_runtime.cpp).          *)
THEOREM ProcessesAreOwn == Spec => []OwnProcess
<1>1. TccInv => OwnProcess
  <2> SUFFICES ASSUME TccInv PROVE OwnProcess
    OBVIOUS
  <2> DEFINE waiting == {<<"call", v>> : v \in {u \in VMs : call[u].op = "reading"}}
                        \cup {<<"job", j>> : j \in {i \in Jobs : job[i].st = "running"}}
             pid(q) == IF q[1] = "call" THEN call[q[2]].pid ELSE job[q[2]].pid
  <2>1. \A v \in VMs : call[v].op = "reading" =>
          /\ worker[call[v].pid] # NoWorker
          /\ \A u \in VMs : u # v /\ call[u].op = "reading" => call[u].pid # call[v].pid
    BY DEF TccInv, CallerOf, Apart, Busy
  <2>2. \A j \in Jobs : job[j].st = "running" =>
          /\ worker[job[j].pid] # NoWorker
          /\ \A i \in Jobs : i # j /\ job[i].st = "running" => job[i].pid # job[j].pid
          /\ \A v \in VMs : call[v].op = "reading" => call[v].pid # job[j].pid
    BY DEF TccInv, JobOf, Busy
  <2>3. ASSUME NEW q \in waiting
        PROVE  \/ \E v \in VMs : q = <<"call", v>> /\ call[v].op = "reading" /\ pid(q) = call[v].pid
               \/ \E j \in Jobs : q = <<"job", j>> /\ job[j].st = "running" /\ pid(q) = job[j].pid
    OBVIOUS
  <2>4. ASSUME NEW q \in waiting, NEW other \in waiting
        PROVE  worker[pid(q)] # NoWorker /\ (pid(other) = pid(q) => other = q)
    <3>1. CASE \E v \in VMs : q = <<"call", v>> /\ call[v].op = "reading" /\ pid(q) = call[v].pid
      BY <2>1, <2>2, <2>3, <3>1
    <3>2. CASE \E j \in Jobs : q = <<"job", j>> /\ job[j].st = "running" /\ pid(q) = job[j].pid
      BY <2>1, <2>2, <2>3, <3>2
    <3> QED BY <2>3, <3>1, <3>2
  <2> QED BY <2>4 DEF OwnProcess
<1>2. TccInv /\ [Next]_vars => TccInv'
  BY TccStep
<1> QED BY <1>1, <1>2, TccInit, PTL DEF Spec

-----------------------------------------------------------------------------
(* AgentStreams: the thread makes the calls of one event before the next,  *)
(* so that what it has yet to do is at most a token and the end.           *)
Lists(k) ==
  {<<>>, <<Streams!PushCall(k)>>, <<Streams!PushCall(k), Streams!Complete>>,
   <<Streams!Complete>>, <<Streams!Error>>}

StreamJobs ==
  [st : {"receiving", "ended"}, provider : Providers \cup {"synthetic"}, said : Nat,
   over : BOOLEAN, broken : BOOLEAN, emitted : BOOLEAN, complete : BOOLEAN,
   failed : BOOLEAN, calls : UNION {Lists(k) : k \in Nat}]

Owes(j) == j.calls = <<Streams!PushCall(j.said)>>
           \/ j.calls = <<Streams!PushCall(j.said), Streams!Complete>>
Owed(j) == IF Owes(j) THEN 1 ELSE 0
Pushed(j) == IF j.emitted THEN j.said ELSE 0

(* The pieces of the reply: a thread that has passed none on was told of   *)
(* one at most, and one that has ended the stream has passed all on.       *)
Sane(j) ==
  /\ j \in StreamJobs /\ j.calls \in Lists(j.said)
  /\ j.broken /\ j.provider # "codex" => j.failed
  /\ ~j.emitted => j.said \in {0, 1}
  /\ j.emitted => j.said > 0
  /\ j.complete => j.over
  /\ j.complete \/ ~j.over => j.emitted \/ j.said = 0
  /\ Owes(j) => j.emitted
  /\ j.calls = <<Streams!Error>> => j.failed
  /\ j.calls \in {<<Streams!Complete>>, <<Streams!PushCall(j.said), Streams!Complete>>} =>
       j.complete

(* What an event of the provider may do to the thread.                     *)
Event(j, j2) ==
  /\ Sane(j2)
  /\ j.complete => j2.complete /\ j2.said = j.said /\ j2.calls \in {<<>>, <<Streams!Error>>}
  /\ j.failed => j2.failed
  /\ Pushed(j2) = Pushed(j) + Owed(j2)

LEMMA ListsApart ==
  ASSUME NEW k \in Nat
  PROVE  /\ <<>> # <<Streams!PushCall(k)>> /\ <<>> # <<Streams!PushCall(k), Streams!Complete>>
         /\ <<>> # <<Streams!Complete>> /\ <<>> # <<Streams!Error>>
         /\ <<Streams!PushCall(k)>> # <<Streams!PushCall(k), Streams!Complete>>
         /\ <<Streams!PushCall(k)>> # <<Streams!Complete>>
         /\ <<Streams!PushCall(k)>> # <<Streams!Error>>
         /\ <<Streams!PushCall(k), Streams!Complete>> # <<Streams!Complete>>
         /\ <<Streams!PushCall(k), Streams!Complete>> # <<Streams!Error>>
         /\ <<Streams!Complete>> # <<Streams!Error>>
BY DEF Streams!PushCall, Streams!Complete, Streams!Error

LEMMA ShortLists ==
  ASSUME NEW a, NEW b
  PROVE  Append(<<>>, a) = <<a>> /\ Append(<<a>>, b) = <<a, b>>
<1>1. <<>> \in Seq({a, b}) /\ <<a>> \in Seq({a, b})
  OBVIOUS
<1>2. Append(<<>>, a) = <<a>>
  OBVIOUS
<1>3. Append(<<a>>, b) = <<a, b>>
  <2> DEFINE l == Append(<<a>>, b)
             r == <<a, b>>
  <2>1. l \in Seq({a, b}) /\ Len(l) = 2 /\ l[1] = a /\ l[2] = b
    <3>1. Len(<<a>>) = 1 /\ <<a>>[1] = a
      OBVIOUS
    <3> QED BY <1>1, <3>1, AppendProperties
  <2>2. r \in Seq({a, b}) /\ Len(r) = 2 /\ r[1] = a /\ r[2] = b
    OBVIOUS
  <2> HIDE DEF l, r
  <2>3. \A i \in 1 .. Len(l) : l[i] = r[i]
    BY <2>1, <2>2
  <2>4. l = r
    BY <2>1, <2>2, <2>3, SeqEqual
  <2> QED BY <2>4 DEF l, r
<1> QED BY <1>2, <1>3

LEMMA DeltaIsEvent ==
  ASSUME NEW j, Sane(j), j.calls = <<>>, ~j.over
  PROVE  Event(j, Streams!OnDelta(j))
<1> DEFINE j2 == Streams!OnDelta(j)
           l == <<Streams!PushCall(j.said + 1)>>
<1>1. j \in StreamJobs /\ ~j.complete /\ j.said \in Nat
  BY DEF Sane, StreamJobs
<1>2. Append(<<>>, Streams!PushCall(j.said + 1)) = l
  OBVIOUS
<1> HIDE DEF l
<1>3. j2 = [j EXCEPT !.said = @ + 1, !.emitted = TRUE, !.calls = l]
  BY <1>1, <1>2 DEF Streams!OnDelta, StreamJobs
<1>4. l \in Lists(j.said + 1) /\ j.said + 1 \in Nat /\ l = <<Streams!PushCall(j.said + 1)>>
  BY <1>1 DEF Lists, l
<1>5. j2 \in StreamJobs
  <2>1. l \in UNION {Lists(k) : k \in Nat} /\ j.said + 1 \in Nat
    BY <1>4
  <2> QED BY <1>1, <1>3, <2>1 DEF StreamJobs
<1>6. /\ j2.said = j.said + 1 /\ j2.emitted /\ j2.calls = l
      /\ (j2.broken <=> j.broken) /\ j2.provider = j.provider
      /\ (j2.complete <=> j.complete) /\ (j2.failed <=> j.failed)
  BY <1>1, <1>3 DEF StreamJobs
<1>7. Owes(j2)
  BY <1>4, <1>6 DEF Owes
<1>8. Pushed(j) = j.said
  BY <1>1 DEF Sane, Pushed
<1>9. j2.calls \notin {<<Streams!Complete>>, <<Streams!Error>>,
                       <<Streams!PushCall(j2.said), Streams!Complete>>}
  BY <1>1, <1>4, <1>6, ListsApart
<1>10. Sane(j2)
  BY <1>1, <1>4, <1>5, <1>6, <1>9 DEF Sane
<1> QED BY <1>1, <1>6, <1>7, <1>8, <1>10 DEF Event, Pushed, Owed

(* What is left of an event once the reply, or the connection, is over.    *)
Marked(d, j2) ==
  /\ j2 \in StreamJobs /\ j2.over /\ j2.calls = d.calls /\ j2.said = d.said
  /\ (j2.emitted <=> d.emitted) /\ (j2.complete <=> d.complete)
  /\ (j2.failed <=> d.failed)
  /\ (j2.broken <=> d.broken) /\ j2.provider = d.provider

LEMMA DoneIsEvent ==
  ASSUME NEW j, Sane(j), j.calls = <<>>, NEW j2, Marked(Streams!OnDone(j), j2)
  PROVE  Event(j, j2)
<1> DEFINE final == ~(j.emitted \/ j.said = 0)
           ends == ~(j.complete \/ j.failed)
           push == <<Streams!PushCall(j.said)>>
           both == <<Streams!PushCall(j.said), Streams!Complete>>
           e == Streams!EmitFinalIfNeeded(j)
           d == Streams!OnDone(j)
<1>1. j \in StreamJobs /\ j.said \in Nat
  BY DEF Sane, StreamJobs
<1>2. /\ Append(<<>>, Streams!PushCall(j.said)) = push
      /\ Append(push, Streams!Complete) = both
      /\ Append(<<>>, Streams!Complete) = <<Streams!Complete>>
  BY ShortLists
<1> HIDE DEF push, both
<1>3. /\ e.said = j.said /\ (e.emitted <=> (j.emitted \/ final))
      /\ (e.complete <=> j.complete) /\ (e.failed <=> j.failed)
      /\ (e.broken <=> j.broken) /\ e.provider = j.provider
      /\ e.calls = IF final THEN push ELSE <<>>
      /\ DOMAIN e = DOMAIN j
  BY <1>1, <1>2 DEF Streams!EmitFinalIfNeeded, StreamJobs
<1>4. d = IF ends THEN [e EXCEPT !.complete = TRUE, !.calls = Append(@, Streams!Complete)] ELSE e
  BY <1>3 DEF Streams!OnDone, Streams!MarkCompleteOnce
<1>5. DOMAIN e = {"st", "provider", "said", "over", "broken", "emitted", "complete", "failed",
                  "calls"}
  BY <1>1, <1>3 DEF StreamJobs
<1> HIDE DEF e, d
<1>6. /\ d.said = j.said /\ (d.emitted <=> (j.emitted \/ final))
      /\ (d.complete <=> (j.complete \/ ends)) /\ (d.failed <=> j.failed)
      /\ (d.broken <=> j.broken) /\ d.provider = j.provider
      /\ d.calls = IF ends THEN IF final THEN both ELSE <<Streams!Complete>>
                           ELSE IF final THEN push ELSE <<>>
  BY <1>2, <1>3, <1>4, <1>5
<1>7. /\ j2 \in StreamJobs /\ j2.over /\ j2.said = j.said
      /\ (j2.emitted <=> (j.emitted \/ final))
      /\ (j2.complete <=> (j.complete \/ ends)) /\ (j2.failed <=> j.failed)
      /\ (j2.broken <=> j.broken) /\ j2.provider = j.provider
      /\ j2.calls = IF ends THEN IF final THEN both ELSE <<Streams!Complete>>
                            ELSE IF final THEN push ELSE <<>>
  BY <1>6 DEF Marked, d
<1>8. /\ j.broken /\ j.provider # "codex" => j.failed
      /\ ~j.emitted => j.said \in {0, 1}
      /\ j.complete => ~final
  BY DEF Sane
<1>9. Owes(j2) <=> final
  BY <1>1, <1>7, ListsApart DEF Owes, push, both
<1>10. j2.calls # <<Streams!Error>> /\ j2.calls \in Lists(j2.said)
  BY <1>1, <1>7, ListsApart DEF Lists, push, both
<1>11. j2.calls \in {<<Streams!Complete>>, both} => ends
  BY <1>1, <1>7, ListsApart DEF push, both
<1>12. Sane(j2)
  BY <1>7, <1>8, <1>9, <1>10, <1>11 DEF Sane, both
<1>13. Pushed(j2) = Pushed(j) + Owed(j2)
  BY <1>1, <1>7, <1>8, <1>9 DEF Pushed, Owed
<1>14. j.complete => j2.calls = <<>>
  BY <1>7, <1>8
<1> QED BY <1>7, <1>12, <1>13, <1>14 DEF Event

LEMMA FailIsEvent ==
  ASSUME NEW j, Sane(j), j.calls = <<>>, NEW j2,
         /\ j2 \in StreamJobs /\ j2.said = j.said /\ (j2.emitted <=> j.emitted)
         /\ (j2.complete <=> j.complete) /\ j2.failed /\ (j.over => j2.over)
         /\ j2.calls \in {<<>>, <<Streams!Error>>}
  PROVE  Event(j, j2)
<1>1. j \in StreamJobs /\ j.said \in Nat
  BY DEF Sane, StreamJobs
<1>2. ~Owes(j2) /\ j2.calls \in Lists(j2.said)
      /\ j2.calls \notin {<<Streams!Complete>>,
                          <<Streams!PushCall(j2.said), Streams!Complete>>}
  BY <1>1, ListsApart DEF Owes, Lists
<1>3. Sane(j2)
  BY <1>2 DEF Sane
<1> QED BY <1>1, <1>2, <1>3 DEF Event, Pushed, Owed, StreamJobs

(* Events that only say something of the reply: no call is to be made yet. *)
LEMMA QuietIsEvent ==
  ASSUME NEW j, Sane(j), j.calls = <<>>, ~j.over, NEW j2,
         /\ j2 \in StreamJobs /\ j2.provider = "codex" /\ j2.calls = <<>>
         /\ (j2.emitted <=> j.emitted) /\ (j2.complete <=> j.complete)
         /\ (j2.failed <=> j.failed)
         /\ j2.said = j.said \/ (j.said = 0 /\ ~j.emitted /\ j2.said = 1 /\ j2.over)
  PROVE  Event(j, j2)
<1>1. j \in StreamJobs /\ j.said \in Nat /\ ~j.complete
  BY DEF Sane, StreamJobs
<1>2. ~Owes(j2) /\ j2.calls \in Lists(j2.said)
      /\ j2.calls \notin {<<Streams!Complete>>, <<Streams!Error>>,
                          <<Streams!PushCall(j2.said), Streams!Complete>>}
  <2>1. j2.said \in Nat
    BY DEF StreamJobs
  <2> QED BY <2>1, ListsApart DEF Owes, Lists
<1>3. Sane(j2)
  BY <1>1, <1>2 DEF Sane
<1> QED BY <1>1, <1>2, <1>3 DEF Event, Pushed, Owed, StreamJobs

(* The lists of calls that an event leaves, whatever the provider.         *)
LEMMA ErrorIsOnce ==
  ASSUME NEW j, Sane(j), j.calls = <<>>
  PROVE  LET d == Streams!OnFail(j)
         IN  /\ d.said = j.said /\ (d.emitted <=> j.emitted) /\ (d.complete <=> j.complete)
             /\ d.failed /\ d.calls \in {<<>>, <<Streams!Error>>}
             /\ (d.broken <=> j.broken) /\ d.provider = j.provider
             /\ (d.over <=> j.over) /\ d.st = j.st /\ d \in StreamJobs
<1> DEFINE e == <<Streams!Error>>
           d == Streams!OnFail(j)
<1>1. j \in StreamJobs
  BY DEF Sane
<1>2. Append(<<>>, Streams!Error) = e
  BY ShortLists
<1>3. e \in Lists(0)
  BY DEF Lists
<1> HIDE DEF e
<1>4. d = IF j.failed THEN j ELSE [j EXCEPT !.failed = TRUE, !.calls = e]
  BY <1>1, <1>2 DEF Streams!OnFail, Streams!MarkErrorOnce, StreamJobs
<1> HIDE DEF d
<1>5. d \in StreamJobs
  BY <1>1, <1>3, <1>4 DEF StreamJobs
<1>6. /\ d.said = j.said /\ (d.emitted <=> j.emitted) /\ (d.complete <=> j.complete)
      /\ d.failed /\ d.calls \in {<<>>, e}
      /\ (d.broken <=> j.broken) /\ d.provider = j.provider
      /\ (d.over <=> j.over) /\ d.st = j.st
  BY <1>1, <1>4 DEF StreamJobs
<1> QED BY <1>5, <1>6 DEF d, e

LEMMA DoneIsTyped ==
  ASSUME NEW j, Sane(j), j.calls = <<>>
  PROVE  LET d == Streams!OnDone(j)
         IN  /\ d \in StreamJobs /\ (d.complete \/ d.failed) /\ d.st = j.st
<1> DEFINE push == <<Streams!PushCall(j.said)>>
           both == <<Streams!PushCall(j.said), Streams!Complete>>
           end  == <<Streams!Complete>>
           e == Streams!EmitFinalIfNeeded(j)
           d == Streams!OnDone(j)
<1>1. j \in StreamJobs /\ j.said \in Nat
  BY DEF Sane, StreamJobs
<1>2. /\ Append(<<>>, Streams!PushCall(j.said)) = push
      /\ Append(push, Streams!Complete) = both
      /\ Append(<<>>, Streams!Complete) = end
  BY ShortLists
<1>3. {<<>>, push, both, end} \subseteq UNION {Lists(k) : k \in Nat}
  BY <1>1 DEF Lists
<1> HIDE DEF push, both, end
<1>4. e \in StreamJobs /\ e.calls \in {<<>>, push} /\ e.st = j.st
  <2>1. e = IF j.emitted \/ j.said = 0 THEN j
            ELSE [j EXCEPT !.emitted = TRUE, !.calls = push]
    BY <1>1, <1>2 DEF Streams!EmitFinalIfNeeded, StreamJobs
  <2> HIDE DEF e
  <2> QED BY <1>1, <1>3, <2>1 DEF StreamJobs
<1>5. d = IF e.complete \/ e.failed THEN e
          ELSE [e EXCEPT !.complete = TRUE, !.calls = IF e.calls = <<>> THEN end ELSE both]
  BY <1>2, <1>4 DEF Streams!OnDone, Streams!MarkCompleteOnce, StreamJobs
<1> HIDE DEF e, d
<1>6. d \in StreamJobs /\ (d.complete \/ d.failed) /\ d.st = j.st
  BY <1>3, <1>4, <1>5 DEF StreamJobs
<1> QED BY <1>6 DEF d

(* The pieces numbered from a + 1 on, n of them.                           *)
Pieces(a, n) == [i \in 1 .. n |-> a + i]

LEMMA PiecesAre ==
  ASSUME NEW a \in Nat, NEW n \in Nat
  PROVE  /\ Pieces(a, n) \in Seq(Nat) /\ Len(Pieces(a, n)) = n
         /\ Pieces(a, 0) = <<>>
         /\ \A i \in 1 .. n : Pieces(a, n)[i] = a + i
<1>1. Pieces(a, n) \in Seq(Nat) /\ Len(Pieces(a, n)) = n
  BY DEF Pieces
<1>2. Pieces(a, 0) = <<>>
  <2>1. Pieces(a, 0) \in Seq(Nat) /\ Len(Pieces(a, 0)) = 0
    BY DEF Pieces
  <2> QED BY <2>1, EmptySeq
<1>3. \A i \in 1 .. n : Pieces(a, n)[i] = a + i
  BY DEF Pieces
<1> QED BY <1>1, <1>2, <1>3

LEMMA OnePieceMore ==
  ASSUME NEW a \in Nat, NEW n \in Nat
  PROVE  Append(Pieces(a, n), a + n + 1) = Pieces(a, n + 1)
<1> DEFINE s == Pieces(a, n)
           l == Append(s, a + n + 1)
           r == Pieces(a, n + 1)
<1>1. s \in Seq(Nat) /\ Len(s) = n /\ \A i \in 1 .. n : s[i] = a + i
  BY PiecesAre
<1>2. r \in Seq(Nat) /\ Len(r) = n + 1 /\ \A i \in 1 .. n + 1 : r[i] = a + i
  BY PiecesAre
<1> HIDE DEF s, r
<1>3. /\ l \in Seq(Nat) /\ Len(l) = n + 1 /\ l[n + 1] = a + n + 1
      /\ \A i \in 1 .. n : l[i] = s[i]
  BY <1>1, AppendProperties
<1> HIDE DEF l
<1>4. \A i \in 1 .. Len(l) : l[i] = r[i]
  BY <1>1, <1>2, <1>3
<1>5. l = r
  BY <1>2, <1>3, <1>4, SeqEqual
<1> QED BY <1>5 DEF l, r, s

LEMMA PiecesJoin ==
  ASSUME NEW n \in Nat, NEW m \in Nat
  PROVE  Pieces(0, n) \o Pieces(n, m) = Pieces(0, n + m)
<1> DEFINE s == Pieces(0, n)
           t == Pieces(n, m)
           l == s \o t
           r == Pieces(0, n + m)
<1>0. 0 \in Nat /\ n + m \in Nat
  OBVIOUS
<1>1. s \in Seq(Nat) /\ Len(s) = n /\ \A i \in 1 .. n : s[i] = 0 + i
  BY <1>0, PiecesAre
<1>2. t \in Seq(Nat) /\ Len(t) = m /\ \A i \in 1 .. m : t[i] = n + i
  BY PiecesAre
<1>3. r \in Seq(Nat) /\ Len(r) = n + m /\ \A i \in 1 .. n + m : r[i] = 0 + i
  BY <1>0, PiecesAre
<1> HIDE DEF s, t, r
<1>4. /\ l \in Seq(Nat) /\ Len(l) = n + m
      /\ \A i \in 1 .. n + m : l[i] = IF i <= n THEN s[i] ELSE t[i - n]
  <2>1. /\ l \in Seq(Nat) /\ Len(l) = Len(s) + Len(t)
        /\ \A i \in 1 .. Len(s) + Len(t) : l[i] = IF i <= Len(s) THEN s[i] ELSE t[i - Len(s)]
    BY <1>1, <1>2, ConcatProperties, Zenon
  <2> HIDE DEF l
  <2> QED BY <1>1, <1>2, <2>1
<1> HIDE DEF l
<1>5. \A i \in 1 .. Len(l) : l[i] = r[i]
  BY <1>1, <1>2, <1>3, <1>4
<1>6. l = r
  BY <1>3, <1>4, <1>5, SeqEqual
<1> QED BY <1>6 DEF l, s, t, r

(* A reply that the VM has been told is complete, n pieces being the VM's. *)
IsWhole(n) ==
  /\ request.complete /\ n = request.said
  /\ request.calls \in {<<>>, <<Streams!Error>>}

(* The VM has the pieces up to n, the stream has the m that follow, and    *)
(* the thread may owe one more.  A failed stream is never drained.         *)
Delivered(n, m) ==
  /\ Sane(request) /\ got = Pieces(0, n)
  /\ ~stream.error => /\ stream.tokens = Pieces(n, m)
                      /\ n + m + Owed(request) = Pushed(request)
  /\ stream.complete /\ ~stream.error =>
       request.complete /\ request.calls \in {<<>>, <<Streams!Error>>}
  /\ stream.error => request.failed
  /\ reader = "removes" \/ ~listed \/ answer = "complete" => IsWhole(n)
  /\ answer = "error" => request.failed

Unasked ==
  /\ request = Streams!NoJob /\ stream = Streams!NoStream
  /\ ~listed /\ reader = "idle" /\ got = <<>> /\ answer = "none"

StreamInv ==
  \/ Unasked
  \/ /\ stream \in [tokens : Seq(Nat), complete : BOOLEAN, error : BOOLEAN]
     /\ reader \in {"idle", "holds", "removes"} /\ listed \in BOOLEAN
     /\ \E n, m \in Nat : Delivered(n, m)

LEMMA StreamInit == Streams!Init => StreamInv
BY DEF Streams!Init, StreamInv, Unasked

(* An event of the provider of which no call has been made yet.            *)
LEMMA EventKeeps ==
  ASSUME StreamInv, request # Streams!NoJob, request.calls = <<>>,
         Event(request, request'),
         UNCHANGED <<stream, listed, reader, got, answer>>
  PROVE  StreamInv'
<1>1. PICK n, m \in Nat : Delivered(n, m)
  BY DEF StreamInv, Unasked
<1>2. Owed(request) = 0
  BY ListsApart, <1>1 DEF Owed, Owes, Delivered, Sane, StreamJobs
<1>3. Pushed(request) \in Nat /\ Owed(request') \in Nat
  BY <1>1 DEF Delivered, Sane, Pushed, StreamJobs, Owed
<1>4. n + m = Pushed(request) => n + m + Owed(request)' = Pushed(request)'
  <2>1. Pushed(request') = Pushed(request) + Owed(request')
    BY DEF Event
  <2>2. Pushed(request)' = Pushed(request') /\ Owed(request)' = Owed(request')
    BY DEF Pushed, Owed, Owes
  <2> QED BY <1>3, <2>1, <2>2
<1>5. ~stream.error => n + m = Pushed(request)
  BY <1>1, <1>2 DEF Delivered
<1>6. Sane(request)' /\ (request.complete => /\ request'.complete
                                             /\ request'.said = request.said
                                             /\ request'.calls \in {<<>>, <<Streams!Error>>})
      /\ (request.failed => request'.failed)
  BY DEF Event, Sane, StreamJobs, Lists, Owes
<1>7. Delivered(n, m)'
  BY <1>1, <1>4, <1>5, <1>6 DEF Delivered, IsWhole
<1>8. /\ stream \in [tokens : Seq(Nat), complete : BOOLEAN, error : BOOLEAN]
      /\ reader \in {"idle", "holds", "removes"} /\ listed \in BOOLEAN
  BY DEF StreamInv, Unasked
<1> QED BY <1>7, <1>8 DEF StreamInv

(* pushToken, markComplete and markError: the first call of the thread's.  *)
LEMMA ManagerCallKeeps ==
  ASSUME StreamInv, Streams!ManagerCall
  PROVE  StreamInv'
<1> DEFINE k == request.said
           push == <<Streams!PushCall(k)>>
           both == <<Streams!PushCall(k), Streams!Complete>>
           end  == <<Streams!Complete>>
           err  == <<Streams!Error>>
<1>1. /\ request.st # "none" /\ request.calls # <<>>
      /\ request' = [request EXCEPT !.calls = Tail(@)]
      /\ stream' = IF listed THEN Streams!Done(stream, Head(request.calls)) ELSE stream
      /\ UNCHANGED <<listed, reader, got, answer>>
  BY DEF Streams!ManagerCall
<1>2. /\ stream \in [tokens : Seq(Nat), complete : BOOLEAN, error : BOOLEAN]
      /\ reader \in {"idle", "holds", "removes"} /\ listed \in BOOLEAN
      /\ \E n, m \in Nat : Delivered(n, m)
  BY <1>1 DEF StreamInv, Unasked, Streams!NoJob
<1>3. PICK n, m \in Nat : Delivered(n, m)
  BY <1>2
<1>4. request \in StreamJobs /\ k \in Nat /\ Sane(request)
      /\ request.calls \in {push, both, end, err}
  BY <1>1, <1>3 DEF Delivered, Sane, StreamJobs, Lists
<1>5. Tail(push) = <<>> /\ Tail(both) = end /\ Tail(end) = <<>> /\ Tail(err) = <<>>
  OBVIOUS
<1>6. /\ Head(push) = Streams!PushCall(k) /\ Head(both) = Streams!PushCall(k)
      /\ Head(end) = Streams!Complete /\ Head(err) = Streams!Error
  OBVIOUS
<1>7. /\ <<>> \notin {push, both, end, err} /\ push \notin {both, end, err}
      /\ both \notin {end, err} /\ end # err
  BY <1>4, ListsApart
<1>8. {<<>>, push, both, end, err} \subseteq UNION {Lists(i) : i \in Nat}
      /\ {<<>>, push, both, end, err} = Lists(k)
  BY <1>4 DEF Lists
<1>9. /\ Owes(request) <=> request.calls \in {push, both}
      /\ request.calls = end \/ request.calls = both => request.complete
      /\ request.calls = err => request.failed
      /\ request.complete => request.emitted \/ k = 0
  BY <1>4, <1>7 DEF Owes, Sane
<1>10. /\ (~request.emitted => k \in {0, 1}) /\ (request.emitted => k > 0)
       /\ request.complete \/ ~request.over => request.emitted \/ k = 0
       /\ Owes(request) => request.emitted /\ k > 0
       /\ request.broken /\ request.provider # "codex" => request.failed
       /\ request.complete => request.over
  BY <1>4 DEF Sane
<1> DEFINE l == request.calls
           r == request'
<1>11. l \in {push, both, end, err} /\ Tail(l) \in {<<>>, end}
       /\ (Tail(l) = end <=> l = both)
  BY <1>4, <1>5, <1>7
<1>12. r \in StreamJobs /\ r.calls = Tail(l) /\ r.said = k
       /\ (r.emitted <=> request.emitted) /\ (r.complete <=> request.complete)
       /\ (r.failed <=> request.failed) /\ (r.over <=> request.over)
       /\ (r.broken <=> request.broken) /\ r.provider = request.provider
  <2> HIDE DEF push, both, end, err, k
  <2> QED BY <1>1, <1>4, <1>8, <1>11 DEF StreamJobs, k
<1> HIDE DEF push, both, end, err, k
<1>13. Owed(r) = 0 /\ Pushed(r) = Pushed(request)
       /\ Sane(r)
  <2>1. r.calls \in {<<>>, end} /\ r.calls \notin {err, push, both}
    BY <1>7, <1>11, <1>12
  <2>2. ~Owes(r)
    BY <2>1, <1>12 DEF Owes, push, both
  <2>3. r.calls \in Lists(r.said)
    BY <1>8, <1>12, <2>1
  <2>4. r.calls \in {<<Streams!Complete>>, <<Streams!PushCall(r.said), Streams!Complete>>} =>
          r.complete
    BY <1>9, <1>11, <1>12, <2>1 DEF both, end
  <2>5. r.calls # <<Streams!Error>>
    BY <2>1 DEF err
  <2> QED BY <1>10, <1>12, <2>2, <2>3, <2>4, <2>5 DEF Sane, Owed, Pushed, k
<1>14. CASE l = err
  <2>1. stream' = stream \/ stream' = [stream EXCEPT !.complete = TRUE, !.error = TRUE]
    BY <1>1, <1>6, <1>14 DEF Streams!Done, Streams!Error, Streams!PushCall, Streams!Complete
  <2>2. /\ stream' \in [tokens : Seq(Nat), complete : BOOLEAN, error : BOOLEAN]
        /\ stream' = stream \/ stream'.error
    BY <1>2, <2>1
  <2>3. ~Owes(request) /\ request.failed
    BY <1>7, <1>9, <1>14
  <2>4. request'.calls = <<>>
    BY <1>5, <1>12, <1>14
  <2>5. Delivered(n, m)'
    BY <1>1, <1>3, <1>12, <1>13, <2>2, <2>3, <2>4 DEF Delivered, IsWhole, Owed, k
  <2> QED BY <1>1, <1>2, <2>2, <2>5 DEF StreamInv
<1>15. ASSUME l # err PROVE listed /\ ~IsWhole(n) /\ reader # "removes" /\ answer # "complete"
  BY <1>1, <1>3, <1>4, <1>7, <1>15 DEF Delivered, IsWhole, err
<1>16. CASE l = end
  <2>1. stream' = [stream EXCEPT !.complete = TRUE]
    BY <1>1, <1>6, <1>7, <1>15, <1>16 DEF Streams!Done, Streams!PushCall, Streams!Complete
  <2>2. /\ stream' \in [tokens : Seq(Nat), complete : BOOLEAN, error : BOOLEAN]
        /\ stream'.tokens = stream.tokens /\ (stream'.error <=> stream.error)
    BY <1>2, <2>1
  <2>3. ~Owes(request) /\ request.complete
    BY <1>7, <1>9, <1>16
  <2>4. request'.calls = <<>>
    BY <1>5, <1>12, <1>16
  <2>5. Delivered(n, m)'
    BY <1>1, <1>3, <1>7, <1>12, <1>13, <1>15, <1>16, <2>2, <2>3, <2>4
    DEF Delivered, IsWhole, Owed, k
  <2> QED BY <1>1, <1>2, <2>2, <2>5 DEF StreamInv
<1>17. CASE l \in {push, both}
  <2>1. stream' = [stream EXCEPT !.tokens = Append(@, k)]
    BY <1>1, <1>6, <1>7, <1>15, <1>17 DEF Streams!Done, Streams!PushCall
  <2>2. /\ stream' \in [tokens : Seq(Nat), complete : BOOLEAN, error : BOOLEAN]
        /\ stream'.tokens = Append(stream.tokens, k)
        /\ (stream'.error <=> stream.error) /\ (stream'.complete <=> stream.complete)
    <3> DEFINE more == Append(stream.tokens, k)
    <3>1. more \in Seq(Nat)
      BY <1>2, <1>4, AppendProperties
    <3>2. stream' = [stream EXCEPT !.tokens = more]
      BY <1>2, <2>1
    <3> HIDE DEF more
    <3>3. /\ stream' \in [tokens : Seq(Nat), complete : BOOLEAN, error : BOOLEAN]
          /\ stream'.tokens = more
          /\ (stream'.error <=> stream.error) /\ (stream'.complete <=> stream.complete)
      BY <1>2, <3>1, <3>2
    <3> QED BY <3>3 DEF more
  <2>3. Owes(request) /\ Pushed(request) = k /\ Owed(request) = 1
    BY <1>9, <1>10, <1>17 DEF Pushed, Owed, k
  <2>4. PICK m2 \in Nat : m2 = m + 1
    OBVIOUS
  <2>5. ~stream.error => k = n + m2 /\ stream'.tokens = Pieces(n, m2)
    <3>1. ~stream.error => k = n + m + 1 /\ stream.tokens = Pieces(n, m)
      BY <1>3, <1>4, <2>3 DEF Delivered
    <3>2. Append(Pieces(n, m), n + m + 1) = Pieces(n, m2)
      BY <2>4, OnePieceMore
    <3> QED BY <2>2, <2>4, <3>1, <3>2
  <2>6. stream.complete => stream.error
    BY <1>3, <1>4, <1>7, <1>17 DEF Delivered, err
  <2>7. ~stream'.error => n + m2 + Owed(r) = Pushed(r)
    BY <1>13, <2>2, <2>3, <2>5
  <2>8. Delivered(n, m2)'
    BY <1>1, <1>3, <1>12, <1>13, <1>15, <1>7, <1>17, <2>2, <2>5, <2>6, <2>7 DEF Delivered
  <2> QED BY <1>1, <1>2, <2>2, <2>8 DEF StreamInv
<1> QED BY <1>11, <1>14, <1>16, <1>17

(* syncStream: the VM takes all the pieces that are there, in their order. *)
LEMMA DrainKeeps ==
  ASSUME StreamInv, Streams!SyncDrain
  PROVE  StreamInv'
<1>1. /\ reader = "holds" /\ stream' = [stream EXCEPT !.tokens = <<>>]
      /\ UNCHANGED <<request, listed>>
      /\ IF stream.error
         THEN answer' = "error" /\ reader' = "idle" /\ got' = got
         ELSE /\ got' = got \o stream.tokens /\ answer' = answer
              /\ reader' = IF stream.complete THEN "removes" ELSE "idle"
  BY DEF Streams!SyncDrain
<1>2. /\ stream \in [tokens : Seq(Nat), complete : BOOLEAN, error : BOOLEAN]
      /\ listed \in BOOLEAN
      /\ \E n, m \in Nat : Delivered(n, m)
  BY <1>1 DEF StreamInv, Unasked
<1>3. PICK n, m \in Nat : Delivered(n, m)
  BY <1>2
<1>4. /\ stream' \in [tokens : Seq(Nat), complete : BOOLEAN, error : BOOLEAN]
      /\ stream'.tokens = <<>>
      /\ (stream'.error <=> stream.error) /\ (stream'.complete <=> stream.complete)
  <2> DEFINE none == <<>>
  <2>1. none \in Seq(Nat) /\ stream' = [stream EXCEPT !.tokens = none]
    BY <1>1
  <2> HIDE DEF none
  <2>2. /\ stream' \in [tokens : Seq(Nat), complete : BOOLEAN, error : BOOLEAN]
        /\ stream'.tokens = none
        /\ (stream'.error <=> stream.error) /\ (stream'.complete <=> stream.complete)
    BY <1>2, <2>1
  <2> QED BY <2>2 DEF none
<1>5. reader' \in {"idle", "holds", "removes"}
  BY <1>1
<1>6. CASE stream.error
  <2>1. Delivered(n, m)'
    BY <1>1, <1>3, <1>4, <1>6 DEF Delivered, IsWhole
  <2> QED BY <1>1, <1>2, <1>4, <1>5, <2>1 DEF StreamInv
<1>7. CASE ~stream.error
  <2>1. PICK n2 \in Nat : n2 = n + m
    OBVIOUS
  <2>2. n2 + Owed(request) = Pushed(request) /\ got = Pieces(0, n) /\ stream.tokens = Pieces(n, m)
    BY <1>3, <1>7, <2>1 DEF Delivered
  <2>3. got' = Pieces(0, n2)
    BY <1>1, <1>7, <2>1, <2>2, PiecesJoin
  <2>4. stream'.tokens = Pieces(n2, 0)
    BY <1>4, PiecesAre
  <2>5. /\ request.said \in Nat /\ (request.complete => request.emitted \/ request.said = 0)
        /\ (~request.emitted => request.said \in {0, 1})
    BY <1>3 DEF Delivered, Sane, StreamJobs
  <2>6. request.complete /\ request.calls \in {<<>>, <<Streams!Error>>} => IsWhole(n2)
    <3>1. request.calls \in {<<>>, <<Streams!Error>>} => Owed(request) = 0
      BY <2>5, ListsApart DEF Owed, Owes
    <3>2. request.complete => Pushed(request) = request.said
      BY <2>5 DEF Pushed
    <3> QED BY <2>1, <2>2, <2>5, <3>1, <3>2 DEF IsWhole
  <2>7. reader' = "removes" \/ ~listed' \/ answer' = "complete" => IsWhole(n2)
    BY <1>1, <1>3, <1>7, <2>6 DEF Delivered, IsWhole
  <2>8. n2 + 0 + Owed(request) = Pushed(request)
    BY <2>2, <2>1
  <2>9. Delivered(n2, 0)'
    BY <1>1, <1>3, <1>4, <1>7, <2>3, <2>4, <2>7, <2>8 DEF Delivered, IsWhole, Owed, Owes, Pushed
  <2>10. \E i, k \in Nat : Delivered(i, k)'
    BY <2>9
  <2> QED BY <1>1, <1>2, <1>4, <1>5, <2>10 DEF StreamInv
<1> QED BY <1>6, <1>7

(* The reply has been asked for, so that only syncStream's own state, or   *)
(* the table, changes.                                                     *)
LEMMA SyncKeeps ==
  ASSUME StreamInv, Streams!SyncFind \/ Streams!SyncRemove
  PROVE  StreamInv'
<1>1. request.st # "none" \/ reader = "removes"
  BY DEF Streams!SyncFind, Streams!SyncRemove
<1>2. /\ stream \in [tokens : Seq(Nat), complete : BOOLEAN, error : BOOLEAN]
      /\ reader \in {"idle", "holds", "removes"} /\ listed \in BOOLEAN
      /\ \E n, m \in Nat : Delivered(n, m)
  BY <1>1 DEF StreamInv, Unasked, Streams!NoJob
<1>3. PICK n, m \in Nat : Delivered(n, m)
  BY <1>2
<1>4. CASE Streams!SyncFind
  <2>1. /\ UNCHANGED <<request, stream, listed, got>> /\ reader = "idle"
        /\ \/ listed /\ reader' = "holds" /\ answer' = answer
           \/ ~listed /\ reader' = reader /\ answer' = "complete"
    BY <1>4 DEF Streams!SyncFind
  <2>2. Delivered(n, m)'
    BY <1>3, <2>1 DEF Delivered, IsWhole
  <2> QED BY <1>2, <2>1, <2>2 DEF StreamInv
<1>5. CASE Streams!SyncRemove
  <2>1. /\ UNCHANGED <<request, stream, got>> /\ reader = "removes"
        /\ listed' = FALSE /\ reader' = "idle" /\ answer' = "complete"
    BY <1>5 DEF Streams!SyncRemove
  <2>2. Delivered(n, m)'
    BY <1>3, <2>1 DEF Delivered, IsWhole
  <2> QED BY <1>2, <2>1, <2>2 DEF StreamInv
<1> QED BY <1>4, <1>5

(* stream_request_json: nothing has been asked for before.                 *)
LEMMA CreateKeeps ==
  ASSUME StreamInv, Streams!CreateStream, Sane(request'),
         Owed(request') = Pushed(request')
  PROVE  StreamInv'
<1>1. Unasked
  <2>1. request.st = "none"
    BY DEF Streams!CreateStream, Streams!NoJob
  <2> QED BY <2>1 DEF StreamInv, Delivered, Sane, StreamJobs
<1>2. /\ got' = Pieces(0, 0) /\ ~stream'.error /\ ~stream'.complete
      /\ stream'.tokens = Pieces(0, 0) /\ listed' /\ reader' = "idle" /\ answer' = "none"
  BY <1>1, PiecesAre DEF Unasked, Streams!CreateStream, Streams!NoStream
<1>3. stream' \in [tokens : Seq(Nat), complete : BOOLEAN, error : BOOLEAN] /\ listed' \in BOOLEAN
  BY DEF Streams!CreateStream, Streams!NoStream
<1>4. Sane(request)' /\ Owed(request)' = Owed(request') /\ Pushed(request)' = Pushed(request')
  BY DEF Sane, StreamJobs, Lists, Owes, Owed, Pushed
<1>5. 0 + 0 + Owed(request)' = Pushed(request)'
  BY <1>4 DEF Owed
<1>6. Delivered(0, 0)'
  BY <1>2, <1>4, <1>5 DEF Delivered
<1>7. \E n, m \in Nat : Delivered(n, m)'
  BY <1>6
<1> QED BY <1>2, <1>3, <1>7 DEF StreamInv

LEMMA RequestKeeps ==
  ASSUME StreamInv, NEW p \in Providers, Streams!Request(p)
  PROVE  StreamInv'
<1> DEFINE j == Streams!Started(p)
<1>1. request' = j /\ Streams!CreateStream
  BY DEF Streams!Request
<1>2. <<>> \in Lists(0) /\ 0 \in Nat
  BY DEF Lists
<1>3. /\ j \in StreamJobs /\ j.calls = <<>> /\ j.said = 0
      /\ ~j.over /\ ~j.broken /\ ~j.emitted /\ ~j.complete
  BY <1>2 DEF Streams!Started, StreamJobs
<1> HIDE DEF j
<1>4. /\ j.calls \notin {<<Streams!Complete>>, <<Streams!Error>>,
                         <<Streams!PushCall(j.said), Streams!Complete>>}
      /\ ~Owes(j)
  BY <1>3, ListsApart DEF Owes
<1>5. Sane(j) /\ Owed(j) = Pushed(j)
  BY <1>2, <1>3, <1>4 DEF Sane, Owed, Pushed
<1> QED BY <1>1, <1>5, CreateKeeps

LEMMA SyntheticKeeps ==
  ASSUME StreamInv, Streams!Synthetic
  PROVE  StreamInv'
<1> DEFINE j0 == Streams!Started("synthetic")
           j1 == Streams!OnDelta(j0)
           j2 == Streams!OnDone(j1)
           j  == [j2 EXCEPT !.over = TRUE]
           push == <<Streams!PushCall(1)>>
           both == <<Streams!PushCall(1), Streams!Complete>>
<1>1. request' = j /\ Streams!CreateStream
  BY DEF Streams!Synthetic
<1>2. Append(<<>>, Streams!PushCall(1)) = push /\ Append(push, Streams!Complete) = both
  BY ShortLists
<1>3. {<<>>, push, both} \subseteq UNION {Lists(k) : k \in Nat} /\ both \in Lists(1) /\ 1 \in Nat
  BY DEF Lists
<1> HIDE DEF push, both
<1>4. /\ j0 \in StreamJobs /\ j0.calls = <<>> /\ j0.said = 0
      /\ ~j0.over /\ ~j0.broken /\ ~j0.complete /\ ~j0.failed
  BY <1>3 DEF Streams!Started, StreamJobs
<1> HIDE DEF j0
<1>5. j1 = [j0 EXCEPT !.said = 1, !.emitted = TRUE, !.calls = push]
  <2>1. j0.said + 1 = 1
    BY <1>4
  <2>2. Append(j0.calls, Streams!PushCall(j0.said + 1)) = push
    BY <1>2, <1>4, <2>1
  <2>3. j1 = [j0 EXCEPT !.said = j0.said + 1, !.emitted = TRUE,
                        !.calls = Append(j0.calls, Streams!PushCall(j0.said + 1))]
    BY <1>4 DEF Streams!OnDelta, StreamJobs
  <2> QED BY <2>1, <2>2, <2>3
<1> HIDE DEF j1
<1>6. /\ j1 \in StreamJobs /\ j1.calls = push /\ j1.said = 1 /\ j1.emitted
      /\ ~j1.broken /\ ~j1.complete /\ ~j1.failed
  BY <1>3, <1>4, <1>5 DEF StreamJobs
<1>7. j2 = [j1 EXCEPT !.complete = TRUE, !.calls = both]
  BY <1>2, <1>6 DEF Streams!OnDone, Streams!EmitFinalIfNeeded, Streams!MarkCompleteOnce,
                    StreamJobs
<1> HIDE DEF j2
<1>8. /\ j2 \in StreamJobs /\ j2.calls = both /\ j2.said = 1 /\ j2.emitted /\ j2.complete
      /\ ~j2.broken
  BY <1>3, <1>6, <1>7 DEF StreamJobs
<1>9. /\ j \in StreamJobs /\ j.said = 1 /\ j.calls = both /\ j.emitted /\ j.complete /\ j.over
      /\ ~j.broken
  BY <1>8 DEF StreamJobs
<1> HIDE DEF j
<1>10. Owes(j) /\ j.calls # <<Streams!Error>>
  BY <1>3, <1>9, ListsApart DEF Owes, both
<1>11. Sane(j) /\ Owed(j) = Pushed(j)
  BY <1>3, <1>9, <1>10 DEF Sane, Owed, Pushed
<1> QED BY <1>1, <1>11, CreateKeeps

(* The thread hears of one thing at a time, and never twice.               *)
LEMMA ThreadKeeps ==
  ASSUME StreamInv,
         \/ Streams!Delta \/ Streams!CodexItem \/ Streams!CodexOver
         \/ Streams!LastLine \/ Streams!GoogleError
         \/ \E ok \in BOOLEAN : Streams!ConnectionEnds(ok)
  PROVE  StreamInv'
<1>1. request.st = "receiving" /\ request.calls = <<>>
      /\ UNCHANGED <<stream, listed, reader, got, answer>>
  BY DEF Streams!Delta, Streams!CodexItem, Streams!CodexOver, Streams!LastLine,
         Streams!GoogleError, Streams!ConnectionEnds, Streams!Receive, Streams!Running
<1>2. request # Streams!NoJob
  BY <1>1 DEF Streams!NoJob
<1>3. Sane(request) /\ request \in StreamJobs
  BY <1>2 DEF StreamInv, Unasked, Delivered, Sane
<1>4. ASSUME Streams!Delta PROVE Event(request, request')
  <2>1. request' = Streams!OnDelta(request) /\ ~request.over
    BY <1>4 DEF Streams!Delta, Streams!Receive
  <2> QED BY <1>1, <1>3, <2>1, DeltaIsEvent
<1>5. ASSUME Streams!CodexItem PROVE Event(request, request')
  <2>1. /\ request' = [request EXCEPT !.said = 1, !.over = TRUE]
        /\ request.provider = "codex" /\ ~request.over /\ request.said = 0
    BY <1>5 DEF Streams!CodexItem, Streams!Receive
  <2>2. /\ request' \in StreamJobs /\ request'.provider = "codex" /\ request'.calls = <<>>
        /\ (request'.emitted <=> request.emitted) /\ (request'.complete <=> request.complete)
        /\ (request'.failed <=> request.failed) /\ request'.said = 1 /\ request'.over
    BY <1>1, <1>3, <2>1 DEF StreamJobs
  <2>3. ~request.emitted
    BY <1>3, <2>1 DEF Sane
  <2> QED BY <1>1, <1>3, <2>1, <2>2, <2>3, QuietIsEvent
<1>6. ASSUME Streams!CodexOver PROVE Event(request, request')
  <2>1. PICK bad \in BOOLEAN :
          request' = [request EXCEPT !.over = ~bad, !.broken = request.broken \/ bad]
    BY <1>3, <1>6 DEF Streams!CodexOver, Streams!Receive, StreamJobs
  <2>2. request.provider = "codex" /\ ~request.over
    BY <1>6 DEF Streams!CodexOver
  <2>3. /\ request' \in StreamJobs /\ request'.provider = "codex" /\ request'.calls = <<>>
        /\ (request'.emitted <=> request.emitted) /\ (request'.complete <=> request.complete)
        /\ (request'.failed <=> request.failed) /\ request'.said = request.said
    BY <1>1, <1>3, <2>1, <2>2 DEF StreamJobs
  <2> QED BY <1>1, <1>3, <2>2, <2>3, QuietIsEvent
<1>7. ASSUME Streams!LastLine PROVE Event(request, request')
  <2> DEFINE d == Streams!OnDone(request)
  <2>1. request' = [d EXCEPT !.over = TRUE]
    BY <1>7 DEF Streams!LastLine, Streams!Receive
  <2>2. d \in StreamJobs
    BY <1>1, <1>3, DoneIsTyped
  <2> HIDE DEF d
  <2>3. Marked(d, request')
    BY <2>1, <2>2 DEF Marked, StreamJobs
  <2> QED BY <1>1, <1>3, <2>3, DoneIsEvent DEF d
<1>8. ASSUME Streams!GoogleError PROVE Event(request, request')
  <2> DEFINE d == Streams!OnFail(request)
  <2>1. request' = [d EXCEPT !.broken = TRUE]
    BY <1>8 DEF Streams!GoogleError, Streams!Receive
  <2>2. /\ d.said = request.said /\ (d.emitted <=> request.emitted)
        /\ (d.complete <=> request.complete)
        /\ d.failed /\ d.calls \in {<<>>, <<Streams!Error>>}
        /\ (d.over <=> request.over) /\ d \in StreamJobs
    BY <1>1, <1>3, ErrorIsOnce
  <2> HIDE DEF d
  <2>3. /\ request' \in StreamJobs /\ request'.said = request.said
        /\ (request'.emitted <=> request.emitted)
        /\ (request'.complete <=> request.complete) /\ request'.failed
        /\ (request.over => request'.over)
        /\ request'.calls \in {<<>>, <<Streams!Error>>}
    BY <2>1, <2>2 DEF StreamJobs
  <2> QED BY <1>1, <1>3, <2>3, FailIsEvent
<1>9. ASSUME NEW ok \in BOOLEAN, Streams!ConnectionEnds(ok) PROVE Event(request, request')
  <2> DEFINE f == Streams!Finished(request, ok)
             d == Streams!OnDone(request)
             x == Streams!OnFail(request)
  <2>1. request' = [Streams!MarkCompleteOnce(f) EXCEPT !.st = "ended", !.over = TRUE]
    BY <1>9 DEF Streams!ConnectionEnds, Streams!Receive
  <2>2. f = x \/ f = d \/ (f = request /\ request.failed)
    BY <1>3 DEF Streams!Finished, Sane
  <2>3. d \in StreamJobs /\ (d.complete \/ d.failed)
    BY <1>1, <1>3, DoneIsTyped
  <2>4. /\ x.said = request.said /\ (x.emitted <=> request.emitted)
        /\ (x.complete <=> request.complete)
        /\ x.failed /\ x.calls \in {<<>>, <<Streams!Error>>} /\ x \in StreamJobs
    BY <1>1, <1>3, ErrorIsOnce
  <2> HIDE DEF f, d, x
  <2>5. Streams!MarkCompleteOnce(f) = f /\ f \in StreamJobs
    BY <1>3, <2>2, <2>3, <2>4 DEF Streams!MarkCompleteOnce
  <2>6. Marked(f, request')
    BY <2>1, <2>5 DEF Marked, StreamJobs
  <2>7. CASE f = d
    BY <1>1, <1>3, <2>6, <2>7, DoneIsEvent DEF d
  <2>8. CASE f # d
    <3>1. /\ f.said = request.said /\ (f.emitted <=> request.emitted)
          /\ (f.complete <=> request.complete) /\ f.failed
          /\ f.calls \in {<<>>, <<Streams!Error>>}
      BY <1>1, <2>2, <2>4, <2>8
    <3>2. /\ request' \in StreamJobs /\ request'.said = request.said
          /\ (request'.emitted <=> request.emitted)
          /\ (request'.complete <=> request.complete) /\ request'.failed /\ request'.over
          /\ request'.calls \in {<<>>, <<Streams!Error>>}
      BY <2>6, <3>1 DEF Marked
    <3> QED BY <1>1, <1>3, <3>2, FailIsEvent
  <2> QED BY <2>7, <2>8
<1>10. Event(request, request')
  BY <1>4, <1>5, <1>6, <1>7, <1>8, <1>9
<1> QED BY <1>1, <1>2, <1>10, EventKeeps

LEMMA StreamStep ==
  ASSUME StreamInv, [Streams!Next]_<<request, stream, listed, reader, got, answer>>
  PROVE  StreamInv'
<1>1. CASE UNCHANGED <<request, stream, listed, reader, got, answer>>
  <2>1. CASE Unasked
    BY <1>1, <2>1 DEF StreamInv, Unasked
  <2>2. CASE ~Unasked
    <3>1. PICK n, m \in Nat : Delivered(n, m)
      BY <2>2 DEF StreamInv
    <3>2. Delivered(n, m)'
      BY <1>1, <3>1 DEF Delivered, IsWhole, Sane, StreamJobs, Lists, Owes, Owed, Pushed
    <3> QED BY <1>1, <2>2, <3>2 DEF StreamInv
  <2> QED BY <2>1, <2>2
<1>2. CASE Streams!Next
  BY <1>2, RequestKeeps, SyntheticKeeps, ThreadKeeps, ManagerCallKeeps, DrainKeeps, SyncKeeps
  DEF Streams!Next
<1> QED BY <1>1, <1>2

(* What syncStream returns is the reply's text, in its order: a stream     *)
(* reported complete has been returned whole, and one reported failed had  *)
(* a provider that failed, whatever the thread, the manager and the VM do  *)
(* in between (stream_manager.cpp, runtime.cpp).                           *)
THEOREM RepliesComeWhole == Streams!Spec => []RepliesAreWhole
<1>1. StreamInv => RepliesAreWhole
  <2> SUFFICES ASSUME StreamInv PROVE Streams!RepliesAreWhole
    BY DEF RepliesAreWhole
  <2>1. CASE Unasked
    BY <2>1 DEF Unasked, Streams!RepliesAreWhole
  <2>2. CASE ~Unasked
    <3>1. PICK n, m \in Nat : Delivered(n, m)
      BY <2>2 DEF StreamInv
    <3>2. got \in Seq(Nat) /\ Len(got) = n /\ \A i \in 1 .. n : got[i] = 0 + i
      <4>1. got = Pieces(0, n) /\ 0 \in Nat
        BY <3>1 DEF Delivered
      <4> QED BY <4>1, PiecesAre
    <3>3. \A i \in DOMAIN got : got[i] = i
      BY <3>2
    <3> QED BY <3>1, <3>2, <3>3 DEF Delivered, IsWhole, Streams!RepliesAreWhole
  <2> QED BY <2>1, <2>2
<1> QED BY <1>1, StreamInit, StreamStep, PTL DEF Streams!Spec, Streams!streamVars

-----------------------------------------------------------------------------
(* CoordinationSlab: what the file keeps and what the process knows of it. *)

SlabSlot == [id : 0 .. MaxId, generation : Nat, ring : Seq(Messages)]

(* No participant has two slots.                                           *)
FileKept ==
  /\ DOMAIN slab = {"size", "participants", "resources"} /\ slab.size = "whole"
  /\ slab.participants \in [Coordination!Slots -> SlabSlot]
  /\ \A i, j \in Coordination!Slots :
       i # j /\ slab.participants[i].id = slab.participants[j].id =>
         slab.participants[i].id = 0

(* A participant the process knows has a slot, and mail that waits in it   *)
(* has been announced.                                                     *)
ReadsMail(id) ==
  /\ id \in Nat \ {0} /\ table[id] \in Coordination!Slots
  /\ slab.participants[table[id]].id = id
  /\ slab.participants[table[id]].ring # <<>> => id \in fired

(* The slots have numbers below n.                                         *)
Below(n) == \A i \in Coordination!Slots : slab.participants[i].id \in 0 .. n - 1

(* Numbers are only given while no slot has a higher one: a process that   *)
(* maps a file that is there gives none before it has read the slots.      *)
SlabInv ==
  /\ mapping \in {"none", "fresh", "in use"} /\ nextId \in Nat \ {0}
  /\ slab = Coordination!NoSlab \/ FileKept
  /\ mapping # "none" => FileKept
  /\ mapping # "in use" => DOMAIN table = {}
  /\ mapping = "in use" => Below(nextId)
  /\ fired \subseteq DOMAIN table
  /\ \A id \in DOMAIN table : ReadsMail(id)

LEMMA LeastNatural ==
  ASSUME NEW T \in SUBSET Nat, T # {}
  PROVE  \E x \in T : \A y \in T : x <= y
<1> DEFINE R == OpToRel(<, Nat)
<1>1. IsWellFoundedOn(R, Nat)
  BY NatLessThanWellFounded, Zenon
<1>2. \A x, y \in Nat : x < y => <<x, y>> \in R
  BY Zenon DEF OpToRel
<1> HIDE DEF R
<1>3. PICK x \in T : \A y \in T : <<y, x>> \notin R
  BY <1>1, WFMin, Zenon
<1>4. \A y \in T : ~ (y < x)
  BY <1>2, <1>3, Zenon
<1> QED BY <1>3, <1>4, SMT

LEMMA LowestIsIn ==
  ASSUME NEW T \in SUBSET Nat, T # {}
  PROVE  Coordination!LowestOf(T) \in T
<1>1. \E x \in T : \A y \in T : x <= y
  BY LeastNatural
<1> QED BY <1>1 DEF Coordination!LowestOf

(* A set of numbers that has a bound has a greatest one.                   *)
LEMMA GreatestNatural ==
  ASSUME NEW T \in SUBSET Nat, T # {}, NEW b \in Nat, \A x \in T : x <= b
  PROVE  \E x \in T : \A y \in T : x >= y
<1> DEFINE Above == {n \in Nat : \A x \in T : x <= n}
<1>1. Above \in SUBSET Nat /\ Above # {}
  OBVIOUS
<1>2. PICK m \in Above : \A n \in Above : m <= n
  <2> HIDE DEF Above
  <2> QED BY <1>1, LeastNatural
<1>3. m \in T
  <2> SUFFICES ASSUME m \notin T PROVE FALSE
    OBVIOUS
  <2>1. m \in Nat /\ \A x \in T : x \in Nat /\ x < m
    BY <1>2
  <2>2. m > 0
    <3>1. PICK x \in T : TRUE
      OBVIOUS
    <3>2. x \in Nat /\ x < m /\ m \in Nat
      BY <2>1, <3>1
    <3> QED BY <3>2
  <2>3. m - 1 \in Above
    BY <2>1, <2>2
  <2> QED BY <1>2, <2>3
<1> QED BY <1>2, <1>3

(* The slot that is found for a number that is in the file, or for none.   *)
LEMMA SlotIsFound ==
  ASSUME NEW id, Coordination!SlotsOf(id) # {}, Coordination!SlabAssumption
  PROVE  /\ Coordination!LowestOf(Coordination!SlotsOf(id)) \in Coordination!Slots
         /\ slab.participants[Coordination!LowestOf(Coordination!SlotsOf(id))].id = id
<1> DEFINE T == Coordination!SlotsOf(id)
<1>1. T \in SUBSET Nat /\ T \subseteq Coordination!Slots
  BY DEF Coordination!SlotsOf, Coordination!Slots, Coordination!SlabAssumption
<1>2. \A i \in T : slab.participants[i].id = id
  BY DEF Coordination!SlotsOf
<1> HIDE DEF T
<1>3. T # {}
  BY DEF T
<1>4. Coordination!LowestOf(T) \in T
  BY <1>1, <1>3, LowestIsIn
<1> QED BY <1>1, <1>2, <1>4 DEF T

LEMMA SlabInit == Coordination!Init => SlabInv
BY DEF Below, Coordination!Init, SlabInv, ReadsMail

LEMMA FileStays ==
  ASSUME slab' = slab
  PROVE  FileKept' <=> FileKept
BY DEF FileKept

LEMMA FirstNumber == 1 \in Nat \ {0} /\ 0 \in 0 .. 1 - 1 /\ DOMAIN <<>> = {}
OBVIOUS

(* A process that has just begun, or has ended, knows nobody.              *)
LEMMA NobodyReads ==
  ASSUME mapping' \in {"none", "fresh", "in use"}, table' = <<>>, nextId' = 1, fired' = {},
         FileKept' \/ (slab' = Coordination!NoSlab /\ mapping' = "none"),
         mapping' = "in use" => \A i \in Coordination!Slots : slab'.participants[i].id = 0
  PROVE  SlabInv'
<1>1. DOMAIN table' = {}
  BY FirstNumber, Zenon
<1>2. nextId' \in Nat \ {0}
  BY FirstNumber, Zenon
<1>3. slab' = Coordination!NoSlab \/ FileKept'
  OBVIOUS
<1>4. mapping' # "none" => FileKept'
  OBVIOUS
<1>5. \A id \in DOMAIN table' : ReadsMail(id)'
  BY <1>1
<1>6. fired' \subseteq DOMAIN table'
  OBVIOUS
<1>7. mapping' = "in use" => Below(nextId)'
  <2>1. 0 \in 0 .. nextId' - 1
    BY FirstNumber, Zenon
  <2> QED BY <2>1, Zenon DEF Below
<1> QED BY <1>1, <1>2, <1>3, <1>4, <1>5, <1>6, <1>7 DEF SlabInv

LEMMA MapKeeps ==
  ASSUME SlabInv, Coordination!SlabAssumption, NEW reset \in BOOLEAN, Coordination!Map(reset)
  PROVE  SlabInv'
<1>1. /\ reset \/ slab # Coordination!NoSlab
      /\ slab' = IF reset THEN Coordination!EmptySlab ELSE slab
      /\ mapping' = IF reset THEN "in use" ELSE "fresh"
      /\ table' = <<>> /\ nextId' = 1 /\ fired' = {}
  BY DEF Coordination!Map
<1>2. CASE reset
  <2>1. <<>> \in Seq(Messages) /\ 0 \in 0 .. MaxId
    BY DEF Coordination!SlabAssumption
  <2>2. Coordination!FreeSlot \in SlabSlot /\ Coordination!FreeSlot.id = 0
    BY <2>1 DEF Coordination!FreeSlot, SlabSlot
  <2>3. /\ DOMAIN slab' = {"size", "participants", "resources"} /\ slab'.size = "whole"
        /\ slab'.participants = [i \in Coordination!Slots |-> Coordination!FreeSlot]
    BY <1>1, <1>2 DEF Coordination!EmptySlab, Coordination!Slots
  <2>4. FileKept' /\ \A i \in Coordination!Slots : slab'.participants[i].id = 0
    BY <2>2, <2>3 DEF FileKept
  <2> QED BY <1>1, <1>2, <2>4, NobodyReads
<1>3. CASE ~reset
  <2>1. FileKept' /\ mapping' = "fresh"
    BY <1>1, <1>3, FileStays DEF SlabInv
  <2> QED BY <1>1, <2>1, NobodyReads
<1> QED BY <1>2, <1>3

LEMMA UnmapKeeps ==
  ASSUME SlabInv, Coordination!Unmap
  PROVE  SlabInv'
<1>1. /\ mapping' = "none" /\ table' = <<>> /\ nextId' = 1 /\ fired' = {} /\ slab' = slab
      /\ mapping # "none"
  BY DEF Coordination!Unmap
<1>2. FileKept'
  BY <1>1, FileStays DEF SlabInv
<1> QED BY <1>1, <1>2, NobodyReads

(* registerParticipantOnSlab: a slot that is free, for a number that no    *)
(* slot has.                                                               *)
LEMMA RegisterKeeps ==
  ASSUME SlabInv, Coordination!SlabAssumption, Coordination!RegisterOnSlab
  PROVE  SlabInv'
<1> DEFINE given == Coordination!AllocateParticipantSlot(nextId)
           i == Coordination!LowestOf(Coordination!SlotsOf(0))
<1>1. /\ mapping = "in use" /\ mapping' = mapping /\ fired' = fired /\ nextId' = nextId + 1
      /\ nextId <= MaxId
      /\ IF given[1] = 0 \/ nextId \in DOMAIN table THEN slab' = slab /\ table' = table
         ELSE /\ slab' = [slab EXCEPT !.participants = given[2]]
              /\ table' = [id \in DOMAIN table \cup {nextId} |->
                             IF id = nextId THEN given[1] ELSE table[id]]
  BY DEF Coordination!RegisterOnSlab
<1>2. FileKept /\ nextId \in Nat \ {0} /\ Below(nextId)
  BY <1>1 DEF SlabInv
<1>3. Coordination!SlotsOf(nextId) = {}
  <2>1. nextId \notin 0 .. nextId - 1
    BY <1>2
  <2> QED BY <1>2, <2>1 DEF Below, Coordination!SlotsOf
<1>4. nextId' \in Nat \ {0} /\ nextId \in 0 .. nextId' - 1
      /\ 0 .. nextId - 1 \subseteq 0 .. nextId' - 1
  <2>1. nextId' = nextId + 1 /\ nextId \in Nat \ {0}
    BY <1>1, <1>2
  <2> QED BY <2>1
<1>5. CASE slab' = slab /\ table' = table
  <2>1. FileKept' /\ (\A id \in DOMAIN table : ReadsMail(id)) /\ fired' \subseteq DOMAIN table'
    BY <1>1, <1>2, <1>5, FileStays DEF SlabInv
  <2>2. \A id \in DOMAIN table' : ReadsMail(id)'
    <3>1. fired' = fired
      BY <1>1
    <3> QED BY <1>5, <2>1, <3>1 DEF ReadsMail
  <2>3. Below(nextId)'
    BY <1>2, <1>4, <1>5 DEF Below
  <2>4. mapping' = "in use"
    BY <1>1
  <2> QED BY <1>4, <2>1, <2>2, <2>3, <2>4 DEF SlabInv
<1>6. CASE ~(slab' = slab /\ table' = table)
  <2>1. Coordination!SlotsOf(0) # {}
    BY <1>1, <1>3, <1>6 DEF Coordination!AllocateParticipantSlot
  <2>2. /\ given[1] = i
        /\ given[2] = [slab.participants EXCEPT ![i] =
             [id |-> nextId, generation |-> slab.participants[i].generation + 1, ring |-> <<>>]]
    BY <1>3, <2>1 DEF Coordination!AllocateParticipantSlot
  <2>3. i \in Coordination!Slots /\ slab.participants[i].id = 0
    BY <2>1, SlotIsFound
  <2> DEFINE slot == [id |-> nextId, generation |-> slab.participants[i].generation + 1,
                      ring |-> <<>>]
  <2>4. slot \in SlabSlot /\ slot.id = nextId /\ slot.ring = <<>>
    <3>1. <<>> \in Seq(Messages) /\ slab.participants[i].generation + 1 \in Nat
          /\ nextId \in 0 .. MaxId
      <4>1. slab.participants[i] \in SlabSlot
        BY <1>2, <2>3 DEF FileKept
      <4>2. slab.participants[i].generation \in Nat
        BY <4>1 DEF SlabSlot
      <4>3. nextId \in 0 .. MaxId
        <5>1. nextId \in Nat /\ nextId <= MaxId /\ MaxId \in Nat
          BY <1>1, <1>2 DEF Coordination!SlabAssumption
        <5> QED BY <5>1
      <4> QED BY <4>2, <4>3
    <3> QED BY <3>1 DEF SlabSlot
  <2>5. /\ nextId \notin DOMAIN table
        /\ slab' = [slab EXCEPT !.participants = [slab.participants EXCEPT ![i] = slot]]
        /\ table' = [id \in DOMAIN table \cup {nextId} |-> IF id = nextId THEN i ELSE table[id]]
    BY <1>1, <1>6, <2>2
  <2> HIDE DEF slot, i, given
  <2>6. /\ DOMAIN slab' = DOMAIN slab /\ slab'.size = slab.size
        /\ slab'.participants = [slab.participants EXCEPT ![i] = slot]
    BY <1>2, <2>5 DEF FileKept
  <2>7. /\ slab'.participants \in [Coordination!Slots -> SlabSlot]
        /\ slab'.participants[i] = slot
        /\ \A k \in Coordination!Slots : k # i => slab'.participants[k] = slab.participants[k]
    BY <1>2, <2>3, <2>4, <2>6 DEF FileKept
  <2>8. FileKept'
    <3>1. \A j, k \in Coordination!Slots :
            j # k /\ slab'.participants[j].id = slab'.participants[k].id =>
              slab'.participants[j].id = 0
      <4>1. \A k \in Coordination!Slots : k # i => slab'.participants[k].id # nextId
        BY <1>2, <1>3, <2>7 DEF Coordination!SlotsOf
      <4> QED BY <1>2, <2>3, <2>4, <2>7, <4>1 DEF FileKept
    <3> QED BY <1>2, <2>6, <2>7, <3>1 DEF FileKept
  <2>9. Below(nextId)'
    BY <1>2, <1>4, <2>4, <2>7 DEF Below
  <2>10. ASSUME NEW id \in DOMAIN table' PROVE ReadsMail(id)'
    <3>1. CASE id = nextId
      BY <1>2, <2>3, <2>4, <2>5, <2>7, <3>1 DEF ReadsMail
    <3>2. CASE id # nextId
      <4>1. id \in DOMAIN table /\ table'[id] = table[id] /\ ReadsMail(id)
        BY <2>5, <2>10, <3>2 DEF SlabInv
      <4>2. table[id] # i
        BY <2>3, <4>1 DEF ReadsMail
      <4> QED BY <1>1, <2>7, <4>1, <4>2 DEF ReadsMail
    <3> QED BY <3>1, <3>2
  <2>11. fired' \subseteq DOMAIN table'
    BY <1>1, <2>5 DEF SlabInv
  <2>12. mapping' = "in use"
    BY <1>1
  <2> QED BY <1>4, <2>8, <2>9, <2>10, <2>11, <2>12 DEF SlabInv
<1> QED BY <1>5, <1>6

(* reconstructParticipantsFromSlab: the next number is above all that the  *)
(* slots have.                                                             *)
LEMMA NumberIsAbove ==
  ASSUME FileKept, nextId \in Nat \ {0}, Coordination!SlabAssumption
  PROVE  /\ Coordination!NumberAfter \in Nat \ {0} /\ Coordination!NumberAfter >= nextId
         /\ Below(Coordination!NumberAfter)
<1> DEFINE T == Coordination!Known \cup {0}
           high == CHOOSE m \in T : \A k \in Coordination!Known : m >= k
<1>1. \A i \in Coordination!Slots : slab.participants[i].id \in 0 .. MaxId /\ MaxId \in Nat
  BY DEF FileKept, SlabSlot, Coordination!SlabAssumption
<1>2. T \in SUBSET Nat /\ T # {} /\ (\A x \in T : x <= MaxId) /\ MaxId \in Nat
  BY <1>1 DEF Coordination!Known, Coordination!SlabAssumption
<1>3. \A i \in Coordination!Slots : slab.participants[i].id \in T
  BY DEF Coordination!Known
<1>4. \E m \in T : \A k \in T : m >= k
  <2> HIDE DEF T
  <2> QED BY <1>2, GreatestNatural
<1>5. high \in T /\ \A k \in Coordination!Known : high >= k
  BY <1>4
<1>6. Coordination!NumberAfter = IF high >= nextId THEN high + 1 ELSE nextId
  BY DEF Coordination!NumberAfter
<1> HIDE DEF high
<1>7. \A k \in T : high >= k
  BY <1>2, <1>5
<1> HIDE DEF T
<1>8. high \in Nat /\ \A i \in Coordination!Slots : slab.participants[i].id <= high
  BY <1>2, <1>3, <1>5, <1>7
<1> DEFINE after == Coordination!NumberAfter
<1>9. after = IF high >= nextId THEN high + 1 ELSE nextId
  BY <1>6
<1>10. \A i \in Coordination!Slots : slab.participants[i].id \in Nat
  BY <1>2, <1>3
<1> HIDE DEF after
<1>11. after \in Nat \ {0} /\ after >= nextId /\ high < after
  BY <1>8, <1>9
<1>12. \A i \in Coordination!Slots : slab.participants[i].id \in 0 .. after - 1
  BY <1>8, <1>10, <1>11
<1> QED BY <1>11, <1>12 DEF after, Below

LEMMA ReconstructKeeps ==
  ASSUME SlabInv, Coordination!SlabAssumption, Coordination!Reconstruct
  PROVE  SlabInv'
<1> DEFINE lowest(id) == Coordination!LowestOf(Coordination!SlotsOf(id))
           fresh == Coordination!Known \ DOMAIN table
<1>1. /\ mapping # "none" /\ mapping' = "in use" /\ slab' = slab
      /\ nextId' = Coordination!NumberAfter
      /\ fired' = fired \cup Coordination!Pending(fresh)
      /\ table' = [id \in DOMAIN table \cup Coordination!Known |->
                     IF id \in DOMAIN table THEN table[id] ELSE lowest(id)]
  BY DEF Coordination!Reconstruct
<1>2. FileKept /\ nextId \in Nat \ {0}
  BY <1>1 DEF SlabInv
<1>3. nextId' \in Nat \ {0} /\ Below(nextId)'
  <2>1. nextId' \in Nat \ {0} /\ Below(nextId')
    BY <1>1, <1>2, NumberIsAbove
  <2> QED BY <1>1, <2>1 DEF Below
<1>4. ASSUME NEW id \in fresh
      PROVE  /\ id \in Nat \ {0} /\ lowest(id) \in Coordination!Slots
             /\ slab.participants[lowest(id)].id = id
  <2>1. id # 0 /\ Coordination!SlotsOf(id) # {}
    BY DEF Coordination!Known, Coordination!SlotsOf
  <2>2. lowest(id) \in Coordination!Slots /\ slab.participants[lowest(id)].id = id
    BY <2>1, SlotIsFound
  <2> HIDE DEF lowest
  <2> QED BY <1>2, <2>1, <2>2 DEF FileKept, SlabSlot
<1>5. Coordination!Pending(fresh) = {id \in fresh : slab.participants[lowest(id)].ring # <<>>}
  BY DEF Coordination!Pending
<1> HIDE DEF lowest
<1>6. ASSUME NEW id \in DOMAIN table' PROVE ReadsMail(id)'
  <2>1. CASE id \in DOMAIN table
    BY <1>1, <2>1 DEF SlabInv, ReadsMail
  <2>2. CASE id \notin DOMAIN table
    <3>1. id \in fresh /\ table'[id] = lowest(id)
      BY <1>1, <1>6, <2>2
    <3>2. slab.participants[lowest(id)].ring # <<>> => id \in fired'
      BY <1>1, <1>5, <3>1
    <3> QED BY <1>1, <1>4, <3>1, <3>2 DEF ReadsMail
  <2> QED BY <2>1, <2>2
<1>7. fired' \subseteq DOMAIN table'
  BY <1>1, <1>5 DEF SlabInv
<1>8. FileKept'
  BY <1>1, <1>2 DEF FileKept
<1> QED BY <1>1, <1>3, <1>6, <1>7, <1>8 DEF SlabInv

(* A message is put into a ring and announced, or a ring is emptied.       *)
LEMMA RingKeeps ==
  ASSUME SlabInv, NEW id \in DOMAIN table, NEW ring \in Seq(Messages),
         slab' = [slab EXCEPT !.participants[table[id]].ring = ring],
         \/ fired' = fired \cup {id}
         \/ fired' = fired \ {id} /\ ring = <<>>,
         UNCHANGED <<table, nextId, mapping>>
  PROVE  SlabInv'
<1> DEFINE i == table[id]
           slot == [slab.participants[i] EXCEPT !.ring = ring]
<1>1. mapping = "in use" /\ FileKept /\ ReadsMail(id) /\ i \in Coordination!Slots
  BY DEF SlabInv, ReadsMail
<1>2. slot \in SlabSlot /\ slot.id = slab.participants[i].id /\ slot.ring = ring
  BY <1>1 DEF FileKept, SlabSlot
<1>3. /\ DOMAIN slab' = DOMAIN slab /\ slab'.size = slab.size
      /\ slab'.participants = [slab.participants EXCEPT ![i] = slot]
  BY <1>1 DEF FileKept
<1> HIDE DEF slot
<1>4. /\ slab'.participants \in [Coordination!Slots -> SlabSlot]
      /\ slab'.participants[i] = slot
      /\ \A k \in Coordination!Slots : k # i => slab'.participants[k] = slab.participants[k]
  BY <1>1, <1>2, <1>3 DEF FileKept
<1>5. \A k \in Coordination!Slots : slab'.participants[k].id = slab.participants[k].id
  BY <1>2, <1>4
<1>6. FileKept'
  <2>1. ASSUME NEW j \in Coordination!Slots, NEW k \in Coordination!Slots, j # k,
               slab'.participants[j].id = slab'.participants[k].id
        PROVE  slab'.participants[j].id = 0
    <3>1. slab.participants[j].id = slab.participants[k].id
      BY <1>5, <2>1
    <3>2. slab.participants[j].id = 0
      BY <1>1, <2>1, <3>1 DEF FileKept
    <3> QED BY <1>5, <3>2
  <2> QED BY <1>1, <1>3, <1>4, <2>1 DEF FileKept
<1>7. ASSUME NEW other \in DOMAIN table' PROVE ReadsMail(other)'
  <2>1. ReadsMail(other) /\ table'[other] = table[other]
    BY <1>7 DEF SlabInv
  <2>2. CASE other = id
    BY <1>2, <1>4, <1>5, <2>1, <2>2 DEF ReadsMail
  <2>3. CASE other # id
    <3>1. table[other] # i
      BY <1>1, <2>1, <2>3 DEF ReadsMail
    <3> QED BY <1>4, <2>1, <2>3, <3>1 DEF ReadsMail
  <2> QED BY <2>2, <2>3
<1>8. Below(nextId)' /\ nextId' \in Nat \ {0} /\ mapping' = "in use"
  BY <1>1, <1>5 DEF SlabInv, Below
<1>9. fired' \subseteq DOMAIN table'
  BY DEF SlabInv
<1> QED BY <1>6, <1>7, <1>8, <1>9 DEF SlabInv

LEMMA SendKeeps ==
  ASSUME SlabInv, NEW id \in DOMAIN table, NEW m \in Messages, Coordination!Send(id, m)
  PROVE  SlabInv'
<1> DEFINE ring == Append(slab.participants[table[id]].ring, m)
<1>1. mapping = "in use" /\ FileKept /\ ReadsMail(id)
  BY DEF SlabInv
<1>2. slab.participants[table[id]].ring \in Seq(Messages)
  BY <1>1 DEF FileKept, SlabSlot, ReadsMail
<1>3. ring \in Seq(Messages)
  BY <1>2, AppendProperties
<1>4. /\ slab' = [slab EXCEPT !.participants[table[id]].ring = ring]
      /\ fired' = fired \cup {id} /\ UNCHANGED <<table, nextId, mapping>>
  BY DEF Coordination!Send
<1> HIDE DEF ring
<1> QED BY <1>3, <1>4, RingKeeps

LEMMA DrainsKeep ==
  ASSUME SlabInv, NEW id \in fired, Coordination!PollAndDrain(id)
  PROVE  SlabInv'
<1> DEFINE none == <<>>
<1>1. id \in DOMAIN table
  BY DEF SlabInv
<1>2. none \in Seq(Messages) /\ none = <<>>
  OBVIOUS
<1>3. /\ slab' = [slab EXCEPT !.participants[table[id]].ring = none]
      /\ fired' = fired \ {id} /\ UNCHANGED <<table, nextId, mapping>>
  BY DEF Coordination!PollAndDrain
<1> HIDE DEF none
<1> QED BY <1>1, <1>2, <1>3, RingKeeps

LEMMA ResourcesKeep ==
  ASSUME SlabInv, NEW k \in SlabKeys,
         Coordination!AllocateResourceSlot(k) \/ Coordination!UseResource(k)
  PROVE  SlabInv'
<1>1. mapping = "in use" /\ UNCHANGED <<table, nextId, fired, mapping>>
  BY DEF Coordination!AllocateResourceSlot, Coordination!UseResource
<1>2. FileKept
  BY <1>1 DEF SlabInv
<1>3. /\ DOMAIN slab' = DOMAIN slab /\ slab'.size = slab.size
      /\ slab'.participants = slab.participants
  BY <1>2 DEF FileKept, Coordination!AllocateResourceSlot, Coordination!UseResource
<1>4. FileKept'
  BY <1>2, <1>3 DEF FileKept
<1> QED BY <1>1, <1>3, <1>4 DEF SlabInv, ReadsMail, Below

LEMMA SlabStep ==
  ASSUME SlabInv, Coordination!SlabAssumption,
         [Coordination!Next]_<<slab, table, nextId, fired, mapping>>
  PROVE  SlabInv'
<1>1. CASE UNCHANGED <<slab, table, nextId, fired, mapping>>
  BY <1>1 DEF SlabInv, FileKept, ReadsMail, Below
<1>2. CASE Coordination!Next
  BY <1>2, MapKeeps, UnmapKeeps, RegisterKeeps, ReconstructKeeps, SendKeeps, DrainsKeep,
     ResourcesKeep DEF Coordination!Next
<1> QED BY <1>1, <1>2

(* A message sent to a participant reaches the one whose slot it is, and   *)
(* is announced to him, across processes that map the file one after the   *)
(* other: the numbers of the slots are not given again, and the rings that *)
(* have mail are announced anew (reconstructParticipantsFromSlab).         *)
THEOREM MailIsRead ==
  ASSUME Coordination!SlabAssumption
  PROVE  Coordination!Spec => []MailFindsItsReader
<1>1. SlabInv => MailFindsItsReader
  <2> SUFFICES ASSUME SlabInv, NEW id \in DOMAIN table
               PROVE  /\ slab.participants[table[id]].id = id
                      /\ nextId > id
                      /\ slab.participants[table[id]].ring # <<>> => id \in fired
                      /\ \A other \in DOMAIN table \ {id} : table[other] # table[id]
    BY DEF MailFindsItsReader, Coordination!MailFindsItsReader
  <2>1. ReadsMail(id) /\ mapping = "in use" /\ \A other \in DOMAIN table : ReadsMail(other)
    BY DEF SlabInv
  <2>2. id \in 0 .. nextId - 1 /\ nextId \in Nat
    BY <2>1 DEF SlabInv, ReadsMail, Below
  <2>3. nextId > id
    BY <2>2
  <2> QED BY <2>1, <2>3 DEF ReadsMail
<1>2. SlabInv /\ [Coordination!Next]_<<slab, table, nextId, fired, mapping>> => SlabInv'
  BY SlabStep
<1> QED BY <1>1, <1>2, SlabInit, PTL DEF Coordination!Spec, Coordination!slabVars

-----------------------------------------------------------------------------
(* Root1Publications: what lookups show of a layer, for any number of      *)
(* participants, registering threads, layers, epochs and ticks.            *)

Leases == [owner : Owners, expires : 1..MaxTick]

(***************************************************************************)
(* The property needs the table of leases and the table of publications to *)
(* agree: a layer that is not leased, or not yet, has no publication, and  *)
(* a publication is of the participant that leased its layer.  A caller    *)
(* between the reading of its manifest and mutex_ holds any descriptor, of *)
(* a layer that may be gone by the time it goes on.                        *)
(***************************************************************************)
RegistryTypes ==
  /\ leases \in [Pubs!Layers -> Leases \cup {Pubs!NoLease}]
  /\ published \in [Pubs!Layers -> Pubs!Descriptors \cup {Pubs!Nothing}]
  /\ nextLayer \in 1..(MaxLayer + 1)
  /\ registering \in [Callers -> Pubs!Descriptors \cup {Pubs!Nothing}]

TablesAgree ==
  \A l \in Pubs!Layers :
    /\ l >= nextLayer => leases[l] = Pubs!NoLease
    /\ leases[l] = Pubs!NoLease => published[l] = Pubs!Nothing
    /\ published[l] # Pubs!Nothing => published[l].owner = leases[l].owner

RegistryNext == Pubs!Next \/ UNCHANGED <<leases, published, nextLayer, manifest, registering>>

RegistryInv == RegistryTypes /\ TablesAgree

(* A lease is told from none by its owner, a descriptor from nothing by its epoch. *)
LEMMA RecordsApart ==
  ASSUME Pubs!PublicationAssumption
  PROVE  /\ MaxLayer \in Nat /\ Pubs!Layers \subseteq Nat
         /\ \A le \in Leases : le # Pubs!NoLease /\ le.owner \in Owners
         /\ Pubs!NoLease.owner \notin Owners
         /\ \A d \in Pubs!Descriptors :
              d # Pubs!Nothing /\ d.layer \in Pubs!Layers /\ d.owner \in Owners /\ d.epoch \in Nat
BY DEF Pubs!PublicationAssumption, Leases, Pubs!NoLease, Pubs!Descriptors, Pubs!Nothing, Pubs!Layers

(* Who holds a layer leased it. *)
LEMMA HoldersLease ==
  ASSUME Pubs!PublicationAssumption, RegistryInv,
         NEW l \in Pubs!Layers, NEW o \in Owners, Pubs!Holds(l, o)
  PROVE  leases[l] \in Leases
BY RecordsApart DEF RegistryInv, RegistryTypes, Pubs!Holds

(* The two steps that change both tables or the table of leases ... *)
LEMMA LeaseStep ==
  ASSUME Pubs!PublicationAssumption, RegistryInv,
         NEW o \in Owners, NEW tick \in 1..MaxTick, Pubs!LeaseLayer(o, tick)
  PROVE  /\ RegistryInv'
         /\ \A l \in Pubs!Layers :
              leases'[l] # leases[l] => l = nextLayer /\ published'[l] = Pubs!Nothing
         /\ published' = published
<1>1. /\ nextLayer \in Pubs!Layers /\ nextLayer' = nextLayer + 1
      /\ UNCHANGED <<published, registering>>
      /\ \A l \in Pubs!Layers :
           leases'[l] = IF l = nextLayer THEN Pubs!Lease(o, tick) ELSE leases[l]
  BY DEF Pubs!LeaseLayer, RegistryInv, RegistryTypes
<1>2. Pubs!Lease(o, tick) \in Leases
  BY DEF Pubs!Lease, Leases
<1>3. RegistryTypes'
  BY <1>1, <1>2, RecordsApart DEF Pubs!LeaseLayer, RegistryInv, RegistryTypes, Pubs!Layers
<1>4. leases[nextLayer] = Pubs!NoLease /\ published[nextLayer] = Pubs!Nothing
  BY <1>1, RecordsApart DEF RegistryInv, TablesAgree, Pubs!Layers
<1>5. TablesAgree'
  BY <1>1, <1>2, <1>4, RecordsApart DEF RegistryInv, TablesAgree
<1> QED BY <1>1, <1>3, <1>4, <1>5 DEF RegistryInv

LEMMA RenewStep ==
  ASSUME Pubs!PublicationAssumption, RegistryInv, NEW l \in Pubs!Layers,
         NEW o \in Owners, NEW tick \in 1..MaxTick, Pubs!RenewLease(l, o, tick)
  PROVE  /\ RegistryInv'
         /\ \A k \in Pubs!Layers : /\ leases'[k].owner = leases[k].owner
                                   /\ leases'[k] = Pubs!NoLease <=> leases[k] = Pubs!NoLease
         /\ UNCHANGED <<published, nextLayer>>
<1>1. leases[l] \in Leases
  BY HoldersLease DEF Pubs!RenewLease
<1>2. /\ leases' = [leases EXCEPT ![l] = [leases[l] EXCEPT !.expires = tick]]
      /\ UNCHANGED <<published, nextLayer, registering>>
  BY DEF Pubs!RenewLease
<1>3. /\ [leases[l] EXCEPT !.expires = tick] \in Leases
      /\ [leases[l] EXCEPT !.expires = tick].owner = leases[l].owner
  BY <1>1 DEF Leases
<1>4. \A k \in Pubs!Layers : /\ leases'[k].owner = leases[k].owner
                             /\ leases'[k] = Pubs!NoLease <=> leases[k] = Pubs!NoLease
                             /\ leases'[k] \in Leases \cup {Pubs!NoLease}
  BY <1>1, <1>2, <1>3, RecordsApart DEF RegistryInv, RegistryTypes
<1>5. RegistryTypes'
  BY <1>2, <1>3 DEF RegistryInv, RegistryTypes
<1>6. TablesAgree'
  BY <1>2, <1>4 DEF RegistryInv, TablesAgree
<1> QED BY <1>2, <1>4, <1>5, <1>6 DEF RegistryInv

(* ... and the one that publishes, if the layer still is the owner's. *)
LEMMA RegisterStep ==
  ASSUME Pubs!PublicationAssumption, RegistryInv, NEW c \in Callers, Pubs!Register(c)
  PROVE  /\ RegistryInv'
         /\ \A l \in Pubs!Layers : published'[l] # published[l] =>
              leases[l] # Pubs!NoLease /\ published'[l].epoch > published[l].epoch
         /\ UNCHANGED <<leases, nextLayer>>
<1> DEFINE d == registering[c]
<1>1. d \in Pubs!Descriptors /\ d.layer \in Pubs!Layers /\ d.owner \in Owners
  BY RecordsApart DEF Pubs!Register, RegistryInv, RegistryTypes
<1>2. /\ UNCHANGED <<leases, nextLayer>>
      /\ registering' = [registering EXCEPT ![c] = Pubs!Nothing]
      /\ \/ Pubs!Accepts(d) /\ published' = [published EXCEPT ![d.layer] = d]
         \/ UNCHANGED published
  BY DEF Pubs!Register
<1> HIDE DEF d
<1>3. RegistryTypes'
  BY <1>1, <1>2 DEF RegistryInv, RegistryTypes
<1>4. CASE Pubs!Accepts(d) /\ published' = [published EXCEPT ![d.layer] = d]
  <2>1. \A l \in Pubs!Layers : published'[l] = IF l = d.layer THEN d ELSE published[l]
    BY <1>1, <1>4 DEF RegistryInv, RegistryTypes
  <2>2. leases[d.layer] \in Leases /\ leases[d.layer].owner = d.owner
    BY <1>1, <1>4, HoldersLease DEF Pubs!Accepts, Pubs!Holds
  <2>3. leases[d.layer] # Pubs!NoLease /\ d.epoch > published[d.layer].epoch
    <3>1. published[d.layer].epoch \in Nat /\ d.epoch \in Nat
      BY <1>1, RecordsApart DEF RegistryInv, RegistryTypes, Pubs!Nothing
    <3> QED BY <1>4, <2>2, <3>1, RecordsApart DEF Pubs!Accepts
  <2>4. TablesAgree'
    BY <1>2, <2>1, <2>2, <2>3 DEF RegistryInv, TablesAgree
  <2> QED BY <1>2, <1>3, <2>1, <2>3, <2>4 DEF RegistryInv
<1>5. CASE UNCHANGED published
  BY <1>2, <1>3, <1>5 DEF RegistryInv, TablesAgree
<1> QED BY <1>2, <1>4, <1>5

(* retirePublicationLayer, recoverExpired: both tables lose the same layers. *)
LEMMA WithdrawStep ==
  ASSUME Pubs!PublicationAssumption, RegistryInv,
         NEW ls \in SUBSET Pubs!Layers, Pubs!Withdraw(ls)
  PROVE  /\ RegistryInv'
         /\ \A l \in Pubs!Layers : \/ leases'[l] = Pubs!NoLease /\ published'[l] = Pubs!Nothing
                                   \/ leases'[l] = leases[l] /\ published'[l] = published[l]
         /\ UNCHANGED nextLayer
<1>1. RegistryTypes'
  BY DEF Pubs!Withdraw, RegistryInv, RegistryTypes
<1>2. TablesAgree'
  BY DEF Pubs!Withdraw, RegistryInv, TablesAgree
<1> QED BY <1>1, <1>2 DEF Pubs!Withdraw, RegistryInv

(* What no step changes of what is leased and published. *)
QuietRegistry == UNCHANGED <<leases, published, nextLayer>>

LEMMA QuietStep ==
  ASSUME Pubs!PublicationAssumption, RegistryInv,
         \/ \E l \in Pubs!Layers, epoch \in 1..MaxEpoch : Pubs!WriteManifest(l, epoch)
         \/ \E c \in Callers, d \in Pubs!Descriptors : Pubs!BeginRegister(c, d)
         \/ UNCHANGED <<leases, published, nextLayer, manifest, registering>>
  PROVE  RegistryInv' /\ QuietRegistry
<1>1. QuietRegistry /\ registering' \in [Callers -> Pubs!Descriptors \cup {Pubs!Nothing}]
  BY DEF Pubs!WriteManifest, Pubs!BeginRegister, QuietRegistry, RegistryInv, RegistryTypes
<1> QED BY <1>1 DEF QuietRegistry, RegistryInv, RegistryTypes, TablesAgree

-----------------------------------------------------------------------------
(* Every step keeps the agreement of the tables and is one of these four. *)
LEMMA RegistrySteps ==
  ASSUME Pubs!PublicationAssumption, RegistryInv, RegistryNext
  PROVE  /\ RegistryInv'
         /\ \/ QuietRegistry
            \/ \E o \in Owners, tick \in 1..MaxTick : Pubs!LeaseLayer(o, tick)
            \/ \E l \in Pubs!Layers, o \in Owners, tick \in 1..MaxTick : Pubs!RenewLease(l, o, tick)
            \/ \E c \in Callers : Pubs!Register(c)
            \/ \E ls \in SUBSET Pubs!Layers : Pubs!Withdraw(ls)
<1>1. ASSUME NEW l \in Pubs!Layers, NEW o \in Owners, Pubs!Retire(l, o)
      PROVE  \E ls \in SUBSET Pubs!Layers : Pubs!Withdraw(ls)
  BY <1>1 DEF Pubs!Retire
<1>2. ASSUME NEW tick \in 1..MaxTick, Pubs!RecoverExpired(tick)
      PROVE  \E ls \in SUBSET Pubs!Layers : Pubs!Withdraw(ls)
  <2>1. {l \in Pubs!Layers : leases[l] # Pubs!NoLease /\ leases[l].expires <= tick}
          \in SUBSET Pubs!Layers
    OBVIOUS
  <2> QED BY <1>2, <2>1 DEF Pubs!RecoverExpired
<1>3. CASE QuietRegistry /\ RegistryInv'
  BY <1>3
<1> QED BY <1>1, <1>2, <1>3, LeaseStep, RenewStep, RegisterStep, WithdrawStep, QuietStep
       DEF RegistryNext, Pubs!Next

(***************************************************************************)
(* A lookup shows of a layer nothing, then epochs that never fall, of the  *)
(* participant that leased it, then nothing for ever: a registration that  *)
(* validated its manifest before the layer was retired, swept or given a   *)
(* later epoch shows nothing.  (registerPublication, lookupPublication,    *)
(* retirePublicationLayer, the lease sweep.)                               *)
(***************************************************************************)
THEOREM LayersShowOneSpanEach ==
  ASSUME Pubs!PublicationAssumption
  PROVE  Pubs!Spec => LayersShowOneSpan
<1> DEFINE OneSpan(l) ==
      /\ Pubs!Lookup(l)' # Pubs!Nothing => leases'[l].owner = Pubs!Lookup(l)'.owner
      /\ Pubs!Lookup(l) # Pubs!Nothing /\ Pubs!Lookup(l)' # Pubs!Nothing =>
           Pubs!Lookup(l)'.epoch >= Pubs!Lookup(l).epoch
      /\ l < nextLayer /\ leases[l] = Pubs!NoLease =>
           leases'[l] = Pubs!NoLease /\ published'[l] = Pubs!Nothing
<1>1. Pubs!Init => RegistryInv
  <2> SUFFICES ASSUME Pubs!Init PROVE RegistryInv
    OBVIOUS
  <2>1. 1 \in 1..(MaxLayer + 1)
    BY RecordsApart
  <2> QED BY <2>1 DEF Pubs!Init, RegistryInv, RegistryTypes, TablesAgree
<1>2. RegistryInv /\ [Pubs!Next]_<<leases, published, nextLayer, manifest, registering>> => RegistryInv'
  BY RegistrySteps DEF RegistryNext
<1>3. RegistryInv /\ [Pubs!Next]_<<leases, published, nextLayer, manifest, registering>> =>
        [\A l \in Pubs!Layers : OneSpan(l)]_<<leases, published, nextLayer, manifest, registering>>
  <2> SUFFICES ASSUME RegistryInv, RegistryNext, NEW l \in Pubs!Layers PROVE OneSpan(l)
    BY DEF RegistryNext
  <2>1. RegistryInv'
    BY RegistrySteps
  <2>2. /\ leases[l] = Pubs!NoLease => published[l] = Pubs!Nothing
        /\ l >= nextLayer => leases[l] = Pubs!NoLease
        /\ leases'[l] = Pubs!NoLease => published'[l] = Pubs!Nothing
        /\ published'[l] # Pubs!Nothing => published'[l].owner = leases'[l].owner
    BY <2>1 DEF RegistryInv, TablesAgree
  <2>3. Pubs!Lookup(l) = published[l] /\ Pubs!Lookup(l)' = published'[l]
    BY <2>2 DEF Pubs!Lookup
  <2>4. published[l].epoch \in Nat /\ published'[l].epoch \in Nat
    BY <2>1, RecordsApart DEF RegistryInv, RegistryTypes, Pubs!Nothing
  <2>5. published'[l] = published[l] \/ published'[l] = Pubs!Nothing
        \/ published'[l].epoch > published[l].epoch
    BY RegistrySteps, LeaseStep, RenewStep, RegisterStep, WithdrawStep DEF QuietRegistry
  <2>6. ASSUME l < nextLayer, leases[l] = Pubs!NoLease PROVE leases'[l] = Pubs!NoLease
    <3>1. l # nextLayer
      BY <2>6, RecordsApart DEF RegistryInv, RegistryTypes
    <3> QED BY <2>6, <3>1, RegistrySteps, LeaseStep, RenewStep, RegisterStep, WithdrawStep
            DEF QuietRegistry
  <2> QED BY <2>2, <2>3, <2>4, <2>5, <2>6
<1> QED BY <1>1, <1>2, <1>3, PTL DEF Pubs!Spec, Pubs!pubVars, Pubs!LayersShowOneSpan, LayersShowOneSpan

-----------------------------------------------------------------------------
(* LtvHandles: the balance of references, for any number of values and any *)
(* bound on the references that C code takes.                              *)

Holders(v) == {p \in Cells : under[p] = v}
Due(v) == stack[v] + owned[v] + (IF lent = v THEN 1 ELSE 0)

(***************************************************************************)
(* ReferencesBalance is not inductive: a value that goes gives up what is  *)
(* under it, so a free slot must have nothing under it, and what is under  *)
(* a value must have nothing under it in turn, or it would go without      *)
(* giving up its own.                                                      *)
(***************************************************************************)
HandleTypes ==
  /\ refs \in [Cells -> Nat] /\ stack \in [Cells -> Nat] /\ owned \in [Cells -> Nat]
  /\ under \in [Cells -> Cells \cup {Null}]
  /\ lent \in Cells \cup {"idle"}

FreeHangsNothing == \A v \in Cells : refs[v] = 0 => under[v] = Null
TwoLevels == \A p \in Cells : under[p] # Null => under[under[p]] = Null

HandlesInv ==
  /\ HandleTypes
  /\ FreeHangsNothing
  /\ TwoLevels
  /\ \A v \in Cells : refs[v] = Due(v) + Cardinality(Holders(v))

(* Holders are few, and one under which the value is counts. *)
LEMMA HoldersCount ==
  ASSUME Handles!HandlesAssumption, NEW v
  PROVE  /\ IsFiniteSet(Holders(v)) /\ Cardinality(Holders(v)) \in Nat
         /\ \A p \in Cells : under[p] = v => Cardinality(Holders(v)) > 0
<1>1. IsFiniteSet(Holders(v))
  BY FS_Subset DEF Handles!HandlesAssumption, Holders, Handles!IsFiniteSet, IsFiniteSet
<1>2. Cardinality(Holders(v)) \in Nat
  BY <1>1, FS_CardinalityType
<1>3. Cardinality(Holders(v)) = 0 => Holders(v) = {}
  BY <1>1, FS_EmptySet
<1>4. \A p \in Cells : under[p] = v => Holders(v) # {}
  BY DEF Holders
<1> QED BY <1>1, <1>2, <1>3, <1>4

(* A free slot is referred to by nobody. *)
LEMMA FreeIsFree ==
  ASSUME Handles!HandlesAssumption, HandlesInv, NEW v \in Cells
  PROVE  /\ Due(v) \in Nat
         /\ refs[v] = 0 => /\ stack[v] = 0 /\ owned[v] = 0 /\ lent # v
                           /\ \A p \in Cells : under[p] # v
<1>1. stack[v] \in Nat /\ owned[v] \in Nat
  BY DEF HandlesInv, HandleTypes
<1>2. refs[v] = Due(v) + Cardinality(Holders(v)) /\ Cardinality(Holders(v)) \in Nat
  BY HoldersCount DEF HandlesInv
<1>3. Due(v) \in Nat /\ (Due(v) = 0 => stack[v] = 0 /\ owned[v] = 0 /\ lent # v)
  BY <1>1 DEF Due
<1>4. refs[v] = 0 => Due(v) = 0 /\ Cardinality(Holders(v)) = 0
  BY <1>2, <1>3
<1>5. \A p \in Cells : under[p] = v => Cardinality(Holders(v)) > 0
  BY HoldersCount
<1> QED BY <1>3, <1>4, <1>5

(* A reference to v, let go of by whoever had it: the value may go with it. *)
LEMMA DropKeeps ==
  ASSUME Handles!HandlesAssumption, HandlesInv, NEW v \in Cells, Handles!Drop(v),
         stack' \in [Cells -> Nat], owned' \in [Cells -> Nat], lent' \in Cells \cup {"idle"},
         \A w \in Cells : Due(w)' = IF w = v THEN Due(w) - 1 ELSE Due(w)
  PROVE  HandlesInv'
<1> DEFINE one == [refs EXCEPT ![v] = @ - 1]
<1>1. /\ refs \in [Cells -> Nat] /\ under \in [Cells -> Cells \cup {Null}]
      /\ \A w \in Cells : /\ Due(w) \in Nat /\ Due(w)' \in Nat
                          /\ Cardinality(Holders(w)) \in Nat
                          /\ refs[w] = Due(w) + Cardinality(Holders(w))
  <2>1. \A w \in Cells : Due(w)' \in Nat
    BY DEF Due
  <2> QED BY <2>1, FreeIsFree, HoldersCount DEF HandlesInv, HandleTypes
<1>2. refs[v] > 0 /\ refs[v] - 1 \in Nat
  BY <1>1
<1>3. one \in [Cells -> Nat]
      /\ \A w \in Cells : one[w] = IF w = v THEN refs[w] - 1 ELSE refs[w]
  BY <1>1, <1>2
<1>4. CASE refs[v] = 1 /\ under[v] # Null
  <2> DEFINE c == under[v]
  <2>1. c \in Cells /\ c # v /\ under[c] = Null
    BY <1>1, <1>4 DEF HandlesInv, TwoLevels
  <2>2. refs[c] > 0
    BY <1>1, <2>1, FreeIsFree DEF HandlesInv
  <2>3. refs' = [one EXCEPT ![c] = @ - 1]
    BY <1>3, <1>4 DEF Handles!Drop, Handles!Less
  <2>4. /\ refs' \in [Cells -> Nat]
        /\ \A w \in Cells : refs'[w] = IF w \in {v, c} THEN refs[w] - 1 ELSE refs[w]
    BY <1>1, <1>2, <1>3, <2>1, <2>2, <2>3
  <2>5. \A w \in Cells : under'[w] = IF w = v THEN Null ELSE under[w]
    BY <1>1, <1>4, <2>1, <2>2, <2>4 
       DEF Handles!Drop, Handles!Hanging, HandlesInv, FreeHangsNothing
  <2>6. under' \in [Cells -> Cells \cup {Null}]
    BY <1>1 DEF Handles!Drop, Handles!Hanging
  <2>7. FreeHangsNothing' /\ TwoLevels'
    BY <1>1, <1>4, <2>1, <2>4, <2>5, <2>6
       DEF Handles!Drop, Handles!Hanging, HandlesInv, FreeHangsNothing, TwoLevels,
           Handles!HandlesAssumption
  <2>8. ASSUME NEW w \in Cells
        PROVE  refs'[w] = Due(w)' + Cardinality(Holders(w)')
    <3>1. CASE w = c
      <4>1. Holders(w)' = Holders(w) \ {v} /\ v \in Holders(w)
        BY <2>1, <2>5, <3>1, Handles!HandlesAssumption DEF Holders, Handles!HandlesAssumption
      <4>2. Cardinality(Holders(w)') = Cardinality(Holders(w)) - 1
        BY <4>1, HoldersCount, FS_RemoveElement
      <4> QED BY <1>1, <2>1, <2>4, <3>1, <4>2
    <3>2. CASE w # c
      <4>1. Holders(w)' = Holders(w)
        BY <2>5, <3>2 DEF Holders, Handles!HandlesAssumption
      <4> QED BY <1>1, <1>2, <2>1, <2>4, <3>2, <4>1
    <3> QED BY <3>1, <3>2
  <2> QED BY <2>4, <2>6, <2>7, <2>8 DEF HandlesInv, HandleTypes
<1>5. CASE ~(refs[v] = 1 /\ under[v] # Null)
  <2>1. refs' = one
    BY <1>1, <1>3, <1>5 DEF Handles!Drop, Handles!Less
  <2>2. \A w \in Cells : under'[w] = under[w]
    BY <1>1, <1>3, <1>5, <2>1 
       DEF Handles!Drop, Handles!Hanging, HandlesInv, FreeHangsNothing
  <2>3. under' \in [Cells -> Cells \cup {Null}] /\ FreeHangsNothing'
    BY <1>1, <2>1 DEF Handles!Drop, Handles!Hanging, FreeHangsNothing
  <2>4. TwoLevels'
    BY <1>1, <2>2 DEF HandlesInv, TwoLevels
  <2>5. ASSUME NEW w \in Cells
        PROVE  refs'[w] = Due(w)' + Cardinality(Holders(w)')
    <3>1. Holders(w)' = Holders(w)
      BY <2>2 DEF Holders
    <3> QED BY <1>1, <1>2, <1>3, <2>1, <3>1
  <2> QED BY <1>3, <2>1, <2>3, <2>4, <2>5 DEF HandlesInv, HandleTypes
<1> QED BY <1>4, <1>5

(* A reference more to v, and what C or the VM has of it as much. *)
LEMMA RefKeeps ==
  ASSUME Handles!HandlesAssumption, HandlesInv, NEW v \in Cells,
         \A w \in Cells : refs'[w] = IF w = v THEN refs[w] + 1 ELSE refs[w],
         \A w \in Cells : Due(w)' = IF w = v THEN Due(w) + 1 ELSE Due(w),
         UNCHANGED under, HandleTypes'
  PROVE  HandlesInv'
<1>1. \A w \in Cells : refs[w] \in Nat /\ Cardinality(Holders(w)) \in Nat /\ Due(w) \in Nat
                       /\ refs[w] = Due(w) + Cardinality(Holders(w))
  BY HoldersCount, FreeIsFree DEF HandlesInv, HandleTypes
<1>2. FreeHangsNothing' /\ TwoLevels'
  BY <1>1 DEF HandlesInv, FreeHangsNothing, TwoLevels
<1>3. ASSUME NEW w \in Cells PROVE refs'[w] = Due(w)' + Cardinality(Holders(w)')
  <2>1. Holders(w)' = Holders(w)
    BY DEF Holders
  <2> QED BY <1>1, <2>1
<1> QED BY <1>2, <1>3 DEF HandlesInv

(* The setter: c hangs under p, which had nothing under it. *)
LEMMA HangKeeps ==
  ASSUME Handles!HandlesAssumption, HandlesInv, NEW p \in Cells, NEW c \in Cells,
         Handles!LtvSetNamed(p, c)
  PROVE  HandlesInv'
<1>1. \A w \in Cells : refs[w] \in Nat /\ Cardinality(Holders(w)) \in Nat /\ Due(w) \in Nat
                       /\ refs[w] = Due(w) + Cardinality(Holders(w))
  BY HoldersCount, FreeIsFree DEF HandlesInv, HandleTypes
<1>2. /\ lent \in Cells /\ p # c /\ under[p] = Null /\ under[c] = Null
      /\ \A q \in Cells : under[q] # p
      /\ UNCHANGED <<stack, owned, lent>>
  BY DEF Handles!LtvSetNamed, Handles!InC, HandlesInv, HandleTypes
<1>3. /\ \A w \in Cells : refs'[w] = IF w = c THEN refs[w] + 1 ELSE refs[w]
      /\ \A w \in Cells : under'[w] = IF w = p THEN c ELSE under[w]
      /\ HandleTypes'
  BY <1>1, <1>2 DEF Handles!LtvSetNamed, Handles!Hung, HandlesInv, HandleTypes
<1>4. refs[p] > 0
  <2>1. owned[p] > 0 \/ p = lent
    BY <1>2 DEF Handles!LtvSetNamed, Handles!Named, Handles!Found
  <2> QED BY <1>1, <1>2, <2>1, FreeIsFree DEF HandlesInv, HandleTypes
<1>5. FreeHangsNothing' /\ TwoLevels'
  BY <1>1, <1>2, <1>3, <1>4, Handles!HandlesAssumption
     DEF HandlesInv, HandleTypes, FreeHangsNothing, TwoLevels, Handles!HandlesAssumption
<1>6. ASSUME NEW w \in Cells PROVE refs'[w] = Due(w)' + Cardinality(Holders(w)')
  <2>0. Due(w)' = Due(w)
    BY <1>2 DEF Due
  <2>1. CASE w = c
    <3>1. Holders(w)' = Holders(w) \cup {p} /\ p \notin Holders(w)
      BY <1>2, <1>3, <2>1 DEF Holders, Handles!HandlesAssumption
    <3>2. Cardinality(Holders(w)') = Cardinality(Holders(w)) + 1
      BY <3>1, HoldersCount, FS_AddElement
    <3> QED BY <1>1, <1>3, <2>0, <2>1, <3>2
  <2>2. CASE w # c
    <3>1. Holders(w)' = Holders(w)
      BY <1>2, <1>3, <2>2 DEF Holders, Handles!HandlesAssumption
    <3> QED BY <1>1, <1>3, <2>0, <2>2, <3>1
  <2> QED BY <2>1, <2>2
<1> QED BY <1>3, <1>5, <1>6 DEF HandlesInv

-----------------------------------------------------------------------------
LEMMA HandlesStep ==
  ASSUME Handles!HandlesAssumption
  PROVE  HandlesInv /\ [Handles!Next]_<<refs, stack, owned, under, lent>> => HandlesInv'
<1> SUFFICES ASSUME HandlesInv, [Handles!Next]_<<refs, stack, owned, under, lent>> PROVE HandlesInv'
  OBVIOUS
<1>t. /\ HandleTypes
      /\ \A w \in Cells : refs[w] \in Nat /\ stack[w] \in Nat /\ owned[w] \in Nat
  BY DEF HandlesInv, HandleTypes
<1>1. ASSUME NEW v \in Cells, Handles!Push(v) PROVE HandlesInv'
  <2>1. refs[v] = 0 /\ stack[v] = 0 /\ owned[v] = 0
    BY <1>t, <1>1, FreeIsFree DEF Handles!Push, Handles!Alive
  <2>2. /\ \A w \in Cells : refs'[w] = IF w = v THEN refs[w] + 1 ELSE refs[w]
        /\ \A w \in Cells : stack'[w] = IF w = v THEN stack[w] + 1 ELSE stack[w]
        /\ HandleTypes' /\ UNCHANGED <<owned, under, lent>>
    BY <1>t, <1>1, <2>1 DEF Handles!Push, HandleTypes
  <2>3. \A w \in Cells : Due(w)' = IF w = v THEN Due(w) + 1 ELSE Due(w)
    BY <1>t, <2>2 DEF Due
  <2> QED BY <2>2, <2>3, RefKeeps
<1>2. ASSUME NEW v \in Cells, Handles!Pop(v) PROVE HandlesInv'
  <2>1. /\ \A w \in Cells : stack'[w] = IF w = v THEN stack[w] - 1 ELSE stack[w]
        /\ stack' \in [Cells -> Nat] /\ owned' \in [Cells -> Nat]
        /\ lent' \in Cells \cup {"idle"}
        /\ UNCHANGED <<owned, lent>> /\ Handles!Drop(v)
    BY <1>t, <1>2 DEF Handles!Pop, HandleTypes
  <2>2. \A w \in Cells : Due(w)' = IF w = v THEN Due(w) - 1 ELSE Due(w)
    BY <1>t, <2>1 DEF Due
  <2> QED BY <2>1, <2>2, DropKeeps
<1>3. ASSUME NEW v \in Cells, Handles!Call(v) PROVE HandlesInv'
  <2>1. /\ \A w \in Cells : stack'[w] = IF w = v THEN stack[w] - 1 ELSE stack[w]
        /\ lent = "idle" /\ lent' = v /\ HandleTypes'
        /\ UNCHANGED <<refs, owned, under>>
    BY <1>t, <1>3 DEF Handles!Call, Handles!InC, HandleTypes
  <2>2. \A w \in Cells : Due(w)' = Due(w) /\ Holders(w)' = Holders(w)
    BY <1>t, <2>1 DEF Due, Holders, Handles!HandlesAssumption
  <2> QED BY <2>1, <2>2 DEF HandlesInv, FreeHangsNothing, TwoLevels
<1>4. ASSUME NEW v \in Cells, Handles!LtvCreate(v) PROVE HandlesInv'
  <2>1. refs[v] = 0 /\ stack[v] = 0 /\ owned[v] = 0
    BY <1>t, <1>4, FreeIsFree DEF Handles!LtvCreate, Handles!Alive
  <2>2. /\ \A w \in Cells : refs'[w] = IF w = v THEN refs[w] + 1 ELSE refs[w]
        /\ \A w \in Cells : owned'[w] = IF w = v THEN owned[w] + 1 ELSE owned[w]
        /\ HandleTypes' /\ UNCHANGED <<stack, under, lent>>
    BY <1>t, <1>4, <2>1 DEF Handles!LtvCreate, HandleTypes
  <2>3. \A w \in Cells : Due(w)' = IF w = v THEN Due(w) + 1 ELSE Due(w)
    BY <1>t, <2>2 DEF Due
  <2> QED BY <2>2, <2>3, RefKeeps
<1>5. ASSUME NEW v \in Cells, Handles!LtvRef(v) PROVE HandlesInv'
  <2>1. /\ \A w \in Cells : refs'[w] = IF w = v THEN refs[w] + 1 ELSE refs[w]
        /\ \A w \in Cells : owned'[w] = IF w = v THEN owned[w] + 1 ELSE owned[w]
        /\ HandleTypes' /\ UNCHANGED <<stack, under, lent>>
    BY <1>t, <1>5 DEF Handles!LtvRef, HandleTypes
  <2>2. \A w \in Cells : Due(w)' = IF w = v THEN Due(w) + 1 ELSE Due(w)
    BY <1>t, <2>1 DEF Due
  <2> QED BY <2>1, <2>2, RefKeeps
<1>6. ASSUME NEW v \in Cells, Handles!LtvUnref(v) PROVE HandlesInv'
  <2>1. /\ \A w \in Cells : owned'[w] = IF w = v THEN owned[w] - 1 ELSE owned[w]
        /\ stack' \in [Cells -> Nat] /\ owned' \in [Cells -> Nat]
        /\ lent' \in Cells \cup {"idle"}
        /\ UNCHANGED <<stack, lent>> /\ Handles!Drop(v)
    BY <1>t, <1>6 DEF Handles!LtvUnref, HandleTypes
  <2>2. \A w \in Cells : Due(w)' = IF w = v THEN Due(w) - 1 ELSE Due(w)
    BY <1>t, <2>1 DEF Due
  <2> QED BY <2>1, <2>2, DropKeeps
<1>7. ASSUME NEW v \in Cells \cup {Null}, Handles!Return(v) PROVE HandlesInv'
  <2>1. /\ lent \in Cells /\ Handles!Drop(lent) /\ lent' = "idle"
        /\ \A w \in Cells : owned[w] = (IF w = v THEN 1 ELSE 0) /\ owned'[w] = 0
        /\ \A w \in Cells : stack'[w] = IF w = v THEN stack[w] + 1 ELSE stack[w]
        /\ stack' \in [Cells -> Nat] /\ owned' \in [Cells -> Nat]
    BY <1>t, <1>7 DEF Handles!Return, Handles!InC, HandleTypes
  <2>2. \A w \in Cells : Due(w)' = IF w = lent THEN Due(w) - 1 ELSE Due(w)
    BY <1>t, <2>1 DEF Due, Handles!HandlesAssumption
  <2> QED BY <2>1, <2>2, DropKeeps
<1>8. CASE UNCHANGED <<refs, stack, owned, under, lent>>
  <2>1. \A w : Due(w)' = Due(w) /\ Holders(w)' = Holders(w)
    BY <1>8 DEF Due, Holders
  <2> QED BY <1>8, <2>1
          DEF HandlesInv, HandleTypes, FreeHangsNothing, TwoLevels
<1> QED BY <1>1, <1>2, <1>3, <1>4, <1>5, <1>6, <1>7, <1>8, HangKeeps DEF Handles!Next

LEMMA HandlesInit ==
  ASSUME Handles!HandlesAssumption
  PROVE  Handles!Init => HandlesInv
<1> SUFFICES ASSUME Handles!Init PROVE HandlesInv
  OBVIOUS
<1>1. \A v \in Cells : Holders(v) = {}
  BY DEF Handles!Init, Holders, Handles!HandlesAssumption
<1>2. \A v \in Cells : Due(v) = 0 /\ refs[v] = 0
  BY DEF Handles!Init, Due, Handles!HandlesAssumption
<1> QED BY <1>1, <1>2, FS_EmptySet
        DEF Handles!Init, HandlesInv, HandleTypes, FreeHangsNothing, TwoLevels

(***************************************************************************)
(* Every value has exactly the references that the VM, the call in         *)
(* progress, the C code and the trees hold, so that nothing is freed under *)
(* anybody's hands and nothing is kept for nobody.  (ltv_ref, ltv_unref,   *)
(* ltv_set_named, convertReturn.)                                          *)
(***************************************************************************)
THEOREM ReferencesAreBalanced ==
  ASSUME Handles!HandlesAssumption
  PROVE  Handles!Spec => []ReferencesBalance
<1>1. HandlesInv => ReferencesBalance
  <2>1. \A S : Handles!Cardinality(S) = Cardinality(S)
    BY DEF Handles!Cardinality, Cardinality
  <2> QED BY <2>1 DEF HandlesInv, ReferencesBalance, Handles!ReferencesBalance, Due, Holders
<1> QED BY <1>1, HandlesInit, HandlesStep, PTL DEF Handles!Spec, Handles!handleVars

-----------------------------------------------------------------------------
(* Root1Primitives: what a program has been told of a resource is so, for  *)
(* any participants, resources, ticks and capacity of the mailboxes.       *)

Notices == {"message", "owner_died", "granted"}
Answers == {"none", "queued", "revoked", "owned", "lapsed"}

\* Waiting for a handle, with the grant or without.
WaitsFor(p, h) == claims[p][h] \in {"queued", "revoked"}
HasGrant(p)    == "granted" \in Words!Range(mail[p])
InLine(p, h)   == p \in Words!Range(queue[h])
Owns(p, h)     == holder[h].owner = p
Distinct(s)    == \A i, j \in DOMAIN s : s[i] = s[j] => i = j

WordTypes ==
  /\ DOMAIN holder = Words!Handles /\ \A h \in Words!Handles : "owner" \in DOMAIN holder[h]
  /\ queue \in [Words!Handles -> Seq(Members)]
  /\ mail \in [Members -> Seq(Notices)]
  /\ claims \in [Members -> [Words!Handles -> Answers]]

\* A program waits for one resource, and a grant is for that one.
WaitsForOne ==
  /\ \A p \in Members, g, h \in Words!Handles : WaitsFor(p, g) /\ WaitsFor(p, h) => g = h
  /\ \A p \in Members : HasGrant(p) => Words!Waits(p)

\* Who is in a queue was told so, is there once, and has no grant yet.
LinesAreWaiting ==
  /\ \A h \in Words!Handles : Distinct(queue[h])
  /\ \A p \in Members, h \in Words!Handles :
       InLine(p, h) => claims[p][h] = "queued" /\ ~Owns(p, h) /\ ~HasGrant(p)

\* ClaimsAreTrue, by participant and handle.
Granted(p, h) == Owns(p, h) /\ (p \in lost \/ HasGrant(p))
ClaimIsTrue(p, h) ==
  /\ claims[p][h] = "owned" => Owns(p, h)
  /\ claims[p][h] = "queued" => Granted(p, h) \/ InLine(p, h)
  /\ Owns(p, h) => claims[p][h] = "owned" \/ (claims[p][h] = "queued" /\ Granted(p, h))

ClaimsInv ==
  /\ WordTypes /\ WaitsForOne /\ LinesAreWaiting
  /\ \A p \in Members, h \in Words!Handles : ClaimIsTrue(p, h)

\* A lease is of a participant on a handle.
LeasesInv ==
  terms \in [Words!Handles -> {Words!NoLease}
                    \cup [owner : Members, handle : Words!Handles, expires : 1..LastTick]]

WordInv == ClaimsInv /\ LeasesInv

-----------------------------------------------------------------------------
(* Sequences without duplicates, as queues are, and mailboxes of a         *)
(* capacity.                                                               *)

LEMMA AppendRange ==
  ASSUME NEW S, NEW s \in Seq(S), NEW e \in S
  PROVE  /\ Append(s, e) \in Seq(S) /\ Words!Range(Append(s, e)) = Words!Range(s) \cup {e}
         /\ Distinct(s) /\ e \notin Words!Range(s) => Distinct(Append(s, e))
<1> DEFINE t == Append(s, e)
<1>1. t \in Seq(S) /\ Len(t) = Len(s) + 1 /\ t[Len(t)] = e /\ \A i \in 1 .. Len(s) : t[i] = s[i]
  BY AppendProperties
<1>2. DOMAIN s = 1 .. Len(s) /\ DOMAIN t = 1 .. Len(t) /\ Len(s) \in Nat
  BY <1>1
<1> HIDE DEF t
<1>3. Words!Range(t) = Words!Range(s) \cup {e}
  <2>1. ASSUME NEW x \in Words!Range(t) PROVE x \in Words!Range(s) \cup {e}
    <3>1. PICK i \in 1 .. Len(t) : x = t[i]
      BY <1>2 DEF Words!Range
    <3>2. i \in 1 .. Len(s) \/ i = Len(t)
      BY <1>1, <1>2
    <3> QED BY <1>1, <1>2, <3>1, <3>2 DEF Words!Range
  <2>2. ASSUME NEW x \in Words!Range(s) PROVE x \in Words!Range(t)
    <3>1. PICK i \in 1 .. Len(s) : x = s[i]
      BY <1>2 DEF Words!Range
    <3>2. i \in 1 .. Len(t)
      BY <1>1, <1>2
    <3> QED BY <1>1, <1>2, <3>1, <3>2 DEF Words!Range
  <2>3. e \in Words!Range(t)
    <3>1. Len(t) \in 1 .. Len(t)
      BY <1>1, <1>2
    <3> QED BY <1>1, <1>2, <3>1 DEF Words!Range
  <2> QED BY <2>1, <2>2, <2>3
<1>4. ASSUME Distinct(s), e \notin Words!Range(s) PROVE Distinct(t)
  <2> SUFFICES ASSUME NEW i \in 1 .. Len(t), NEW j \in 1 .. Len(t), t[i] = t[j] PROVE i = j
    BY <1>2 DEF Distinct
  <2>1. (i \in 1 .. Len(s) \/ i = Len(t)) /\ (j \in 1 .. Len(s) \/ j = Len(t))
    BY <1>1, <1>2
  <2>2. \A k \in 1 .. Len(s) : s[k] # e
    BY <1>2, <1>4 DEF Words!Range
  <2> QED BY <1>1, <1>2, <1>4, <2>1, <2>2 DEF Distinct
<1> QED BY <1>1, <1>3, <1>4 DEF t

LEMMA TailRange ==
  ASSUME NEW S, NEW s \in Seq(S), s # <<>>, Distinct(s)
  PROVE  /\ Head(s) \in S /\ Head(s) \in Words!Range(s)
         /\ Tail(s) \in Seq(S) /\ Distinct(Tail(s))
         /\ Words!Range(Tail(s)) = Words!Range(s) \ {Head(s)}
<1> DEFINE t == Tail(s)
<1>1. /\ Head(s) = s[1] /\ Len(s) \in Nat \ {0} /\ t \in Seq(S) /\ Len(t) = Len(s) - 1
      /\ \A i \in 1 .. Len(t) : t[i] = s[i + 1]
  BY HeadTailProperties, EmptySeq
<1>2. DOMAIN s = 1 .. Len(s) /\ DOMAIN t = 1 .. Len(t)
  BY <1>1
<1> HIDE DEF t
<1>3. Head(s) \in S /\ Head(s) \in Words!Range(s)
  BY <1>1, <1>2 DEF Words!Range
<1>4. Distinct(t)
  <2> SUFFICES ASSUME NEW i \in 1 .. Len(t), NEW j \in 1 .. Len(t), t[i] = t[j] PROVE i = j
    BY <1>2 DEF Distinct
  <2>1. i + 1 \in 1 .. Len(s) /\ j + 1 \in 1 .. Len(s)
    BY <1>1
  <2> QED BY <1>1, <1>2, <2>1 DEF Distinct
<1>5. Words!Range(t) = Words!Range(s) \ {Head(s)}
  <2>1. ASSUME NEW x \in Words!Range(t) PROVE x \in Words!Range(s) \ {Head(s)}
    <3>1. PICK i \in 1 .. Len(t) : x = t[i]
      BY <1>2 DEF Words!Range
    <3>2. i + 1 \in 1 .. Len(s) /\ 1 \in 1 .. Len(s) /\ i + 1 # 1
      BY <1>1
    <3>3. x = s[i + 1]
      BY <1>1, <3>1
    <3> QED BY <1>1, <1>2, <3>2, <3>3 DEF Words!Range, Distinct
  <2>2. ASSUME NEW x \in Words!Range(s) \ {Head(s)} PROVE x \in Words!Range(t)
    <3>1. PICK i \in 1 .. Len(s) : x = s[i]
      BY <1>2 DEF Words!Range
    <3>2. PICK k \in 1 .. Len(t) : i = k + 1
      <4>1. i # 1
        BY <1>1, <3>1
      <4>2. i - 1 \in 1 .. Len(t) /\ i = (i - 1) + 1
        BY <1>1, <4>1
      <4> QED BY <4>2
    <3> QED BY <1>1, <1>2, <3>1, <3>2 DEF Words!Range
  <2> QED BY <2>1, <2>2
<1> QED BY <1>1, <1>3, <1>4, <1>5 DEF t

\* A grant reaches the mailbox, or finds it full.
LEMMA GrantArrives ==
  ASSUME Words!PrimitivesAssumption, NEW s \in Seq(Notices), NEW notices \in {<<>>,
         <<"owner_died">>},
         NEW all, all = s \o notices \o <<"granted">>,
         NEW m, m = SubSeq(all, 1, IF Len(all) > Room THEN Room ELSE Len(all))
  PROVE  m \in Seq(Notices) /\ (Len(all) > Room \/ "granted" \in Words!Range(m))
<1>1. notices \in Seq(Notices) /\ <<"granted">> \in Seq(Notices)
  <2>1. <<>> \in Seq(Notices)
    OBVIOUS
  <2>2. "owner_died" \in Notices /\ "granted" \in Notices
    BY DEF Notices
  <2>3. <<"owner_died">> \in Seq(Notices) /\ <<"granted">> \in Seq(Notices)
    BY <2>2
  <2> QED BY <2>1, <2>3
<1>2. s \o notices \in Seq(Notices)
  BY <1>1, ConcatProperties
<1> DEFINE t == s \o notices
<1>3. /\ all \in Seq(Notices) /\ Len(all) = Len(t) + 1 /\ Len(t) \in Nat
      /\ all[Len(t) + 1] = "granted"
  <2>1. all \in Seq(Notices) /\ Len(all) = Len(t) + Len(<<"granted">>)
    BY <1>1, <1>2, ConcatProperties
  <2>2. Len(<<"granted">>) = 1 /\ Len(t) \in Nat
    BY <1>2
  <2>3. all[Len(t) + 1] = <<"granted">>[Len(t) + 1 - Len(t)]
    BY <1>1, <1>2, <2>1, <2>2, ConcatProperties
  <2>4. Len(t) + 1 - Len(t) = 1 /\ <<"granted">>[1] = "granted"
    BY <2>2
  <2> QED BY <2>1, <2>2, <2>3, <2>4
<1> DEFINE n == IF Len(all) > Room THEN Room ELSE Len(all)
<1>4. n \in Nat /\ n <= Len(all)
  BY <1>3 DEF Words!PrimitivesAssumption
<1>5. m \in Seq(Notices) /\ Len(m) = n /\ \A i \in 1 .. n : m[i] = all[i]
  <2> HIDE DEF n
  <2>1. m = SubSeq(all, 1, n)
    BY DEF n
  <2>2. \A i \in 1 .. n : all[i] \in Notices
    BY <1>3, <1>4
  <2>3. /\ m \in Seq(Notices) /\ Len(m) = IF 1 <= n THEN n - 1 + 1 ELSE 0
        /\ \A i \in 1 .. n - 1 + 1 : m[i] = all[1 + i - 1]
    <3>1. 1 \in Int /\ n \in Int
      BY <1>4
    <3>2. /\ SubSeq(all, 1, n) \in Seq(Notices)
          /\ Len(SubSeq(all, 1, n)) = IF 1 <= n THEN n - 1 + 1 ELSE 0
          /\ \A i \in 1 .. n - 1 + 1 : SubSeq(all, 1, n)[i] = all[1 + i - 1]
      BY ONLY <2>2, <3>1, SubSeqProperties
    <3> QED BY <2>1, <3>2
  <2>4. n - 1 + 1 = n /\ \A i \in 1 .. n : 1 + i - 1 = i
    BY <1>4
  <2> QED BY <1>4, <2>3, <2>4
<1>6. ASSUME ~(Len(all) > Room) PROVE "granted" \in Words!Range(m)
  <2>1. n = Len(all)
    BY <1>6
  <2>2. Len(all) \in 1 .. n /\ DOMAIN m = 1 .. n
    BY <1>3, <1>5, <2>1
  <2> QED BY <1>3, <1>5, <2>2 DEF Words!Range
<1> QED BY <1>5, <1>6
-----------------------------------------------------------------------------
(* The steps.                                                              *)

LEMMA WordsInit ==
  ASSUME Words!PrimitivesAssumption
  PROVE  Words!Init => WordInv
<1> SUFFICES ASSUME Words!Init PROVE WordInv
  OBVIOUS
<1>1. WordTypes
  BY DEF Words!Init, WordTypes, Words!Free, Answers, Words!ResourceKeys
<1>2. \A p \in Members, h \in Words!Handles : claims[p][h] = "none" /\ ~Owns(p, h)
  BY DEF Words!Init, Owns, Words!Free, Words!Nobody, Words!PrimitivesAssumption
<1>3. \A p \in Members : ~HasGrant(p)
  BY DEF Words!Init, HasGrant, Words!Range
<1>4. \A h \in Words!Handles : Distinct(queue[h]) /\ \A p \in Members : ~InLine(p, h)
  BY DEF Words!Init, Words!ResourceKeys, Distinct, InLine, Words!Range
<1>5. WaitsForOne
  BY <1>2, <1>3 DEF WaitsForOne, WaitsFor
<1>6. \A p \in Members, h \in Words!Handles : ClaimIsTrue(p, h)
  BY <1>2 DEF ClaimIsTrue
<1>7. LeasesInv
  BY DEF Words!Init, LeasesInv, Words!ResourceKeys
<1> QED BY <1>1, <1>4, <1>5, <1>6, <1>7 DEF WordInv, ClaimsInv, LinesAreWaiting

\* Nothing of this moves.
LEMMA ClaimsRest ==
  ASSUME ClaimsInv, UNCHANGED <<holder, queue, mail, claims, lost>>
  PROVE  ClaimsInv'
BY DEF ClaimsInv, WordTypes, WaitsForOne, LinesAreWaiting, ClaimIsTrue, Granted, HasGrant,
       Owns, InLine, WaitsFor, Words!Waits, Distinct

\* A message in a mailbox is no grant.
LEMMA WordSendKeeps ==
  ASSUME ClaimsInv, NEW p \in Members, Words!Send(p)
  PROVE  ClaimsInv'
<1>1. mail[p] \in Seq(Notices) /\ "message" \in Notices
  BY DEF ClaimsInv, WordTypes, Notices
<1>2. /\ mail' = [mail EXCEPT ![p] = Append(mail[p], "message")]
      /\ UNCHANGED <<holder, queue, claims, lost>>
  BY DEF Words!Send
<1> DEFINE letter == Append(mail[p], "message")
<1>3. letter \in Seq(Notices) /\ Words!Range(letter) = Words!Range(mail[p]) \cup {"message"}
  BY <1>1, AppendRange
<1> HIDE DEF letter
<1>4. mail' = [mail EXCEPT ![p] = letter]
  BY <1>2 DEF letter
<1>5. mail \in [Members -> Seq(Notices)]
  BY DEF ClaimsInv, WordTypes
<1>6. mail' \in [Members -> Seq(Notices)] /\ \A q \in Members : HasGrant(q)' <=> HasGrant(q)
  <2>1. mail' \in [Members -> Seq(Notices)]
    BY <1>3, <1>4, <1>5
  <2>2. \A q \in Members : mail'[q] = IF q = p THEN letter ELSE mail[q]
    BY <1>4, <1>5
  <2>3. "granted" \in Words!Range(letter) <=> "granted" \in Words!Range(mail[p])
    BY <1>3
  <2> QED BY <2>1, <2>2, <2>3 DEF HasGrant
<1>7. \A q \in Members : Words!Waits(q)' <=> Words!Waits(q)
  BY <1>2 DEF Words!Waits
<1>8. \A q \in Members, h \in Words!Handles :
        /\ Owns(q, h)' <=> Owns(q, h)
        /\ InLine(q, h)' <=> InLine(q, h)
        /\ WaitsFor(q, h)' <=> WaitsFor(q, h)
        /\ Granted(q, h)' <=> Granted(q, h)
        /\ claims'[q][h] = claims[q][h]
  BY <1>2, <1>6 DEF Owns, InLine, WaitsFor, Granted
<1>9. WordTypes'
  BY <1>2, <1>6 DEF ClaimsInv, WordTypes
<1>10. WaitsForOne' /\ LinesAreWaiting'
  BY <1>2, <1>6, <1>7, <1>8 DEF ClaimsInv, WaitsForOne, LinesAreWaiting, Distinct
<1>11. \A q \in Members, h \in Words!Handles : ClaimIsTrue(q, h)'
  BY <1>8 DEF ClaimsInv, ClaimIsTrue
<1> QED BY <1>9, <1>10, <1>11 DEF ClaimsInv

\* A grant that was drained is for the one resource waited for.
LEMMA WordDrainKeeps ==
  ASSUME ClaimsInv, NEW p \in Members, Words!Drain(p)
  PROVE  ClaimsInv'
<1>1. /\ mail' = [mail EXCEPT ![p] = <<>>] /\ claims' = Words!Told(p)
      /\ UNCHANGED <<holder, queue, lost>>
  BY DEF Words!Drain
<1>2. mail \in [Members -> Seq(Notices)] /\ claims \in [Members -> [Words!Handles -> Answers]]
  BY DEF ClaimsInv, WordTypes
<1>3. mail' \in [Members -> Seq(Notices)]
  BY <1>1, <1>2
<1>4. \A q \in Members : HasGrant(q)' <=> q # p /\ HasGrant(q)
  <2>1. \A q \in Members : mail'[q] = IF q = p THEN <<>> ELSE mail[q]
    BY <1>1, <1>2
  <2> QED BY <2>1 DEF HasGrant, Words!Range
<1>5. \A c \in Answers : Words!Heard(c) \in Answers /\ Words!Heard(c) \notin {"queued", "revoked"}
  BY DEF Answers, Words!Heard
<1>6. /\ claims' \in [Members -> [Words!Handles -> Answers]]
      /\ \A q \in Members, h \in Words!Handles :
           claims'[q][h] = IF q = p /\ HasGrant(p) THEN Words!Heard(claims[q][h]) ELSE claims[q][h]
  <2>1. CASE HasGrant(p)
    <3> DEFINE told == [h \in Words!Handles |-> Words!Heard(claims[p][h])]
    <3>1. claims' = [claims EXCEPT ![p] = told]
      BY <1>1, <2>1 DEF Words!Told, HasGrant
    <3>2. /\ told \in [Words!Handles -> Answers]
          /\ \A h \in Words!Handles : told[h] = Words!Heard(claims[p][h])
      BY <1>2, <1>5
    <3> HIDE DEF told
    <3>3. \A q \in Members : claims'[q] = IF q = p THEN told ELSE claims[q]
      BY <1>2, <3>1
    <3>4. claims' \in [Members -> [Words!Handles -> Answers]]
      BY <1>2, <3>1, <3>2
    <3> QED BY <2>1, <3>2, <3>3, <3>4
  <2>2. CASE ~HasGrant(p)
    <3>1. claims' = claims
      BY <1>1, <2>2 DEF Words!Told, HasGrant
    <3> QED BY <1>2, <2>2, <3>1
  <2> QED BY <2>1, <2>2
<1>7. \A q \in Members, h \in Words!Handles :
        /\ Owns(q, h)' <=> Owns(q, h)
        /\ InLine(q, h)' <=> InLine(q, h)
        /\ InLine(q, h) => ~HasGrant(q)
        /\ WaitsFor(q, h)' => WaitsFor(q, h)
  <2>1. \A q \in Members, h \in Words!Handles : claims[q][h] \in Answers
    BY <1>2
  <2> QED BY <1>1, <1>5, <1>6, <2>1 DEF Owns, InLine, WaitsFor, ClaimsInv, LinesAreWaiting
<1>8. \A q \in Members : HasGrant(q)' => Words!Waits(q)'
  <2> SUFFICES ASSUME NEW q \in Members, HasGrant(q)' PROVE Words!Waits(q)'
    OBVIOUS
  <2>1. q # p /\ HasGrant(q) /\ Words!Waits(q)
    BY <1>4 DEF ClaimsInv, WaitsForOne
  <2> QED BY <1>6, <2>1 DEF Words!Waits
<1>9. WordTypes'
  BY <1>1, <1>3, <1>6 DEF ClaimsInv, WordTypes
<1>10. WaitsForOne'
  BY <1>7, <1>8 DEF ClaimsInv, WaitsForOne
<1>11. LinesAreWaiting'
  BY <1>1, <1>4, <1>6, <1>7 DEF ClaimsInv, LinesAreWaiting, Distinct
<1>12. ASSUME NEW q \in Members, NEW h \in Words!Handles PROVE ClaimIsTrue(q, h)'
  <2>1. ClaimIsTrue(q, h) /\ claims[q][h] \in Answers
    BY <1>2 DEF ClaimsInv
  <2>2. CASE q = p /\ HasGrant(p)
    <3>1. claims'[q][h] = Words!Heard(claims[q][h]) /\ ~InLine(q, h)
      BY <1>6, <1>7, <2>2
    <3> QED BY <1>7, <2>1, <3>1 DEF ClaimIsTrue, Granted, Words!Heard, Answers
  <2>3. CASE ~(q = p /\ HasGrant(p))
    <3>1. claims'[q][h] = claims[q][h] /\ (HasGrant(q) => HasGrant(q)')
      BY <1>4, <1>6, <2>3
    <3> QED BY <1>1, <1>7, <2>1, <3>1 DEF ClaimIsTrue, Granted
  <2> QED BY <2>2, <2>3
<1> QED BY <1>9, <1>10, <1>11, <1>12 DEF ClaimsInv

LEMMA TellTells ==
  ASSUME NEW p \in Members, NEW h \in Words!Handles, NEW what \in Answers,
         claims \in [Members -> [Words!Handles -> Answers]], Words!Tell(p, h, what)
  PROVE  /\ claims' \in [Members -> [Words!Handles -> Answers]]
         /\ \A q \in Members, g \in Words!Handles :
              claims'[q][g] = IF q = p /\ g = h THEN what ELSE claims[q][g]
<1> DEFINE told == [claims[p] EXCEPT ![h] = what]
<1>1. claims' = [claims EXCEPT ![p] = told]
  BY DEF Words!Tell
<1>2. /\ told \in [Words!Handles -> Answers]
      /\ \A g \in Words!Handles : told[g] = IF g = h THEN what ELSE claims[p][g]
  OBVIOUS
<1> HIDE DEF told
<1>3. claims' \in [Members -> [Words!Handles -> Answers]]
  BY <1>1, <1>2
<1>4. \A q \in Members : claims'[q] = IF q = p THEN told ELSE claims[q]
  BY <1>1
<1> QED BY <1>2, <1>3, <1>4

LEMMA AcquireKeeps ==
  ASSUME Words!PrimitivesAssumption, ClaimsInv, NEW p \in Members, NEW h \in Words!Handles,
         Words!Acquire(p, h)
  PROVE  ClaimsInv'
<1>1. /\ ~Words!Waits(p) /\ UNCHANGED <<mail, lost>>
      /\ \A g \in Words!Handles : ~WaitsFor(p, g) /\ ~InLine(p, g)
      /\ ~HasGrant(p)
  BY DEF Words!Acquire, Words!Waits, WaitsFor, ClaimsInv, LinesAreWaiting, WaitsForOne
<1>2. /\ DOMAIN holder = Words!Handles /\ \A g \in Words!Handles : "owner" \in DOMAIN holder[g]
      /\ queue \in [Words!Handles -> Seq(Members)] /\ mail \in [Members -> Seq(Notices)]
      /\ claims \in [Members -> [Words!Handles -> Answers]]
  BY DEF ClaimsInv, WordTypes
<1>3. CASE /\ holder[h] = Words!Free /\ holder' = [holder EXCEPT ![h].owner = p]
           /\ queue' = queue /\ Words!Tell(p, h, "owned")
  <2>1. /\ claims' \in [Members -> [Words!Handles -> Answers]]
        /\ \A q \in Members, g \in Words!Handles :
             claims'[q][g] = IF q = p /\ g = h THEN "owned" ELSE claims[q][g]
    BY <1>2, <1>3, TellTells DEF Answers
  <2>2. /\ DOMAIN holder' = Words!Handles /\ \A g \in Words!Handles : "owner" \in DOMAIN holder'[g]
        /\ \A g \in Words!Handles : holder'[g].owner = IF g = h THEN p ELSE holder[g].owner
    BY <1>2, <1>3
  <2>3. \A q \in Members, g \in Words!Handles :
          /\ g # h => (Owns(q, g)' <=> Owns(q, g))
          /\ ~Owns(q, h) /\ (Owns(q, h)' <=> q = p)
          /\ InLine(q, g)' <=> InLine(q, g)
          /\ WaitsFor(q, g)' <=> WaitsFor(q, g)
          /\ HasGrant(q)' <=> HasGrant(q)
    BY <1>1, <1>3, <2>1, <2>2 DEF Owns, Words!Free, Words!Nobody, Words!PrimitivesAssumption,
         InLine, WaitsFor, HasGrant
  <2>4. \A q \in Members : Words!Waits(q)' <=> Words!Waits(q)
    BY <2>3 DEF Words!Waits, WaitsFor
  <2>5. WordTypes'
    BY <1>1, <1>2, <1>3, <2>1, <2>2 DEF WordTypes
  <2>6. WaitsForOne'
    BY <2>3, <2>4 DEF ClaimsInv, WaitsForOne
  <2>7. LinesAreWaiting'
    <3>1. \A g \in Words!Handles : Distinct(queue[g])'
      BY <1>3 DEF ClaimsInv, LinesAreWaiting, Distinct
    <3>2. ASSUME NEW q \in Members, NEW g \in Words!Handles, InLine(q, g)
          PROVE  claims'[q][g] = "queued" /\ ~Owns(q, g)' /\ ~HasGrant(q)'
      <4>1. claims[q][g] = "queued" /\ ~Owns(q, g) /\ ~HasGrant(q) /\ q # p
        BY <1>1, <3>2 DEF ClaimsInv, LinesAreWaiting
      <4> QED BY <2>1, <2>3, <4>1
    <3> QED BY <2>3, <3>1, <3>2 DEF LinesAreWaiting
  <2>8. ASSUME NEW q \in Members, NEW g \in Words!Handles PROVE ClaimIsTrue(q, g)'
    <3>1. ClaimIsTrue(q, g)
      BY DEF ClaimsInv
    <3> QED BY <1>1, <2>1, <2>3, <3>1 DEF ClaimIsTrue, Granted
  <2> QED BY <2>5, <2>6, <2>7, <2>8 DEF ClaimsInv
<1>4. CASE Owns(p, h) /\ UNCHANGED <<holder, queue>> /\ Words!Tell(p, h, "owned")
  <2>1. claims[p][h] = "owned"
    BY <1>1, <1>4 DEF ClaimsInv, ClaimIsTrue, WaitsFor
  <2>2. claims' = claims
    BY <1>2, <1>4, <2>1 DEF Words!Tell
  <2> QED BY <1>1, <1>4, <2>2, ClaimsRest
<1>5. CASE /\ holder[h].owner \notin {Words!Nobody, p}
           /\ queue' = [queue EXCEPT ![h] =
                IF p \in Words!Range(queue[h]) THEN queue[h] ELSE Append(queue[h], p)]
           /\ holder' = [holder EXCEPT ![h].contended = TRUE]
           /\ Words!Tell(p, h, "queued")
  <2>1. /\ claims' \in [Members -> [Words!Handles -> Answers]]
        /\ \A q \in Members, g \in Words!Handles :
             claims'[q][g] = IF q = p /\ g = h THEN "queued" ELSE claims[q][g]
    BY <1>2, <1>5, TellTells DEF Answers
  <2>2. /\ DOMAIN holder' = Words!Handles /\ \A g \in Words!Handles : "owner" \in DOMAIN holder'[g]
        /\ \A g \in Words!Handles : holder'[g].owner = holder[g].owner
    BY <1>2, <1>5
  <2> DEFINE line == Append(queue[h], p)
  <2>3. /\ line \in Seq(Members) /\ Distinct(line)
        /\ Words!Range(line) = Words!Range(queue[h]) \cup {p}
    BY <1>1, <1>2, AppendRange DEF InLine, ClaimsInv, LinesAreWaiting
  <2>4. queue' = [queue EXCEPT ![h] = line]
    BY <1>1, <1>5 DEF InLine
  <2> HIDE DEF line
  <2>5. /\ queue' \in [Words!Handles -> Seq(Members)]
        /\ \A g \in Words!Handles : queue'[g] = IF g = h THEN line ELSE queue[g]
    BY <1>2, <2>3, <2>4
  <2>6. \A q \in Members, g \in Words!Handles :
          /\ Owns(q, g)' <=> Owns(q, g)
          /\ InLine(q, g)' <=> InLine(q, g) \/ (q = p /\ g = h)
          /\ WaitsFor(q, g)' <=> WaitsFor(q, g) \/ (q = p /\ g = h)
          /\ HasGrant(q)' <=> HasGrant(q)
    BY <1>1, <2>1, <2>2, <2>3, <2>5 DEF Owns, InLine, WaitsFor, HasGrant
  <2>7. \A q \in Members : Words!Waits(q) => Words!Waits(q)'
    BY <2>6 DEF Words!Waits, WaitsFor
  <2>8. WordTypes'
    BY <1>1, <1>2, <2>1, <2>2, <2>5 DEF WordTypes
  <2>9. WaitsForOne'
    BY <1>1, <2>6, <2>7 DEF ClaimsInv, WaitsForOne
  <2>10. LinesAreWaiting'
    <3>1. \A g \in Words!Handles : Distinct(queue[g])'
      BY <2>3, <2>5 DEF ClaimsInv, LinesAreWaiting, Distinct
    <3>2. ASSUME NEW q \in Members, NEW g \in Words!Handles, InLine(q, g)'
          PROVE  claims'[q][g] = "queued" /\ ~Owns(q, g)' /\ ~HasGrant(q)'
      <4>1. CASE q = p /\ g = h
        BY <1>1, <1>5, <2>1, <2>6, <4>1 DEF Owns
      <4>2. CASE ~(q = p /\ g = h)
        BY <2>1, <2>6, <3>2, <4>2 DEF ClaimsInv, LinesAreWaiting
      <4> QED BY <4>1, <4>2
    <3> QED BY <3>1, <3>2 DEF LinesAreWaiting
  <2>11. ASSUME NEW q \in Members, NEW g \in Words!Handles PROVE ClaimIsTrue(q, g)'
    <3>1. ClaimIsTrue(q, g)
      BY DEF ClaimsInv
    <3>2. Granted(q, g) => Granted(q, g)'
      BY <1>1, <2>6 DEF Granted
    <3>3. q = p /\ g = h => ~Owns(q, g)
      BY <1>5 DEF Owns
    <3> QED BY <2>1, <2>6, <3>1, <3>2, <3>3 DEF ClaimIsTrue
  <2> QED BY <2>8, <2>9, <2>10, <2>11 DEF ClaimsInv
<1> QED BY <1>3, <1>4, <1>5 DEF Words!Acquire, Words!DefaultKey, Owns

-----------------------------------------------------------------------------
(* A resource that is given up: by its owner, or because his lease ran     *)
(* out.                                                                    *)

NobodyNext(h) ==
  /\ queue[h] = <<>> /\ UNCHANGED <<queue, mail, lost>>
  /\ \A q \in Members : holder'[h].owner # q

GoesTo(next, h) ==
  /\ next \in Words!Range(queue[h]) /\ holder'[h].owner = next
  /\ Distinct(queue'[h]) /\ Words!Range(queue'[h]) = Words!Range(queue[h]) \ {next}
  /\ \A q \in Members \ {next} : mail'[q] = mail[q]
  /\ lost \subseteq lost' /\ (next \in lost' \/ "granted" \in Words!Range(mail'[next]))

LEMMA HandOverGives ==
  ASSUME Words!PrimitivesAssumption, ClaimsInv, NEW h \in Words!Handles,
         NEW notices \in {<<>>, <<"owner_died">>}, Words!HandOver(h, notices)
  PROVE  /\ DOMAIN holder' = Words!Handles /\ \A g \in Words!Handles : "owner" \in DOMAIN holder'[g]
         /\ queue' \in [Words!Handles -> Seq(Members)] /\ mail' \in [Members -> Seq(Notices)]
         /\ \A g \in Words!Handles \ {h} : holder'[g] = holder[g] /\ queue'[g] = queue[g]
         /\ NobodyNext(h) \/ \E next \in Members : GoesTo(next, h)
<1>1. /\ DOMAIN holder = Words!Handles /\ \A g \in Words!Handles : "owner" \in DOMAIN holder[g]
      /\ queue \in [Words!Handles -> Seq(Members)] /\ mail \in [Members -> Seq(Notices)]
      /\ Distinct(queue[h])
  BY DEF ClaimsInv, WordTypes, LinesAreWaiting
<1> DEFINE waiting == queue[h]
           next == Head(waiting)
           all == mail[next] \o notices \o <<"granted">>
           box == SubSeq(all, 1, IF Len(all) > Room THEN Room ELSE Len(all))
<1>2. CASE waiting = <<>>
  <2>1. holder' = [holder EXCEPT ![h] = Words!Free] /\ UNCHANGED <<queue, mail, lost>>
    BY <1>2 DEF Words!HandOver, Words!DefaultKey
  <2> QED BY <1>1, <1>2, <2>1 DEF Words!Free, Words!Nobody, Words!PrimitivesAssumption, NobodyNext
<1>3. CASE waiting # <<>>
  <2>1. /\ next \in Members /\ next \in Words!Range(waiting) /\ Tail(waiting) \in Seq(Members)
        /\ Distinct(Tail(waiting)) /\ Words!Range(Tail(waiting)) = Words!Range(waiting) \ {next}
    BY <1>1, <1>3, TailRange
  <2>2. /\ holder' = [holder EXCEPT ![h] = [owner |-> next, contended |-> Len(waiting) > 1]]
        /\ queue' = [queue EXCEPT ![h] = Tail(waiting)]
        /\ mail' = [mail EXCEPT ![next] = box]
        /\ lost' = IF Len(all) > Room THEN lost \cup {next} ELSE lost
    BY <1>3 DEF Words!HandOver, Words!DefaultKey
  <2>3. box \in Seq(Notices) /\ (Len(all) > Room \/ "granted" \in Words!Range(box))
    <3>1. mail[next] \in Seq(Notices)
      BY <1>1, <2>1
    <3> HIDE DEF next
    <3> QED BY <3>1, GrantArrives
  <2> HIDE DEF box, all, next
  <2>4. /\ DOMAIN holder' = Words!Handles /\ \A g \in Words!Handles : "owner" \in DOMAIN holder'[g]
        /\ \A g \in Words!Handles \ {h} : holder'[g] = holder[g]
        /\ holder'[h].owner = next
    BY <1>1, <2>2
  <2>5. /\ queue' \in [Words!Handles -> Seq(Members)] /\ queue'[h] = Tail(waiting)
        /\ \A g \in Words!Handles \ {h} : queue'[g] = queue[g]
    BY <1>1, <2>1, <2>2
  <2>6. /\ mail' \in [Members -> Seq(Notices)] /\ mail'[next] = box
        /\ \A q \in Members \ {next} : mail'[q] = mail[q]
    BY <1>1, <2>1, <2>2, <2>3
  <2>7. lost \subseteq lost' /\ (next \in lost' \/ "granted" \in Words!Range(mail'[next]))
    BY <2>2, <2>3, <2>6
  <2> HIDE DEF waiting
  <2>8. waiting = queue[h]
    BY DEF waiting
  <2>9. GoesTo(next, h)
    BY <2>1, <2>4, <2>5, <2>6, <2>7, <2>8 DEF GoesTo
  <2> QED BY <2>1, <2>4, <2>5, <2>6, <2>9
<1> QED BY <1>2, <1>3

LEMMA GiveUpKeeps ==
  ASSUME Words!PrimitivesAssumption, ClaimsInv, NEW p \in Members, NEW h \in Words!Handles,
         Owns(p, h),
         NEW notices \in {<<>>, <<"owner_died">>}, Words!HandOver(h, notices),
         NEW what \in {"none", "lapsed", "revoked"}, Words!Tell(p, h, what),
         what = "revoked" <=> claims[p][h] = "queued"
  PROVE  ClaimsInv'
<1>1. /\ claims \in [Members -> [Words!Handles -> Answers]] /\ what \in Answers
  BY DEF ClaimsInv, WordTypes, Answers
<1>2. /\ claims' \in [Members -> [Words!Handles -> Answers]]
      /\ \A q \in Members, g \in Words!Handles :
           claims'[q][g] = IF q = p /\ g = h THEN what ELSE claims[q][g]
  BY <1>1, TellTells
<1>3. claims[p][h] \in {"owned", "queued"} /\ ~InLine(p, h)
  BY DEF ClaimsInv, ClaimIsTrue, LinesAreWaiting
<1>4. \A q \in Members, g \in Words!Handles : WaitsFor(q, g)' <=> WaitsFor(q, g)
  BY <1>2, <1>3 DEF WaitsFor
<1>5. \A q \in Members : Words!Waits(q)' <=> Words!Waits(q)
  BY <1>4 DEF Words!Waits, WaitsFor
<1>6. \A q \in Members : q # p => ~Owns(q, h) /\ claims[q][h] # "owned"
  BY DEF Owns, ClaimsInv, ClaimIsTrue
<1>7. /\ DOMAIN holder' = Words!Handles /\ \A g \in Words!Handles : "owner" \in DOMAIN holder'[g]
      /\ queue' \in [Words!Handles -> Seq(Members)] /\ mail' \in [Members -> Seq(Notices)]
      /\ \A g \in Words!Handles \ {h} : holder'[g] = holder[g] /\ queue'[g] = queue[g]
  BY HandOverGives
<1>8. WordTypes'
  BY <1>2, <1>7 DEF WordTypes
<1>9. \A q \in Members, g \in Words!Handles \ {h} :
        (Owns(q, g)' <=> Owns(q, g)) /\ (InLine(q, g)' <=> InLine(q, g))
  BY <1>7 DEF Owns, InLine
<1>10. CASE NobodyNext(h)
  <2>0. /\ queue[h] = <<>> /\ UNCHANGED <<queue, mail, lost>>
        /\ \A q \in Members : holder'[h].owner # q
    BY <1>10 DEF NobodyNext
  <2>1. \A q \in Members : ~Owns(q, h)' /\ (HasGrant(q)' <=> HasGrant(q))
    BY <2>0 DEF Owns, HasGrant
  <2>2. \A q \in Members, g \in Words!Handles : InLine(q, g)' <=> InLine(q, g)
    BY <2>0 DEF InLine
  <2>3. WaitsForOne'
    BY <1>4, <1>5, <2>1 DEF ClaimsInv, WaitsForOne
  <2>4. LinesAreWaiting'
    <3>1. \A g \in Words!Handles : Distinct(queue[g])'
      BY <2>0 DEF ClaimsInv, LinesAreWaiting, Distinct
    <3>2. ASSUME NEW q \in Members, NEW g \in Words!Handles, InLine(q, g)'
          PROVE  claims'[q][g] = "queued" /\ ~Owns(q, g)' /\ ~HasGrant(q)'
      <4>1. InLine(q, g) /\ claims[q][g] = "queued" /\ ~Owns(q, g) /\ ~HasGrant(q)
        BY <2>2, <3>2 DEF ClaimsInv, LinesAreWaiting
      <4> QED BY <1>2, <1>3, <1>9, <2>1, <4>1
    <3> QED BY <3>1, <3>2 DEF LinesAreWaiting
  <2>5. ASSUME NEW q \in Members, NEW g \in Words!Handles PROVE ClaimIsTrue(q, g)'
    <3>1. ClaimIsTrue(q, g)
      BY DEF ClaimsInv
    <3>2. CASE g = h
      BY <1>2, <1>6, <2>1, <2>2, <3>1, <3>2 DEF ClaimIsTrue, Granted
    <3>3. CASE g # h
      BY <1>2, <1>9, <2>0, <2>1, <3>1, <3>3 DEF ClaimIsTrue, Granted
    <3> QED BY <3>2, <3>3
  <2> QED BY <1>8, <2>3, <2>4, <2>5 DEF ClaimsInv
<1>11. CASE \E next \in Members : GoesTo(next, h)
  <2>1. PICK next \in Members :
          /\ InLine(next, h)
          /\ holder'[h].owner = next
          /\ Distinct(queue'[h]) /\ Words!Range(queue'[h]) = Words!Range(queue[h]) \ {next}
          /\ \A q \in Members \ {next} : mail'[q] = mail[q]
          /\ lost \subseteq lost' /\ (next \in lost' \/ HasGrant(next)')
    BY <1>11 DEF GoesTo, InLine, HasGrant
  <2>2. claims[next][h] = "queued" /\ ~HasGrant(next) /\ next # p
    BY <1>3, <2>1 DEF ClaimsInv, LinesAreWaiting
  <2>3. \A q \in Members : /\ Owns(q, h)' <=> q = next
                           /\ InLine(q, h)' <=> InLine(q, h) /\ q # next
                           /\ q # next => (HasGrant(q)' <=> HasGrant(q))
    BY <2>1 DEF Owns, InLine, HasGrant
  <2>4. \A g \in Words!Handles \ {h} : ~InLine(next, g)
    BY <2>2 DEF ClaimsInv, LinesAreWaiting, WaitsForOne, WaitsFor
  <2>5. WaitsForOne'
    <3>1. Words!Waits(next)'
      BY <1>5, <2>2 DEF Words!Waits
    <3> QED BY <1>4, <1>5, <2>3, <3>1 DEF ClaimsInv, WaitsForOne
  <2>6. LinesAreWaiting'
    <3>1. \A g \in Words!Handles : Distinct(queue[g])'
      <4>1. \A g \in Words!Handles \ {h} : queue'[g] = queue[g] /\ Distinct(queue[g])
        BY <1>7 DEF ClaimsInv, LinesAreWaiting
      <4>2. Distinct(queue'[h])
        BY <2>1
      <4>3. \A g \in Words!Handles : Distinct(queue'[g])
        BY <4>1, <4>2
      <4> QED BY <4>3 DEF Distinct
    <3>2. ASSUME NEW q \in Members, NEW g \in Words!Handles, InLine(q, g)'
          PROVE  claims'[q][g] = "queued" /\ ~Owns(q, g)' /\ ~HasGrant(q)'
      <4>1. InLine(q, g) /\ q # next
        BY <1>9, <2>3, <2>4, <3>2
      <4>2. claims[q][g] = "queued" /\ ~Owns(q, g) /\ ~HasGrant(q)
        BY <4>1 DEF ClaimsInv, LinesAreWaiting
      <4> QED BY <1>2, <1>3, <1>9, <2>3, <4>1, <4>2
    <3> QED BY <3>1, <3>2 DEF LinesAreWaiting
  <2>7. ASSUME NEW q \in Members, NEW g \in Words!Handles PROVE ClaimIsTrue(q, g)'
    <3>1. ClaimIsTrue(q, g)
      BY DEF ClaimsInv
    <3>2. CASE g = h /\ q = next
      <4>1. Granted(q, g)'
        BY <2>1, <2>3, <3>2 DEF Granted
      <4> QED BY <1>2, <2>2, <3>2, <4>1 DEF ClaimIsTrue
    <3>3. CASE g = h /\ q # next
      BY <1>2, <1>6, <2>3, <3>1, <3>3 DEF ClaimIsTrue, Granted
    <3>4. CASE g # h
      <4>1. Granted(q, g) => Granted(q, g)'
        BY <1>9, <2>1, <2>2, <2>3, <3>4 DEF Granted
      <4>2. claims'[q][g] = claims[q][g]
        BY <1>2, <3>4
      <4> QED BY <1>9, <3>1, <3>4, <4>1, <4>2 DEF ClaimIsTrue
    <3> QED BY <3>2, <3>3, <3>4
  <2> QED BY <1>8, <2>5, <2>6, <2>7 DEF ClaimsInv
<1>12. NobodyNext(h) \/ \E next \in Members : GoesTo(next, h)
  BY HandOverGives
<1> QED BY <1>10, <1>11, <1>12, Zenon

LEMMA ReleaseKeeps ==
  ASSUME Words!PrimitivesAssumption, ClaimsInv, NEW p \in Members, NEW h \in Words!Handles,
         Words!Release(p, h)
  PROVE  ClaimsInv'
<1>1. Owns(p, h) /\ ~Words!Waits(p) /\ Words!HandOver(h, <<>>) /\ Words!Tell(p, h, "none")
  BY DEF Words!Release, Owns
<1>2. claims[p][h] # "queued"
  BY <1>1 DEF Words!Waits
<1> QED BY <1>1, <1>2, GiveUpKeeps

LEMMA RecoverKeeps ==
  ASSUME Words!PrimitivesAssumption, WordInv, NEW k \in Words!Handles, NEW t \in 1..LastTick,
         Words!RecoverExpired(k, t)
  PROVE  ClaimsInv'
<1> DEFINE h == terms[k].handle
           p == terms[k].owner
           what == IF claims[p][h] = "queued" THEN "revoked" ELSE "lapsed"
<1>1. h \in Words!Handles /\ p \in Members
  <2>1. terms[k] \in [owner : Members, handle : Words!Handles, expires : 1..LastTick]
    BY DEF WordInv, LeasesInv, Words!RecoverExpired
  <2> QED BY <2>1
<1>2. ClaimsInv
  BY DEF WordInv
<1>3. CASE holder[h].owner = p
  <2>1. Words!HandOver(h, <<"owner_died">>) /\ Words!Tell(p, h, what)
    BY <1>3 DEF Words!RecoverExpired
  <2>2. what \in {"none", "lapsed", "revoked"} /\ (what = "revoked" <=> claims[p][h] = "queued")
    OBVIOUS
  <2>3. Owns(p, h)
    BY <1>3 DEF Owns
  <2> HIDE DEF h, p, what
  <2> QED BY <1>1, <1>2, <2>1, <2>2, <2>3, GiveUpKeeps
<1>4. CASE holder[h].owner # p
  BY <1>2, <1>4, ClaimsRest DEF Words!RecoverExpired
<1> QED BY <1>3, <1>4

-----------------------------------------------------------------------------
(* Leases, and the theorem.                                                *)

LEMMA LeasesKeep ==
  ASSUME Words!PrimitivesAssumption, LeasesInv, Words!Next
  PROVE  LeasesInv'
<1> DEFINE Entries == [owner : Members, handle : Words!Handles, expires : 1..LastTick]
<1>1. terms \in [Words!Handles -> {Words!NoLease} \cup Entries]
  BY DEF LeasesInv
<1>2. ASSUME NEW p \in Members, NEW h \in Words!Handles, NEW t \in 1..LastTick, Words!Lease(p, h,
             t)
      PROVE  LeasesInv'
  <2> DEFINE given == [owner |-> p, handle |-> h, expires |-> t]
  <2>1. given \in Entries
    OBVIOUS
  <2>2. terms' = [terms EXCEPT ![h] = given]
    BY <1>2 DEF Words!Lease, Words!DefaultKey
  <2> HIDE DEF given, Entries
  <2>3. terms' \in [Words!Handles -> {Words!NoLease} \cup Entries]
    BY <1>1, <2>1, <2>2
  <2> QED BY <2>3 DEF LeasesInv, Entries
<1>3. ASSUME NEW p \in Members, NEW t \in 1..LastTick, Words!Heartbeat(p, t)
      PROVE  LeasesInv'
  <2> DEFINE Next1(k) == IF terms[k].owner = p /\ holder[terms[k].handle].owner = p
                         THEN [terms[k] EXCEPT !.expires = t] ELSE terms[k]
  <2>1. terms' = [k \in Words!Handles |-> Next1(k)]
    BY <1>3 DEF Words!Heartbeat, Words!ResourceKeys
  <2>2. ASSUME NEW k \in Words!Handles PROVE Next1(k) \in {Words!NoLease} \cup Entries
    <3>1. CASE terms[k] \in Entries
      BY <3>1
    <3>2. CASE terms[k] = Words!NoLease
      BY <3>2 DEF Words!NoLease, Words!Nobody, Words!PrimitivesAssumption
    <3> QED BY <1>1, <3>1, <3>2
  <2> HIDE DEF Next1, Entries
  <2>3. terms' \in [Words!Handles -> {Words!NoLease} \cup Entries]
    BY <2>1, <2>2
  <2> QED BY <2>3 DEF LeasesInv, Entries
<1>4. ASSUME NEW k \in Words!Handles, NEW t \in 1..LastTick, Words!RecoverExpired(k, t)
      PROVE  LeasesInv'
  <2>1. terms' = [terms EXCEPT ![k] = Words!NoLease]
    BY <1>4 DEF Words!RecoverExpired
  <2> HIDE DEF Entries
  <2>2. terms' \in [Words!Handles -> {Words!NoLease} \cup Entries]
    BY <1>1, <2>1
  <2> QED BY <2>2 DEF LeasesInv, Entries
<1>5. CASE \/ Words!CreateResource \/ Words!RegisterParticipant \/ Words!Poll
           \/ \E p \in Members :
                Words!Send(p) \/ Words!SendNotice(p) \/ Words!Drain(p) \/ Words!Await(p)
           \/ \E p \in Members, h \in Words!Handles : Words!Acquire(p, h) \/ Words!Release(p, h)
  <2>1. terms' = terms
    BY <1>5 DEF Words!CreateResource, Words!RegisterParticipant, Words!Poll, Words!SendNotice,
         Words!Send, Words!Await, Words!Drain, Words!Acquire, Words!Release
  <2> QED BY <2>1 DEF LeasesInv
<1> QED BY <1>2, <1>3, <1>4, <1>5 DEF Words!Next, Words!ResourceKeys

LEMMA WordsStep ==
  ASSUME Words!PrimitivesAssumption, WordInv, [Words!Next]_wordVars
  PROVE  WordInv'
<1>0. ClaimsInv /\ LeasesInv
  BY DEF WordInv
<1>1. CASE UNCHANGED wordVars
  BY <1>0, <1>1, ClaimsRest DEF wordVars, WordInv, LeasesInv
<1>2. CASE Words!Next
  <2>1. ASSUME Words!CreateResource \/ Words!RegisterParticipant \/ Words!Poll
        PROVE  ClaimsInv'
    <3>1. holder' = holder /\ queue' = queue /\ mail' = mail /\ claims' = claims /\ lost' = lost
      BY <2>1 DEF Words!CreateResource, Words!RegisterParticipant, Words!Poll
    <3> QED BY <1>0, <3>1, ClaimsRest
  <2>2. ASSUME NEW p \in Members,
               Words!Send(p) \/ Words!SendNotice(p) \/ Words!Drain(p) \/ Words!Await(p)
        PROVE  ClaimsInv'
    BY <1>0, <2>2, WordSendKeeps, WordDrainKeeps DEF Words!SendNotice, Words!Await
  <2>3. ASSUME NEW p \in Members, NEW h \in Words!Handles, Words!Acquire(p,
               h) \/ Words!Release(p, h)
        PROVE  ClaimsInv'
    BY <1>0, <2>3, AcquireKeeps, ReleaseKeeps
  <2>4. ASSUME NEW p \in Members, NEW h \in Words!Handles, NEW t \in 1..LastTick, Words!Lease(p,
               h, t)
        PROVE  ClaimsInv'
    BY <1>0, <2>4, ClaimsRest DEF Words!Lease
  <2>5. ASSUME NEW p \in Members, NEW t \in 1..LastTick, Words!Heartbeat(p, t)
        PROVE  ClaimsInv'
    BY <1>0, <2>5, ClaimsRest DEF Words!Heartbeat
  <2>6. ASSUME NEW k \in Words!Handles, NEW t \in 1..LastTick, Words!RecoverExpired(k, t)
        PROVE  ClaimsInv'
    BY <2>6, RecoverKeeps
  <2>7. ClaimsInv'
    <3>1. CASE \E p \in Members :
                 Words!Send(p) \/ Words!SendNotice(p) \/ Words!Drain(p) \/ Words!Await(p)
      BY <2>2, <3>1
    <3>2. CASE \E p \in Members, h \in Words!Handles : Words!Acquire(p, h) \/ Words!Release(p, h)
      BY <2>3, <3>2
    <3>3. CASE \E p \in Members, h \in Words!Handles, t \in 1..LastTick : Words!Lease(p, h, t)
      BY <2>4, <3>3
    <3>4. CASE \E p \in Members, t \in 1..LastTick : Words!Heartbeat(p, t)
      BY <2>5, <3>4
    <3>5. CASE \E k \in Words!Handles, t \in 1..LastTick : Words!RecoverExpired(k, t)
      BY <2>6, <3>5
    <3> QED BY <1>2, <2>1, <3>1, <3>2, <3>3, <3>4, <3>5 DEF Words!Next, Words!ResourceKeys
  <2> QED BY <1>0, <1>2, <2>7, LeasesKeep DEF WordInv
<1> QED BY <1>1, <1>2

(* What a program has been told of a resource is so, after any sequence of  *)
(* words: it owns what it was told it owns, waits where it was told it     *)
(* waits or has the grant, and owns nothing it is not told of but what a   *)
(* full mailbox lost (root1.acquire, release, recover_expired, drain).     *)
THEOREM ClaimsStayTrue ==
  ASSUME Words!PrimitivesAssumption
  PROVE  Words!Spec => []ClaimsAreTrue
<1>1. WordInv => ClaimsAreTrue
  BY DEF WordInv, ClaimsInv, ClaimIsTrue, Granted, Owns, InLine, HasGrant, ClaimsAreTrue,
       Words!ClaimsAreTrue, Words!DefaultKey
<1> QED BY WordsInit, WordsStep, <1>1, PTL DEF Words!Spec, Words!wordVars, wordVars

=============================================================================
