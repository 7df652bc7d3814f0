---------------------------- MODULE InternJobsProofs ----------------------------
(***************************************************************************)
(* Proofs about InternJobs: for every number of callers the counts of the  *)
(* manager stay within what was started and never fall below the abandoned *)
(* jobs still running; for one caller every started job is accounted for,  *)
(* the limits of active and of retained jobs hold, and an answer once      *)
(* given stays.                                                            *)
(***************************************************************************)
EXTENDS InternJobs, FiniteSetTheorems, WellFoundedInduction, TLAPS

(* Callers whose number is counted and whose job is not yet in the table. *)
Drawn == {c \in Callers : caller[c].pc = "drawn"}

(* Threads that are past finished_. *)
Finished == {j \in Jobs : worker[j] \in {"publish", "done"}}

(* Jobs that have been given a sequence number. *)
Numbered == {j \in Jobs : sequence[j] > 0}

(* Abandoned jobs whose thread has not finished. *)
Orphans == {j \in Jobs : abandoned[j] /\ worker[j] \notin {"publish", "done"}}

(* However callers read and write nextJobId_, it stays behind the jobs     *)
(* started and those whose number has been written.                        *)
Drawing ==
  /\ started + Cardinality(Starting) <= MaxJobs
  /\ nextJobId <= started + Cardinality(Drawn) + 1
  /\ \A c \in Callers :
       /\ At(c, "read") => /\ caller[c].job \in Nat
                           /\ caller[c].job <= started + Cardinality(Drawn) + 1
       /\ At(c, "drawn") => /\ caller[c].job \in Nat
                            /\ caller[c].job <= started + Cardinality(Drawn)

(* A caller works on a job that was started; its launch and its drop are   *)
(* its own.                                                                *)
Works(c) ==
  /\ At(c, "launch") =>
       /\ caller[c].job \in 1..started
       /\ worker[caller[c].job] = "none"
       /\ \A d \in Callers :
            At(d, "launch") /\ caller[d].job = caller[c].job => d = c
  /\ caller[c].pc \in {"cancel", "collect", "drop"} =>
       /\ caller[c].job \in 1..started
       /\ worker[caller[c].job] # "none"
  /\ At(c, "drop") =>
       /\ caller[c].job \in tracked
       /\ \A d \in Callers : At(d, "drop") => d = c

Working == \A c \in Callers : Works(c)

(* What is known of a job by where its worker is. *)
Lives ==
  /\ tracked \subseteq 1..started
  /\ \A j \in Jobs :
       /\ j > started => worker[j] = "none"
       /\ Ready(j) <=> worker[j] \in {"stored", "loaded", "publish", "done"}
       /\ saw[j] => abandoned[j]
       /\ abandoned[j] => j \notin tracked /\ worker[j] # "none"

Counting ==
  /\ finished = Cardinality(Finished)
  /\ Cardinality(tracked) + totalAbandoned + dropped + swept <= started
  /\ abandonedRunning <= totalAbandoned
  /\ nextSequence <= Cardinality(Numbered) + 1
  /\ Cardinality(Orphans) <= abandonedRunning

JobsInv == TypeOK /\ Drawing /\ Working /\ Lives /\ Counting

-----------------------------------------------------------------------------
(* The sets that are counted are finite. *)
LEMMA JobSets ==
  ASSUME TypeOK, NEW S \in SUBSET Jobs
  PROVE  IsFiniteSet(S) /\ Cardinality(S) \in 0..MaxJobs
<1>1. IsFiniteSet(Jobs) /\ Cardinality(Jobs) = MaxJobs
  BY FS_Interval, InternJobsAssumption DEF Jobs
<1>2. IsFiniteSet(S) /\ Cardinality(S) <= MaxJobs
  BY <1>1, FS_Subset
<1>3. Cardinality(S) \in Nat
  BY <1>2, FS_CardinalityType
<1> QED BY <1>2, <1>3, InternJobsAssumption

(* One more, one less. *)
LEMMA OneMore ==
  ASSUME NEW S, IsFiniteSet(S), NEW x
  PROVE  /\ IsFiniteSet(S \cup {x})
         /\ Cardinality(S) \in Nat /\ Cardinality(S \cup {x}) \in Nat
         /\ Cardinality(S \cup {x}) <= Cardinality(S) + 1
         /\ x \notin S => Cardinality(S \cup {x}) = Cardinality(S) + 1
<1>1. /\ IsFiniteSet(S \cup {x})
      /\ Cardinality(S \cup {x}) = IF x \in S THEN Cardinality(S) ELSE Cardinality(S) + 1
  BY FS_AddElement
<1>2. Cardinality(S) \in Nat /\ Cardinality(S \cup {x}) \in Nat
  BY <1>1, FS_CardinalityType
<1> QED BY <1>1, <1>2

LEMMA OneLess ==
  ASSUME NEW S, IsFiniteSet(S), NEW x \in S
  PROVE  /\ IsFiniteSet(S \ {x})
         /\ Cardinality(S) \in Nat /\ Cardinality(S) > 0
         /\ Cardinality(S \ {x}) = Cardinality(S) - 1
<1>1. IsFiniteSet(S \ {x}) /\ Cardinality(S \ {x}) = Cardinality(S) - 1
  BY FS_RemoveElement
<1>2. Cardinality(S) \in Nat /\ Cardinality(S) # 0
  BY FS_CardinalityType, FS_EmptySet
<1> QED BY <1>1, <1>2

LEMMA Smaller ==
  ASSUME NEW S, IsFiniteSet(S), NEW T \in SUBSET S
  PROVE  /\ IsFiniteSet(T) /\ Cardinality(T) <= Cardinality(S)
         /\ Cardinality(T) \in Nat /\ Cardinality(S) \in Nat
BY FS_Subset, FS_CardinalityType

LEMMA CallerSets ==
  ASSUME NEW S \in SUBSET Callers
  PROVE  IsFiniteSet(S) /\ Cardinality(S) \in Nat
BY FS_Subset, FS_CardinalityType, InternJobsAssumption

Places == {"idle", "admitted", "read", "drawn", "launch", "cancel", "collect", "drop"}

Moves(c, pc, j, o) == caller' = [caller EXCEPT ![c] = [pc |-> pc, job |-> j, told |-> o]]

(* A caller that goes on joins or leaves the starting and the drawn. *)
LEMMA CallerMoves ==
  ASSUME TypeOK, NEW c \in Callers, NEW pc \in Places, NEW j, NEW o,
         Moves(c, pc, j, o)
  PROVE  /\ Starting' = IF pc \in {"admitted", "read", "drawn"}
                        THEN Starting \cup {c} ELSE Starting \ {c}
         /\ Drawn' = IF pc = "drawn" THEN Drawn \cup {c} ELSE Drawn \ {c}
         /\ caller'[c] = [pc |-> pc, job |-> j, told |-> o]
         /\ \A d \in Callers : d # c => caller'[d] = caller[d]
<1>1. /\ caller'[c] = [pc |-> pc, job |-> j, told |-> o]
      /\ \A d \in Callers : d # c => caller'[d] = caller[d]
  BY DEF TypeOK, Moves
<1>2. caller'[c].pc = pc
  BY <1>1
<1> QED BY <1>1, <1>2 DEF Starting, Drawn

-----------------------------------------------------------------------------
(* Callers outside of a start do not disturb those inside. *)
LEMMA OutsideKeepsDrawing ==
  ASSUME TypeOK, Drawing, UNCHANGED <<started, nextJobId>>,
         NEW c \in Callers, NEW pc \in {"idle", "launch", "cancel", "collect", "drop"},
         NEW j, NEW o,
         caller[c].pc \in {"idle", "launch", "cancel", "collect", "drop"},
         Moves(c, pc, j, o)
  PROVE  Drawing'
<1>1. /\ Starting' = Starting \ {c} /\ Drawn' = Drawn \ {c}
      /\ caller'[c] = [pc |-> pc, job |-> j, told |-> o]
      /\ \A d \in Callers : d # c => caller'[d] = caller[d]
  BY CallerMoves DEF Places
<1>2. Starting' = Starting /\ Drawn' = Drawn
  BY <1>1 DEF Starting, Drawn
<1>3. \A d \in Callers : caller'[d].pc \in {"read", "drawn"} => caller'[d] = caller[d]
  BY <1>1
<1>4. Cardinality(Starting') = Cardinality(Starting) /\ Cardinality(Drawn') = Cardinality(Drawn)
  BY <1>2
<1> QED BY <1>3, <1>4 DEF Drawing, At

LEMMA DrawingKept ==
  ASSUME JobsInv, [Next]_vars
  PROVE  Drawing' /\ nextJobId' \in 1..(MaxJobs + 1) /\ id' \in [Jobs -> 0..MaxJobs]
                  /\ started' \in 0..MaxJobs
<1> USE InternJobsAssumption
<1>0. /\ TypeOK /\ Drawing
      /\ started \in Nat /\ nextJobId \in Nat /\ nextJobId >= 1
      /\ id \in [Jobs -> 0..MaxJobs]
      /\ Starting \in SUBSET Callers /\ Drawn \in SUBSET Starting
  BY DEF JobsInv, TypeOK, Starting, Drawn
<1>1. /\ IsFiniteSet(Starting) /\ Cardinality(Starting) \in Nat
      /\ IsFiniteSet(Drawn) /\ Cardinality(Drawn) \in Nat
      /\ Cardinality(Drawn) <= Cardinality(Starting)
  <2>1. IsFiniteSet(Starting) /\ Cardinality(Starting) \in Nat
    BY <1>0, CallerSets
  <2>2. IsFiniteSet(Drawn) /\ Cardinality(Drawn) <= Cardinality(Starting)
    BY <1>0, <2>1, FS_Subset
  <2> QED BY <2>1, <2>2, FS_CardinalityType
<1> DEFINE Kept == /\ Drawing' /\ nextJobId' \in Nat /\ nextJobId' >= 1
                   /\ started' \in Nat /\ id' \in [Jobs -> 0..MaxJobs]
<1>2. Kept
  <2>1. ASSUME NEW c \in Callers, Admit(c)  PROVE Kept
    <3>1. /\ Starting' = Starting \cup {c} /\ Drawn' = Drawn \ {c}
          /\ caller'[c] = [pc |-> "admitted", job |-> NoJob, told |-> "none"]
          /\ \A d \in Callers : d # c => caller'[d] = caller[d]
      <4>1. Moves(c, "admitted", NoJob, "none")
        BY <2>1 DEF Admit, Goes, Moves
      <4> QED BY <4>1, <1>0, CallerMoves DEF Places
    <3>2. c \notin Starting /\ Drawn' = Drawn
      BY <2>1, <3>1 DEF Admit, At, Starting, Drawn
    <3>3. Cardinality(Starting') = Cardinality(Starting) + 1
      BY <1>1, <3>1, <3>2, FS_AddElement
    <3>4. \A d \in Callers : caller'[d].pc \in {"read", "drawn"} => caller'[d] = caller[d]
      BY <3>1
    <3>5. UNCHANGED <<started, nextJobId, id>> /\ started + Cardinality(Starting) < MaxJobs
      BY <2>1 DEF Admit, counters, job
    <3>6. started' + Cardinality(Starting') <= MaxJobs
      BY <3>3, <3>5, <1>0, <1>1
    <3>7. Cardinality(Drawn') = Cardinality(Drawn)
      BY <3>2
    <3>8. Drawing'
      BY <1>0, <3>4, <3>5, <3>6, <3>7 DEF Drawing, At
    <3> QED BY <1>0, <3>5, <3>8
  <2>2. ASSUME NEW c \in Callers, ReadId(c)  PROVE Kept
    <3>1. /\ Starting' = Starting \cup {c} /\ Drawn' = Drawn \ {c}
          /\ caller'[c] = [pc |-> "read", job |-> nextJobId, told |-> "none"]
          /\ \A d \in Callers : d # c => caller'[d] = caller[d]
      <4>1. Moves(c, "read", nextJobId, "none")
        BY <2>2 DEF ReadId, Goes, Moves
      <4> QED BY <4>1, <1>0, CallerMoves DEF Places
    <3>2. Starting' = Starting /\ Drawn' = Drawn
      BY <2>2, <3>1 DEF ReadId, At, Starting, Drawn
    <3>3. \A d \in Callers : caller'[d].pc \in {"read", "drawn"} =>
            caller'[d] = caller[d] \/ (caller'[d].pc = "read" /\ caller'[d].job = nextJobId)
      BY <3>1
    <3>4. UNCHANGED <<started, nextJobId, id>>
      BY <2>2 DEF ReadId, counters, job
    <3>5. Cardinality(Drawn') = Cardinality(Drawn) /\ Cardinality(Starting') = Cardinality(Starting)
      BY <3>2
    <3>6. Drawing'
      BY <1>0, <3>3, <3>4, <3>5 DEF Drawing, At
    <3> QED BY <1>0, <3>4, <3>6
  <2>3. ASSUME NEW c \in Callers, WriteId(c)  PROVE Kept
    <3>1. /\ Starting' = Starting \cup {c} /\ Drawn' = Drawn \cup {c}
          /\ caller'[c] = [pc |-> "drawn", job |-> caller[c].job, told |-> "none"]
          /\ \A d \in Callers : d # c => caller'[d] = caller[d]
      <4>1. Moves(c, "drawn", caller[c].job, "none")
        BY <2>3 DEF WriteId, Goes, Moves
      <4> QED BY <4>1, <1>0, CallerMoves DEF Places
    <3>2. Starting' = Starting /\ c \notin Drawn
      BY <2>3, <3>1 DEF WriteId, At, Starting, Drawn
    <3>3. Cardinality(Drawn') = Cardinality(Drawn) + 1
      BY <1>1, <3>1, <3>2, FS_AddElement
    <3>4. caller[c].job \in Nat /\ caller[c].job <= started + Cardinality(Drawn) + 1
      BY <2>3, <1>0 DEF WriteId, Drawing
    <3>5. \A d \in Callers : caller'[d].pc \in {"read", "drawn"} =>
            caller'[d] = caller[d] \/ caller'[d].job = caller[c].job
      BY <3>1
    <3>6. UNCHANGED <<started, id>> /\ nextJobId' = caller[c].job + 1
      BY <2>3 DEF WriteId, counters, job
    <3>7. Cardinality(Starting') = Cardinality(Starting)
      BY <3>2
    <3>8. Drawing'
      BY <1>0, <1>1, <3>3, <3>4, <3>5, <3>6, <3>7 DEF Drawing, At
    <3> QED BY <1>0, <3>4, <3>6, <3>8
  <2>4. ASSUME NEW c \in Callers, Insert(c)  PROVE Kept
    <3>1. /\ Starting' = Starting \ {c} /\ Drawn' = Drawn \ {c}
          /\ caller'[c] = [pc |-> "launch", job |-> started + 1, told |-> "none"]
          /\ \A d \in Callers : d # c => caller'[d] = caller[d]
      <4>1. Moves(c, "launch", started + 1, "none")
        BY <2>4 DEF Insert, Goes, Moves
      <4> QED BY <4>1, <1>0, CallerMoves DEF Places
    <3>2. c \in Starting /\ c \in Drawn
      BY <2>4 DEF Insert, At, Starting, Drawn
    <3>3. Cardinality(Starting') = Cardinality(Starting) - 1
          /\ Cardinality(Drawn') = Cardinality(Drawn) - 1
      BY <1>1, <3>1, <3>2, FS_RemoveElement
    <3>4. caller[c].job \in Nat /\ caller[c].job <= started + Cardinality(Drawn)
      BY <2>4, <1>0 DEF Insert, Drawing
    <3>5. Cardinality(Drawn') \in Nat /\ Cardinality(Starting') \in Nat
      BY <3>1, <1>1, FS_RemoveElement, FS_CardinalityType
    <3>6. caller[c].job \in 0..MaxJobs /\ started' = started + 1
      BY <3>4, <1>0, <1>1, <2>4 DEF Drawing, Insert
    <3>7. id' \in [Jobs -> 0..MaxJobs]
      BY <3>6, <1>0, <2>4 DEF Insert
    <3>8. Drawing'
      <4>1. \A d \in Callers : caller'[d].pc \in {"read", "drawn"} => caller'[d] = caller[d]
        BY <3>1
      <4>2. UNCHANGED nextJobId
        BY <2>4 DEF Insert
      <4>3. /\ started' + Cardinality(Drawn') = started + Cardinality(Drawn)
            /\ started' + Cardinality(Starting') = started + Cardinality(Starting)
        BY <1>0, <1>1, <3>3, <3>6
      <4> QED BY <1>0, <4>1, <4>2, <4>3 DEF Drawing, At
    <3> QED BY <2>4, <1>0, <3>6, <3>7, <3>8 DEF Insert
  <2>5. ASSUME NEW c \in Callers, Launch(c) \/ CancelSet(c) \/ CollectObserve(c) \/ DropErase(c)
        PROVE  Kept
    <3>1. /\ caller[c].pc \in {"launch", "cancel", "collect", "drop"}
          /\ Moves(c, "idle", NoJob, "none")
          /\ UNCHANGED <<started, nextJobId, id>>
      <4>1. CASE Launch(c)
        BY <4>1 DEF Launch, At, Returns, Idle, Moves, counters
      <4>2. CASE CancelSet(c)
        BY <4>2 DEF CancelSet, At, Returns, Idle, Moves, counters
      <4>3. CASE CollectObserve(c)
        BY <4>3 DEF CollectObserve, At, Returns, Idle, Moves
      <4>4. CASE DropErase(c)
        BY <4>4 DEF DropErase, At, Returns, Idle, Moves
      <4> QED BY <2>5, <4>1, <4>2, <4>3, <4>4
    <3>2. Drawing'
      BY <3>1, <1>0, OutsideKeepsDrawing
    <3> QED BY <3>1, <3>2, <1>0
  <2>6. ASSUME NEW c \in Callers, NEW j \in Jobs,
               CancelCheck(c, j) \/ CollectRead(c, j) \/ DropCheck(c, j)
        PROVE  Kept
    <3>1. caller[c].pc = "idle" /\ UNCHANGED <<started, nextJobId, id>>
      BY <2>6 DEF CancelCheck, CollectRead, DropCheck, At, counters, job
    <3>2. PICK pc \in {"cancel", "collect", "drop"}, o \in {"none", outcome[j], Told(j)} :
            Moves(c, pc, j, o)
      BY <2>6 DEF CancelCheck, CollectRead, DropCheck, Goes, Moves
    <3>3. Drawing'
      BY <3>1, <3>2, <1>0, OutsideKeepsDrawing
    <3> QED BY <3>1, <3>3, <1>0
  <2>7. CASE \/ \E j \in Jobs : WorkerStep(j)
             \/ \E c \in Callers, j \in Jobs : DrainEvents(c, j)
             \/ UNCHANGED vars
    <3>1. UNCHANGED <<caller, started, nextJobId, id>>
      BY <2>7 DEF WorkerStep, Run, Checkpoint, LoadAbandoned, Finish, Publish, Store,
                  DrainEvents, vars, job, counters
    <3> QED BY <3>1, <1>0 DEF Drawing, At, Starting, Drawn
  <2> QED BY <2>1, <2>2, <2>3, <2>4, <2>5, <2>6, <2>7 DEF Next, CallerStep
<1>3. /\ IsFiniteSet(Starting') /\ Cardinality(Starting') \in Nat
      /\ Cardinality(Drawn') <= Cardinality(Starting') /\ Cardinality(Drawn') \in Nat
  <2>1. Starting' \in SUBSET Callers /\ Drawn' \in SUBSET Starting'
    BY DEF Starting, Drawn
  <2>2. IsFiniteSet(Starting') /\ Cardinality(Starting') \in Nat
    BY <2>1, CallerSets
  <2>3. IsFiniteSet(Drawn') /\ Cardinality(Drawn') <= Cardinality(Starting')
    BY <2>1, <2>2, FS_Subset
  <2> QED BY <2>2, <2>3, FS_CardinalityType
<1>4. started' + Cardinality(Starting') <= MaxJobs
      /\ nextJobId' <= started' + Cardinality(Drawn') + 1
  BY <1>2 DEF Drawing
<1> QED BY <1>2, <1>3, <1>4

-----------------------------------------------------------------------------
LEMMA LivesKept ==
  ASSUME JobsInv, [Next]_vars
  PROVE  Lives'
<1> USE DEF Ready
<1>0. /\ TypeOK /\ Lives /\ Working /\ started \in Nat
      /\ worker \in [Jobs -> {"none", "running", "yielded", "stored", "loaded", "publish", "done"}]
      /\ outcome \in [Jobs -> Outcomes]
      /\ saw \in [Jobs -> BOOLEAN] /\ abandoned \in [Jobs -> BOOLEAN]
  BY InternJobsAssumption DEF JobsInv, TypeOK
<1>1. ASSUME NEW c \in Callers, Insert(c)  PROVE Lives'
  <2>1. /\ started' = started + 1 /\ tracked' \subseteq tracked \cup {started + 1}
        /\ UNCHANGED <<worker, saw, outcome, abandoned>>
    BY <1>1 DEF Insert, thread
  <2>2. tracked' \subseteq 1..started'
    BY <2>1, <1>0 DEF Lives
  <2>3. \A j \in Jobs : abandoned[j] => j \notin tracked' /\ j <= started
    BY <2>1, <1>0 DEF Lives, Jobs
  <2> QED BY <2>1, <2>2, <2>3, <1>0 DEF Lives, Jobs
<1>2. ASSUME NEW c \in Callers, Launch(c)  PROVE Lives'
  <2> DEFINE k == caller[c].job
  <2>1. k \in 1..started /\ worker[k] = "none"
    BY <1>2, <1>0 DEF Launch, Working, Works
  <2>2. /\ UNCHANGED <<started, tracked, saw, abandoned>>
        /\ \/ worker' = [worker EXCEPT ![k] = "running"] /\ outcome' = outcome
           \/ /\ worker' = [worker EXCEPT ![k] = "stored"]
              /\ outcome' = [outcome EXCEPT ![k] = "error"]
    BY <1>2 DEF Launch, counters
  <2> HIDE DEF k
  <2>3. k \in Jobs /\ outcome[k] = "none"
    <3>1. k \in Jobs
      BY <1>0, <2>1, InternJobsAssumption DEF Jobs, JobsInv, TypeOK
    <3> QED BY <3>1, <2>1, <1>0 DEF Lives
  <2>4. \A j \in Jobs : j # k => worker'[j] = worker[j] /\ outcome'[j] = outcome[j]
    BY <2>2, <1>0
  <2>5. \/ worker'[k] = "running" /\ outcome'[k] = "none"
        \/ worker'[k] = "stored" /\ outcome'[k] = "error"
    BY <2>2, <2>3, <1>0
  <2>6. \A j \in Jobs : j > started' => worker'[j] = "none"
    BY <2>1, <2>2, <2>4, <1>0 DEF Lives
  <2>7. \A j \in Jobs : outcome'[j] # "none" <=> worker'[j] \in {"stored", "loaded", "publish", "done"}
    BY <2>4, <2>5, <1>0 DEF Lives
  <2>8. \A j \in Jobs : /\ saw'[j] => abandoned'[j]
                        /\ abandoned'[j] => j \notin tracked' /\ worker'[j] # "none"
    BY <2>2, <2>4, <2>5, <1>0 DEF Lives
  <2> QED BY <2>2, <2>6, <2>7, <2>8, <1>0 DEF Lives
<1>3. ASSUME NEW k \in Jobs, Run(k) \/ Checkpoint(k)  PROVE Lives'
  <2>1. /\ UNCHANGED <<started, tracked, saw, abandoned>>
        /\ worker[k] \in {"running", "yielded"}
        /\ \/ worker' = [worker EXCEPT ![k] = "yielded"] /\ outcome' = outcome
           \/ worker' = [worker EXCEPT ![k] = "running"] /\ outcome' = outcome
           \/ \E o \in {"ok", "error", "cancelled"} :
                /\ worker' = [worker EXCEPT ![k] = "stored"]
                /\ outcome' = [outcome EXCEPT ![k] = o]
    <3>1. CASE Run(k)
      BY <3>1 DEF Run, Store, counters, job
    <3>2. CASE Checkpoint(k)
      BY <3>2 DEF Checkpoint, Store, counters, job
    <3> QED BY <1>3, <3>1, <3>2
  <2> QED BY <2>1, <1>0 DEF Lives, Outcomes
<1>4. ASSUME NEW k \in Jobs, LoadAbandoned(k)  PROVE Lives'
  BY <1>4, <1>0 DEF Lives, LoadAbandoned, job, counters
<1>5. ASSUME NEW k \in Jobs, Finish(k) \/ Publish(k)  PROVE Lives'
  <2>1. /\ UNCHANGED <<started, tracked, saw, abandoned, outcome>>
        /\ worker[k] \in {"loaded", "publish"}
        /\ \E w \in {"publish", "done"} : worker' = [worker EXCEPT ![k] = w]
    BY <1>5 DEF Finish, Publish, job, counters
  <2> QED BY <2>1, <1>0 DEF Lives
<1>6. ASSUME NEW c \in Callers, CollectObserve(c)  PROVE Lives'
  <2>1. tracked' \subseteq tracked /\ UNCHANGED <<started, worker, saw, abandoned, outcome>>
    BY <1>6 DEF CollectObserve, Erase, thread
  <2> QED BY <2>1, <1>0 DEF Lives
<1>7. ASSUME NEW c \in Callers, DropErase(c)  PROVE Lives'
  <2> DEFINE k == caller[c].job
  <2>1. k \in 1..started /\ worker[k] # "none"
    BY <1>7, <1>0 DEF DropErase, Working, Works, At
  <2>2. /\ tracked' = tracked \ {k} /\ UNCHANGED <<started, worker, saw, outcome>>
        /\ abandoned' = abandoned \/ abandoned' = [abandoned EXCEPT ![k] = TRUE]
    BY <1>7 DEF DropErase, Erase, thread
  <2> HIDE DEF k
  <2> QED BY <2>1, <2>2, <1>0 DEF Lives, Jobs
<1>8. CASE \/ \E c \in Callers : Admit(c) \/ ReadId(c) \/ WriteId(c) \/ CancelSet(c)
           \/ \E c \in Callers, k \in Jobs :
                CancelCheck(c, k) \/ DrainEvents(c, k) \/ CollectRead(c, k) \/ DropCheck(c, k)
           \/ UNCHANGED vars
  <2>1. UNCHANGED <<started, tracked, worker, saw, abandoned, outcome>>
    BY <1>8 DEF Admit, ReadId, WriteId, CancelSet, CancelCheck, DrainEvents, CollectRead,
                DropCheck, vars, job, thread, counters
  <2> QED BY <2>1, <1>0 DEF Lives
<1> QED BY <1>1, <1>2, <1>3, <1>4, <1>5, <1>6, <1>7, <1>8 DEF Next, CallerStep, WorkerStep

-----------------------------------------------------------------------------
(* A caller that comes to no launch and no drop leaves the others alone. *)
LEMMA MoveKeepsWorking ==
  ASSUME TypeOK, Working, UNCHANGED <<started, tracked>>,
         \A k \in Jobs : worker'[k] = "none" <=> worker[k] = "none",
         NEW c \in Callers, NEW pc \in Places \ {"launch", "drop"}, NEW j, NEW o,
         Moves(c, pc, j, o),
         pc \in {"cancel", "collect"} => j \in 1..started /\ worker[j] # "none"
  PROVE  Working'
<1>1. /\ caller'[c].pc = pc /\ caller'[c].job = j
      /\ \A d \in Callers : d # c => caller'[d] = caller[d]
  BY DEF Moves, TypeOK
<1>2. 1..started \subseteq Jobs
  BY InternJobsAssumption DEF TypeOK, Jobs
<1> SUFFICES ASSUME NEW d \in Callers  PROVE Works(d)'
  BY DEF Working, Works
<1>3. CASE d = c
  BY <1>1, <1>2, <1>3 DEF Working, Works, At, Places
<1>4. CASE d # c
  <2>1. caller'[d] = caller[d]
    BY <1>1, <1>4
  <2>2. \A e \in Callers : caller'[e].pc \in {"launch", "drop"} => caller'[e] = caller[e]
    BY <1>1 DEF Places
  <2> QED BY <1>2, <2>1, <2>2 DEF Working, Works, At
<1> QED BY <1>3, <1>4

LEMMA WorkingKept ==
  ASSUME JobsInv, [Next]_vars
  PROVE  Working'
<1>0. /\ TypeOK /\ Lives /\ Working /\ started \in Nat /\ 1..started \subseteq Jobs
      /\ worker \in [Jobs -> {"none", "running", "yielded", "stored", "loaded", "publish", "done"}]
      /\ started' \in 0..MaxJobs
  <2>1. started' \in 0..MaxJobs
    BY DrawingKept
  <2>2. started \in 0..MaxJobs
    BY DEF JobsInv, TypeOK
  <2> QED BY <2>1, <2>2, InternJobsAssumption DEF JobsInv, TypeOK, Jobs
<1>1. ASSUME NEW c \in Callers, Admit(c) \/ ReadId(c) \/ WriteId(c) \/ CancelSet(c)
      PROVE  Working'
  <2>1. PICK pc \in {"idle", "admitted", "read", "drawn"},
              j \in {NoJob, nextJobId, caller[c].job} : Moves(c, pc, j, "none")
    BY <1>1 DEF Admit, ReadId, WriteId, CancelSet, Goes, Returns, Idle, Moves
  <2>2. UNCHANGED <<started, tracked, worker>>
    BY <1>1 DEF Admit, ReadId, WriteId, CancelSet, counters, thread
  <2> QED BY <2>1, <2>2, <1>0, MoveKeepsWorking DEF Places
<1>2. ASSUME NEW c \in Callers, NEW k \in Jobs, CancelCheck(c, k) \/ CollectRead(c, k)
      PROVE  Working'
  <2>1. PICK pc \in {"cancel", "collect"}, o \in {"none", Told(k)} : Moves(c, pc, k, o)
    BY <1>2 DEF CancelCheck, CollectRead, Goes, Moves
  <2>2. UNCHANGED <<started, tracked, worker>> /\ k \in 1..started /\ worker[k] # "none"
    BY <1>2, <1>0 DEF CancelCheck, CollectRead, counters, thread, Lives, Launched
  <2> QED BY <2>1, <2>2, <1>0, MoveKeepsWorking DEF Places
<1>3. ASSUME NEW c \in Callers, Insert(c)  PROVE Working'
  <2> DEFINE k == started + 1
  <2>1. /\ caller'[c].pc = "launch" /\ caller'[c].job = k
        /\ \A d \in Callers : d # c => caller'[d] = caller[d]
    BY <1>3, <1>0 DEF Insert, Goes, TypeOK
  <2>2. started' = k /\ worker' = worker /\ MutexFree
    BY <1>3 DEF Insert, thread
  <2>3. k \in Jobs /\ worker[k] = "none"
    BY <2>2, <1>0, InternJobsAssumption DEF Jobs, Lives
  <2>4. \A d \in Callers : /\ caller[d].pc # "drop" /\ caller'[d].pc # "drop"
                           /\ At(d, "launch") => caller[d].job # k
    BY <2>1, <2>2, <1>0 DEF MutexFree, Working, Works
  <2>5. k \in 1..started' /\ 1..started \subseteq 1..started'
    BY <2>2, <1>0
  <2> HIDE DEF k
  <2> SUFFICES ASSUME NEW d \in Callers  PROVE Works(d)'
    BY DEF Working, Works
  <2>6. CASE d = c
    BY <2>1, <2>2, <2>3, <2>4, <2>5, <2>6 DEF At, Works
  <2>7. CASE d # c
    <3>1. caller'[d] = caller[d] /\ Works(d)
      BY <2>1, <2>7, <1>0 DEF Working
    <3>2. \A e \in Callers : caller'[e].pc = "launch" /\ caller[d].pc = "launch"
                             /\ caller'[e].job = caller[d].job => caller'[e] = caller[e]
      BY <2>1, <2>4 DEF At
    <3>3. At(d, "launch")' => /\ caller'[d].job \in 1..started' /\ worker'[caller'[d].job] = "none"
                              /\ \A e \in Callers : At(e, "launch")' /\ caller'[e].job = caller'[d].job
                                   => e = d
      BY <2>2, <2>5, <3>1, <3>2 DEF Works, At
    <3>4. caller'[d].pc \in {"cancel", "collect", "drop"} =>
            caller'[d].job \in 1..started' /\ worker'[caller'[d].job] # "none"
      BY <2>2, <2>5, <3>1 DEF Works
    <3>5. ~At(d, "drop")'
      BY <2>4 DEF At
    <3> QED BY <3>3, <3>4, <3>5 DEF Works, At
  <2> QED BY <2>6, <2>7
<1>4. ASSUME NEW c \in Callers, Launch(c)  PROVE Working'
  <2> DEFINE k == caller[c].job
  <2>1. /\ caller'[c].pc = "idle" /\ \A d \in Callers : d # c => caller'[d] = caller[d]
    BY <1>4, <1>0 DEF Launch, Returns, Idle, TypeOK
  <2>2. /\ UNCHANGED <<started, tracked>> /\ At(c, "launch")
        /\ \E w \in {"running", "stored"} : worker' = [worker EXCEPT ![k] = w]
    BY <1>4 DEF Launch, counters
  <2>3. \A j \in Jobs : /\ worker[j] # "none" => worker'[j] # "none"
                        /\ j # k => worker'[j] = worker[j]
    BY <2>2, <1>0
  <2>4. \A d \in Callers : At(d, "launch") /\ d # c => caller[d].job # k
    BY <2>2, <1>0 DEF Working, Works
  <2> HIDE DEF k
  <2> SUFFICES ASSUME NEW d \in Callers  PROVE Works(d)'
    BY DEF Working, Works
  <2>5. CASE d = c
    BY <2>1, <2>5 DEF At, Works
  <2>6. CASE d # c
    <3>1. caller'[d] = caller[d]
      BY <2>1, <2>6
    <3>2. \A e \in Callers : caller'[e].pc \in {"launch", "drop"} => caller'[e] = caller[e]
      BY <2>1
    <3> QED BY <2>2, <2>3, <2>4, <2>6, <3>1, <3>2, <1>0 DEF Working, Works, At
  <2> QED BY <2>5, <2>6
<1>5. ASSUME NEW c \in Callers, CollectObserve(c)  PROVE Working'
  <2>1. /\ caller'[c].pc = "idle" /\ \A d \in Callers : d # c => caller'[d] = caller[d]
    BY <1>5, <1>0 DEF CollectObserve, Returns, Idle, TypeOK
  <2>2. MutexFree /\ UNCHANGED <<started, worker>>
    BY <1>5 DEF CollectObserve, thread
  <2>3. \A d \in Callers : caller'[d].pc # "drop"
    BY <2>1, <2>2 DEF MutexFree
  <2> QED BY <2>1, <2>2, <2>3, <1>0 DEF Working, Works, At
<1>6. ASSUME NEW c \in Callers, DropErase(c)  PROVE Working'
  <2>1. /\ caller'[c].pc = "idle" /\ \A d \in Callers : d # c => caller'[d] = caller[d]
    BY <1>6, <1>0 DEF DropErase, Returns, Idle, TypeOK
  <2>2. At(c, "drop") /\ UNCHANGED <<started, worker>>
    BY <1>6 DEF DropErase, thread
  <2>3. \A d \in Callers : caller'[d].pc # "drop"
    BY <2>1, <2>2, <1>0 DEF Working, Works, At
  <2> QED BY <2>1, <2>2, <2>3, <1>0 DEF Working, Works, At
<1>7. ASSUME NEW c \in Callers, NEW k \in Jobs, DropCheck(c, k)  PROVE Working'
  <2>1. /\ caller'[c].pc = "drop" /\ caller'[c].job = k
        /\ \A d \in Callers : d # c => caller'[d] = caller[d]
    BY <1>7, <1>0 DEF DropCheck, TypeOK
  <2>2. /\ MutexFree /\ UNCHANGED <<started, tracked, worker>>
        /\ k \in tracked /\ k \in 1..started /\ worker[k] # "none"
    BY <1>7, <1>0 DEF DropCheck, thread, counters, Lives, Launched
  <2> SUFFICES ASSUME NEW d \in Callers  PROVE Works(d)'
    BY DEF Working, Works
  <2>3. CASE d = c
    BY <2>1, <2>2, <2>3 DEF At, MutexFree, Works
  <2>4. CASE d # c
    BY <2>1, <2>2, <2>4, <1>0 DEF Working, Works, At, MutexFree
  <2> QED BY <2>3, <2>4
<1>8. CASE \/ \E k \in Jobs : WorkerStep(k)
           \/ \E c \in Callers, k \in Jobs : DrainEvents(c, k)
           \/ UNCHANGED vars
  <2>1. UNCHANGED <<started, tracked, caller>>
    BY <1>8 DEF WorkerStep, Run, Checkpoint, LoadAbandoned, Finish, Publish, DrainEvents,
                vars, counters
  <2>2. \A j \in Jobs : worker'[j] = "none" <=> worker[j] = "none"
    BY <1>8, <1>0 DEF WorkerStep, Run, Checkpoint, LoadAbandoned, Finish, Publish, Store,
                DrainEvents, vars, job, thread
  <2> QED BY <2>1, <2>2, <1>0 DEF Working, Works, At
<1> QED BY <1>1, <1>2, <1>3, <1>4, <1>5, <1>6, <1>7, <1>8 DEF Next, CallerStep

-----------------------------------------------------------------------------
(* What the counts are made of, as far as a step may change it. *)
CountTypes ==
  /\ tracked \in SUBSET Jobs
  /\ sequence \in [Jobs -> 0..MaxJobs]
  /\ nextSequence \in Nat /\ nextSequence >= 1
  /\ finished \in Nat /\ abandonedRunning \in Nat /\ totalAbandoned \in Nat
  /\ dropped \in Nat /\ swept \in Nat

(* A step of a worker that does not end leaves every count as it is. *)
LEMMA WorkerKeepsCounting ==
  ASSUME Counting, CountTypes,
         UNCHANGED <<started, tracked, sequence, nextSequence, abandoned, counters>>,
         \A j \in Jobs : /\ worker'[j] \in {"publish", "done"} <=> worker[j] \in {"publish", "done"}
  PROVE  Counting' /\ CountTypes'
<1>1. Finished' = Finished /\ Numbered' = Numbered /\ Orphans' = Orphans
  BY DEF Finished, Numbered, Orphans
<1>2. CountTypes'
  BY DEF CountTypes, counters
<1> QED BY <1>1, <1>2 DEF Counting, counters

LEMMA FinishKeepsCounting ==
  ASSUME JobsInv, CountTypes, NEW k \in Jobs, Finish(k)
  PROVE  Counting' /\ CountTypes'
<1>1. /\ Finished \in SUBSET Jobs /\ Orphans \in SUBSET Jobs
      /\ TypeOK /\ Counting
  BY DEF Finished, Orphans, JobsInv
<1>2. /\ IsFiniteSet(Finished) /\ IsFiniteSet(Orphans)
      /\ Cardinality(Orphans) \in Nat
  BY <1>1, JobSets
<1>3. /\ worker[k] = "loaded" /\ finished' = finished + 1
      /\ \E w \in {"publish", "done"} : worker' = [worker EXCEPT ![k] = w]
      /\ UNCHANGED <<started, tracked, sequence, nextSequence, abandoned, totalAbandoned, dropped, swept>>
  BY DEF Finish, job
<1>4. Finished' = Finished \cup {k} /\ k \notin Finished
  BY <1>1, <1>3 DEF Finished, TypeOK
<1>5. Orphans' = Orphans \ {k}
  BY <1>1, <1>3 DEF Orphans, TypeOK
<1>6. Cardinality(Finished') = Cardinality(Finished) + 1
  BY <1>2, <1>4, FS_AddElement
<1>7. Numbered' = Numbered
  BY <1>3 DEF Numbered
<1>8. CASE CountsDown(k)
  <2>1. k \in Orphans
    BY <1>8, <1>3 DEF CountsDown, JobsInv, Lives, Orphans
  <2>2. abandonedRunning' = abandonedRunning - 1 /\ abandonedRunning > 0
    BY <1>8 DEF Finish, CountsDown
  <2>3. Cardinality(Orphans') = Cardinality(Orphans) - 1
    BY <1>2, <1>5, <2>1, OneLess
  <2> QED BY <1>1, <1>2, <1>3, <1>6, <1>7, <2>2, <2>3 DEF Counting, CountTypes
<1>9. CASE ~CountsDown(k)
  <2>1. abandonedRunning' = abandonedRunning
    BY <1>9 DEF Finish
  <2>2. Cardinality(Orphans') <= Cardinality(Orphans) /\ Cardinality(Orphans') \in Nat
    BY <1>2, <1>5, Smaller
  <2> QED BY <1>1, <1>2, <1>3, <1>6, <1>7, <2>1, <2>2 DEF Counting, CountTypes
<1> QED BY <1>8, <1>9

LEMMA DropKeepsCounting ==
  ASSUME JobsInv, CountTypes, NEW c \in Callers, DropErase(c)
  PROVE  Counting' /\ CountTypes'
<1> DEFINE k == caller[c].job
<1>0. /\ TypeOK /\ Counting /\ started \in Nat
      /\ Orphans \in SUBSET Jobs /\ tracked \in SUBSET Jobs /\ k \in tracked
  BY InternJobsAssumption DEF Orphans, JobsInv, TypeOK, Working, Works, DropErase
<1>1. /\ IsFiniteSet(Orphans) /\ Cardinality(Orphans) \in Nat
      /\ IsFiniteSet(tracked) /\ Cardinality(tracked) \in Nat
  BY <1>0, JobSets
<1>2. /\ tracked' = tracked \ {k}
      /\ UNCHANGED <<started, worker, sequence, nextSequence, finished, swept>>
  BY DEF DropErase, Erase, thread
<1> HIDE DEF k
<1>3. Cardinality(tracked') = Cardinality(tracked) - 1
  BY <1>0, <1>1, <1>2, FS_RemoveElement
<1>4. Finished' = Finished /\ Numbered' = Numbered
  BY <1>2 DEF Finished, Numbered
<1>5. CASE /\ abandoned' = [abandoned EXCEPT ![k] = TRUE]
           /\ abandonedRunning' = abandonedRunning + 1
           /\ totalAbandoned' = totalAbandoned + 1
           /\ dropped' = dropped
  <2>1. Orphans' \subseteq Orphans \cup {k}
    BY <1>0, <1>2, <1>5 DEF Orphans, TypeOK
  <2>2. IsFiniteSet(Orphans \cup {k}) /\ Cardinality(Orphans \cup {k}) <= Cardinality(Orphans) + 1
    BY <1>1, OneMore
  <2>3. /\ Cardinality(Orphans') <= Cardinality(Orphans \cup {k})
        /\ Cardinality(Orphans') \in Nat /\ Cardinality(Orphans \cup {k}) \in Nat
    BY <2>1, <2>2, Smaller
  <2>4. Cardinality(Orphans') <= Cardinality(Orphans) + 1
    BY <1>1, <2>2, <2>3
  <2>5. CountTypes'
    BY <1>2, <1>5 DEF CountTypes
  <2> QED BY <1>0, <1>1, <1>2, <1>3, <1>4, <1>5, <2>3, <2>4, <2>5 DEF Counting, CountTypes
<1>6. CASE dropped' = dropped + 1 /\ UNCHANGED <<abandoned, abandonedRunning, totalAbandoned>>
  <2>1. Orphans' = Orphans
    BY <1>2, <1>6 DEF Orphans
  <2>2. CountTypes'
    BY <1>2, <1>6 DEF CountTypes
  <2> QED BY <1>0, <1>1, <1>2, <1>3, <1>4, <1>6, <2>1, <2>2 DEF Counting, CountTypes
<1> QED BY <1>5, <1>6 DEF DropErase, k

LEMMA CollectKeepsCounting ==
  ASSUME JobsInv, CountTypes, NEW c \in Callers, CollectObserve(c)
  PROVE  Counting' /\ CountTypes'
<1> DEFINE k   == caller[c].job
           seq == [l \in Jobs |-> IF l \in Observed(k) THEN nextSequence ELSE sequence[l]]
           out == IF \E l \in tracked : id[l] = id[k] THEN Swept(seq) ELSE {}
<1>0. /\ TypeOK /\ Counting /\ started \in Nat /\ MaxJobs \in Nat
      /\ Numbered \in SUBSET Jobs /\ tracked \in SUBSET Jobs
      /\ sequence \in [Jobs -> 0..MaxJobs]
  BY InternJobsAssumption DEF Numbered, JobsInv, TypeOK
<1>1. /\ IsFiniteSet(Numbered) /\ Cardinality(Numbered) \in Nat
      /\ IsFiniteSet(tracked) /\ Cardinality(tracked) \in Nat
  BY <1>0, JobSets
<1>2. /\ sequence' = seq
      /\ nextSequence' = IF Observed(k) = {} THEN nextSequence ELSE nextSequence + 1
      /\ tracked' = tracked \ out /\ swept' = swept + Cardinality(out)
      /\ UNCHANGED <<started, worker, abandoned, finished, abandonedRunning, totalAbandoned, dropped>>
  BY DEF CollectObserve, Erase, thread
<1>3. out \in SUBSET tracked
  BY DEF Swept, Retained
<1>4. /\ IsFiniteSet(out) /\ Cardinality(out) \in Nat
      /\ Cardinality(tracked \ out) = Cardinality(tracked) - Cardinality(out)
  <2>1. IsFiniteSet(out) /\ Cardinality(out) \in Nat
    BY <1>1, <1>3, Smaller
  <2>2. Cardinality(tracked \ out) = Cardinality(tracked) - Cardinality(tracked \cap out)
    BY <1>1, FS_Difference
  <2>3. tracked \cap out = out
    BY <1>3
  <2> QED BY <2>1, <2>2, <2>3
<1>5. Cardinality(tracked \ out) \in Nat
  BY <1>1, Smaller
<1> HIDE DEF out
<1>6. /\ Cardinality(tracked') + totalAbandoned' + dropped' + swept' <= started'
      /\ swept' \in Nat /\ tracked' \in SUBSET Jobs
  BY <1>0, <1>1, <1>2, <1>4, <1>5 DEF Counting, CountTypes
<1>7. Finished' = Finished /\ Orphans' = Orphans
  BY <1>2 DEF Finished, Orphans
<1>8. Observed(k) \subseteq Jobs /\ \A l \in Observed(k) : sequence[l] = 0
  BY <1>0 DEF Observed
<1>9. /\ nextSequence' <= Cardinality(Numbered') + 1 /\ nextSequence' \in Nat /\ nextSequence' >= 1
      /\ sequence' \in [Jobs -> 0..MaxJobs]
  <2>1. CASE Observed(k) = {}
    <3>1. sequence' = sequence /\ nextSequence' = nextSequence
      BY <2>1, <1>0, <1>2
    <3>2. Numbered' = Numbered
      BY <3>1 DEF Numbered
    <3> QED BY <3>1, <3>2, <1>0 DEF Counting, CountTypes
  <2>2. CASE Observed(k) # {}
    <3>1. PICK l \in Observed(k) : TRUE
      BY <2>2
    <3>2. l \in Jobs /\ l \notin Numbered /\ sequence[l] = 0
      BY <3>1, <1>8 DEF Numbered
    <3>3. IsFiniteSet(Numbered \cup {l}) /\ Cardinality(Numbered \cup {l}) = Cardinality(Numbered) + 1
      BY <1>1, <3>2, OneMore
    <3>4. Cardinality(Numbered \cup {l}) <= MaxJobs
      <4>1. Numbered \cup {l} \in SUBSET Jobs
        BY <1>0, <3>2
      <4> QED BY <4>1, <1>0, JobSets
    <3>5. nextSequence \in 1..MaxJobs /\ nextSequence' = nextSequence + 1
      BY <1>0, <1>1, <1>2, <2>2, <3>3, <3>4 DEF Counting, CountTypes
    <3>6. sequence' \in [Jobs -> 0..MaxJobs]
      BY <1>0, <1>2, <3>5
    <3>7. Numbered \cup {l} \in SUBSET Numbered'
      <4>1. \A m \in Jobs : sequence'[m] = IF m \in Observed(k) THEN nextSequence ELSE sequence[m]
        BY <1>2
      <4>2. \A m \in Numbered \cup {l} : sequence'[m] > 0 /\ m \in Jobs
        BY <1>0, <3>1, <3>2, <3>5, <4>1 DEF Numbered
      <4> QED BY <4>2 DEF Numbered
    <3>8. Cardinality(Numbered \cup {l}) <= Cardinality(Numbered') /\ Cardinality(Numbered') \in Nat
      <4>1. Numbered' \in SUBSET Jobs
        BY DEF Numbered, Jobs
      <4>2. IsFiniteSet(Numbered')
        BY <4>1, <1>0, JobSets
      <4> QED BY <3>7, <4>2, Smaller
    <3> QED BY <1>0, <1>1, <3>3, <3>5, <3>6, <3>8 DEF Counting
  <2> QED BY <2>1, <2>2
<1>10. CountTypes'
  BY <1>2, <1>6, <1>9 DEF CountTypes, Jobs
<1> QED BY <1>0, <1>2, <1>6, <1>7, <1>9, <1>10 DEF Counting

LEMMA InsertKeepsCounting ==
  ASSUME JobsInv, CountTypes, started' \in 0..MaxJobs, NEW c \in Callers, Insert(c)
  PROVE  Counting' /\ CountTypes'
<1> DEFINE k == started + 1
<1>0. /\ TypeOK /\ Counting /\ started \in Nat /\ MaxJobs \in Nat /\ tracked \in SUBSET Jobs
  BY InternJobsAssumption DEF JobsInv, TypeOK
<1>1. IsFiniteSet(tracked) /\ Cardinality(tracked) \in Nat
  BY <1>0, JobSets
<1>2. /\ started' = k /\ tracked' \subseteq tracked \cup {k}
      /\ UNCHANGED <<worker, abandoned, sequence, nextSequence, finished, abandonedRunning,
                     totalAbandoned, dropped, swept>>
  BY DEF Insert, thread
<1>3. k \in Jobs
  BY <1>0, <1>2 DEF Jobs
<1> HIDE DEF k
<1>4. IsFiniteSet(tracked \cup {k}) /\ Cardinality(tracked \cup {k}) <= Cardinality(tracked) + 1
  BY <1>1, OneMore
<1>5. /\ Cardinality(tracked') <= Cardinality(tracked \cup {k})
      /\ Cardinality(tracked') \in Nat /\ Cardinality(tracked \cup {k}) \in Nat
  BY <1>2, <1>4, Smaller
<1>6. Cardinality(tracked') + totalAbandoned + dropped + swept <= started'
  <2>1. started' = started + 1
    BY <1>2 DEF k
  <2> QED BY <2>1, <1>0, <1>1, <1>4, <1>5 DEF Counting, CountTypes
<1>7. Finished' = Finished /\ Orphans' = Orphans /\ Numbered' = Numbered
  BY <1>2 DEF Finished, Orphans, Numbered
<1>8. CountTypes'
  BY <1>0, <1>2, <1>3 DEF CountTypes, Jobs
<1> QED BY <1>0, <1>2, <1>6, <1>7, <1>8 DEF Counting

LEMMA CountingKept ==
  ASSUME JobsInv, [Next]_vars
  PROVE  Counting' /\ CountTypes'
<1>0. /\ TypeOK /\ Counting /\ CountTypes /\ Lives /\ Working
      /\ worker \in [Jobs -> {"none", "running", "yielded", "stored", "loaded", "publish", "done"}]
      /\ started' \in 0..MaxJobs
  <2>1. started' \in 0..MaxJobs
    BY DrawingKept
  <2> QED BY <2>1, InternJobsAssumption DEF JobsInv, TypeOK, CountTypes
<1>1. ASSUME NEW c \in Callers, Insert(c)  PROVE Counting' /\ CountTypes'
  BY <1>0, <1>1, InsertKeepsCounting
<1>2. ASSUME NEW c \in Callers, Launch(c)  PROVE Counting' /\ CountTypes'
  <2> DEFINE k == caller[c].job
  <2>1. /\ UNCHANGED <<started, tracked, sequence, nextSequence, abandoned, counters>>
        /\ worker[k] = "none"
        /\ \E w \in {"running", "stored"} : worker' = [worker EXCEPT ![k] = w]
    BY <1>0, <1>2 DEF Launch, Working, Works, At, counters
  <2>2. \A j \in Jobs : worker'[j] \in {"publish", "done"} <=> worker[j] \in {"publish", "done"}
    BY <2>1, <1>0
  <2> QED BY <2>1, <2>2, <1>0, WorkerKeepsCounting
<1>3. ASSUME NEW k \in Jobs, Run(k) \/ Checkpoint(k) \/ LoadAbandoned(k) \/ Publish(k)
      PROVE  Counting' /\ CountTypes'
  <2>1. /\ UNCHANGED <<started, tracked, sequence, nextSequence, abandoned, counters>>
        /\ \/ /\ worker[k] \in {"running", "yielded", "stored"}
              /\ \E w \in {"running", "yielded", "stored", "loaded"} : worker' = [worker EXCEPT ![k] = w]
           \/ worker[k] = "publish" /\ worker' = [worker EXCEPT ![k] = "done"]
    <3>1. CASE Run(k)
      BY <3>1 DEF Run, Store, job, counters
    <3>2. CASE Checkpoint(k)
      BY <3>2 DEF Checkpoint, Store, job, counters
    <3>3. CASE LoadAbandoned(k)
      BY <3>3 DEF LoadAbandoned, job, counters
    <3>4. CASE Publish(k)
      BY <3>4 DEF Publish, job, counters
    <3> QED BY <1>3, <3>1, <3>2, <3>3, <3>4
  <2>2. \A j \in Jobs : worker'[j] \in {"publish", "done"} <=> worker[j] \in {"publish", "done"}
    BY <2>1, <1>0
  <2> QED BY <2>1, <2>2, <1>0, WorkerKeepsCounting
<1>4. ASSUME NEW k \in Jobs, Finish(k)  PROVE Counting' /\ CountTypes'
  BY <1>0, <1>4, FinishKeepsCounting
<1>5. ASSUME NEW c \in Callers, CollectObserve(c)  PROVE Counting' /\ CountTypes'
  BY <1>0, <1>5, CollectKeepsCounting
<1>6. ASSUME NEW c \in Callers, DropErase(c)  PROVE Counting' /\ CountTypes'
  BY <1>0, <1>6, DropKeepsCounting
<1>7. CASE \/ \E c \in Callers : Admit(c) \/ ReadId(c) \/ WriteId(c) \/ CancelSet(c)
           \/ \E c \in Callers, k \in Jobs :
                CancelCheck(c, k) \/ DrainEvents(c, k) \/ CollectRead(c, k) \/ DropCheck(c, k)
           \/ UNCHANGED vars
  <2>1. UNCHANGED <<started, tracked, sequence, nextSequence, abandoned, counters, worker>>
    BY <1>7 DEF Admit, ReadId, WriteId, CancelSet, CancelCheck, DrainEvents, CollectRead,
                DropCheck, vars, job, thread, counters
  <2> QED BY <2>1, <1>0, WorkerKeepsCounting
<1> QED BY <1>1, <1>2, <1>3, <1>4, <1>5, <1>6, <1>7 DEF Next, CallerStep, WorkerStep

-----------------------------------------------------------------------------
JobTypes ==
  /\ isolation \in [Jobs -> Isolations \cup {"none"}]
  /\ outcome \in [Jobs -> Outcomes]
  /\ cancelRequested \in [Jobs -> BOOLEAN]
  /\ abandoned \in [Jobs -> BOOLEAN]
  /\ mailbox \in [Jobs -> SUBSET Kinds]
  /\ worker \in [Jobs -> {"none", "running", "yielded", "stored",
                          "loaded", "publish", "done"}]
  /\ saw \in [Jobs -> BOOLEAN]
  /\ answer \in [Jobs -> Outcomes]

CallerRecords == [pc : Places, job : Nat \cup {NoJob}, told : Outcomes]

LEMMA JobTypesKept ==
  ASSUME TypeOK, Next
  PROVE  JobTypes'
<1>0. JobTypes /\ caller \in [Callers -> CallerRecords]
  BY DEF TypeOK, JobTypes, CallerRecords, Places
<1>1. ASSUME NEW c \in Callers, Launch(c)  PROVE JobTypes'
  <2> DEFINE k == caller[c].job
  <2>1. /\ UNCHANGED <<cancelRequested, abandoned, mailbox, saw, answer>>
        /\ \E i \in Isolations : isolation' = [isolation EXCEPT ![k] = i]
        /\ \E w \in {"running", "stored"} : worker' = [worker EXCEPT ![k] = w]
        /\ outcome' = outcome \/ outcome' = [outcome EXCEPT ![k] = "error"]
    BY <1>1 DEF Launch
  <2> HIDE DEF k
  <2>2. isolation' \in [Jobs -> Isolations \cup {"none"}]
    <3>1. PICK i \in Isolations : isolation' = [isolation EXCEPT ![k] = i]
      BY <2>1
    <3>2. isolation \in [Jobs -> Isolations \cup {"none"}]
      BY <1>0 DEF JobTypes
    <3> QED BY <3>1, <3>2
  <2>3. outcome' \in [Jobs -> Outcomes]
    BY <1>0, <2>1 DEF JobTypes, Outcomes
  <2>4. worker' \in [Jobs -> {"none", "running", "yielded", "stored", "loaded", "publish", "done"}]
    BY <1>0, <2>1 DEF JobTypes
  <2> QED BY <1>0, <2>1, <2>2, <2>3, <2>4 DEF JobTypes
<1>2. ASSUME NEW j \in Jobs, WorkerStep(j)  PROVE JobTypes'
  <2>1. CASE Run(j)
    <3>1. /\ UNCHANGED <<isolation, cancelRequested, abandoned, mailbox, saw, answer>>
          /\ \E w \in {"yielded", "stored"} : worker' = [worker EXCEPT ![j] = w]
          /\ outcome' = outcome \/ \E o \in {"ok", "error"} : outcome' = [outcome EXCEPT ![j] = o]
      BY <2>1 DEF Run, Store, job
    <3> QED BY <3>1, <1>0 DEF JobTypes, Outcomes
  <2>2. CASE Checkpoint(j)
    <3>1. /\ UNCHANGED <<isolation, cancelRequested, abandoned, mailbox, saw, answer>>
          /\ \E w \in {"running", "stored"} : worker' = [worker EXCEPT ![j] = w]
          /\ outcome' = outcome \/ outcome' = [outcome EXCEPT ![j] = "cancelled"]
      BY <2>2 DEF Checkpoint, Store, job
    <3> QED BY <3>1, <1>0 DEF JobTypes, Outcomes
  <2>3. CASE LoadAbandoned(j)
    BY <2>3, <1>0 DEF LoadAbandoned, JobTypes, job
  <2>4. CASE Finish(j)
    BY <2>4, <1>0 DEF Finish, JobTypes, job
  <2>5. CASE Publish(j)
    BY <2>5, <1>0 DEF Publish, JobTypes, job, Kinds
  <2> QED BY <1>2, <2>1, <2>2, <2>3, <2>4, <2>5 DEF WorkerStep
<1>3. ASSUME NEW c \in Callers, CancelSet(c)  PROVE JobTypes'
  BY <1>0, <1>3 DEF CancelSet, JobTypes, thread, Kinds
<1>4. ASSUME NEW c \in Callers, CollectObserve(c)  PROVE JobTypes'
  <2>1. caller[c].told \in Outcomes
    BY <1>0 DEF CallerRecords
  <2> QED BY <1>0, <1>4, <2>1 DEF CollectObserve, JobTypes, thread
<1>5. ASSUME NEW c \in Callers, DropErase(c)  PROVE JobTypes'
  BY <1>0, <1>5 DEF DropErase, JobTypes, thread
<1>6. ASSUME NEW c \in Callers, Admit(c) \/ ReadId(c) \/ WriteId(c) \/ Insert(c)  PROVE JobTypes'
  BY <1>0, <1>6 DEF Admit, ReadId, WriteId, Insert, JobTypes, job, thread
<1>7. ASSUME NEW c \in Callers, NEW j \in Jobs,
             CancelCheck(c, j) \/ DrainEvents(c, j) \/ CollectRead(c, j) \/ DropCheck(c, j)
      PROVE  JobTypes'
  BY <1>0, <1>7 DEF CancelCheck, DrainEvents, CollectRead, DropCheck, JobTypes, job, thread
<1> QED BY <1>1, <1>2, <1>3, <1>4, <1>5, <1>6, <1>7 DEF Next, CallerStep

LEMMA CallersKept ==
  ASSUME JobsInv, Next
  PROVE  caller' \in [Callers -> CallerRecords]
<1>0. /\ caller \in [Callers -> CallerRecords] /\ outcome \in [Jobs -> Outcomes]
      /\ nextJobId \in Nat /\ started \in Nat /\ 1..started \subseteq Jobs /\ Jobs \subseteq Nat
  BY InternJobsAssumption DEF JobsInv, TypeOK, CallerRecords, Places, Jobs
<1>1. ASSUME NEW c \in Callers, NEW r \in CallerRecords, caller' = [caller EXCEPT ![c] = r]
      PROVE  caller' \in [Callers -> CallerRecords]
  BY <1>0, <1>1
<1>2. \A pc \in Places, j \in Nat \cup {NoJob}, o \in Outcomes :
        [pc |-> pc, job |-> j, told |-> o] \in CallerRecords
  BY DEF CallerRecords
<1>3. ASSUME NEW c \in Callers, CallerStep(c)  PROVE caller' \in [Callers -> CallerRecords]
  <2>1. caller[c].job \in Nat \cup {NoJob}
    BY <1>0 DEF CallerRecords
  <2>2. \E pc \in Places, j \in {NoJob, nextJobId, caller[c].job, started + 1} :
          caller' = [caller EXCEPT ![c] = [pc |-> pc, job |-> j, told |-> "none"]]
    BY <1>3 DEF CallerStep, Admit, ReadId, WriteId, Insert, Launch, CancelSet, CollectObserve,
                DropErase, Goes, Returns, Idle, Places
  <2>3. PICK pc \in Places, j \in {NoJob, nextJobId, caller[c].job, started + 1} :
          caller' = [caller EXCEPT ![c] = [pc |-> pc, job |-> j, told |-> "none"]]
    BY <2>2
  <2>4. j \in Nat \cup {NoJob} /\ "none" \in Outcomes
    BY <1>0, <2>1 DEF Outcomes
  <2>5. [pc |-> pc, job |-> j, told |-> "none"] \in CallerRecords
    BY <1>2, <2>4
  <2> QED BY <1>1, <2>3, <2>5
<1>4. ASSUME NEW c \in Callers, NEW j \in Jobs,
             CancelCheck(c, j) \/ DrainEvents(c, j) \/ CollectRead(c, j) \/ DropCheck(c, j)
      PROVE  caller' \in [Callers -> CallerRecords]
  <2>1. outcome[j] \in Outcomes /\ Told(j) \in Outcomes /\ "none" \in Outcomes
    BY <1>0 DEF Told, Outcomes
  <2>2. \/ caller' = caller
        \/ \E pc \in Places, o \in {"none", outcome[j], Told(j)} :
             caller' = [caller EXCEPT ![c] = [pc |-> pc, job |-> j, told |-> o]]
    BY <1>4 DEF CancelCheck, DrainEvents, CollectRead, DropCheck, Goes, Places
  <2>3. CASE caller' = caller
    BY <2>3, <1>0
  <2>4. CASE caller' # caller
    <3>1. PICK pc \in Places, o \in {"none", outcome[j], Told(j)} :
            caller' = [caller EXCEPT ![c] = [pc |-> pc, job |-> j, told |-> o]]
      BY <2>2, <2>4
    <3>2. [pc |-> pc, job |-> j, told |-> o] \in CallerRecords
      BY <1>0, <1>2, <2>1
    <3> QED BY <1>1, <3>1, <3>2
  <2> QED BY <2>3, <2>4
<1>5. ASSUME NEW j \in Jobs, WorkerStep(j)  PROVE caller' = caller
  BY <1>5 DEF WorkerStep, Run, Checkpoint, LoadAbandoned, Finish, Publish
<1> QED BY <1>0, <1>3, <1>4, <1>5 DEF Next

LEMMA TypesKept ==
  ASSUME JobsInv, [Next]_vars
  PROVE  TypeOK'
<1>1. CASE Next
  <2>1. JobTypes' /\ caller' \in [Callers -> CallerRecords]
    BY <1>1, JobTypesKept, CallersKept DEF JobsInv
  <2>2. Drawing' /\ nextJobId' \in 1..(MaxJobs + 1) /\ id' \in [Jobs -> 0..MaxJobs]
        /\ started' \in 0..MaxJobs
    BY DrawingKept
  <2>3. Counting' /\ CountTypes'
    BY CountingKept
  <2>4. /\ Cardinality(Finished') \in 0..MaxJobs /\ Cardinality(Numbered') \in 0..MaxJobs
        /\ Cardinality(tracked') \in 0..MaxJobs
    <3>1. Finished' \in SUBSET Jobs /\ Numbered' \in SUBSET Jobs /\ tracked' \in SUBSET Jobs
      BY <2>3 DEF Finished, Numbered, Jobs, CountTypes
    <3> QED BY <3>1, JobSets DEF JobsInv
  <2>5. /\ nextSequence' \in 1..(MaxJobs + 1) /\ finished' \in 0..MaxJobs
        /\ abandonedRunning' \in 0..MaxJobs /\ totalAbandoned' \in 0..MaxJobs
        /\ dropped' \in 0..MaxJobs /\ swept' \in 0..MaxJobs
    BY <2>2, <2>3, <2>4, InternJobsAssumption DEF Counting, CountTypes
  <2> QED BY <2>1, <2>2, <2>3, <2>5
          DEF TypeOK, JobTypes, CountTypes, CallerRecords, Places, Jobs
<1>2. CASE UNCHANGED vars
  BY <1>2 DEF JobsInv, TypeOK, vars, job, thread, counters, Jobs
<1> QED BY <1>1, <1>2

LEMMA JobsInit ==
  ASSUME Init
  PROVE  JobsInv
<1> USE InternJobsAssumption
<1>1. TypeOK
  BY DEF Init, TypeOK, Outcomes, Kinds, Idle
<1>2. /\ Starting = {} /\ Drawn = {} /\ Finished = {} /\ Numbered = {} /\ Orphans = {} /\ tracked = {}
  BY DEF Init, Starting, Drawn, Finished, Numbered, Orphans, Idle
<1>3. Drawing
  BY <1>2, FS_EmptySet DEF Init, Drawing, At, Idle
<1>4. Working
  BY DEF Init, Working, Works, At, Idle
<1>5. Lives
  BY DEF Init, Lives, Ready
<1>6. Counting
  BY <1>2, FS_EmptySet DEF Init, Counting
<1> QED BY <1>1, <1>3, <1>4, <1>5, <1>6 DEF JobsInv

(***************************************************************************)
(* JobsInv is inductive, for every number of callers.                      *)
(***************************************************************************)
THEOREM JobsInvariant == Spec => []JobsInv
<1>1. Init => JobsInv
  BY JobsInit
<1>2. JobsInv /\ [Next]_vars => JobsInv'
  BY TypesKept, DrawingKept, WorkingKept, LivesKept, CountingKept DEF JobsInv
<1> QED BY <1>1, <1>2, PTL DEF Spec

(***************************************************************************)
(* Whatever number of callers start, drop and collect: no counter leaves   *)
(* its range, no more jobs leave the table than were started, and          *)
(* abandoned_running_jobs never falls below the abandoned jobs whose       *)
(* thread has not finished.  (drop and the end of the detached thread.)    *)
(***************************************************************************)
THEOREM CountsHoldForAll == Spec => [](TypeOK /\ NeverUndercounts)
<1>1. JobsInv => TypeOK /\ NeverUndercounts
  BY DEF JobsInv, Counting, Orphans, NeverUndercounts
<1> QED BY <1>1, JobsInvariant, PTL

-----------------------------------------------------------------------------
(***************************************************************************)
(* One caller, the case the rest of the counts is stated for.  It draws    *)
(* each number once, so no job falls out of the table; what it is about to *)
(* collect is still there and still ended as it was told.                  *)
(***************************************************************************)
OneCaller == \E c : Callers = {c}

Unready == {j \in tracked : ~Ready(j)}

NumbersApart ==
  /\ \A j \in tracked : id[j] < nextJobId
  /\ \A j, k \in tracked : id[j] = id[k] => j = k
  /\ \A c \in Callers :
       /\ At(c, "read") => caller[c].job = nextJobId
       /\ At(c, "drawn") => /\ nextJobId = caller[c].job + 1
                            /\ \A j \in tracked : id[j] < caller[c].job

ToldOnce ==
  /\ \A j \in Jobs : /\ sequence[j] > 0 => Ready(j)
                     /\ answer[j] # "none" => Ready(j) /\ answer[j] = Told(j)
  /\ \A c \in Callers :
       /\ At(c, "collect") => /\ caller[c].job \in tracked /\ Ready(caller[c].job)
                              /\ caller[c].told = Told(caller[c].job)
       /\ At(c, "cancel") => answer[caller[c].job] = "none"

Accounts == started = Cardinality(tracked) + totalAbandoned + dropped + swept

Limits ==
  /\ Cardinality(Retained(sequence)) <= MaxRetained
  /\ Cardinality(Unready) <= MaxActive
  /\ Starting # {} => Cardinality(Unready) < MaxActive

OneInv == NumbersApart /\ ToldOnce /\ Accounts /\ Limits

LEMMA NumbersKept ==
  ASSUME JobsInv, NumbersApart, NEW c, Callers = {c}, [Next]_vars
  PROVE  NumbersApart'
<1>0. /\ TypeOK /\ nextJobId \in Nat /\ id \in [Jobs -> 0..MaxJobs] /\ started \in Nat /\ MaxJobs \in Nat
      /\ tracked \subseteq 1..started /\ tracked \subseteq Jobs
      /\ started' \in 0..MaxJobs
  <2>1. started' \in 0..MaxJobs
    BY DrawingKept
  <2> QED BY <2>1, InternJobsAssumption DEF JobsInv, TypeOK, Lives
<1>1. CASE Insert(c)
  <2> DEFINE k == started + 1
             n == caller[c].job
  <2>1. /\ n \in Nat /\ nextJobId = n + 1 /\ \A j \in tracked : id[j] < n
    BY <1>0, <1>1 DEF Insert, NumbersApart, JobsInv, Drawing, At
  <2>2. k \in Jobs /\ k \notin tracked
    BY <1>0, <1>1 DEF Insert, Jobs
  <2>3. /\ id' = [id EXCEPT ![k] = n] /\ tracked' = {j \in tracked : id[j] # n} \cup {k}
        /\ caller'[c].pc = "launch" /\ nextJobId' = nextJobId
    BY <1>0, <1>1 DEF Insert, Goes, TypeOK
  <2>4. /\ id'[k] = n /\ \A j \in tracked : id'[j] = id[j] /\ id[j] \in Nat
    BY <1>0, <2>2, <2>3
  <2> HIDE DEF k, n
  <2>5. \A j \in tracked' : id'[j] < nextJobId'
    BY <1>0, <2>1, <2>3, <2>4
  <2>6. \A i, j \in tracked' : id'[i] = id'[j] => i = j
    BY <1>0, <2>1, <2>3, <2>4 DEF NumbersApart
  <2> QED BY <2>3, <2>5, <2>6 DEF NumbersApart, At
<1>2. CASE ReadId(c)
  <2>1. /\ caller'[c].pc = "read" /\ caller'[c].job = nextJobId
        /\ UNCHANGED <<tracked, id, nextJobId>>
    BY <1>0, <1>2 DEF ReadId, Goes, job, TypeOK
  <2> QED BY <2>1 DEF NumbersApart, At
<1>3. CASE WriteId(c)
  <2>1. /\ caller'[c].pc = "drawn" /\ caller'[c].job = nextJobId /\ nextJobId' = nextJobId + 1
        /\ UNCHANGED <<tracked, id>>
    BY <1>0, <1>3 DEF WriteId, Goes, job, TypeOK, NumbersApart
  <2>2. \A j \in tracked : id[j] \in Nat
    BY <1>0
  <2>3. \A j \in tracked : id'[j] < nextJobId' /\ id'[j] < caller'[c].job
    <3> SUFFICES ASSUME NEW j \in tracked PROVE id'[j] < nextJobId' /\ id'[j] < caller'[c].job
      OBVIOUS
    <3>1. id[j] < nextJobId /\ id[j] \in Nat /\ nextJobId \in Nat
      BY <1>0, <2>2 DEF NumbersApart
    <3>2. id[j] < nextJobId + 1
      BY <3>1
    <3> QED BY <2>1, <3>1, <3>2, Zenon
  <2> QED BY <2>1, <2>3 DEF NumbersApart, At
<1>4. CASE CollectObserve(c) \/ DropErase(c)
  <2>1. tracked' \subseteq tracked /\ UNCHANGED <<id, nextJobId>> /\ caller'[c].pc = "idle"
    <3>1. CASE CollectObserve(c)
      BY <1>0, <3>1 DEF CollectObserve, Erase, Returns, Idle, TypeOK
    <3>2. CASE DropErase(c)
      BY <1>0, <3>2 DEF DropErase, Erase, Returns, Idle, TypeOK
    <3> QED BY <1>4, <3>1, <3>2
  <2> QED BY <2>1 DEF NumbersApart, At
<1>5. CASE Admit(c) \/ Launch(c) \/ CancelSet(c)
  <2>1. UNCHANGED <<tracked, id, nextJobId>> /\ caller'[c].pc \in {"admitted", "idle"}
    BY <1>0, <1>5 DEF Admit, Launch, CancelSet, Goes, Returns, Idle, job, TypeOK
  <2> QED BY <2>1 DEF NumbersApart, At
<1>6. ASSUME NEW j \in Jobs, CancelCheck(c, j) \/ CollectRead(c, j) \/ DropCheck(c, j)
      PROVE  NumbersApart'
  <2>1. UNCHANGED <<tracked, id, nextJobId>> /\ caller'[c].pc \in {"cancel", "collect", "drop"}
    BY <1>0, <1>6 DEF CancelCheck, CollectRead, DropCheck, Goes, job, TypeOK
  <2> QED BY <2>1 DEF NumbersApart, At
<1>7. CASE (\E j \in Jobs : WorkerStep(j) \/ DrainEvents(c, j)) \/ UNCHANGED vars
  <2>1. UNCHANGED <<tracked, id, nextJobId, caller>>
    BY <1>7 DEF WorkerStep, Run, Checkpoint, LoadAbandoned, Finish, Publish, Store, DrainEvents,
                vars, job
  <2> QED BY <2>1 DEF NumbersApart, At
<1> QED BY <1>1, <1>2, <1>3, <1>4, <1>5, <1>6, <1>7 DEF Next, CallerStep

(* What is ready stays as it is: workers store where nothing is yet. *)
LEMMA StoringKeepsToldOnce ==
  ASSUME TypeOK, ToldOnce, UNCHANGED <<sequence, cancelRequested, answer, tracked>>,
         \A j \in Jobs : Ready(j) => outcome'[j] = outcome[j],
         \A c \in Callers : caller'[c].pc \in {"collect", "cancel"} => caller'[c] = caller[c],
         tracked \in SUBSET Jobs
  PROVE  ToldOnce'
<1>1. \A j \in Jobs : Ready(j) => Ready(j)' /\ Told(j)' = Told(j)
  BY DEF Ready, Told
<1>2. \A j \in Jobs : /\ (sequence[j] > 0)' => Ready(j)'
                      /\ answer'[j] # "none" => Ready(j)' /\ answer'[j] = Told(j)'
  BY <1>1 DEF ToldOnce
<1>3. ASSUME NEW c \in Callers
      PROVE  /\ At(c, "collect")' => /\ caller'[c].job \in tracked' /\ Ready(caller[c].job)'
                                     /\ caller'[c].told = Told(caller[c].job)'
             /\ At(c, "cancel")' => answer'[caller'[c].job] = "none"
  <2>1. CASE At(c, "collect")'
    <3>1. caller'[c] = caller[c] /\ At(c, "collect")
      BY <2>1 DEF At
    <3>2. caller[c].job \in tracked /\ Ready(caller[c].job) /\ caller[c].told = Told(caller[c].job)
      BY <3>1 DEF ToldOnce
    <3>3. Ready(caller[c].job)' /\ Told(caller[c].job)' = Told(caller[c].job)
      BY <1>1, <3>1, <3>2 DEF Ready, Told
    <3> QED BY <2>1, <3>1, <3>2, <3>3 DEF At
  <2>2. CASE At(c, "cancel")'
    <3>1. caller'[c] = caller[c] /\ At(c, "cancel")
      BY <2>2 DEF At
    <3> QED BY <2>2, <3>1 DEF ToldOnce, At
  <2> QED BY <2>1, <2>2
<1> QED BY <1>2, <1>3 DEF ToldOnce

LEMMA CollectKeepsToldOnce ==
  ASSUME JobsInv, NumbersApart, ToldOnce, NEW c, Callers = {c}, CollectObserve(c)
  PROVE  ToldOnce' /\ \A j \in Jobs : answer[j] # "none" => answer'[j] = answer[j]
<1> DEFINE k == caller[c].job
<1>0. /\ k \in tracked /\ k \in Jobs /\ Ready(k) /\ caller[c].told = Told(k) /\ tracked \in SUBSET Jobs
      /\ sequence \in [Jobs -> 0..MaxJobs] /\ answer \in [Jobs -> Outcomes]
  BY DEF ToldOnce, JobsInv, TypeOK, CollectObserve
<1>1. \A l \in Observed(k) : l = k
  BY <1>0 DEF Observed, NumbersApart
<1>2. /\ \A l \in Jobs : l # k => sequence'[l] = sequence[l]
      /\ answer' = [answer EXCEPT ![k] = caller[c].told]
      /\ UNCHANGED <<outcome, cancelRequested>>
  BY <1>1 DEF CollectObserve
<1>3. caller'[c].pc = "idle"
  BY DEF CollectObserve, Returns, Idle, JobsInv, TypeOK
<1> HIDE DEF k
<1>4. \A j \in Jobs : (Ready(j)' <=> Ready(j)) /\ Told(j)' = Told(j)
  BY <1>2 DEF Ready, Told
<1>5. \A j \in Jobs : /\ (sequence[j] > 0)' => Ready(j)'
                      /\ answer'[j] # "none" => Ready(j)' /\ answer'[j] = Told(j)'
                      /\ answer[j] # "none" => answer'[j] = answer[j]
  <2> SUFFICES ASSUME NEW j \in Jobs
               PROVE  /\ (sequence[j] > 0)' => Ready(j)'
                      /\ answer'[j] # "none" => Ready(j)' /\ answer'[j] = Told(j)'
                      /\ answer[j] # "none" => answer'[j] = answer[j]
    OBVIOUS
  <2>1. CASE j = k
    BY <1>0, <1>2, <1>4, <2>1 DEF ToldOnce
  <2>2. CASE j # k
    BY <1>0, <1>2, <1>4, <2>2 DEF ToldOnce
  <2> QED BY <2>1, <2>2
<1>6. \A d \in Callers : ~At(d, "collect")' /\ ~At(d, "cancel")'
  BY <1>3 DEF At
<1> QED BY <1>5, <1>6 DEF ToldOnce

LEMMA ToldOnceKept ==
  ASSUME JobsInv, NumbersApart, ToldOnce, NEW c, Callers = {c}, [Next]_vars
  PROVE  ToldOnce' /\ \A j \in Jobs : answer[j] # "none" => answer'[j] = answer[j]
<1>0. /\ TypeOK /\ tracked \in SUBSET Jobs /\ outcome \in [Jobs -> Outcomes]
      /\ caller \in [Callers -> CallerRecords] /\ answer \in [Jobs -> Outcomes]
      /\ cancelRequested \in [Jobs -> BOOLEAN]
  BY DEF JobsInv, TypeOK, CallerRecords, Places
<1>1. CASE CollectObserve(c)
  BY <1>1, CollectKeepsToldOnce
<1>2. CASE Admit(c) \/ ReadId(c) \/ WriteId(c)
  <2>1. UNCHANGED <<sequence, cancelRequested, answer, tracked, outcome>>
    BY <1>2 DEF Admit, ReadId, WriteId, job
  <2>2. caller'[c].pc \in {"admitted", "read", "drawn"}
    BY <1>0, <1>2 DEF Admit, ReadId, WriteId, Goes
  <2>3. ToldOnce'
    BY <1>0, <2>1, <2>2, StoringKeepsToldOnce
  <2> QED BY <2>1, <2>3
<1>3. CASE Insert(c) \/ DropErase(c)
  <2>1. UNCHANGED <<sequence, cancelRequested, answer, outcome>> /\ caller'[c].pc \in {"launch", "idle"}
    <3>1. CASE Insert(c)
      BY <1>0, <3>1 DEF Insert, Goes
    <3>2. CASE DropErase(c)
      BY <1>0, <3>2 DEF DropErase, Returns, Idle
    <3> QED BY <1>3, <3>1, <3>2
  <2> QED BY <2>1 DEF ToldOnce, At, Ready, Told
<1>4. CASE Launch(c)
  <2> DEFINE k == caller[c].job
  <2>1. /\ UNCHANGED <<sequence, cancelRequested, answer, tracked>> /\ caller'[c].pc = "idle"
        /\ outcome' = outcome \/ outcome' = [outcome EXCEPT ![k] = "error"]
        /\ worker[k] = "none" /\ k \in Jobs
    <3>1. worker[k] = "none" /\ k \in Jobs
      BY <1>4, InternJobsAssumption DEF Launch, JobsInv, TypeOK, Working, Works, Jobs
    <3> QED BY <1>0, <1>4, <3>1 DEF Launch, Returns, Idle
  <2>2. ~Ready(k)
    BY <2>1 DEF JobsInv, Lives
  <2> HIDE DEF k
  <2>3. \A j \in Jobs : Ready(j) => outcome'[j] = outcome[j]
    BY <1>0, <2>1, <2>2
  <2>4. \A d \in Callers : caller'[d].pc \notin {"collect", "cancel"}
    BY <2>1
  <2>5. ToldOnce'
    BY <1>0, <2>1, <2>3, <2>4, StoringKeepsToldOnce
  <2> QED BY <2>1, <2>5
<1>5. ASSUME NEW k \in Jobs, WorkerStep(k)
      PROVE  ToldOnce' /\ UNCHANGED answer
  <2>1. UNCHANGED <<sequence, cancelRequested, answer, tracked, caller>>
    BY <1>5 DEF WorkerStep, Run, Checkpoint, LoadAbandoned, Finish, Publish, Store, job
  <2>2. \/ outcome' = outcome
        \/ worker[k] \in {"running", "yielded"} /\ \E o \in Outcomes : outcome' = [outcome EXCEPT ![k] = o]
    BY <1>5 DEF WorkerStep, Run, Checkpoint, LoadAbandoned, Finish, Publish, Store, job, Outcomes
  <2>3. worker[k] \in {"running", "yielded"} => ~Ready(k)
    BY DEF JobsInv, Lives
  <2>4. \A j \in Jobs : Ready(j) => outcome'[j] = outcome[j]
    BY <1>0, <2>2, <2>3
  <2>5. ToldOnce'
    BY <1>0, <2>1, <2>4, StoringKeepsToldOnce
  <2> QED BY <2>1, <2>5
<1>6. CASE CancelSet(c)
  <2> DEFINE k == caller[c].job
  <2>1. /\ UNCHANGED <<sequence, answer, tracked, outcome>> /\ caller'[c].pc = "idle"
        /\ cancelRequested' = [cancelRequested EXCEPT ![k] = TRUE] /\ answer[k] = "none"
    BY <1>0, <1>6 DEF CancelSet, Returns, Idle, ToldOnce
  <2> HIDE DEF k
  <2>2. \A j \in Jobs : (Ready(j)' <=> Ready(j)) /\ (answer[j] # "none" => Told(j)' = Told(j))
    BY <1>0, <2>1 DEF Ready, Told
  <2>3. \A d \in Callers : ~At(d, "collect")' /\ ~At(d, "cancel")'
    BY <2>1 DEF At
  <2> QED BY <2>1, <2>2, <2>3 DEF ToldOnce
<1>7. ASSUME NEW k \in Jobs, CancelCheck(c, k) \/ CollectRead(c, k) \/ DropCheck(c, k)
      PROVE  ToldOnce' /\ UNCHANGED answer
  <2>1. UNCHANGED <<sequence, cancelRequested, answer, tracked, outcome>>
    BY <1>7 DEF CancelCheck, CollectRead, DropCheck, job
  <2>2. /\ caller'[c].job = k /\ k \in tracked
        /\ \/ caller'[c].pc = "cancel" /\ ~Ready(k)
           \/ caller'[c].pc = "collect" /\ Ready(k) /\ caller'[c].told = Told(k)
           \/ caller'[c].pc = "drop"
    <3>1. CASE CancelCheck(c, k)
      BY <1>0, <3>1 DEF CancelCheck, Goes, Cancellable
    <3>2. CASE CollectRead(c, k)
      BY <1>0, <3>2 DEF CollectRead
    <3>3. CASE DropCheck(c, k)
      BY <1>0, <3>3 DEF DropCheck
    <3> QED BY <1>7, <3>1, <3>2, <3>3
  <2>3. Ready(k)' <=> Ready(k)
    BY <2>1 DEF Ready
  <2>4. Told(k)' = Told(k)
    BY <2>1 DEF Told
  <2>5. ~Ready(k) => answer[k] = "none"
    BY <1>7 DEF ToldOnce
  <2>6. \A j \in Jobs : /\ (sequence[j] > 0)' => Ready(j)'
                        /\ answer'[j] # "none" => Ready(j)' /\ answer'[j] = Told(j)'
    BY <2>1 DEF ToldOnce, Ready, Told
  <2>7. ToldOnce'
    BY <2>1, <2>2, <2>3, <2>4, <2>5, <2>6 DEF ToldOnce, At, Ready, Told
  <2> QED BY <2>1, <2>7
<1>8. CASE (\E j \in Jobs : DrainEvents(c, j)) \/ UNCHANGED vars
  <2>1. UNCHANGED <<sequence, cancelRequested, answer, tracked, outcome, caller>>
    BY <1>8 DEF DrainEvents, vars, job
  <2> QED BY <2>1 DEF ToldOnce, At, Ready, Told
<1> QED BY <1>1, <1>2, <1>3, <1>4, <1>5, <1>6, <1>7, <1>8 DEF Next, CallerStep

-----------------------------------------------------------------------------
LEMMA LeastNatural ==
  ASSUME NEW T \in SUBSET Nat, T # {}
  PROVE  \E x \in T : \A y \in T : x <= y
<1> DEFINE R == OpToRel(<, Nat)
<1>1. IsWellFoundedOn(R, Nat)
  BY NatLessThanWellFounded, Zenon
<1>2. \A x, y \in Nat : x < y => <<x, y>> \in R
  BY Zenon DEF OpToRel
<1> HIDE DEF R
<1>3. PICK x \in T : \A y \in T : <<y, x>> \notin R
  BY <1>1, WFMin, Zenon
<1>4. \A y \in T : ~ (y < x)
  BY <1>2, <1>3, Zenon
<1> QED BY <1>3, <1>4, SMT

(* What the sweep leaves is within the limit: the oldest job left has at   *)
(* most as many behind it.                                                 *)
Behind(R, seq, j) == {k \in R : seq[k] >= seq[j]}
Latest(R, seq, n) == {j \in R : Cardinality(Behind(R, seq, j)) <= n}

LEMMA SweepLeavesFew ==
  ASSUME NEW R, IsFiniteSet(R), NEW seq, \A j \in R : seq[j] \in Nat, NEW n \in Nat
  PROVE  Cardinality(Latest(R, seq, n)) <= n
<1> DEFINE Left == Latest(R, seq, n)
<1>1. CASE Left = {}
  <2>1. Cardinality({}) = 0
    BY FS_EmptySet
  <2> QED BY <1>1, <2>1
<1>2. CASE Left # {}
  <2>1. {seq[j] : j \in Left} \in SUBSET Nat /\ {seq[j] : j \in Left} # {}
    BY <1>2 DEF Latest
  <2>2. PICK x \in {seq[j] : j \in Left} : \A y \in {seq[j] : j \in Left} : x <= y
    <3> HIDE DEF Left
    <3> QED BY <2>1, LeastNatural
  <2>3. PICK m \in Left : \A j \in Left : seq[m] <= seq[j]
    BY <2>2
  <2>4. Left \in SUBSET Behind(R, seq, m)
    BY <2>3 DEF Latest, Behind
  <2>5. IsFiniteSet(Behind(R, seq, m)) /\ Cardinality(Behind(R, seq, m)) <= n
    <3>1. Behind(R, seq, m) \in SUBSET R
      BY DEF Behind
    <3> QED BY <2>3, <3>1, Smaller DEF Latest
  <2> HIDE DEF Left
  <2>6. /\ Cardinality(Left) <= Cardinality(Behind(R, seq, m)) /\ Cardinality(Left) \in Nat
        /\ Cardinality(Behind(R, seq, m)) \in Nat
    BY <2>4, <2>5, Smaller
  <2>7. Cardinality(Left) <= n
    BY <2>5, <2>6
  <2> QED BY <2>7 DEF Left
<1> QED BY <1>1, <1>2

LEMMA ReadyStays ==
  ASSUME JobsInv, [Next]_vars, NEW j \in Jobs, Ready(j)
  PROVE  Ready(j)'
<1>0. outcome \in [Jobs -> Outcomes] /\ outcome[j] # "none"
  BY DEF JobsInv, TypeOK, Ready
<1>1. ASSUME NEW c \in Callers, Launch(c)  PROVE Ready(j)'
  BY <1>0, <1>1 DEF Launch, Ready
<1>2. ASSUME NEW k \in Jobs, WorkerStep(k)  PROVE Ready(j)'
  <2>1. outcome' = outcome \/ \E o \in {"ok", "error", "cancelled"} : outcome' = [outcome EXCEPT ![k] = o]
    BY <1>2 DEF WorkerStep, Run, Checkpoint, LoadAbandoned, Finish, Publish, Store, job
  <2> QED BY <1>0, <2>1 DEF Ready
<1>3. CASE \/ \E c \in Callers : Admit(c) \/ ReadId(c) \/ WriteId(c) \/ Insert(c) \/ CancelSet(c)
                                   \/ CollectObserve(c) \/ DropErase(c)
           \/ \E c \in Callers, k \in Jobs :
                CancelCheck(c, k) \/ DrainEvents(c, k) \/ CollectRead(c, k) \/ DropCheck(c, k)
           \/ UNCHANGED vars
  <2>1. outcome' = outcome
    BY <1>3 DEF Admit, ReadId, WriteId, Insert, CancelSet, CollectObserve, DropErase, CancelCheck,
                DrainEvents, CollectRead, DropCheck, vars, job
  <2> QED BY <1>0, <2>1 DEF Ready
<1> QED BY <1>1, <1>2, <1>3 DEF Next, CallerStep

(* One caller's insertion pushes no job out of the table. *)
LEMMA InsertAdds ==
  ASSUME JobsInv, NumbersApart, NEW c \in Callers, Insert(c), started' \in 0..MaxJobs
  PROVE  /\ started + 1 \in Jobs /\ started' = started + 1
         /\ tracked' = tracked \cup {started + 1} /\ started + 1 \notin tracked
<1>1. /\ started \in Nat /\ id \in [Jobs -> 0..MaxJobs] /\ MaxJobs \in Nat
      /\ tracked \subseteq Jobs /\ tracked \subseteq 1..started
  BY InternJobsAssumption DEF JobsInv, TypeOK, Lives
<1>2. caller[c].job \in Nat
  BY DEF JobsInv, Drawing, Insert
<1>3. \A j \in tracked : id[j] # caller[c].job
  BY <1>1, <1>2 DEF NumbersApart, Insert
<1>4. tracked' = tracked \cup {started + 1} /\ started' = started + 1
  BY <1>3 DEF Insert
<1> QED BY <1>1, <1>4 DEF Jobs

(* What goes in a sweep. *)
LEMMA SweepTakes ==
  ASSUME JobsInv, ToldOnce, NEW c \in Callers, CollectObserve(c)
  PROVE  \E seq : /\ sequence' = seq /\ Swept(seq) \in SUBSET tracked
                  /\ tracked' = tracked \ Swept(seq)
                  /\ swept' = swept + Cardinality(Swept(seq))
<1> DEFINE k   == caller[c].job
           seq == [l \in Jobs |-> IF l \in Observed(k) THEN nextSequence ELSE sequence[l]]
<1>1. k \in tracked
  BY DEF ToldOnce, CollectObserve
<1>2. /\ sequence' = seq /\ tracked' = tracked \ Swept(seq)
      /\ swept' = swept + Cardinality(Swept(seq))
  BY <1>1 DEF CollectObserve, Erase
<1>3. Swept(seq) \in SUBSET tracked
  BY DEF Swept, Retained
<1> QED BY <1>2, <1>3

LEMMA AccountsKept ==
  ASSUME JobsInv, OneInv, NEW c, Callers = {c}, [Next]_vars
  PROVE  Accounts'
<1>0. /\ TypeOK /\ Accounts /\ NumbersApart /\ ToldOnce
      /\ started \in Nat /\ totalAbandoned \in Nat /\ dropped \in Nat /\ swept \in Nat
      /\ tracked \in SUBSET Jobs
  BY InternJobsAssumption DEF JobsInv, TypeOK, OneInv
<1>1. IsFiniteSet(tracked) /\ Cardinality(tracked) \in Nat
  BY <1>0, JobSets
<1>2. CASE Insert(c)
  <2>1. started' \in 0..MaxJobs
    BY DrawingKept
  <2>2. /\ started' = started + 1
        /\ tracked' = tracked \cup {started + 1} /\ started + 1 \notin tracked
    BY <1>0, <1>2, <2>1, InsertAdds
  <2>3. Cardinality(tracked') = Cardinality(tracked) + 1
    BY <1>1, <2>2, OneMore
  <2>4. UNCHANGED <<totalAbandoned, dropped, swept>>
    BY <1>2 DEF Insert
  <2> QED BY <1>0, <1>1, <2>2, <2>3, <2>4 DEF Accounts
<1>3. CASE CollectObserve(c)
  <2>1. PICK seq : /\ Swept(seq) \in SUBSET tracked /\ tracked' = tracked \ Swept(seq)
                   /\ swept' = swept + Cardinality(Swept(seq))
    BY <1>0, <1>3, SweepTakes
  <2>2. tracked \cap Swept(seq) = Swept(seq)
    BY <2>1
  <2>3. Cardinality(tracked') = Cardinality(tracked) - Cardinality(Swept(seq))
    <3>1. Cardinality(tracked \ Swept(seq))
            = Cardinality(tracked) - Cardinality(tracked \cap Swept(seq))
      BY <1>1, FS_Difference
    <3> QED BY <2>1, <2>2, <3>1, Zenon
  <2>4. Cardinality(Swept(seq)) \in Nat
    BY <1>1, <2>1, Smaller
  <2>5. UNCHANGED <<started, totalAbandoned, dropped>>
    BY <1>3 DEF CollectObserve
  <2> QED BY <1>0, <1>1, <2>1, <2>3, <2>4, <2>5 DEF Accounts
<1>4. CASE DropErase(c)
  <2>1. caller[c].job \in tracked /\ tracked' = tracked \ {caller[c].job}
    BY <1>4 DEF DropErase, Erase, JobsInv, Working, Works
  <2>2. Cardinality(tracked') = Cardinality(tracked) - 1
    BY <1>1, <2>1, OneLess
  <2>3. /\ UNCHANGED <<started, swept>>
        /\ \/ totalAbandoned' = totalAbandoned + 1 /\ dropped' = dropped
           \/ totalAbandoned' = totalAbandoned /\ dropped' = dropped + 1
    BY <1>4 DEF DropErase
  <2> QED BY <1>0, <1>1, <2>2, <2>3 DEF Accounts
<1>5. CASE \/ Admit(c) \/ ReadId(c) \/ WriteId(c) \/ Launch(c) \/ CancelSet(c)
           \/ \E k \in Jobs : WorkerStep(k)
           \/ \E k \in Jobs : CancelCheck(c, k) \/ DrainEvents(c, k) \/ CollectRead(c, k) \/ DropCheck(c, k)
           \/ UNCHANGED vars
  <2>1. UNCHANGED <<tracked, started, totalAbandoned, dropped, swept>>
    BY <1>5 DEF Admit, ReadId, WriteId, Launch, CancelSet, CancelCheck, DrainEvents, CollectRead,
                DropCheck, WorkerStep, Run, Checkpoint, LoadAbandoned, Finish, Publish, vars, counters
  <2> QED BY <1>0, <2>1 DEF Accounts
<1> QED BY <1>2, <1>3, <1>4, <1>5 DEF Next, CallerStep

LEMMA LimitsKept ==
  ASSUME JobsInv, OneInv, NEW c, Callers = {c}, [Next]_vars
  PROVE  Limits'
<1>0. /\ TypeOK /\ Limits /\ ToldOnce /\ NumbersApart /\ Lives /\ MaxRetained \in Nat /\ MaxActive \in Nat
      /\ tracked \in SUBSET Jobs /\ sequence \in [Jobs -> 0..MaxJobs] /\ MaxJobs \in Nat
      /\ caller \in [Callers -> CallerRecords] /\ abandoned \in [Jobs -> BOOLEAN]
  BY InternJobsAssumption DEF JobsInv, TypeOK, OneInv, CallerRecords, Places
<1>1. /\ IsFiniteSet(Unready) /\ Cardinality(Unready) \in Nat
      /\ IsFiniteSet(Retained(sequence)) /\ Cardinality(Retained(sequence)) \in Nat
  <2>1. Unready \in SUBSET Jobs /\ Retained(sequence) \in SUBSET Jobs
    BY <1>0 DEF Unready, Retained
  <2> QED BY <1>0, <2>1, JobSets
<1>2. \A j \in Jobs : Ready(j) => Ready(j)'
  BY ReadyStays
<1>3. ASSUME Unready' \in SUBSET Unready, Retained(sequence)' \in SUBSET Retained(sequence),
             Starting' # {} => Starting # {}
      PROVE  Limits'
  <2>1. /\ Cardinality(Unready') <= Cardinality(Unready) /\ Cardinality(Unready') \in Nat
        /\ Cardinality(Retained(sequence)') <= Cardinality(Retained(sequence))
        /\ Cardinality(Retained(sequence)') \in Nat
    BY <1>1, <1>3, Smaller
  <2> QED BY <1>0, <1>1, <1>3, <2>1 DEF Limits
<1>4. ASSUME UNCHANGED <<tracked, sequence>>
      PROVE  Unready' \in SUBSET Unready /\ Retained(sequence)' \in SUBSET Retained(sequence)
  <2>1. Unready' \in SUBSET Unready
    BY <1>0, <1>2, <1>4 DEF Unready
  <2>2. Retained(sequence)' \in SUBSET Retained(sequence)
    BY <1>0, <1>4 DEF Retained, ToldOnce
  <2> QED BY <2>1, <2>2
<1>5. CASE Admit(c)
  <2>1. Active = Unready
    BY <1>0 DEF Active, Unready, Lives
  <2>2. Cardinality(Unready) < MaxActive
    BY <1>5, <2>1 DEF Admit, BelowLimit
  <2>3. UNCHANGED <<tracked, sequence, outcome>>
    BY <1>5 DEF Admit, job
  <2>4. Unready' = Unready /\ Retained(sequence)' = Retained(sequence)
    BY <2>3 DEF Unready, Retained, Ready
  <2> QED BY <1>0, <2>2, <2>4 DEF Limits
<1>6. CASE ReadId(c) \/ WriteId(c)
  <2>1. c \in Starting
    BY <1>6 DEF ReadId, WriteId, At, Starting
  <2>2. UNCHANGED <<tracked, sequence>>
    BY <1>6 DEF ReadId, WriteId, job
  <2> QED BY <1>3, <1>4, <2>1, <2>2
<1>7. CASE Insert(c)
  <2> DEFINE k == started + 1
  <2>1. started' \in 0..MaxJobs
    BY DrawingKept
  <2>2. k \in Jobs /\ tracked' = tracked \cup {k} /\ k \notin tracked /\ k > started
    BY <1>0, <1>7, <2>1, InsertAdds, InternJobsAssumption DEF TypeOK
  <2>3. UNCHANGED <<sequence, outcome>> /\ caller'[c].pc = "launch"
    BY <1>0, <1>7 DEF Insert, Goes
  <2> HIDE DEF k
  <2>4. ~(sequence[k] > 0)
    BY <1>0, <2>2 DEF Lives, ToldOnce
  <2>5. Retained(sequence)' = Retained(sequence)
    BY <2>2, <2>3, <2>4 DEF Retained, Ready
  <2>6. Unready' \in SUBSET (Unready \cup {k})
    BY <2>2, <2>3 DEF Unready, Ready
  <2>7. /\ IsFiniteSet(Unready \cup {k}) /\ Cardinality(Unready \cup {k}) <= Cardinality(Unready) + 1
    BY <1>1, OneMore
  <2>8. /\ Cardinality(Unready') <= Cardinality(Unready \cup {k})
        /\ Cardinality(Unready') \in Nat /\ Cardinality(Unready \cup {k}) \in Nat
    BY <2>6, <2>7, Smaller
  <2>9. Cardinality(Unready) < MaxActive
    BY <1>0, <1>7 DEF Insert, At, Starting, Limits
  <2>10. Starting' = {}
    BY <2>3 DEF Starting
  <2> QED BY <1>0, <1>1, <2>5, <2>7, <2>8, <2>9, <2>10 DEF Limits
<1>8. CASE CollectObserve(c)
  <2>1. PICK seq : /\ sequence' = seq /\ Swept(seq) \in SUBSET tracked /\ tracked' = tracked \ Swept(seq)
    BY <1>0, <1>8, SweepTakes
  <2>2. outcome' = outcome /\ caller'[c].pc = "idle"
    BY <1>0, <1>8 DEF CollectObserve, Returns, Idle
  <2>3. seq \in [Jobs -> Nat]
    <3>1. CountTypes'
      BY CountingKept
    <3> QED BY <2>1, <3>1 DEF CountTypes, Jobs
  <2> DEFINE R == Retained(seq)
  <2>4. R \in SUBSET Jobs /\ IsFiniteSet(R)
    <3>1. R \in SUBSET Jobs
      BY <1>0 DEF Retained
    <3> QED BY <1>0, <3>1, JobSets
  <2>5. Retained(sequence)' = Latest(R, seq, MaxRetained)
    <3>1. Retained(sequence)' = {j \in tracked' : seq[j] > 0 /\ Ready(j)}
      BY <2>1, <2>2 DEF Retained, Ready
    <3>2. Retained(sequence)' = R \ Swept(seq)
      BY <2>1, <3>1 DEF Retained
    <3>3. \A j \in R : Cardinality(Behind(R, seq, j)) \in Nat
      <4>1. \A j \in R : Behind(R, seq, j) \in SUBSET R
        BY DEF Behind
      <4> QED BY <2>4, <4>1, Smaller
    <3>4. Swept(seq) = {j \in R : Cardinality(Behind(R, seq, j)) > MaxRetained}
      BY DEF Swept, Behind
    <3> HIDE DEF R
    <3> QED BY <3>2, <3>3, <3>4, <1>0 DEF Latest
  <2>6. Cardinality(Retained(sequence)') <= MaxRetained
    <3>1. \A j \in R : seq[j] \in Nat
      BY <2>3, <2>4
    <3> HIDE DEF R
    <3>2. Cardinality(Latest(R, seq, MaxRetained)) <= MaxRetained
      BY <1>0, <2>4, <3>1, SweepLeavesFew
    <3> QED BY <2>5, <3>2
  <2>7. Unready' \in SUBSET Unready
    BY <2>1, <2>2 DEF Unready, Ready
  <2>8. Cardinality(Unready') <= Cardinality(Unready) /\ Cardinality(Unready') \in Nat
    BY <1>1, <2>7, Smaller
  <2>9. Starting' = {}
    BY <2>2 DEF Starting
  <2> QED BY <1>0, <1>1, <2>6, <2>8, <2>9 DEF Limits
<1>9. CASE DropErase(c)
  <2>1. tracked' \subseteq tracked /\ UNCHANGED <<sequence, outcome>> /\ caller'[c].pc = "idle"
    BY <1>0, <1>9 DEF DropErase, Erase, Returns, Idle
  <2>2. Unready' \in SUBSET Unready /\ Retained(sequence)' \in SUBSET Retained(sequence)
    BY <2>1 DEF Unready, Retained, Ready
  <2>3. Starting' = {}
    BY <2>1 DEF Starting
  <2> QED BY <1>3, <2>2, <2>3
<1>10. CASE Launch(c) \/ CancelSet(c)
  <2>1. UNCHANGED <<tracked, sequence>> /\ caller'[c].pc = "idle"
    BY <1>0, <1>10 DEF Launch, CancelSet, Returns, Idle
  <2>2. Starting' = {}
    BY <2>1 DEF Starting
  <2> QED BY <1>3, <1>4, <2>1, <2>2
<1>11. ASSUME NEW j \in Jobs, CancelCheck(c, j) \/ CollectRead(c, j) \/ DropCheck(c, j)
       PROVE  Limits'
  <2>1. UNCHANGED <<tracked, sequence>> /\ caller'[c].pc \in {"cancel", "collect", "drop"}
    BY <1>0, <1>11 DEF CancelCheck, CollectRead, DropCheck, Goes, job
  <2>2. Starting' = {}
    BY <2>1 DEF Starting
  <2> QED BY <1>3, <1>4, <2>1, <2>2
<1>12. CASE (\E j \in Jobs : WorkerStep(j) \/ DrainEvents(c, j)) \/ UNCHANGED vars
  <2>1. UNCHANGED <<tracked, sequence, caller>>
    BY <1>12 DEF WorkerStep, Run, Checkpoint, LoadAbandoned, Finish, Publish, Store, DrainEvents,
                 vars, job
  <2>2. Starting' = Starting
    BY <2>1 DEF Starting
  <2> QED BY <1>3, <1>4, <2>1, <2>2
<1> QED BY <1>5, <1>6, <1>7, <1>8, <1>9, <1>10, <1>11, <1>12 DEF Next, CallerStep

LEMMA OneInit ==
  ASSUME Init
  PROVE  OneInv
<1>1. Retained(sequence) = {} /\ Unready = {} /\ Starting = {} /\ tracked = {}
  BY DEF Init, Retained, Unready, Starting, Idle
<1>2. NumbersApart /\ ToldOnce
  BY DEF Init, NumbersApart, ToldOnce, At, Idle
<1>3. Accounts /\ Limits
  <2>1. Cardinality({}) = 0
    BY FS_EmptySet
  <2> QED BY <1>1, <2>1, InternJobsAssumption DEF Init, Accounts, Limits
<1> QED BY <1>2, <1>3 DEF OneInv

LEMMA OneInvariant ==
  ASSUME OneCaller
  PROVE  Spec => []OneInv
<1>1. Init => OneInv
  BY OneInit
<1>2. JobsInv /\ OneInv /\ [Next]_vars => OneInv'
  <2> SUFFICES ASSUME JobsInv, OneInv, [Next]_vars  PROVE OneInv'
    OBVIOUS
  <2>1. PICK c : Callers = {c}
    BY DEF OneCaller
  <2>2. NumbersApart' /\ ToldOnce'
    BY <2>1, NumbersKept, ToldOnceKept DEF OneInv
  <2>3. Accounts' /\ Limits'
    BY <2>1, AccountsKept, LimitsKept
  <2> QED BY <2>2, <2>3 DEF OneInv
<1> QED BY <1>1, <1>2, JobsInvariant, PTL DEF Spec

(***************************************************************************)
(* With one caller, whatever the workers do: every started job is in the   *)
(* table or counted once as abandoned, dropped or swept, and the limits of *)
(* running and of retained jobs hold.  (launchJob, drop, the sweep of      *)
(* collectStatus, the end of the detached thread.)                         *)
(***************************************************************************)
THEOREM OneCallerCounts ==
  ASSUME OneCaller
  PROVE  Spec => []CountersAreTrue
<1>1. JobsInv /\ OneInv => CountersAreTrue
  <2> SUFFICES ASSUME JobsInv, OneInv  PROVE CountersAreTrue
    OBVIOUS
  <2>1. TypeOK /\ NeverUndercounts
    BY DEF JobsInv, Counting, Orphans, NeverUndercounts
  <2>2. JobsAccounted
    BY DEF OneInv, Accounts, JobsAccounted
  <2>3. WithinLimits
    BY DEF OneInv, Limits, WithinLimits, Retained, Unready, Ready
  <2> QED BY <2>1, <2>2, <2>3 DEF CountersAreTrue
<1> QED BY <1>1, JobsInvariant, OneInvariant, PTL

(***************************************************************************)
(* With one caller, a job it was once told the end of is told the same     *)
(* every time.  (collectStatus, requestCancelEvents, the worker.)          *)
(***************************************************************************)
THEOREM AnswersStay ==
  ASSUME OneCaller
  PROVE  Spec => AnswerIsStable
<1>1. JobsInv /\ OneInv /\ [Next]_vars =>
        [\A j \in Jobs : answer[j] # "none" => answer'[j] = answer[j]]_vars
  <2> SUFFICES ASSUME JobsInv, OneInv, [Next]_vars
               PROVE  \A j \in Jobs : answer[j] # "none" => answer'[j] = answer[j]
    OBVIOUS
  <2>1. PICK c : Callers = {c}
    BY DEF OneCaller
  <2> QED BY <2>1, ToldOnceKept DEF OneInv
<1> QED BY <1>1, JobsInvariant, OneInvariant, PTL DEF Spec, AnswerIsStable
=============================================================================
