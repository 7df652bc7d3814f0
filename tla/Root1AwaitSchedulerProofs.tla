------------------------ MODULE Root1AwaitSchedulerProofs ------------------------
(***************************************************************************)
(* Theorems about Root1AwaitScheduler: type correctness, that no parked    *)
(* continuation is ever outside the index and the batch, that a drain has  *)
(* somebody to deliver to, and that a continuation ends once.              *)
(***************************************************************************)
EXTENDS Root1AwaitScheduler, TLAPS

(***************************************************************************)
(* ParkedIsIndexed is not inductive: park must find its new handle unused, *)
(* in the table and in the batch, and a restart must find the saved table  *)
(* in order.                                                               *)
(***************************************************************************)
InOrder(st, tg, next) ==
  \A h \in Handles : st[h] # "none" => h < next /\ tg[h] \in Participants

BatchInUse ==
  /\ \A h \in poll.batch : h < nextHandle
  /\ poll.pc = "idle" => poll.ready = {} /\ poll.batch = {}

IInv ==
  /\ TypeOK
  /\ ParkedIsIndexed
  /\ InOrder(state, target, nextHandle)
  /\ InOrder(saved.state, saved.target, saved.nextHandle)
  /\ BatchInUse

-----------------------------------------------------------------------------
LEMMA InitInv == Init => IInv
<1> SUFFICES ASSUME Init PROVE IInv
  OBVIOUS
<1>1. MaxHandle \in Nat /\ RingCapacity \in Nat \ {0}
  BY SchedulerAssumption
<1>2. 1 \in 1..(MaxHandle + 1) /\ 0 \in 0..RingCapacity
  BY <1>1
<1>3. TypeOK
  BY <1>1, <1>2 DEF Init, TypeOK, Snapshot, States, Terminal, NoPoll
<1> QED BY <1>3 DEF Init, IInv, ParkedIsIndexed, InOrder, BatchInUse, NoPoll

(* Taking handles out of the index leaves every other entry. *)
LEMMA UnindexedType ==
  ASSUME TypeOK, NEW hs \in SUBSET Handles
  PROVE  /\ Unindexed(hs) \in [Participants -> SUBSET Handles]
         /\ \A p \in Participants : \A h \in Handles :
              h \in Unindexed(hs)[p] <=> h \in index[p] /\ ~(h \in hs /\ target[h] = p)
BY DEF TypeOK, Unindexed

(* What Enter does to the table, whoever parks. *)
LEMMA EnterInv ==
  ASSUME IInv, NEW p \in Participants, NEW b \in BOOLEAN, Enter(p, b)
  PROVE  /\ nextHandle \in Handles
         /\ target' \in [Handles -> Participants \cup {NoParticipant}]
         /\ resumable' \in [Handles -> BOOLEAN]
         /\ index' \in [Participants -> SUBSET Handles]
         /\ nextHandle' = nextHandle + 1 /\ nextHandle' \in 1..(MaxHandle + 1)
         /\ state[nextHandle] = "none"
         /\ nextHandle \notin poll.batch
         /\ \A h \in Handles : target'[h] = IF h = nextHandle THEN p ELSE target[h]
         /\ \A q \in Participants, h \in Handles :
              h \in index'[q] <=> h \in index[q] \/ (q = p /\ h = nextHandle)
<1>1. MaxHandle \in Nat
  BY SchedulerAssumption
<1>2. nextHandle \in Handles /\ nextHandle' = nextHandle + 1
  BY DEF Enter
<1>3. nextHandle' \in 1..(MaxHandle + 1)
  BY <1>1, <1>2 DEF Handles
<1>4. state[nextHandle] = "none" /\ nextHandle \notin poll.batch
  BY <1>1, <1>2 DEF IInv, InOrder, BatchInUse, Handles
<1>5. /\ target' \in [Handles -> Participants \cup {NoParticipant}]
      /\ resumable' \in [Handles -> BOOLEAN]
      /\ index' \in [Participants -> SUBSET Handles]
  BY <1>2 DEF Enter, IInv, TypeOK
<1>6. \A h \in Handles : target'[h] = IF h = nextHandle THEN p ELSE target[h]
  BY <1>2 DEF Enter, IInv, TypeOK
<1>7. \A q \in Participants, h \in Handles :
        h \in index'[q] <=> h \in index[q] \/ (q = p /\ h = nextHandle)
  BY <1>2 DEF Enter, IInv, TypeOK
<1> QED BY <1>2, <1>3, <1>4, <1>5, <1>6, <1>7

-----------------------------------------------------------------------------
(* One lemma per group of steps. *)

LEMMA ParkStep ==
  ASSUME IInv, NEW p \in Participants, NEW b \in BOOLEAN, Park(p, b)
  PROVE  IInv'
<1>1. Enter(p, b) /\ UNCHANGED <<ring, eventFd, restored, poll, saved>>
      /\ state' = [state EXCEPT ![nextHandle] = "parked"]
  BY DEF Park, process
<1>2. MaxHandle \in Nat
  BY SchedulerAssumption
<1>3. TypeOK'
  BY <1>1, EnterInv DEF IInv, TypeOK, States
<1>4. \A h \in Handles : state'[h] = IF h = nextHandle THEN "parked" ELSE state[h]
  BY <1>1 DEF IInv, TypeOK
<1>5. InOrder(state, target, nextHandle)'
  <2>1. /\ nextHandle' = nextHandle + 1 /\ nextHandle \in Handles
        /\ \A k \in Handles : target'[k] = IF k = nextHandle THEN p ELSE target[k]
    BY <1>1, EnterInv
  <2>2. nextHandle \in Nat /\ Handles \subseteq Nat
    BY <1>2, <2>1 DEF Handles
  <2>3. ASSUME NEW k \in Handles, state'[k] # "none"
        PROVE  k < nextHandle' /\ target'[k] \in Participants
    <3>1. CASE k = nextHandle
      BY <3>1, <2>1, <2>2
    <3>2. CASE k # nextHandle
      <4>1. k < nextHandle /\ target[k] \in Participants
        BY <1>4, <2>3, <3>2 DEF IInv, InOrder
      <4> QED BY <4>1, <3>2, <2>1, <2>2
    <3> QED BY <3>1, <3>2
  <2> QED BY <2>3 DEF InOrder
<1>6. BatchInUse'
  <2>1. nextHandle' = nextHandle + 1 /\ nextHandle \in Nat
    BY <1>1, <1>2, EnterInv DEF Handles
  <2>2. poll' = poll /\ poll.batch \in SUBSET Nat
    BY <1>1, <1>2 DEF IInv, TypeOK, Handles
  <2>3. \A h \in poll'.batch : h < nextHandle'
    BY <2>1, <2>2 DEF IInv, BatchInUse
  <2> QED BY <2>2, <2>3 DEF IInv, BatchInUse
<1>7. ParkedIsIndexed'
  BY <1>1, <1>4, EnterInv DEF IInv, ParkedIsIndexed, TypeOK, InOrder
<1>8. InOrder(saved.state, saved.target, saved.nextHandle)'
  BY <1>1 DEF IInv, InOrder
<1> QED BY <1>3, <1>5, <1>6, <1>7, <1>8 DEF IInv

LEMMA EndStep ==
  ASSUME IInv, NEW hs \in SUBSET Handles, NEW end \in {"cancelled", "timeout"},
         state' = [h \in Handles |-> IF h \in hs THEN end ELSE state[h]],
         \A h \in hs : state[h] = "parked",
         index' = Unindexed(hs),
         UNCHANGED <<ring, eventFd, restored, target, resumable, nextHandle, poll, saved>>
  PROVE  IInv'
<1>1. TypeOK'
  BY UnindexedType DEF IInv, TypeOK, States, Terminal
<1>2. InOrder(state, target, nextHandle)'
  BY DEF IInv, InOrder
<1>3. BatchInUse' /\ InOrder(saved.state, saved.target, saved.nextHandle)'
  BY DEF IInv, InOrder, BatchInUse
<1>4. ParkedIsIndexed'
  BY UnindexedType DEF IInv, ParkedIsIndexed, InOrder, TypeOK
<1> QED BY <1>1, <1>2, <1>3, <1>4 DEF IInv

LEMMA DropStep ==
  ASSUME IInv, NEW h \in Handles, Drop(h)
  PROVE  IInv'
<1>1. UNCHANGED <<ring, eventFd, restored, nextHandle, poll, saved>> /\ index' = Unindexed({h})
  BY DEF Drop, process
<1>2. TypeOK'
  BY <1>1, UnindexedType DEF Drop, IInv, TypeOK, States
<1>3. \A k \in Handles : /\ state'[k] = IF k = h THEN "none" ELSE state[k]
                         /\ target'[k] = IF k = h THEN NoParticipant ELSE target[k]
  BY DEF Drop, IInv, TypeOK
<1>4. InOrder(state, target, nextHandle)'
  BY <1>1, <1>3 DEF IInv, InOrder
<1>5. BatchInUse' /\ InOrder(saved.state, saved.target, saved.nextHandle)'
  BY <1>1 DEF IInv, InOrder, BatchInUse
<1>6. ParkedIsIndexed'
  BY <1>1, <1>3, UnindexedType DEF IInv, ParkedIsIndexed, InOrder, TypeOK
<1> QED BY <1>2, <1>4, <1>5, <1>6 DEF IInv

LEMMA VisitStep ==
  ASSUME IInv, NEW p \in Participants, Visit(p)
  PROVE  IInv'
<1>1. UNCHANGED <<eventFd, restored, state, target, resumable, nextHandle, saved>>
  BY DEF Visit
<1>2. InOrder(state, target, nextHandle)' /\ InOrder(saved.state, saved.target, saved.nextHandle)'
  BY <1>1 DEF IInv, InOrder
<1>3. CASE Drains(p)
  <2>1. /\ poll' = [pc |-> "polling", ready |-> poll.ready \ {p},
                    batch |-> index[p], saving |-> poll.saving]
        /\ ring' = [ring EXCEPT ![p] = 0]
        /\ index' = [index EXCEPT ![p] = {}]
        /\ poll.batch = {}
    BY <1>3 DEF Visit
  <2>2. TypeOK'
    BY <1>1, <2>1, SchedulerAssumption DEF IInv, TypeOK
  <2>3. /\ poll'.batch = index[p] /\ poll'.pc # "idle"
        /\ \A q \in Participants : index'[q] = IF q = p THEN {} ELSE index[q]
    BY <2>1 DEF IInv, TypeOK
  <2>4. BatchInUse'
    BY <1>1, <2>3 DEF IInv, BatchInUse, ParkedIsIndexed, InOrder, TypeOK
  <2>5. ParkedIsIndexed'
    BY <1>1, <2>1, <2>3 DEF IInv, ParkedIsIndexed, InOrder, TypeOK
  <2> QED BY <1>2, <2>2, <2>4, <2>5 DEF IInv
<1>4. CASE ~Drains(p)
  <2>1. poll' = [poll EXCEPT !.ready = @ \ {p}] /\ UNCHANGED <<ring, index>>
    BY <1>4 DEF Visit
  <2>2. TypeOK' /\ poll'.batch = poll.batch /\ poll'.pc # "idle"
    BY <1>1, <2>1 DEF IInv, TypeOK, BatchInUse, Visit
  <2> QED BY <1>1, <1>2, <2>1, <2>2 DEF IInv, ParkedIsIndexed, BatchInUse
<1> QED BY <1>3, <1>4

LEMMA ResumeStep ==
  ASSUME IInv, NEW h \in Handles, Resume(h)
  PROVE  IInv'
<1>1. /\ h \in poll.batch
      /\ poll' = [poll EXCEPT !.batch = @ \ {h}]
      /\ UNCHANGED <<ring, eventFd, restored, saved>>
  BY DEF Resume, process
<1>2. /\ poll' \in [pc : {"idle", "polling"}, ready : SUBSET Participants,
                    batch : SUBSET Handles, saving : BOOLEAN]
      /\ poll'.batch = poll.batch \ {h} /\ poll'.pc # "idle"
  BY <1>1 DEF IInv, TypeOK, BatchInUse
<1>3. InOrder(saved.state, saved.target, saved.nextHandle)'
  BY <1>1 DEF IInv, InOrder
<1>4. CASE ~IsParked(h) /\ UNCHANGED table
  <2>1. TypeOK'
    BY <1>1, <1>2, <1>4 DEF IInv, TypeOK, table
  <2>2. BatchInUse' /\ InOrder(state, target, nextHandle)'
    BY <1>2, <1>4 DEF IInv, InOrder, BatchInUse, table
  <2>3. ParkedIsIndexed'
    BY <1>2, <1>4 DEF IInv, ParkedIsIndexed, IsParked, table
  <2> QED BY <1>3, <2>1, <2>2, <2>3 DEF IInv
<1>5. CASE /\ IsParked(h) /\ UNCHANGED <<target, resumable, index, nextHandle>>
           /\ \E end \in {"ready", "resumed"} : state' = [state EXCEPT ![h] = end]
  <2>1. PICK end \in {"ready", "resumed"} : state' = [state EXCEPT ![h] = end]
    BY <1>5
  <2>2. TypeOK'
    BY <1>1, <1>2, <1>5, <2>1 DEF IInv, TypeOK, States, Terminal
  <2>3. \A k \in Handles : state'[k] = IF k = h THEN end ELSE state[k]
    BY <2>1 DEF IInv, TypeOK
  <2>4. BatchInUse'
    BY <1>2, <1>5 DEF IInv, BatchInUse
  <2>5. InOrder(state, target, nextHandle)'
    BY <1>5, <2>3 DEF IInv, InOrder, IsParked
  <2>6. ParkedIsIndexed'
    BY <1>2, <1>5, <2>3 DEF IInv, ParkedIsIndexed, IsParked, TypeOK
  <2> QED BY <1>3, <2>2, <2>4, <2>5, <2>6 DEF IInv
<1>6. ASSUME NEW p \in Participants, IsParked(h), Enter(p, TRUE),
             state' = [state EXCEPT ![h] = "resumed", ![nextHandle] = "parked"]
      PROVE  IInv'
  <2>0. MaxHandle \in Nat
    BY SchedulerAssumption
  <2>1. h # nextHandle
    BY <1>6, EnterInv DEF IsParked
  <2>2. \A k \in Handles : state'[k] = IF k = nextHandle THEN "parked"
                                       ELSE IF k = h THEN "resumed" ELSE state[k]
    BY <1>6, <2>1, EnterInv DEF IInv, TypeOK
  <2>3. TypeOK'
    BY <1>1, <1>2, <1>6, EnterInv DEF IInv, TypeOK, States, Terminal
  <2>e. /\ nextHandle' = nextHandle + 1 /\ nextHandle \in Handles
        /\ nextHandle \notin poll.batch
        /\ \A k \in Handles : target'[k] = IF k = nextHandle THEN p ELSE target[k]
        /\ \A q \in Participants, k \in Handles :
             k \in index'[q] <=> k \in index[q] \/ (q = p /\ k = nextHandle)
    BY <1>6, EnterInv
  <2>n. nextHandle \in Nat /\ Handles \subseteq Nat
    BY <2>0, <2>e DEF Handles
  <2>t. poll.batch \in SUBSET Handles /\ h \in Handles
    BY DEF IInv, TypeOK
  <2>4. BatchInUse'
    <3>1. ASSUME NEW k \in poll'.batch PROVE k < nextHandle'
      <4>1. k \in poll.batch /\ k \in Nat
        BY <1>2, <2>n, <2>t
      <4>2. k < nextHandle
        BY <4>1 DEF IInv, BatchInUse
      <4> QED BY <4>1, <4>2, <2>e, <2>n
    <3> QED BY <1>2, <3>1 DEF BatchInUse
  <2>5. InOrder(state, target, nextHandle)'
    <3>1. ASSUME NEW k \in Handles, state'[k] # "none"
          PROVE  k < nextHandle' /\ target'[k] \in Participants
      <4>1. CASE k = nextHandle
        BY <4>1, <2>e, <2>n
      <4>2. CASE k # nextHandle
        <5>1. state[k] # "none"
          BY <3>1, <4>2, <2>2, <1>6 DEF IsParked
        <5>2. k < nextHandle /\ target[k] \in Participants
          BY <5>1 DEF IInv, InOrder
        <5> QED BY <5>2, <4>2, <2>e, <2>n
      <4> QED BY <4>1, <4>2
    <3> QED BY <3>1 DEF InOrder
  <2>6. ParkedIsIndexed'
    <3>i. \A q \in Participants : index'[q] \subseteq Handles
      BY <2>3 DEF TypeOK
    <3>1. ASSUME NEW k \in Handles, state'[k] = "parked"
          PROVE  k \in index'[target'[k]] \cup poll'.batch
      <4>1. CASE k = nextHandle
        BY <4>1, <2>e
      <4>2. CASE k # nextHandle
        <5>1. state[k] = "parked" /\ k # h /\ target'[k] = target[k]
          BY <3>1, <4>2, <2>2, <2>e
        <5>2. k \in index[target[k]] \cup poll.batch /\ target[k] \in Participants
          BY <5>1 DEF IInv, ParkedIsIndexed, InOrder
        <5> QED BY <5>1, <5>2, <1>2, <2>e
      <4> QED BY <4>1, <4>2
    <3>2. ASSUME NEW q \in Participants, NEW k \in index'[q]
          PROVE  target'[k] = q /\ state'[k] # "none" /\ k \notin poll'.batch
      <4>0. k \in Handles
        BY <3>i
      <4>1. CASE k = nextHandle
        <5>1. k \notin index[q]
          BY <1>6, <4>1, EnterInv DEF IInv, ParkedIsIndexed
        <5> QED BY <5>1, <4>0, <4>1, <2>e, <2>2, <1>2
      <4>2. CASE k # nextHandle
        <5>1. k \in index[q]
          BY <4>0, <4>2, <2>e
        <5>2. target[k] = q /\ state[k] # "none" /\ k \notin poll.batch
          BY <5>1 DEF IInv, ParkedIsIndexed
        <5> QED BY <5>2, <4>0, <4>2, <2>e, <2>2, <1>2
      <4> QED BY <4>1, <4>2
    <3> QED BY <3>1, <3>2 DEF ParkedIsIndexed
  <2> QED BY <1>3, <2>3, <2>4, <2>5, <2>6 DEF IInv
<1> QED BY <1>4, <1>5, <1>6 DEF Resume

(* The steps that leave the table alone, and the restart that replaces it. *)
LEMMA QuietStep ==
  ASSUME IInv,
         \/ \E p \in Participants : Send(p)
         \/ \E b \in BOOLEAN : Begin(b)
         \/ Return \/ SaveSession \/ UNCHANGED vars
  PROVE  IInv'
<1>0. RingCapacity \in Nat /\ Saved \in Snapshot
  BY SchedulerAssumption DEF IInv, TypeOK, Saved, Snapshot
<1>1. UNCHANGED table /\ saved' \in {saved, Saved}
  BY DEF Send, Begin, Return, SaveSession, vars, table
<1>2. TypeOK'
  <2>1. CASE \E p \in Participants : Send(p)
    BY <1>0, <2>1 DEF Send, IInv, TypeOK, table
  <2>2. CASE \E b \in BOOLEAN : Begin(b)
    BY <2>2 DEF Begin, IInv, TypeOK, table, Readable
  <2>3. CASE Return
    BY <1>0, <2>3 DEF Return, IInv, TypeOK, table, process, NoPoll
  <2>4. CASE SaveSession
    BY <1>0, <2>4 DEF SaveSession, IInv, TypeOK, table, process
  <2>5. CASE UNCHANGED vars
    BY <2>5 DEF vars, IInv, TypeOK, table, process
  <2> QED BY <2>1, <2>2, <2>3, <2>4, <2>5
<1>3. InOrder(saved.state, saved.target, saved.nextHandle)'
  BY <1>1 DEF IInv, InOrder, Saved
<1>4. poll'.batch = poll.batch /\ (poll'.pc = "idle" => poll'.ready = {} /\ poll'.batch = {})
  BY DEF Send, Begin, Return, BatchDone, NoPoll, SaveSession, vars, IInv, BatchInUse
<1> QED BY <1>1, <1>2, <1>3, <1>4 DEF IInv, ParkedIsIndexed, InOrder, BatchInUse, table

LEMMA RestartStep ==
  ASSUME IInv, Restart
  PROVE  IInv'
<1>0. RingCapacity \in Nat /\ 0 \in 0..RingCapacity
  BY SchedulerAssumption
<1>1. TypeOK'
  BY <1>0 DEF Restart, IInv, TypeOK, Snapshot, NoPoll
<1>2. poll'.batch = {} /\ poll'.ready = {}
  BY DEF Restart, NoPoll
<1>3. /\ \A p \in Participants : \A h \in Handles :
           h \in index'[p] <=> state'[h] # "none" /\ target'[h] = p
      /\ InOrder(state, target, nextHandle)'
      /\ InOrder(saved.state, saved.target, saved.nextHandle)'
  BY DEF Restart, IInv, InOrder
<1>4. ParkedIsIndexed' /\ BatchInUse'
  BY <1>1, <1>2, <1>3 DEF ParkedIsIndexed, InOrder, BatchInUse, TypeOK
<1> QED BY <1>1, <1>3, <1>4 DEF IInv

LEMMA NextInv == IInv /\ [Next]_vars => IInv'
<1> SUFFICES ASSUME IInv, [Next]_vars PROVE IInv'
  OBVIOUS
<1>1. ASSUME NEW h \in Handles, Cancel(h) PROVE IInv'
  <2>1. state' = [k \in Handles |-> IF k \in {h} THEN "cancelled" ELSE state[k]]
    BY <1>1 DEF Cancel, IInv, TypeOK
  <2> QED BY <1>1, <2>1, EndStep DEF Cancel, IsParked, process
<1>2. CASE TimeOut
  <2> DEFINE hs == {h \in Handles : IsParked(h)}
  <2>1. state' = [k \in Handles |-> IF k \in hs THEN "timeout" ELSE state[k]]
    BY <1>2 DEF TimeOut
  <2>2. hs \in SUBSET Handles /\ (\A h \in hs : state[h] = "parked") /\ index' = Unindexed(hs)
    BY <1>2 DEF TimeOut, IsParked
  <2>3. UNCHANGED <<ring, eventFd, restored, target, resumable, nextHandle, poll, saved>>
    BY <1>2 DEF TimeOut, process
  <2> HIDE DEF hs
  <2> QED BY <2>1, <2>2, <2>3, EndStep
<1> QED BY <1>1, <1>2, ParkStep, DropStep, VisitStep, ResumeStep, QuietStep, RestartStep
        DEF Next, PollStep

-----------------------------------------------------------------------------
(* Type correctness, through polls, callbacks, saves and restarts. *)
THEOREM SchedulerTypeCorrect == Spec => []TypeOK
<1>1. IInv => TypeOK
  BY DEF IInv
<1> QED BY <1>1, InitInv, NextInv, PTL DEF Spec

(***************************************************************************)
(* No parked continuation is forgotten: it is in the index of the          *)
(* participant it waits for or in the batch that is being resumed.         *)
(***************************************************************************)
THEOREM NoneForgotten == Spec => []ParkedIsIndexed
<1>1. IInv => ParkedIsIndexed
  BY DEF IInv
<1> QED BY <1>1, InitInv, NextInv, PTL DEF Spec

-----------------------------------------------------------------------------
(***************************************************************************)
(* DrainedIsDelivered needs more: until a session has been loaded whatever *)
(* is in the index is parked.  loadState indexes every saved continuation, *)
(* the ended ones too, so the invariant ends with the first restart.       *)
(***************************************************************************)
IndexedIsParked ==
  ~restored => \A p \in Participants : \A h \in index[p] : state[h] = "parked"

(* Whoever parks is parked under its new handle, and the rest stay. *)
LEMMA EnterKeepsIndexed ==
  ASSUME IInv, IndexedIsParked, restored' = restored,
         NEW p \in Participants, NEW b \in BOOLEAN, Enter(p, b),
         \A h \in Handles : state'[h] = IF h = nextHandle THEN "parked" ELSE state[h]
  PROVE  IndexedIsParked'
<1>1. index' \in [Participants -> SUBSET Handles]
  BY EnterInv
<1>2. \A q \in Participants, h \in Handles :
        h \in index'[q] <=> h \in index[q] \/ (q = p /\ h = nextHandle)
  BY EnterInv
<1> QED BY <1>1, <1>2 DEF IndexedIsParked

(* cancel, timeout and drop: what they end they take out of the index. *)
LEMMA EndKeepsIndexed ==
  ASSUME IInv, IndexedIsParked, restored' = restored,
         NEW hs \in SUBSET Handles, index' = Unindexed(hs),
         \A h \in Handles \ hs : state'[h] = state[h]
  PROVE  IndexedIsParked'
<1>1. ASSUME ~restored', NEW p \in Participants, NEW h \in index'[p]
      PROVE  state'[h] = "parked"
  <2>1. h \in Handles /\ h \in index[p] /\ ~(h \in hs /\ target[h] = p)
    BY <1>1, UnindexedType DEF IInv, TypeOK
  <2>2. target[h] = p /\ state[h] = "parked"
    BY <1>1, <2>1 DEF IInv, ParkedIsIndexed, IndexedIsParked
  <2> QED BY <2>1, <2>2
<1> QED BY <1>1 DEF IndexedIsParked

(* What is resumed has left the index before. *)
LEMMA ResumeKeepsIndexed ==
  ASSUME IInv, IndexedIsParked, NEW h \in Handles, Resume(h)
  PROVE  IndexedIsParked'
<1>1. h \in poll.batch /\ restored' = restored
  BY DEF Resume, process
<1>2. \A p \in Participants : h \notin index[p]
  BY <1>1 DEF IInv, ParkedIsIndexed
<1>3. CASE UNCHANGED table
  BY <1>1, <1>3 DEF IndexedIsParked, table
<1>4. CASE /\ UNCHANGED <<target, resumable, index, nextHandle>>
           /\ \E end \in {"ready", "resumed"} : state' = [state EXCEPT ![h] = end]
  <2>1. \A k \in Handles : k # h => state'[k] = state[k]
    BY <1>4 DEF IInv, TypeOK
  <2>2. \A p \in Participants : index[p] \subseteq Handles /\ index'[p] = index[p]
    BY <1>4 DEF IInv, TypeOK
  <2> QED BY <1>1, <1>2, <2>1, <2>2 DEF IndexedIsParked
<1>5. ASSUME NEW p \in Participants, IsParked(h), Enter(p, TRUE),
             state' = [state EXCEPT ![h] = "resumed", ![nextHandle] = "parked"]
      PROVE  IndexedIsParked'
  <2>1. /\ nextHandle \in Handles /\ h # nextHandle
        /\ index' \in [Participants -> SUBSET Handles]
    BY <1>5, EnterInv DEF IsParked
  <2>2. \A k \in Handles : state'[k] = IF k = nextHandle THEN "parked"
                                       ELSE IF k = h THEN "resumed" ELSE state[k]
    BY <1>5, <2>1 DEF IInv, TypeOK
  <2>3. \A q \in Participants, k \in Handles :
          k \in index'[q] <=> k \in index[q] \/ (q = p /\ k = nextHandle)
    BY <1>5, EnterInv
  <2> QED BY <1>1, <1>2, <2>1, <2>2, <2>3 DEF IndexedIsParked
<1> QED BY <1>3, <1>4, <1>5 DEF Resume

LEMMA NextIndexed == IInv /\ IndexedIsParked /\ [Next]_vars => IndexedIsParked'
<1> SUFFICES ASSUME IInv, IndexedIsParked, [Next]_vars PROVE IndexedIsParked'
  OBVIOUS
<1>1. ASSUME NEW p \in Participants, NEW b \in BOOLEAN, Park(p, b) PROVE IndexedIsParked'
  <2>1. Enter(p, b) /\ restored' = restored /\ state' = [state EXCEPT ![nextHandle] = "parked"]
    BY <1>1 DEF Park, process
  <2>2. \A h \in Handles : state'[h] = IF h = nextHandle THEN "parked" ELSE state[h]
    BY <2>1 DEF IInv, TypeOK
  <2> QED BY <2>1, <2>2, EnterKeepsIndexed
<1>2. ASSUME NEW h \in Handles, Cancel(h) \/ Drop(h) PROVE IndexedIsParked'
  <2>1. \A k \in Handles \ {h} : state'[k] = state[k]
    BY <1>2 DEF Cancel, Drop, IInv, TypeOK
  <2> QED BY <1>2, <2>1, EndKeepsIndexed DEF Cancel, Drop, process
<1>3. CASE TimeOut
  <2> DEFINE hs == {h \in Handles : IsParked(h)}
  <2>1. index' = Unindexed(hs) /\ restored' = restored /\ hs \in SUBSET Handles
    BY <1>3 DEF TimeOut, process
  <2>2. \A k \in Handles \ hs : state'[k] = state[k]
    BY <1>3 DEF TimeOut
  <2> HIDE DEF hs
  <2> QED BY <2>1, <2>2, EndKeepsIndexed
<1>4. ASSUME NEW p \in Participants, Visit(p) PROVE IndexedIsParked'
  BY <1>4 DEF Visit, IndexedIsParked, IInv, TypeOK
<1>5. CASE Restart
  BY <1>5 DEF Restart, IndexedIsParked
<1>6. CASE \/ \E p \in Participants : Send(p)
           \/ \E b \in BOOLEAN : Begin(b)
           \/ Return \/ SaveSession \/ UNCHANGED vars
  <2>1. UNCHANGED <<restored, state, index>>
    BY <1>6 DEF Send, Begin, Return, SaveSession, vars, table, process
  <2> QED BY <2>1 DEF IndexedIsParked
<1> QED BY <1>1, <1>2, <1>3, <1>4, <1>5, <1>6, ResumeKeepsIndexed DEF Next, PollStep

(* A ring loses descriptors to a drain of the poll or to the end of the process. *)
LEMMA WhoDrains ==
  ASSUME IInv, [Next]_vars, NEW p \in Participants, ring'[p] < ring[p], ~restored'
  PROVE  /\ Visit(p) /\ Drains(p)
         /\ poll'.batch = index[p] /\ state' = state /\ restored' = restored
<1>0. ring \in [Participants -> Nat] /\ RingCapacity \in Nat
  BY SchedulerAssumption DEF IInv, TypeOK
<1>1. ~UNCHANGED ring
  BY <1>0
<1>2. ~ \E q \in Participants : Send(q)
  BY <1>0 DEF Send
<1>3. ~Restart
  BY DEF Restart
<1>4. PICK q \in Participants : Visit(q)
  BY <1>1, <1>2, <1>3
     DEF Next, PollStep, vars, process, Park, Cancel, Drop, TimeOut, SaveSession, Begin,
         Return, Resume
<1>5. Drains(q) /\ ring' = [ring EXCEPT ![q] = 0] /\ poll'.batch = index[q]
  BY <1>1, <1>4 DEF Visit
<1>6. q = p
  BY <1>0, <1>5
<1> QED BY <1>4, <1>5, <1>6 DEF Visit

(***************************************************************************)
(* Until a session has been loaded no descriptor is drained for nobody:    *)
(* the batch of every drain holds a parked continuation.  (pollAndResume   *)
(* against markTerminal, drop and the parks of resumed callbacks.)         *)
(***************************************************************************)
THEOREM DrainsDeliver == Spec => DrainedIsDelivered
<1>1. Init => IndexedIsParked
  BY DEF Init, IndexedIsParked
<1>2. IInv /\ IndexedIsParked /\ [Next]_vars =>
        [\A p \in Participants : ring'[p] < ring[p] =>
           restored' \/ \E h \in poll'.batch : state[h] = "parked"]_vars
  <2> SUFFICES ASSUME IInv, IndexedIsParked, [Next]_vars,
                      NEW p \in Participants, ring'[p] < ring[p], ~restored'
               PROVE  \E h \in poll'.batch : state[h] = "parked"
    OBVIOUS
  <2>1. index[p] # {} /\ poll'.batch = index[p] /\ ~restored
    BY WhoDrains DEF Drains
  <2> QED BY <2>1 DEF IndexedIsParked
<1> QED BY <1>1, <1>2, InitInv, NextInv, NextIndexed, PTL DEF Spec, DrainedIsDelivered

(***************************************************************************)
(* A continuation ends once: an ended one keeps its end until it is        *)
(* dropped, whatever the poll, its callbacks and the users do.  A handle   *)
(* is never given twice by one process, which is what the VM that parks    *)
(* from within its own callback relies on.  (markTerminal, pollAndResume.) *)
(***************************************************************************)
THEOREM EndsAreKept == Spec => EndsOnce
<1>1. IInv /\ [Next]_vars =>
        [~Restart => \A h \in Handles : state[h] \in Terminal =>
           state'[h] \in {state[h], "none"}]_vars
  <2> SUFFICES ASSUME IInv, [Next]_vars, ~Restart, NEW k \in Handles, state[k] \in Terminal
               PROVE  state'[k] \in {state[k], "none"}
    OBVIOUS
  <2>0. state[k] # "parked" /\ state[k] # "none" /\ state \in [Handles -> States]
    BY DEF Terminal, IInv, TypeOK
  <2>1. ASSUME NEW p \in Participants, NEW b \in BOOLEAN, Park(p, b)
        PROVE  state'[k] = state[k]
    <3>1. state[nextHandle] = "none"
      BY <2>1, EnterInv DEF Park
    <3> QED BY <2>0, <2>1, <3>1 DEF Park
  <2>2. ASSUME NEW h \in Handles, Cancel(h) \/ Drop(h)
        PROVE  state'[k] \in {state[k], "none"}
    BY <2>0, <2>2 DEF Cancel, Drop, IsParked
  <2>3. ASSUME TimeOut PROVE state'[k] = state[k]
    BY <2>0, <2>3 DEF TimeOut, IsParked
  <2>4. ASSUME NEW h \in Handles, Resume(h) PROVE state'[k] = state[k]
    <3>1. CASE ~IsParked(h)
      BY <2>4, <3>1 DEF Resume, table
    <3>2. CASE IsParked(h)
      <4>1. h # k
        BY <2>0, <3>2 DEF IsParked
      <4>2. ASSUME NEW p \in Participants, Enter(p, TRUE) PROVE nextHandle # k
        BY <2>0, <4>2, EnterInv
      <4> QED BY <2>0, <2>4, <3>2, <4>1, <4>2 DEF Resume
    <3> QED BY <3>1, <3>2
  <2>5. CASE \/ \E p \in Participants : Send(p) \/ Visit(p)
             \/ \E b \in BOOLEAN : Begin(b)
             \/ Return \/ SaveSession \/ UNCHANGED vars
    BY <2>5 DEF Send, Visit, Begin, Return, SaveSession, vars, table
  <2> QED BY <2>1, <2>2, <2>3, <2>4, <2>5 DEF Next, PollStep
<1> QED BY <1>1, InitInv, NextInv, PTL DEF Spec, EndsOnce
=============================================================================
