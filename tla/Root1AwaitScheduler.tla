--------------------------- MODULE Root1AwaitScheduler ---------------------------
(***************************************************************************)
(* Root1AwaitScheduler of edict/root1_await_scheduler.{h,cpp}: the table   *)
(* of continuations that await! parked on Root1 participants, the poll     *)
(* that resumes them, and the copy of the table that a named session saves *)
(* and a new process loads (edict/main.cpp).                               *)
(*                                                                         *)
(* The scheduler runs on one thread; other threads send descriptors at any *)
(* time, so pollAndResume is modelled step by step.  Of the broker only    *)
(* what Root1Broker shows of a single poller is left: how many descriptors *)
(* a ring holds and whether its eventfd is readable.                       *)
(***************************************************************************)
EXTENDS Naturals

CONSTANTS
  Participants,   \* what a continuation can wait for
  RingCapacity,   \* kMailboxRingCapacity
  MaxHandle,      \* bound: continuations parked by one process
  NoParticipant   \* the participant of a handle not in use

ASSUME SchedulerAssumption ==
  /\ RingCapacity \in Nat \ {0}
  /\ MaxHandle \in Nat
  /\ NoParticipant \notin Participants

VARIABLES
  ring,        \* descriptors in each participant's ring
  eventFd,     \* whether its eventfd is readable
  restored,    \* whether this process has loaded a session
  state,       \* continuations_: the state of each handle, "none" if it is not there
  target,      \* the participant each continuation waits for
  resumable,   \* whether it still has its resume callback
  index,       \* byParticipant_
  nextHandle,  \* nextId_
  poll,        \* where pollAndResume is, with its local variables
  saved        \* the table in the session on disk

process == <<ring, eventFd, restored>>
table  == <<state, target, resumable, index, nextHandle>>
vars   == <<process, table, poll, saved>>

Handles  == 1..MaxHandle
Terminal == {"ready", "resumed", "timeout", "cancelled"}
States   == Terminal \cup {"none", "parked"}
Snapshot == [state : [Handles -> States],
             target : [Handles -> Participants \cup {NoParticipant}],
             nextHandle : 1..(MaxHandle + 1)]

(* Outside pollAndResume; inside, ready is what the broker reported and is  *)
(* still to be visited, batch what one participant's drain resumes.        *)
NoPoll == [pc |-> "idle", ready |-> {}, batch |-> {}, saving |-> FALSE]

TypeOK ==
  /\ ring \in [Participants -> 0..RingCapacity]
  /\ eventFd \in [Participants -> BOOLEAN]
  /\ restored \in BOOLEAN
  /\ state \in [Handles -> States]
  /\ target \in [Handles -> Participants \cup {NoParticipant}]
  /\ resumable \in [Handles -> BOOLEAN]
  /\ index \in [Participants -> SUBSET Handles]
  /\ nextHandle \in 1..(MaxHandle + 1)
  /\ poll \in [pc : {"idle", "polling"}, ready : SUBSET Participants,
               batch : SUBSET Handles, saving : BOOLEAN]
  /\ saved \in Snapshot

Init ==
  /\ ring = [p \in Participants |-> 0]
  /\ eventFd = [p \in Participants |-> FALSE]
  /\ restored = FALSE
  /\ state = [h \in Handles |-> "none"]
  /\ target = [h \in Handles |-> NoParticipant]
  /\ resumable = [h \in Handles |-> FALSE]
  /\ index = [p \in Participants |-> {}]
  /\ nextHandle = 1
  /\ poll = NoPoll
  /\ saved = [state |-> state, target |-> target, nextHandle |-> 1]

-----------------------------------------------------------------------------
(* Variants with one mistake each, used by no other definition. *)

(* markTerminal without the index. *)
UnindexNothing(hs) == index

(* A poll that drains the ring of a participant nobody waits for. *)
DrainsAlways(p) == ring[p] > 0

(* markTerminal and the resume loop without their test of the state. *)
IsParkedOrDone(h) == state[h] # "none"

(* A poll that leaves a handle of the batch out. *)
EndsEarly == TRUE

-----------------------------------------------------------------------------
(* The broker, as the scheduler sees it *)

(* Any thread: Root1Broker!SendDescriptor, or a grant, or a death report. *)
Send(p) ==
  /\ ring[p] < RingCapacity
  /\ ring' = [ring EXCEPT ![p] = @ + 1]
  /\ eventFd' = [eventFd EXCEPT ![p] = TRUE]
  /\ UNCHANGED <<restored, table, poll, saved>>

Readable == {p \in Participants : eventFd[p]}

-----------------------------------------------------------------------------
(* The table *)

(* park and parkVm, the latter with a callback that resumes the VM. *)
Enter(p, withCallback) ==
  /\ nextHandle \in Handles
  /\ target' = [target EXCEPT ![nextHandle] = p]
  /\ resumable' = [resumable EXCEPT ![nextHandle] = withCallback]
  /\ index' = [index EXCEPT ![p] = @ \cup {nextHandle}]
  /\ nextHandle' = nextHandle + 1

Park(p, withCallback) ==
  /\ poll.pc = "idle"
  /\ Enter(p, withCallback)
  /\ state' = [state EXCEPT ![nextHandle] = "parked"]
  /\ UNCHANGED <<process, poll, saved>>

(* removeFromParticipantIndex, for each of hs. *)
Unindexed(hs) == [p \in Participants |-> index[p] \ {h \in hs : target[h] = p}]

IsParked(h) == state[h] = "parked"

(* cancel, by markTerminal. *)
Cancel(h) ==
  /\ poll.pc = "idle"
  /\ IsParked(h)
  /\ state' = [state EXCEPT ![h] = "cancelled"]
  /\ index' = Unindexed({h})
  /\ UNCHANGED <<process, target, resumable, nextHandle, poll, saved>>

(* drop, in whatever state the continuation is. *)
Drop(h) ==
  /\ poll.pc = "idle"
  /\ state[h] # "none"
  /\ state' = [state EXCEPT ![h] = "none"]
  /\ target' = [target EXCEPT ![h] = NoParticipant]
  /\ resumable' = [resumable EXCEPT ![h] = FALSE]
  /\ index' = Unindexed({h})
  /\ UNCHANGED <<process, nextHandle, poll, saved>>

-----------------------------------------------------------------------------
(* pollAndResume *)

(* A poll with a timeout that ends before anything is ready: all time out. *)
TimeOut ==
  /\ poll.pc = "idle"
  /\ Readable = {}
  /\ state' = [h \in Handles |-> IF IsParked(h) THEN "timeout" ELSE state[h]]
  /\ index' = Unindexed({h \in Handles : IsParked(h)})
  /\ UNCHANGED <<process, target, resumable, nextHandle, poll, saved>>

(* Something is ready: the broker resets the eventfds it reports. *)
Begin(saving) ==
  /\ poll.pc = "idle"
  /\ Readable # {}
  /\ poll' = [pc |-> "polling", ready |-> Readable, batch |-> {}, saving |-> saving]
  /\ eventFd' = [p \in Participants |-> FALSE]
  /\ UNCHANGED <<ring, restored, table, saved>>

(***************************************************************************)
(* The next ready participant.  With no continuation in its index it is    *)
(* left alone, its ring undrained; with an empty ring as well; else the    *)
(* ring is drained and its continuations leave the index for the batch.    *)
(***************************************************************************)
Drains(p) == index[p] # {} /\ ring[p] > 0

Visit(p) ==
  /\ p \in poll.ready
  /\ poll.batch = {}
  /\ \/ /\ Drains(p)
        /\ ring' = [ring EXCEPT ![p] = 0]
        /\ index' = [index EXCEPT ![p] = {}]
        /\ poll' = [pc |-> "polling", ready |-> poll.ready \ {p},
                    batch |-> index[p], saving |-> poll.saving]
     \/ /\ ~Drains(p)
        /\ poll' = [poll EXCEPT !.ready = @ \ {p}]
        /\ UNCHANGED <<ring, index>>
  /\ UNCHANGED <<eventFd, restored, state, target, resumable, nextHandle, saved>>

(***************************************************************************)
(* The next continuation of the batch, if it is still parked: it is marked *)
(* ready, or its callback runs the VM and it is marked resumed.  The VM    *)
(* may reach await! again and park itself under a new handle.              *)
(***************************************************************************)
Resume(h) ==
  /\ h \in poll.batch
  /\ poll' = [poll EXCEPT !.batch = @ \ {h}]
  /\ \/ /\ ~IsParked(h)
        /\ UNCHANGED table
     \/ /\ IsParked(h) /\ ~resumable[h]
        /\ state' = [state EXCEPT ![h] = "ready"]
        /\ UNCHANGED <<target, resumable, index, nextHandle>>
     \/ /\ IsParked(h) /\ resumable[h]
        /\ state' = [state EXCEPT ![h] = "resumed"]
        /\ UNCHANGED <<target, resumable, index, nextHandle>>
     \/ /\ IsParked(h) /\ resumable[h]
        /\ \E p \in Participants : Enter(p, TRUE)
        /\ state' = [state EXCEPT ![h] = "resumed", ![nextHandle] = "parked"]
  /\ UNCHANGED <<process, saved>>

(* saveState, as saveSession attaches it to the root it saves. *)
Saved == [state |-> state, target |-> target, nextHandle |-> nextHandle]

BatchDone == poll.batch = {}

Return ==
  /\ poll.pc = "polling"
  /\ poll.ready = {} /\ BatchDone
  /\ poll' = NoPoll
  /\ saved' = IF poll.saving THEN Saved ELSE saved
  /\ UNCHANGED <<process, table>>

(* saveSession when its poll finds nothing ready. *)
SaveSession ==
  /\ poll.pc = "idle"
  /\ Readable = {}
  /\ saved' = Saved
  /\ UNCHANGED <<process, table, poll>>

-----------------------------------------------------------------------------
(***************************************************************************)
(* The process ends, in whatever state, and a new one restores the session *)
(* (prepareSession and loadState): a new broker with empty mailboxes, the  *)
(* saved table without callbacks, every continuation of it indexed.        *)
(***************************************************************************)
Restart ==
  /\ ring' = [p \in Participants |-> 0]
  /\ eventFd' = [p \in Participants |-> FALSE]
  /\ restored' = TRUE
  /\ state' = saved.state
  /\ target' = saved.target
  /\ resumable' = [h \in Handles |-> FALSE]
  /\ index' = [p \in Participants |->
                 {h \in Handles : saved.state[h] # "none" /\ saved.target[h] = p}]
  /\ nextHandle' = saved.nextHandle
  /\ poll' = NoPoll
  /\ UNCHANGED saved

PollStep == Return \/ (\E p \in Participants : Visit(p)) \/ (\E h \in Handles : Resume(h))

Next ==
  \/ \E p \in Participants : Send(p) \/ \E withCallback \in BOOLEAN : Park(p, withCallback)
  \/ \E h \in Handles : Cancel(h) \/ Drop(h)
  \/ TimeOut \/ SaveSession \/ Restart
  \/ \E saving \in BOOLEAN : Begin(saving)
  \/ PollStep

Spec == Init /\ [][Next]_vars

(* The REPL pumps the scheduler on every turn, and a poll comes to its end. *)
FairSpec == Spec /\ WF_vars(Begin(FALSE)) /\ WF_vars(PollStep)

-----------------------------------------------------------------------------
(***************************************************************************)
(* No parked continuation is forgotten, through polls, parks from within   *)
(* callbacks, saves and restarts: it is in the index of the participant it *)
(* waits for, or in the batch that is being resumed; and no handle is in   *)
(* two places.  (park, removeFromParticipantIndex, pollAndResume,          *)
(* loadState.)                                                             *)
(***************************************************************************)
ParkedIsIndexed ==
  /\ \A h \in Handles : state[h] = "parked" => h \in index[target[h]] \cup poll.batch
  /\ \A p \in Participants : \A h \in index[p] :
       target[h] = p /\ state[h] # "none" /\ h \notin poll.batch

(***************************************************************************)
(* In a process that has loaded no session descriptors are drained only    *)
(* for somebody: each drain has a parked continuation to deliver them to,  *)
(* because whatever ends a continuation takes it out of the index.         *)
(* (markTerminal, drop and pollAndResume.)                                 *)
(***************************************************************************)
DrainedIsDelivered ==
  [][\A p \in Participants : ring'[p] < ring[p] =>
       restored' \/ \E h \in poll'.batch : state[h] = "parked"]_vars

(***************************************************************************)
(* A continuation ends once: whatever of readiness, timeout and cancel     *)
(* comes first wins and the others change nothing, until it is dropped.  A *)
(* restart goes back to what was saved.  (markTerminal and the test in     *)
(* pollAndResume.)                                                         *)
(***************************************************************************)
EndsOnce ==
  [][~Restart => \A h \in Handles : state[h] \in Terminal =>
       state'[h] \in {state[h], "none"}]_vars

(***************************************************************************)
(* A continuation that waits when its participant becomes readable is      *)
(* resumed or ended otherwise, unless the process ends first.              *)
(* (pollAndResume.)                                                        *)
(***************************************************************************)
ReadinessIsServed ==
  \A h \in Handles, p \in Participants :
    (~restored /\ state[h] = "parked" /\ target[h] = p /\ eventFd[p] /\ ring[p] > 0)
      ~> (restored \/ state[h] # "parked")

=============================================================================
