---------------------------- MODULE Root1BrokerProofs ----------------------------
(***************************************************************************)
(* Theorems about Root1Broker, for any number of participants, resources,  *)
(* pollers and ticks and any capacity of the rings.                        *)
(***************************************************************************)
EXTENDS Root1Broker, SequenceTheorems, TLAPS

(* What tryPush leaves: descriptors, no more than fit, and never an empty ring. *)
LEMMA PushType ==
  ASSUME NEW rg \in Seq(Descriptors), Len(rg) <= RingCapacity,
         NEW d \in Descriptors
  PROVE  /\ Push(rg, d) \in Seq(Descriptors)
         /\ Len(Push(rg, d)) <= RingCapacity
         /\ Push(rg, d) # <<>>
<1>1. CASE Len(rg) < RingCapacity
  <2>1. Push(rg, d) = Append(rg, d)
    BY <1>1 DEF Push
  <2>2. /\ Append(rg, d) \in Seq(Descriptors)
        /\ Len(Append(rg, d)) = Len(rg) + 1
    OBVIOUS
  <2>3. Append(rg, d) # <<>>
    BY <2>2
  <2> QED BY <1>1, <2>1, <2>2, <2>3, RingCapacityAssumption
<1>2. CASE ~(Len(rg) < RingCapacity)
  <2>1. Push(rg, d) = rg
    BY <1>2 DEF Push
  <2>2. rg # <<>>
    BY <1>2, RingCapacityAssumption
  <2> QED BY <2>1, <2>2
<1> QED BY <1>1, <1>2

(* The descriptors the broker writes are descriptors. *)
LEMMA DescriptorTypes ==
  /\ Message \in Descriptors
  /\ Exited \in Descriptors
  /\ \A r \in Resources : OwnerDied(r) \in Descriptors
  /\ \A r \in Resources, tok \in Nat : Grant(r, tok) \in Descriptors
BY DEF Message, Exited, OwnerDied, Grant, Grants, Descriptors

-----------------------------------------------------------------------------
(* The variables that HandOver assigns keep their types. *)
HandedOver ==
  /\ owner \in [Resources -> Participants \cup {NoOwner}]
  /\ contended \in [Resources -> BOOLEAN]
  /\ waiters \in [Resources -> Seq(Participants)]
  /\ nextToken \in Nat \ {0}
  /\ ring \in [Participants -> Seq(Descriptors)]
  /\ \A p \in Participants : Len(ring[p]) <= RingCapacity
  /\ events \in [Participants -> Seq(Nat)]
  /\ eventFd \in [Participants -> BOOLEAN]
  /\ told \subseteq Participants

LEMMA HandOverType ==
  ASSUME TypeOK, NEW r \in Resources, NEW notices \in BOOLEAN, HandOver(r, notices)
  PROVE  HandedOver'
<1>1. CASE waiters[r] = <<>>
  BY <1>1 DEF HandOver, MoreWaiters, TypeOK, HandedOver, mailboxes
<1>2. CASE waiters[r] # <<>>
  <2> DEFINE p     == Head(waiters[r])
             noted == IF notices THEN Push(ring[p], OwnerDied(r)) ELSE ring[p]
  <2>1. p \in Participants /\ Tail(waiters[r]) \in Seq(Participants)
    BY <1>2 DEF TypeOK
  <2>2. noted \in Seq(Descriptors) /\ Len(noted) <= RingCapacity
    <3>1. ring[p] \in Seq(Descriptors) /\ Len(ring[p]) <= RingCapacity
      BY <2>1 DEF TypeOK
    <3>2. OwnerDied(r) \in Descriptors
      BY DescriptorTypes
    <3> HIDE DEF p
    <3> QED BY <3>1, <3>2, PushType
  <2>3. /\ Push(noted, Grant(r, nextToken)) \in Seq(Descriptors)
        /\ Len(Push(noted, Grant(r, nextToken))) <= RingCapacity
    <3>1. Grant(r, nextToken) \in Descriptors
      BY DescriptorTypes DEF TypeOK
    <3> HIDE DEF noted
    <3> QED BY <2>2, <3>1, PushType
  <2>4. /\ owner' = [owner EXCEPT ![r] = p]
        /\ ring' = [ring EXCEPT ![p] = Push(noted, Grant(r, nextToken))]
        /\ events' = [events EXCEPT ![p] = Append(@, nextToken)]
        /\ eventFd' = [eventFd EXCEPT ![p] = TRUE]
        /\ waiters' = [waiters EXCEPT ![r] = Tail(@)]
        /\ contended' = [contended EXCEPT ![r] = Len(waiters[r]) > 1]
        /\ nextToken' = nextToken + 1
        /\ told' = told
    BY <1>2 DEF HandOver, MoreWaiters
  <2> HIDE DEF p, noted
  <2>5. ring' \in [Participants -> Seq(Descriptors)]
    BY <2>1, <2>3, <2>4 DEF TypeOK
  <2>6. \A q \in Participants : Len(ring'[q]) <= RingCapacity
    BY <2>1, <2>3, <2>4 DEF TypeOK
  <2>7. events' \in [Participants -> Seq(Nat)]
    BY <2>1, <2>4 DEF TypeOK
  <2>8. /\ owner' \in [Resources -> Participants \cup {NoOwner}]
        /\ waiters' \in [Resources -> Seq(Participants)]
        /\ eventFd' \in [Participants -> BOOLEAN]
    BY <2>1, <2>4 DEF TypeOK
  <2>9. contended' \in [Resources -> BOOLEAN]
    BY <2>4 DEF TypeOK
  <2> QED BY <2>4, <2>5, <2>6, <2>7, <2>8, <2>9 DEF HandedOver, TypeOK
<1> QED BY <1>1, <1>2

-----------------------------------------------------------------------------
(* No method leaves a variable outside its type. *)
LEMMA TypeStep == TypeOK /\ [Next]_vars => TypeOK'
<1> SUFFICES ASSUME TypeOK, [Next]_vars PROVE TypeOK'
  OBVIOUS
<1> USE DEF ownership, mailboxes, processes
<1>1. ASSUME NEW p \in Participants, Register(p) PROVE TypeOK'
  BY <1>1 DEF Register, TypeOK
<1>2. ASSUME NEW p \in Participants, AttachPid(p) PROVE TypeOK'
  BY <1>2 DEF AttachPid, TypeOK
<1>3. ASSUME NEW p \in Participants, ProcessExit(p) PROVE TypeOK'
  BY <1>3 DEF ProcessExit, TypeOK
<1>4. ASSUME NEW p \in Participants, SendDescriptor(p) PROVE TypeOK'
  <2>1. /\ Push(ring[p], Message) \in Seq(Descriptors)
        /\ Len(Push(ring[p], Message)) <= RingCapacity
    BY PushType, DescriptorTypes DEF TypeOK
  <2>2. ring' = [ring EXCEPT ![p] = Push(ring[p], Message)]
    BY <1>4 DEF SendDescriptor
  <2>3. /\ ring' \in [Participants -> Seq(Descriptors)]
        /\ \A q \in Participants : Len(ring'[q]) <= RingCapacity
    BY <2>1, <2>2 DEF TypeOK
  <2> QED BY <1>4, <2>3 DEF SendDescriptor, TypeOK
<1>5. ASSUME NEW p \in Participants, SendMessage(p) PROVE TypeOK'
  <2>1. /\ Push(ring[p], Message) \in Seq(Descriptors)
        /\ Len(Push(ring[p], Message)) <= RingCapacity
    BY PushType, DescriptorTypes DEF TypeOK
  <2>2. ring' = [ring EXCEPT ![p] = Push(ring[p], Message)]
    BY <1>5 DEF SendMessage
  <2>3. /\ ring' \in [Participants -> Seq(Descriptors)]
        /\ \A q \in Participants : Len(ring'[q]) <= RingCapacity
    BY <2>1, <2>2 DEF TypeOK
  <2>4. events' \in [Participants -> Seq(Nat)]
    BY <1>5 DEF SendMessage, TypeOK
  <2> QED BY <1>5, <2>3, <2>4 DEF SendMessage, TypeOK
<1>6. ASSUME NEW p \in Participants, DrainDescriptors(p) PROVE TypeOK'
  BY <1>6, RingCapacityAssumption DEF DrainDescriptors, TypeOK
<1>7. ASSUME NEW p \in Participants, DrainMailbox(p) PROVE TypeOK'
  BY <1>7 DEF DrainMailbox, TypeOK
<1>8. ASSUME NEW p \in Participants, RecoverParticipant(p) PROVE TypeOK'
  BY <1>8 DEF RecoverParticipant, LeasesOf, TypeOK
<1>9. ASSUME NEW p \in Participants, NEW t \in Ticks, Heartbeat(p, t) PROVE TypeOK'
  <2>1. lease' \in [Resources -> [owner : Participants, expires : Nat] \cup {NoLease}]
    BY <1>9, BrokerAssumption DEF Heartbeat, Leased, TypeOK
  <2> QED BY <1>9, <2>1 DEF Heartbeat, TypeOK
<1>10. ASSUME NEW p \in Participants, NEW r \in Resources, TryAcquire(p, r) PROVE TypeOK'
  BY <1>10 DEF TryAcquire, TypeOK
<1>11. ASSUME NEW p \in Participants, NEW r \in Resources, Queue(p, r) PROVE TypeOK'
  <2>1. waiters' \in [Resources -> Seq(Participants)]
    BY <1>11 DEF Queue, TypeOK
  <2> QED BY <1>11, <2>1 DEF Queue, TypeOK
<1>25. ASSUME NEW p \in Participants, NEW r \in Resources, AskToQueue(p, r) PROVE TypeOK'
  BY <1>25 DEF AskToQueue, TypeOK
<1>26. ASSUME NEW p \in Participants, NEW r \in Resources, AcquireAsked(p, r) PROVE TypeOK'
  BY <1>26 DEF AcquireAsked, TypeOK
<1>12. ASSUME NEW p \in Participants, NEW r \in Resources, Release(p, r) PROVE TypeOK'
  <2>1. HandedOver'
    BY <1>12, HandOverType DEF Release
  <2> QED BY <1>12, <2>1 DEF Release, HandedOver, TypeOK
<1>13. ASSUME NEW p \in Participants, NEW r \in Resources, RecoverAbandoned(p, r)
       PROVE TypeOK'
  <2>1. HandedOver'
    BY <1>13, HandOverType DEF RecoverAbandoned
  <2> QED BY <1>13, <2>1 DEF RecoverAbandoned, HandedOver, TypeOK
<1>14. ASSUME NEW p \in Participants, NEW r \in Resources, NEW t \in Ticks,
              RegisterLease(p, r, t)
       PROVE TypeOK'
  BY <1>14, BrokerAssumption DEF RegisterLease, TypeOK
<1>15. ASSUME NEW p \in Participants, NEW r \in Resources, NEW t \in Ticks,
              RenewLease(p, r, t)
       PROVE TypeOK'
  <2>1. lease' = [lease EXCEPT ![r] = [lease[r] EXCEPT !.expires = t]]
    BY <1>15 DEF RenewLease
  <2>2. lease[r] \in [owner : Participants, expires : Nat]
    BY <1>15 DEF RenewLease, Leased, TypeOK
  <2>3. [lease[r] EXCEPT !.expires = t] \in [owner : Participants, expires : Nat]
    BY <2>2, BrokerAssumption
  <2>4. lease' \in [Resources -> [owner : Participants, expires : Nat] \cup {NoLease}]
    BY <2>1, <2>3 DEF TypeOK
  <2> QED BY <1>15, <2>4 DEF RenewLease, TypeOK
<1>16. ASSUME NEW t \in NowTicks, CollectExpired(t) PROVE TypeOK'
  BY <1>16, BrokerAssumption DEF CollectExpired, TypeOK
<1>17. ASSUME NEW e \in expired, RecoverExpired(e) PROVE TypeOK'
  <2>1. e.resource \in Resources
    BY DEF TypeOK
  <2>2. CASE HandOver(e.resource, TRUE) /\ lease' = [lease EXCEPT ![e.resource] = NoLease]
    <3>1. HandedOver'
      BY <2>1, <2>2, HandOverType
    <3> QED BY <1>17, <2>2, <3>1 DEF RecoverExpired, StillOwned, HandedOver, TypeOK
  <2>3. CASE UNCHANGED <<ownership, mailboxes>>
    BY <1>17, <2>3 DEF RecoverExpired, StillOwned, TypeOK
  <2> QED BY <1>17, <2>2, <2>3 DEF RecoverExpired, StillOwned
<1>18. ASSUME NEW r \in Resources, SweepLease(r) PROVE TypeOK'
  <2>1. CASE HandOver(r, TRUE) /\ lease' = [lease EXCEPT ![r] = NoLease]
    <3>1. HandedOver'
      BY <2>1, HandOverType
    <3> QED BY <1>18, <2>1, <3>1 DEF SweepLease, HandedOver, TypeOK
  <2>2. CASE UNCHANGED <<ownership, mailboxes>>
    BY <1>18, <2>2 DEF SweepLease, TypeOK
  <2> QED BY <1>18, <2>1, <2>2 DEF SweepLease
<1>19. ASSUME NEW w \in Pollers, EpollWait(w) PROVE TypeOK'
  <2>1. Readable \in SUBSET EpollEvent
    BY DEF Readable, EpollEvent
  <2> QED BY <1>19, <2>1 DEF EpollWait, TypeOK
<1>20. ASSUME NEW w \in Pollers, PollLock(w) PROVE TypeOK'
  BY <1>20 DEF PollLock, TypeOK
<1>21. ASSUME NEW w \in Pollers, PollUnlock(w) PROVE TypeOK'
  BY <1>21 DEF PollUnlock, Idle, TypeOK
<1>22. ASSUME NEW w \in Pollers, NEW p \in Participants, PollEventFd(w, p) PROVE TypeOK'
  BY <1>22 DEF PollEventFd, TypeOK
<1>23. ASSUME NEW w \in Pollers, NEW p \in Participants, PollPidFd(w, p) PROVE TypeOK'
  <2>1. /\ Push(ring[p], Exited) \in Seq(Descriptors)
        /\ Len(Push(ring[p], Exited)) <= RingCapacity
    BY PushType, DescriptorTypes DEF TypeOK
  <2>2. ring' = ring \/ ring' = [ring EXCEPT ![p] = Push(ring[p], Exited)]
    BY <1>23 DEF PollPidFd
  <2>3. /\ ring' \in [Participants -> Seq(Descriptors)]
        /\ \A q \in Participants : Len(ring'[q]) <= RingCapacity
    BY <2>1, <2>2 DEF TypeOK
  <2>4. sweep' \subseteq Resources
    BY <1>23 DEF PollPidFd, LeasesOf, TypeOK
  <2>5. eventFd' \in [Participants -> BOOLEAN] /\ reported' \in [Participants -> BOOLEAN]
    BY <1>23 DEF PollPidFd, TypeOK
  <2>6. poller' \in [Pollers -> [pc : {"idle", "returned", "locked"},
                                 batch : SUBSET EpollEvent]]
    BY <1>23 DEF PollPidFd, TypeOK
  <2>7. UNCHANGED <<registered, asking, ownership, expired, events, nextToken, pid>>
        /\ told' = told \cup {p}
    BY <1>23 DEF PollPidFd
  <2> QED BY <2>3, <2>4, <2>5, <2>6, <2>7 DEF TypeOK
<1>24. CASE UNCHANGED vars
  BY <1>24 DEF vars, TypeOK
<1> QED
  BY <1>1, <1>2, <1>3, <1>4, <1>5, <1>6, <1>7, <1>8, <1>9, <1>10, <1>11, <1>12, <1>13,
     <1>14, <1>15, <1>16, <1>17, <1>18, <1>19, <1>20, <1>21, <1>22, <1>23, <1>24,
     <1>25, <1>26
     DEF Next

(* The variables keep their types: Root1Broker's type invariant. *)
THEOREM TypeCorrect == Spec => []TypeOK
<1>1. Init => TypeOK
  BY RingCapacityAssumption DEF Init, TypeOK, Idle
<1> QED BY <1>1, TypeStep, PTL DEF Spec

-----------------------------------------------------------------------------
(* Queues and words *)

(***************************************************************************)
(* Why Queue may push what AskToQueue saw: whoever is in acquireOrQueue    *)
(* has the mutex alone and is registered, and nobody has made it the owner *)
(* of what it asks for since, unless its id is a shared one.               *)
(***************************************************************************)
Alone      == asking # {} => sweep = {} /\ \A w \in Pollers : poller[w].pc # "locked"
AskedBy(a) == a[1] \in registered /\ (owner[a[2]] = a[1] => a[1] \in SharedIds)
AskingInv  == Alone /\ \A a \in asking : AskedBy(a)

LEMMA AskingStep == TypeOK /\ AskingInv /\ [Next]_vars => AskingInv'
<1> SUFFICES ASSUME TypeOK, AskingInv, [Next]_vars PROVE AskingInv'
  OBVIOUS
<1> USE DEF ownership, mailboxes, processes
<1>1. ASSUME registered \subseteq registered', asking' \subseteq asking, owner' = owner,
             asking' # {} => sweep' = sweep /\ poller' = poller
      PROVE  AskingInv'
  BY <1>1 DEF AskingInv, Alone, AskedBy
<1>2. ASSUME asking' = {} PROVE AskingInv'
  BY <1>2 DEF AskingInv, Alone
<1>3. ASSUME NEW p \in Participants, NEW r \in Resources, AskToQueue(p, r)
      PROVE  AskingInv'
  <2>1. /\ asking' = {<<p, r>>} /\ p \in registered /\ owner[r] # p
        /\ UNCHANGED <<registered, owner, sweep, poller>>
        /\ sweep = {} /\ \A w \in Pollers : poller[w].pc # "locked"
    BY <1>3 DEF AskToQueue, MutexFree
  <2> QED BY <2>1 DEF AskingInv, Alone, AskedBy
<1>4. ASSUME NEW p \in Participants, NEW r \in Resources, TryAcquire(p, r)
      PROVE  AskingInv'
  <2>1. /\ owner' = [owner EXCEPT ![r] = p] /\ Elsewhere(p)
        /\ UNCHANGED <<registered, asking, sweep, poller>>
    BY <1>4 DEF TryAcquire
  <2>2. ASSUME NEW a \in asking PROVE AskedBy(a)'
    <3>1. a[2] \in Resources
      BY DEF TypeOK
    <3>2. CASE a[2] = r
      BY <2>1, <3>1, <3>2 DEF AskingInv, AskedBy, Elsewhere, TypeOK
    <3>3. CASE a[2] # r
      BY <2>1, <3>1, <3>3 DEF AskingInv, AskedBy, TypeOK
    <3> QED BY <3>2, <3>3
  <2> QED BY <2>1, <2>2 DEF AskingInv, Alone
<1>5. ASSUME NEW p \in Participants, NEW r \in Resources, AcquireAsked(p, r) \/ Queue(p, r)
      PROVE  AskingInv'
  BY <1>2, <1>5 DEF AcquireAsked, Queue
<1>6. ASSUME NEW p \in Participants,
             \/ Register(p) \/ AttachPid(p)
             \/ SendDescriptor(p) \/ SendMessage(p)
             \/ DrainDescriptors(p) \/ DrainMailbox(p) \/ RecoverParticipant(p)
             \/ \E t \in Ticks : Heartbeat(p, t)
             \/ \E r \in Resources : Release(p, r) \/ RecoverAbandoned(p, r)
             \/ \E r \in Resources, t \in Ticks : RegisterLease(p, r, t) \/ RenewLease(p, r, t)
      PROVE  AskingInv'
  <2>1. asking = {} /\ asking' = asking
    BY <1>6 DEF Register, AttachPid, SendDescriptor, SendMessage,
                DrainDescriptors, DrainMailbox, RecoverParticipant, Heartbeat,
                Release, RecoverAbandoned, RegisterLease, RenewLease, MutexFree
  <2> QED BY <2>1, <1>2
<1>7. ASSUME \/ \E t \in NowTicks : CollectExpired(t)
             \/ \E e \in expired : RecoverExpired(e)
             \/ \E w \in Pollers : PollLock(w)
      PROVE  AskingInv'
  <2>1. asking = {} /\ asking' = asking
    BY <1>7 DEF CollectExpired, RecoverExpired, PollLock, MutexFree
  <2> QED BY <2>1, <1>2
<1>8. ASSUME NEW r \in Resources, SweepLease(r) PROVE AskingInv'
  <2>1. asking = {} /\ asking' = asking
    BY <1>8 DEF SweepLease, AskingInv, Alone
  <2> QED BY <2>1, <1>2
<1>9. ASSUME NEW w \in Pollers,
             PollUnlock(w) \/ \E p \in Participants : PollEventFd(w, p) \/ PollPidFd(w, p)
      PROVE  AskingInv'
  <2>1. asking = {} /\ asking' = asking
    BY <1>9 DEF PollUnlock, PollEventFd, PollPidFd, AskingInv, Alone
  <2> QED BY <2>1, <1>2
<1>10. ASSUME NEW w \in Pollers, EpollWait(w) PROVE AskingInv'
  <2>1. /\ poller' = [poller EXCEPT ![w] = [pc |-> "returned", batch |-> Readable]]
        /\ UNCHANGED <<registered, asking, owner, sweep>>
    BY <1>10 DEF EpollWait
  <2>2. \A u \in Pollers : poller'[u].pc = "locked" => poller[u].pc = "locked"
    BY <2>1 DEF TypeOK
  <2> QED BY <2>1, <2>2 DEF AskingInv, Alone, AskedBy
<1>11. ASSUME NEW p \in Participants, ProcessExit(p) PROVE AskingInv'
  BY <1>1, <1>11 DEF ProcessExit
<1>12. CASE UNCHANGED vars
  BY <1>1, <1>12 DEF vars
<1> QED BY <1>3, <1>4, <1>5, <1>6, <1>7, <1>8, <1>9, <1>10, <1>11, <1>12 DEF Next

LEMMA AskersAreAlone == Spec => []AskingInv
<1>1. Init => AskingInv
  BY DEF Init, AskingInv, Alone
<1> QED BY <1>1, AskingStep, TypeCorrect, PTL DEF Spec

(* Passing the head of a queue on keeps the queue and the word in agreement. *)
LEMMA HandOverQueue ==
  ASSUME TypeOK, QueueAgreesWithWord, registered' = registered,
         NEW r \in Resources, NEW notices \in BOOLEAN, HandOver(r, notices)
  PROVE  QueueAgreesWithWord'
<1>1. CASE waiters[r] = <<>>
  <2>1. /\ owner' = [owner EXCEPT ![r] = NoOwner]
        /\ contended' = [contended EXCEPT ![r] = FALSE]
        /\ waiters' = waiters
    BY <1>1 DEF HandOver, MoreWaiters
  <2>2. owner'[r] = NoOwner /\ ~contended'[r] /\ ~Waits(owner[r], r)'
    BY <1>1, <2>1 DEF TypeOK, Waits
  <2>3. AgreesAt(r)'
    BY <1>1, <2>1, <2>2 DEF AgreesAt, Waits
  <2>4. \A s \in Resources \ {r} : AgreesAt(s)'
    BY <2>1 DEF QueueAgreesWithWord, AgreesAt, Waits, TypeOK
  <2> QED BY <2>3, <2>4 DEF QueueAgreesWithWord
<1>2. CASE waiters[r] # <<>>
  <2> DEFINE q == waiters[r]
  <2>1. /\ owner' = [owner EXCEPT ![r] = Head(q)]
        /\ waiters' = [waiters EXCEPT ![r] = Tail(q)]
        /\ contended' = [contended EXCEPT ![r] = Len(q) > 1]
    BY <1>2 DEF HandOver, MoreWaiters
  <2>2. /\ q \in Seq(Participants)
        /\ Len(q) > 0
        /\ Head(q) = q[1] /\ Head(q) \in Participants
        /\ Tail(q) \in Seq(Participants)
        /\ Len(Tail(q)) = Len(q) - 1
        /\ \A i \in 1..Len(Tail(q)) : Tail(q)[i] = q[i + 1]
    <3>1. q \in Seq(Participants) /\ q # <<>>
      BY <1>2 DEF TypeOK
    <3> HIDE DEF q
    <3>2. Len(q) > 0 /\ Head(q) = q[1] /\ Tail(q) \in Seq(Participants)
      BY <3>1
    <3>3. q[1] \in Participants
      BY <3>1, <3>2
    <3>4. Len(Tail(q)) = Len(q) - 1
      BY <3>1
    <3>5. \A i \in 1..Len(Tail(q)) : Tail(q)[i] = q[i + 1]
      BY <3>1, <3>4
    <3> QED BY <3>1, <3>2, <3>3, <3>4, <3>5
  <2>3. /\ \A i \in 1..Len(q) : q[i] \in registered
        /\ \A i, j \in 1..Len(q) : q[i] = q[j] => i = j
    BY DEF QueueAgreesWithWord, AgreesAt
  <2> HIDE DEF q
  <2>4. /\ owner'[r] = q[1] /\ waiters'[r] = Tail(q)
        /\ contended'[r] <=> Tail(q) # <<>>
    <3>1. Tail(q) # <<>> <=> Len(q) > 1
      <4>1. Tail(q) # <<>> => Len(Tail(q)) \in Nat \ {0}
        BY <2>2, EmptySeq
      <4>2. Tail(q) = <<>> => Len(Tail(q)) = 0
        BY EmptySeq
      <4>3. Len(q) \in Nat
        BY <2>2
      <4> QED BY <2>2, <4>1, <4>2, <4>3
    <3> QED BY <2>1, <2>2, <3>1 DEF TypeOK
  <2>5. \A i \in 1..Len(Tail(q)) : Tail(q)[i] # q[1]
    BY <2>2, <2>3
  <2>6. /\ \A i \in 1..Len(Tail(q)) : Tail(q)[i] \in registered
        /\ \A i, j \in 1..Len(Tail(q)) : Tail(q)[i] = Tail(q)[j] => i = j
    BY <2>2, <2>3
  <2>7. q[1] # NoOwner
    BY <2>2, BrokerAssumption
  <2>8. \A s \in Resources \ {r} : /\ owner'[s] = owner[s]
                                   /\ waiters'[s] = waiters[s]
                                   /\ contended'[s] = contended[s]
    BY <2>1 DEF TypeOK
  <2>9. \A s \in Resources \ {r} : AgreesAt(s)'
    BY <2>8 DEF QueueAgreesWithWord, AgreesAt, Waits
  <2>10. AgreesAt(r)'
    BY <2>2, <2>4, <2>5, <2>6, <2>7 DEF AgreesAt, Waits
  <2> QED BY <2>9, <2>10 DEF QueueAgreesWithWord, AgreesAt
<1> QED BY <1>1, <1>2

LEMMA QueueStep ==
  TypeOK /\ AskingInv /\ QueueAgreesWithWord /\ [Next]_vars => QueueAgreesWithWord'
<1> SUFFICES ASSUME TypeOK, AskingInv, QueueAgreesWithWord, [Next]_vars
             PROVE  QueueAgreesWithWord'
  OBVIOUS
<1> USE DEF ownership
<1>1. ASSUME registered \subseteq registered',
             UNCHANGED <<owner, contended, waiters>>
      PROVE  QueueAgreesWithWord'
  BY <1>1 DEF QueueAgreesWithWord, AgreesAt, Waits
<1>2. ASSUME NEW p \in Participants, NEW r \in Resources,
             TryAcquire(p, r) \/ AcquireAsked(p, r)
      PROVE  QueueAgreesWithWord'
  <2>1. waiters[r] = <<>>
    BY <1>2 DEF TryAcquire, AcquireAsked, QueueAgreesWithWord, AgreesAt
  <2>2. /\ owner' = [owner EXCEPT ![r] = p]
        /\ UNCHANGED <<registered, contended, waiters>>
    BY <1>2 DEF TryAcquire, AcquireAsked
  <2>3. ~contended[r] /\ Len(waiters[r]) = 0
    BY <2>1 DEF QueueAgreesWithWord, AgreesAt
  <2>4. \A s \in Resources \ {r} : owner'[s] = owner[s]
    BY <2>2 DEF TypeOK
  <2>5. \A s \in Resources \ {r} : AgreesAt(s)'
    BY <2>2, <2>4 DEF QueueAgreesWithWord, AgreesAt, Waits
  <2>6. AgreesAt(r)'
    <3>1. \A i \in 1..Len(waiters[r]) : FALSE
      BY <2>3
    <3>2. contended'[r] = contended[r] /\ waiters'[r] = waiters[r]
      BY <2>2
    <3> QED BY <2>1, <2>3, <3>1, <3>2 DEF AgreesAt, Waits
  <2> QED BY <2>5, <2>6 DEF QueueAgreesWithWord
<1>3. ASSUME NEW p \in Participants, NEW r \in Resources, Queue(p, r)
      PROVE  QueueAgreesWithWord'
  <2>1. owner[r] # NoOwner
    BY <1>3 DEF Queue, QueueAgreesWithWord, AgreesAt
  <2>2. CASE Waits(p, r)
    <3>1. waiters' = waiters /\ contended' = contended
      BY <1>3, <2>2 DEF Queue, QueueAgreesWithWord, AgreesAt, Waits, TypeOK
    <3> QED BY <1>3, <3>1, <1>1 DEF Queue
  <2>3. CASE ~Waits(p, r)
    <3> DEFINE q == waiters[r]
    <3>1. /\ waiters' = [waiters EXCEPT ![r] = Append(q, p)]
          /\ contended' = [contended EXCEPT ![r] = TRUE]
          /\ UNCHANGED <<registered, owner>>
          /\ p \in registered /\ (owner[r] = p => p \in SharedIds)
      BY <1>3, <2>3 DEF Queue, AskingInv, AskedBy
    <3>2. q \in Seq(Participants)
      BY DEF TypeOK
    <3>3. /\ \A i \in 1..Len(q) : q[i] \in registered /\ q[i] # p
          /\ \A i \in 1..Len(q) : q[i] = owner[r] => owner[r] \in SharedIds
          /\ \A i, j \in 1..Len(q) : q[i] = q[j] => i = j
      BY <2>3 DEF QueueAgreesWithWord, AgreesAt, Waits
    <3> HIDE DEF q
    <3>4. /\ Append(q, p) # <<>>
          /\ Len(Append(q, p)) = Len(q) + 1
          /\ \A i \in 1..Len(q) : Append(q, p)[i] = q[i]
          /\ Append(q, p)[Len(q) + 1] = p
      BY <3>2
    <3>5. /\ \A i \in 1..Len(Append(q, p)) :
               /\ Append(q, p)[i] \in registered
               /\ Append(q, p)[i] = owner[r] => owner[r] \in SharedIds
          /\ \A i, j \in 1..Len(Append(q, p)) : Append(q, p)[i] = Append(q, p)[j] => i = j
      BY <3>1, <3>2, <3>3, <3>4
    <3>6. waiters'[r] = Append(q, p) /\ contended'[r]
      BY <3>1 DEF TypeOK
    <3>7. \A s \in Resources \ {r} : waiters'[s] = waiters[s] /\ contended'[s] = contended[s]
      BY <3>1 DEF TypeOK
    <3>8. \A s \in Resources \ {r} : AgreesAt(s)'
      BY <3>1, <3>7 DEF QueueAgreesWithWord, AgreesAt, Waits
    <3>9. AgreesAt(r)'
      <4> DEFINE line == Append(q, p)
      <4>1. line # <<>> /\ owner'[r] = owner[r] /\ registered' = registered
        BY <3>1, <3>4
      <4>2. /\ \A i \in 1..Len(line) : 
                 line[i] \in registered /\ (line[i] = owner[r] => owner[r] \in SharedIds)
            /\ \A i, j \in 1..Len(line) : line[i] = line[j] => i = j
        BY <3>5
      <4>3. waiters'[r] = line /\ contended'[r]
        BY <3>6
      <4> HIDE DEF line
      <4> QED BY <2>1, <4>1, <4>2, <4>3 DEF AgreesAt, Waits
    <3> QED BY <3>8, <3>9 DEF QueueAgreesWithWord, AgreesAt
  <2> QED BY <2>2, <2>3
<1>4. ASSUME NEW p \in Participants, NEW r \in Resources,
             Release(p, r) \/ RecoverAbandoned(p, r)
      PROVE  QueueAgreesWithWord'
  <2>1. registered' = registered /\ \E b \in BOOLEAN : HandOver(r, b)
    BY <1>4 DEF Release, RecoverAbandoned
  <2> QED BY <2>1, HandOverQueue
<1>5. ASSUME NEW e \in expired, RecoverExpired(e) PROVE QueueAgreesWithWord'
  <2>1. e.resource \in Resources
    BY DEF TypeOK
  <2>2. registered' = registered
    BY <1>5 DEF RecoverExpired, StillOwned
  <2>3. HandOver(e.resource, TRUE) \/ UNCHANGED ownership
    BY <1>5 DEF RecoverExpired, StillOwned
  <2> QED BY <2>1, <2>2, <2>3, <1>1, HandOverQueue
<1>6. ASSUME NEW r \in Resources, SweepLease(r) PROVE QueueAgreesWithWord'
  <2>1. registered' = registered
    BY <1>6 DEF SweepLease
  <2>2. HandOver(r, TRUE) \/ UNCHANGED ownership
    BY <1>6 DEF SweepLease
  <2> QED BY <2>1, <2>2, <1>1, HandOverQueue
<1>7. ASSUME NEW p \in Participants,
             \/ Register(p) \/ AttachPid(p) \/ ProcessExit(p)
             \/ SendDescriptor(p) \/ SendMessage(p)
             \/ DrainDescriptors(p) \/ DrainMailbox(p) \/ RecoverParticipant(p)
             \/ \E t \in Ticks : Heartbeat(p, t)
             \/ \E r \in Resources : AskToQueue(p, r)
             \/ \E r \in Resources, t \in Ticks : RegisterLease(p, r, t) \/ RenewLease(p, r, t)
      PROVE  QueueAgreesWithWord'
  <2>1. registered \subseteq registered' /\ UNCHANGED <<owner, contended, waiters>>
    BY <1>7 DEF Register, AttachPid, ProcessExit, SendDescriptor, SendMessage,
                DrainDescriptors, DrainMailbox, RecoverParticipant, Heartbeat,
                AskToQueue, RegisterLease, RenewLease
  <2> QED BY <2>1, <1>1
<1>8. ASSUME \/ \E t \in NowTicks : CollectExpired(t)
             \/ \E w \in Pollers : EpollWait(w) \/ PollLock(w) \/ PollUnlock(w)
             \/ \E w \in Pollers, p \in Participants : PollEventFd(w, p) \/ PollPidFd(w, p)
      PROVE  QueueAgreesWithWord'
  <2>1. registered' = registered /\ UNCHANGED <<owner, contended, waiters>>
    BY <1>8 DEF CollectExpired, EpollWait, PollLock, PollUnlock, PollEventFd, PollPidFd
  <2> QED BY <2>1, <1>1
<1>9. CASE UNCHANGED vars
  BY <1>9, <1>1 DEF vars
<1> QED BY <1>2, <1>3, <1>4, <1>5, <1>6, <1>7, <1>8, <1>9 DEF Next

(***************************************************************************)
(* A resource with waiters is owned and marked contended, and a waiter is  *)
(* a participant that waits once and does not own it: the agreement of     *)
(* acquireOrQueue, release and recovery with the lock-free tryAcquire.     *)
(***************************************************************************)
THEOREM QueueAgreement == Spec => []QueueAgreesWithWord
<1>1. Init => QueueAgreesWithWord
  <2> SUFFICES ASSUME Init PROVE QueueAgreesWithWord
    OBVIOUS
  <2>1. \A r \in Resources : /\ waiters[r] = <<>> /\ contended[r] = FALSE
                             /\ Len(waiters[r]) = 0
    BY DEF Init
  <2>2. ASSUME NEW r \in Resources PROVE AgreesAt(r)
    <3>1. contended[r] <=> waiters[r] # <<>>
      BY <2>1
    <3>2. \A i \in 1..Len(waiters[r]) : FALSE
      BY <2>1
    <3> QED BY <2>1, <3>1, <3>2 DEF AgreesAt, Waits
  <2> QED BY <2>2 DEF QueueAgreesWithWord
<1> QED BY <1>1, QueueStep, TypeCorrect, AskersAreAlone, PTL DEF Spec

-----------------------------------------------------------------------------
(* Wake-ups *)

(* A grant wakes the participant it is written to and no other. *)
LEMMA HandOverWakes ==
  ASSUME TypeOK, NoLostWakeup,
         NEW r \in Resources, NEW notices \in BOOLEAN, HandOver(r, notices)
  PROVE  NoLostWakeup'
<1>1. CASE waiters[r] = <<>>
  BY <1>1 DEF HandOver, MoreWaiters, NoLostWakeup, mailboxes
<1>2. CASE waiters[r] # <<>>
  <2>1. /\ eventFd' = [eventFd EXCEPT ![Head(waiters[r])] = TRUE]
        /\ \E rg : ring' = [ring EXCEPT ![Head(waiters[r])] = rg]
        /\ told' = told
    BY <1>2 DEF HandOver, MoreWaiters
  <2> QED BY <2>1 DEF NoLostWakeup, TypeOK
<1> QED BY <1>1, <1>2

LEMMA WakeupStep == TypeOK /\ NoLostWakeup /\ [Next]_vars => NoLostWakeup'
<1> SUFFICES ASSUME TypeOK, NoLostWakeup, [Next]_vars PROVE NoLostWakeup'
  OBVIOUS
<1>1. CASE UNCHANGED mailboxes
  BY <1>1 DEF mailboxes, NoLostWakeup
<1>2. ASSUME NEW p \in Participants, SendDescriptor(p) \/ SendMessage(p)
      PROVE  NoLostWakeup'
  <2>1. /\ eventFd' = [eventFd EXCEPT ![p] = TRUE]
        /\ ring' = [ring EXCEPT ![p] = Push(ring[p], Message)]
        /\ told' = told
    BY <1>2 DEF SendDescriptor, SendMessage
  <2> QED BY <2>1 DEF NoLostWakeup, TypeOK
<1>3. ASSUME NEW p \in Participants, DrainDescriptors(p) PROVE NoLostWakeup'
  <2>1. /\ ring' = [ring EXCEPT ![p] = <<>>]
        /\ told' = told \ {p}
        /\ eventFd' = eventFd
    BY <1>3 DEF DrainDescriptors
  <2> QED BY <2>1 DEF NoLostWakeup, TypeOK
<1>4. ASSUME NEW p \in Participants, DrainMailbox(p) PROVE NoLostWakeup'
  BY <1>4 DEF DrainMailbox, NoLostWakeup
<1>5. ASSUME NEW p \in Participants, NEW r \in Resources,
             Release(p, r) \/ RecoverAbandoned(p, r)
      PROVE  NoLostWakeup'
  <2>1. \E b \in BOOLEAN : HandOver(r, b)
    BY <1>5 DEF Release, RecoverAbandoned
  <2> QED BY <2>1, HandOverWakes
<1>6. ASSUME NEW e \in expired, RecoverExpired(e) PROVE NoLostWakeup'
  <2>1. e.resource \in Resources
    BY DEF TypeOK
  <2>2. HandOver(e.resource, TRUE) \/ UNCHANGED mailboxes
    BY <1>6 DEF RecoverExpired, StillOwned
  <2> QED BY <2>1, <2>2, <1>1, HandOverWakes
<1>7. ASSUME NEW r \in Resources, SweepLease(r) PROVE NoLostWakeup'
  <2>1. HandOver(r, TRUE) \/ UNCHANGED mailboxes
    BY <1>7 DEF SweepLease
  <2> QED BY <2>1, <1>1, HandOverWakes
<1>8. ASSUME NEW w \in Pollers, NEW p \in Participants, PollEventFd(w, p)
      PROVE  NoLostWakeup'
  <2>1. /\ eventFd' = [eventFd EXCEPT ![p] = FALSE]
        /\ ring' = ring
        /\ told' = told \cup {p}
    BY <1>8 DEF PollEventFd
  <2> QED BY <2>1 DEF NoLostWakeup, TypeOK
<1>9. ASSUME NEW w \in Pollers, NEW p \in Participants, PollPidFd(w, p)
      PROVE  NoLostWakeup'
  <2>1. /\ told' = told \cup {p}
        /\ \A q \in Participants \ {p} : ring'[q] = ring[q] /\ eventFd'[q] = eventFd[q]
    BY <1>9 DEF PollPidFd, TypeOK
  <2> QED BY <2>1 DEF NoLostWakeup
<1>10. ASSUME NEW p \in Participants,
              \/ Register(p) \/ AttachPid(p) \/ ProcessExit(p) \/ RecoverParticipant(p)
              \/ \E t \in Ticks : Heartbeat(p, t)
              \/ \E r \in Resources : \/ TryAcquire(p, r) \/ AskToQueue(p, r)
                                      \/ AcquireAsked(p, r) \/ Queue(p, r)
                                      \/ \E t \in Ticks : RegisterLease(p, r, t) \/ RenewLease(p, r, t)
       PROVE  UNCHANGED mailboxes
  BY <1>10 DEF Register, AttachPid, ProcessExit, RecoverParticipant, Heartbeat,
               TryAcquire, AskToQueue, AcquireAsked, Queue, RegisterLease, RenewLease
<1>11. ASSUME \/ \E t \in NowTicks : CollectExpired(t)
              \/ \E w \in Pollers : EpollWait(w) \/ PollLock(w) \/ PollUnlock(w)
       PROVE  UNCHANGED mailboxes
  BY <1>11 DEF CollectExpired, EpollWait, PollLock, PollUnlock
<1>12. CASE UNCHANGED vars
  BY <1>1, <1>12 DEF vars
<1> QED BY <1>1, <1>2, <1>3, <1>4, <1>5, <1>6, <1>7, <1>8, <1>9, <1>10, <1>11, <1>12 DEF Next

(***************************************************************************)
(* A descriptor in a ring is announced: its eventfd is readable, or a poll *)
(* reported the participant and it has not drained since.                  *)
(***************************************************************************)
THEOREM WakeupsKept == Spec => []NoLostWakeup
<1>1. Init => NoLostWakeup
  BY DEF Init, NoLostWakeup
<1> QED BY <1>1, WakeupStep, TypeCorrect, PTL DEF Spec

-----------------------------------------------------------------------------
(* Who loses a resource, and why *)

(* Only the resource handed over changes its owner. *)
LEMMA HandOverElsewhere ==
  ASSUME TypeOK, NEW r \in Resources, NEW notices, HandOver(r, notices)
  PROVE  \A q \in Resources \ {r} : owner'[q] = owner[q]
<1>1. \E o : owner' = [owner EXCEPT ![r] = o]
  <2>1. CASE waiters[r] = <<>>
    BY <2>1 DEF HandOver
  <2>2. CASE waiters[r] # <<>>
    BY <2>2 DEF HandOver
  <2> QED BY <2>1, <2>2
<1> QED BY <1>1 DEF TypeOK

(***************************************************************************)
(* A participant loses a resource by its own release, by a recovery that   *)
(* names it, or by the end of a lease of its own (release,                 *)
(* recoverAbandonedResource, recoverExpiredLeases,                         *)
(* recoverParticipantLeases).                                              *)
(***************************************************************************)
THEOREM LossesAreOwn == Spec => OnlyOwnLeaseIsRecovered
<1> DEFINE Justified(r) ==
      \/ Release(owner[r], r)
      \/ RecoverAbandoned(owner[r], r)
      \/ r \in sweep /\ lease[r] # NoLease /\ lease[r].owner = owner[r]
      \/ \E e \in expired \ expired' : e.resource = r /\ e.owner = owner[r]
<1>1. TypeOK /\ [Next]_vars =>
        \A r \in Resources : owner[r] # NoOwner /\ owner'[r] # owner[r] => Justified(r)
  <2> SUFFICES ASSUME TypeOK, [Next]_vars, NEW r \in Resources,
                      owner[r] # NoOwner, owner'[r] # owner[r]
               PROVE  Justified(r)
    OBVIOUS
  <2>1. ASSUME NEW p \in Participants, NEW q \in Resources,
               Release(p, q) \/ RecoverAbandoned(p, q)
        PROVE  Justified(r)
    <3>1. owner[q] = p /\ \E b : HandOver(q, b)
      BY <2>1 DEF Release, RecoverAbandoned
    <3>2. q = r
      BY <3>1, HandOverElsewhere
    <3> QED BY <2>1, <3>1, <3>2
  <2>2. ASSUME NEW e \in expired, RecoverExpired(e)
        PROVE  Justified(r)
    <3>1. e.resource \in Resources
      BY DEF TypeOK
    <3>2. e.owner = owner[e.resource] /\ HandOver(e.resource, TRUE)
      BY <2>2 DEF RecoverExpired, StillOwned, ownership
    <3>3. e.resource = r
      BY <3>1, <3>2, HandOverElsewhere
    <3>4. e \in expired \ expired'
      BY <2>2 DEF RecoverExpired
    <3> QED BY <3>2, <3>3, <3>4
  <2>3. ASSUME NEW q \in Resources, SweepLease(q)
        PROVE  Justified(r)
    <3>1. q \in sweep /\ Leased(owner[q], q) /\ HandOver(q, TRUE)
      BY <2>3 DEF SweepLease, ownership
    <3>2. q = r
      BY <3>1, HandOverElsewhere
    <3> QED BY <3>1, <3>2 DEF Leased
  <2>4. ASSUME NEW p \in Participants, NEW q \in Resources,
               TryAcquire(p, q) \/ AcquireAsked(p, q)
        PROVE  FALSE
    BY <2>4 DEF TryAcquire, AcquireAsked, TypeOK
  <2>5. ASSUME NEW p \in Participants,
               \/ Register(p) \/ AttachPid(p) \/ ProcessExit(p)
               \/ SendDescriptor(p) \/ SendMessage(p)
               \/ DrainDescriptors(p) \/ DrainMailbox(p) \/ RecoverParticipant(p)
               \/ \E t \in Ticks : Heartbeat(p, t)
               \/ \E q \in Resources : AskToQueue(p, q) \/ Queue(p, q)
               \/ \E q \in Resources, t \in Ticks :
                    RegisterLease(p, q, t) \/ RenewLease(p, q, t)
        PROVE  UNCHANGED owner
    BY <2>5 DEF Register, AttachPid, ProcessExit, SendDescriptor, SendMessage,
                DrainDescriptors, DrainMailbox, RecoverParticipant, Heartbeat,
                AskToQueue, Queue, RegisterLease, RenewLease, ownership
  <2>6. ASSUME \/ \E t \in NowTicks : CollectExpired(t)
               \/ \E w \in Pollers : EpollWait(w) \/ PollLock(w) \/ PollUnlock(w)
               \/ \E w \in Pollers, p \in Participants : PollEventFd(w, p) \/ PollPidFd(w, p)
        PROVE  UNCHANGED owner
    BY <2>6 DEF CollectExpired, EpollWait, PollLock, PollUnlock, PollEventFd, PollPidFd,
                ownership
  <2>7. CASE UNCHANGED vars
    BY <2>7 DEF vars, ownership
  <2> QED BY <2>1, <2>2, <2>3, <2>4, <2>5, <2>6, <2>7 DEF Next
<1>2. TypeOK /\ [Next]_vars =>
        [\A r \in Resources : owner[r] # NoOwner /\ owner'[r] # owner[r] => Justified(r)]_vars
  BY <1>1
<1> QED BY <1>2, TypeCorrect, PTL DEF Spec, OnlyOwnLeaseIsRecovered

-----------------------------------------------------------------------------
(* Refinement *)

(* Handing an owned resource over is the abstract holder's leaving. *)
LEMMA HandOverLeaves ==
  ASSUME NEW r \in Resources, NEW notices, owner[r] # NoOwner, HandOver(r, notices)
  PROVE  Arbitration!Leave(r)
<1>1. CASE waiters[r] = <<>>
  BY <1>1 DEF HandOver, Arbitration!Leave
<1>2. CASE waiters[r] # <<>>
  BY <1>2 DEF HandOver, Arbitration!Leave
<1> QED BY <1>1, <1>2

LEMMA ArbitrationStep ==
  TypeOK /\ AskingInv /\ QueueAgreesWithWord /\ [Next]_vars
    => [Arbitration!Next]_(Arbitration!vars)
<1> SUFFICES ASSUME TypeOK, AskingInv, QueueAgreesWithWord, [Next]_vars
             PROVE  Arbitration!Next \/ UNCHANGED <<owner, waiters>>
  BY DEF Arbitration!vars
<1>1. ASSUME NEW p \in Participants, NEW r \in Resources,
             TryAcquire(p, r) \/ AcquireAsked(p, r)
      PROVE  Arbitration!Take(p, r)
  BY <1>1 DEF TryAcquire, AcquireAsked, Arbitration!Take, QueueAgreesWithWord, AgreesAt
<1>2. ASSUME NEW p \in Participants, NEW r \in Resources, Queue(p, r)
      PROVE  Arbitration!Join(p, r) \/ UNCHANGED <<owner, waiters>>
  <2>1. owner[r] # NoOwner /\ (owner[r] # p \/ p \in SharedIds)
    BY <1>2 DEF Queue, QueueAgreesWithWord, AgreesAt, AskingInv, AskedBy
  <2>2. CASE Waits(p, r)
    BY <1>2, <2>2 DEF Queue, TypeOK
  <2>3. CASE ~Waits(p, r)
    BY <1>2, <2>1, <2>3 DEF Queue, Waits, Arbitration!Join, Arbitration!Queued
  <2> QED BY <2>2, <2>3
<1>3. ASSUME NEW p \in Participants, NEW r \in Resources,
             Release(p, r) \/ RecoverAbandoned(p, r)
      PROVE  Arbitration!Leave(r)
  <2>1. owner[r] # NoOwner /\ \E b : HandOver(r, b)
    BY <1>3, BrokerAssumption DEF Release, RecoverAbandoned
  <2> QED BY <2>1, HandOverLeaves
<1>4. ASSUME NEW e \in expired, RecoverExpired(e)
      PROVE  Arbitration!Next \/ UNCHANGED <<owner, waiters>>
  <2>1. e.resource \in Resources /\ e.owner # NoOwner
    BY BrokerAssumption DEF TypeOK
  <2>2. \/ owner[e.resource] = e.owner /\ HandOver(e.resource, TRUE)
        \/ UNCHANGED ownership
    BY <1>4 DEF RecoverExpired, StillOwned
  <2> QED BY <2>1, <2>2, HandOverLeaves DEF Arbitration!Next, ownership
<1>5. ASSUME NEW r \in Resources, SweepLease(r)
      PROVE  Arbitration!Next \/ UNCHANGED <<owner, waiters>>
  <2>1. \/ Leased(owner[r], r) /\ HandOver(r, TRUE)
        \/ UNCHANGED ownership
    BY <1>5 DEF SweepLease
  <2>2. Leased(owner[r], r) => owner[r] # NoOwner
    BY BrokerAssumption DEF Leased, TypeOK
  <2> QED BY <2>1, <2>2, HandOverLeaves DEF Arbitration!Next, ownership
<1>6. ASSUME NEW p \in Participants,
             \/ Register(p) \/ AttachPid(p) \/ ProcessExit(p)
             \/ SendDescriptor(p) \/ SendMessage(p)
             \/ DrainDescriptors(p) \/ DrainMailbox(p) \/ RecoverParticipant(p)
             \/ \E t \in Ticks : Heartbeat(p, t)
             \/ \E r \in Resources : AskToQueue(p, r)
             \/ \E r \in Resources, t \in Ticks : RegisterLease(p, r, t) \/ RenewLease(p, r, t)
      PROVE  UNCHANGED <<owner, waiters>>
  BY <1>6 DEF Register, AttachPid, ProcessExit, SendDescriptor, SendMessage,
              DrainDescriptors, DrainMailbox, RecoverParticipant, Heartbeat,
              AskToQueue, RegisterLease, RenewLease, ownership
<1>7. ASSUME \/ \E t \in NowTicks : CollectExpired(t)
             \/ \E w \in Pollers : EpollWait(w) \/ PollLock(w) \/ PollUnlock(w)
             \/ \E w \in Pollers, p \in Participants : PollEventFd(w, p) \/ PollPidFd(w, p)
      PROVE  UNCHANGED <<owner, waiters>>
  BY <1>7 DEF CollectExpired, EpollWait, PollLock, PollUnlock, PollEventFd, PollPidFd, ownership
<1>8. CASE UNCHANGED vars
  BY <1>8 DEF vars, ownership
<1> QED BY <1>1, <1>2, <1>3, <1>4, <1>5, <1>6, <1>7, <1>8 DEF Next, Arbitration!Next

(***************************************************************************)
(* The broker implements Root1Arbitration: one holder, no barging past     *)
(* waiters, grants in queueing order.                                      *)
(***************************************************************************)
THEOREM Arbitrates == Spec => ArbitrationSpec
<1>1. Init => Arbitration!Init
  BY DEF Init, Arbitration!Init
<1> QED BY <1>1, ArbitrationStep, TypeCorrect, AskersAreAlone, QueueAgreement, PTL
        DEF Spec, ArbitrationSpec, Arbitration!Spec

-----------------------------------------------------------------------------
(* The order of grants *)

(***************************************************************************)
(* GrantsInOrder is not inductive: the token about to be given must be     *)
(* above every token that lies in a ring, as it is above those of the      *)
(* BrokerEvents.  By mailbox, and for the next token n:                    *)
(***************************************************************************)
EventsBelow(ev, n) ==
  /\ \A i, j \in 1..Len(ev) : i < j /\ ev[j] # 0 => ev[i] < ev[j]
  /\ \A i \in 1..Len(ev) : ev[i] < n
RingBelow(rg, n) ==
  /\ \A i, j \in 1..Len(rg) :
       i < j /\ rg[i] \in Grants /\ rg[j] \in Grants => rg[i].token < rg[j].token
  /\ \A i \in 1..Len(rg) : rg[i] \in Grants => rg[i].token < n
TokensApart(ev, other) ==
  \A i \in 1..Len(ev), j \in 1..Len(other) : ev[i] = other[j] => ev[i] = 0

TokensInOrder ==
  /\ \A p \in Participants : EventsBelow(events[p], nextToken) /\ RingBelow(ring[p], nextToken)
  /\ \A p, q \in Participants : p # q => TokensApart(events[p], events[q])

(* A message at the end of a mailbox, or the next token there. *)
LEMMA AppendEvents ==
  ASSUME NEW ev \in Seq(Nat), NEW n \in Nat \ {0}, EventsBelow(ev, n),
         NEW tok \in {0, n}
  PROVE  EventsBelow(Append(ev, tok), n + 1) /\ (tok = 0 => EventsBelow(Append(ev, tok), n))
<1> DEFINE more == Append(ev, tok)
<1>1. /\ Len(more) = Len(ev) + 1 /\ Len(ev) \in Nat
      /\ \A i \in 1..Len(ev) : more[i] = ev[i] /\ ev[i] \in Nat
      /\ more[Len(ev) + 1] = tok
  OBVIOUS
<1> HIDE DEF more
<1>2. \A i \in 1..Len(more) : i \in 1..Len(ev) \/ i = Len(ev) + 1
  BY <1>1
<1>3. \A i, j \in 1..Len(more) : i < j /\ more[j] # 0 => more[i] < more[j]
  <2> SUFFICES ASSUME NEW i \in 1..Len(more), NEW j \in 1..Len(more), i < j, more[j] # 0
               PROVE  more[i] < more[j]
    OBVIOUS
  <2>1. i \in 1..Len(ev)
    BY <1>1
  <2>2. CASE j \in 1..Len(ev)
    BY <1>1, <2>1, <2>2 DEF EventsBelow
  <2>3. CASE j = Len(ev) + 1
    BY <1>1, <2>1, <2>3 DEF EventsBelow
  <2> QED BY <1>2, <2>2, <2>3
<1>4. \A i \in 1..Len(more) : more[i] < n + 1 /\ (tok = 0 => more[i] < n)
  BY <1>1, <1>2 DEF EventsBelow
<1> QED BY <1>3, <1>4 DEF EventsBelow, more

LEMMA AppendApart ==
  ASSUME NEW ev \in Seq(Nat), NEW other \in Seq(Nat), NEW n \in Nat, NEW tok \in {0, n},
         TokensApart(ev, other), EventsBelow(other, n)
  PROVE  TokensApart(Append(ev, tok), other) /\ TokensApart(other, Append(ev, tok))
<1> DEFINE more == Append(ev, tok)
<1>1. /\ Len(more) = Len(ev) + 1 /\ Len(ev) \in Nat
      /\ \A i \in 1..Len(ev) : more[i] = ev[i]
      /\ more[Len(ev) + 1] = tok
  OBVIOUS
<1> HIDE DEF more
<1>2. \A i \in 1..Len(more) : i \in 1..Len(ev) \/ i = Len(ev) + 1
  BY <1>1
<1>3. ASSUME NEW i \in 1..Len(more), NEW j \in 1..Len(other), more[i] = other[j]
      PROVE  more[i] = 0
  <2>1. other[j] \in Nat /\ other[j] < n
    BY DEF EventsBelow
  <2>2. CASE i = Len(ev) + 1
    BY <1>1, <1>3, <2>1, <2>2
  <2>3. CASE i \in 1..Len(ev)
    BY <1>1, <1>3, <2>3 DEF TokensApart
  <2> QED BY <1>2, <2>2, <2>3
<1> QED BY <1>3 DEF TokensApart, more

(* What tryPush writes behind the grants of a ring: no grant, or the next one. *)
LEMMA PushBelow ==
  ASSUME NEW rg \in Seq(Descriptors), NEW n \in Nat, RingBelow(rg, n),
         NEW m \in Nat, n <= m,
         NEW d \in Descriptors, d \in Grants => d.token = n /\ n < m
  PROVE  RingBelow(Push(rg, d), m)
<1>0. \A i \in 1..Len(rg) : rg[i] \in Grants => rg[i].token \in Nat /\ rg[i].token < n
  BY DEF RingBelow, Grants
<1>1. CASE ~(Len(rg) < RingCapacity)
  <2>1. Push(rg, d) = rg
    BY <1>1 DEF Push
  <2> QED BY <1>0, <2>1 DEF RingBelow
<1>2. CASE Len(rg) < RingCapacity
  <2> DEFINE more == Append(rg, d)
  <2>1. /\ Push(rg, d) = more
        /\ Len(more) = Len(rg) + 1 /\ Len(rg) \in Nat
        /\ \A i \in 1..Len(rg) : more[i] = rg[i]
        /\ more[Len(rg) + 1] = d
    BY <1>2 DEF Push
  <2> HIDE DEF more
  <2>2. \A i \in 1..Len(more) : i \in 1..Len(rg) \/ i = Len(rg) + 1
    BY <2>1
  <2>3. ASSUME NEW i \in 1..Len(more), more[i] \in Grants
        PROVE  more[i].token < m
    <3>1. CASE i \in 1..Len(rg)
      BY <1>0, <2>1, <2>3, <3>1
    <3>2. CASE i = Len(rg) + 1
      BY <2>1, <2>3, <3>2
    <3> QED BY <2>2, <3>1, <3>2
  <2>4. ASSUME NEW i \in 1..Len(more), NEW j \in 1..Len(more), i < j,
               more[i] \in Grants, more[j] \in Grants
        PROVE  more[i].token < more[j].token
    <3>0. i \in 1..Len(rg)
      BY <2>1, <2>4
    <3>1. CASE j \in 1..Len(rg)
      BY <2>1, <2>4, <3>0, <3>1 DEF RingBelow
    <3>2. CASE j = Len(rg) + 1
      BY <1>0, <2>1, <2>4, <3>0, <3>2
    <3> QED BY <2>2, <3>1, <3>2
  <2> QED BY <2>1, <2>3, <2>4 DEF RingBelow
<1> QED BY <1>1, <1>2

LEMMA NoGrants == /\ Message \notin Grants /\ Exited \notin Grants
                  /\ \A r \in Resources : OwnerDied(r) \notin Grants
BY DEF Message, Exited, OwnerDied, Grants

(* A write to one mailbox leaves the others as they were, below the next token. *)
LEMMA OneMailbox ==
  ASSUME TypeOK, TokensInOrder, NEW p \in Participants,
         nextToken' \in Nat, nextToken <= nextToken',
         \A q \in Participants \ {p} : events'[q] = events[q] /\ ring'[q] = ring[q],
         EventsBelow(events'[p], nextToken'), RingBelow(ring'[p], nextToken'),
         \A q \in Participants \ {p} :
           TokensApart(events'[p], events[q]) /\ TokensApart(events[q], events'[p])
  PROVE  TokensInOrder'
<1>1. ASSUME NEW q \in Participants \ {p}
      PROVE  EventsBelow(events[q], nextToken') /\ RingBelow(ring[q], nextToken')
  <2>1. nextToken \in Nat /\ events[q] \in Seq(Nat) /\ ring[q] \in Seq(Descriptors)
    BY DEF TypeOK
  <2>2. EventsBelow(events[q], nextToken')
    BY <2>1 DEF TokensInOrder, EventsBelow
  <2>3. RingBelow(ring[q], nextToken')
    BY <2>1 DEF TokensInOrder, RingBelow, Grants
  <2> QED BY <2>2, <2>3
<1>2. \A q \in Participants : EventsBelow(events'[q], nextToken') /\ RingBelow(ring'[q], nextToken')
  BY <1>1
<1>3. \A q, s \in Participants : q # s => TokensApart(events'[q], events'[s])
  BY DEF TokensInOrder
<1> QED BY <1>2, <1>3 DEF TokensInOrder

LEMMA HandOverTokens ==
  ASSUME TypeOK, TokensInOrder,
         NEW r \in Resources, NEW notices \in BOOLEAN, HandOver(r, notices)
  PROVE  TokensInOrder'
<1>1. CASE waiters[r] = <<>>
  BY <1>1 DEF HandOver, mailboxes, TokensInOrder
<1>2. CASE waiters[r] # <<>>
  <2> DEFINE p     == Head(waiters[r])
             noted == IF notices THEN Push(ring[p], OwnerDied(r)) ELSE ring[p]
             grant == Grant(r, nextToken)
  <2>1. p \in Participants
    BY <1>2 DEF TypeOK
  <2>2. /\ ring' = [ring EXCEPT ![p] = Push(noted, grant)]
        /\ events' = [events EXCEPT ![p] = Append(@, nextToken)]
        /\ nextToken' = nextToken + 1
    BY <1>2 DEF HandOver
  <2> HIDE DEF p
  <2>3. /\ nextToken \in Nat \ {0}
        /\ ring[p] \in Seq(Descriptors) /\ Len(ring[p]) <= RingCapacity
        /\ events[p] \in Seq(Nat)
        /\ EventsBelow(events[p], nextToken) /\ RingBelow(ring[p], nextToken)
    BY <2>1 DEF TypeOK, TokensInOrder
  <2>4. noted \in Seq(Descriptors) /\ Len(noted) <= RingCapacity /\ RingBelow(noted, nextToken)
    <3>1. OwnerDied(r) \in Descriptors /\ OwnerDied(r) \notin Grants
      BY DescriptorTypes, NoGrants
    <3>2. /\ Push(ring[p], OwnerDied(r)) \in Seq(Descriptors)
          /\ Len(Push(ring[p], OwnerDied(r))) <= RingCapacity
      BY <2>3, <3>1, PushType
    <3>3. RingBelow(Push(ring[p], OwnerDied(r)), nextToken)
      <4>1. nextToken \in Nat /\ nextToken <= nextToken
        BY <2>3
      <4> QED BY <2>3, <3>1, <4>1, PushBelow
    <3> QED BY <2>3, <3>2, <3>3
  <2>5. grant \in Descriptors /\ (grant \in Grants => grant.token = nextToken)
    BY <2>3, DescriptorTypes DEF Grant
  <2> HIDE DEF noted, grant
  <2>6. RingBelow(Push(noted, grant), nextToken + 1)
    <3>1. nextToken + 1 \in Nat /\ nextToken <= nextToken + 1 /\ nextToken < nextToken + 1
      BY <2>3
    <3> QED BY <2>3, <2>4, <2>5, <3>1, PushBelow
  <2>7. EventsBelow(Append(events[p], nextToken), nextToken + 1)
    BY <2>3, AppendEvents
  <2>8. \A q \in Participants \ {p} :
          /\ TokensApart(Append(events[p], nextToken), events[q])
          /\ TokensApart(events[q], Append(events[p], nextToken))
    BY <2>1, <2>3, AppendApart DEF TypeOK, TokensInOrder
  <2>9. /\ events'[p] = Append(events[p], nextToken) /\ ring'[p] = Push(noted, grant)
        /\ \A q \in Participants \ {p} : events'[q] = events[q] /\ ring'[q] = ring[q]
    BY <2>1, <2>2 DEF TypeOK
  <2> QED BY <2>1, <2>2, <2>3, <2>6, <2>7, <2>8, <2>9, OneMailbox
<1> QED BY <1>1, <1>2

LEMMA TokensStep == TypeOK /\ TokensInOrder /\ [Next]_vars => TokensInOrder'
<1> SUFFICES ASSUME TypeOK, TokensInOrder, [Next]_vars PROVE TokensInOrder'
  OBVIOUS
<1>0. nextToken \in Nat \ {0} /\ nextToken <= nextToken
  BY DEF TypeOK
<1>1. ASSUME UNCHANGED <<ring, events, nextToken>> PROVE TokensInOrder'
  BY <1>1 DEF TokensInOrder
<1>t. ASSUME NEW p \in Participants
      PROVE  /\ ring[p] \in Seq(Descriptors) /\ events[p] \in Seq(Nat)
             /\ EventsBelow(events[p], nextToken) /\ RingBelow(ring[p], nextToken)
             /\ \A q \in Participants \ {p} :
                  TokensApart(events[p], events[q]) /\ TokensApart(events[q], events[p])
  BY DEF TypeOK, TokensInOrder
<1>2. ASSUME NEW p \in Participants, NEW d \in {Message, Exited},
             ring' = [ring EXCEPT ![p] = Push(@, d)], UNCHANGED <<events, nextToken>>
      PROVE  TokensInOrder'
  <2>1. RingBelow(Push(ring[p], d), nextToken)
    BY <1>0, <1>t, PushBelow, DescriptorTypes, NoGrants
  <2>2. /\ ring'[p] = Push(ring[p], d)
        /\ \A q \in Participants \ {p} : ring'[q] = ring[q]
    BY <1>2 DEF TypeOK
  <2> QED BY <1>0, <1>t, <1>2, <2>1, <2>2, OneMailbox
<1>3. ASSUME NEW p \in Participants, SendMessage(p) PROVE TokensInOrder'
  <2>1. /\ ring' = [ring EXCEPT ![p] = Push(@, Message)]
        /\ events' = [events EXCEPT ![p] = Append(@, 0)]
        /\ nextToken' = nextToken
    BY <1>3 DEF SendMessage
  <2>2. RingBelow(Push(ring[p], Message), nextToken)
    BY <1>0, <1>t, PushBelow, DescriptorTypes, NoGrants
  <2>3. EventsBelow(Append(events[p], 0), nextToken)
    BY <1>0, <1>t, AppendEvents
  <2>4. \A q \in Participants \ {p} : /\ TokensApart(Append(events[p], 0), events[q])
                                      /\ TokensApart(events[q], Append(events[p], 0))
    BY <1>0, <1>t, AppendApart
  <2>5. /\ events'[p] = Append(events[p], 0) /\ ring'[p] = Push(ring[p], Message)
        /\ \A q \in Participants \ {p} : events'[q] = events[q] /\ ring'[q] = ring[q]
    BY <2>1 DEF TypeOK
  <2> QED BY <1>0, <2>1, <2>2, <2>3, <2>4, <2>5, OneMailbox
<1>4. ASSUME NEW p \in Participants, DrainDescriptors(p) PROVE TokensInOrder'
  <2>1. ring' = [ring EXCEPT ![p] = <<>>] /\ UNCHANGED <<events, nextToken>>
    BY <1>4 DEF DrainDescriptors
  <2>2. ring'[p] = <<>> /\ \A q \in Participants \ {p} : ring'[q] = ring[q]
    BY <2>1 DEF TypeOK
  <2>3. RingBelow(<<>>, nextToken)
    BY DEF RingBelow
  <2> QED BY <1>0, <1>t, <2>1, <2>2, <2>3, OneMailbox
<1>5. ASSUME NEW p \in Participants, DrainMailbox(p) PROVE TokensInOrder'
  <2>1. events' = [events EXCEPT ![p] = <<>>] /\ UNCHANGED <<ring, nextToken>>
    BY <1>5 DEF DrainMailbox
  <2>2. events'[p] = <<>> /\ \A q \in Participants \ {p} : events'[q] = events[q]
    BY <2>1 DEF TypeOK
  <2>3. EventsBelow(<<>>, nextToken) /\ \A ev : TokensApart(<<>>, ev) /\ TokensApart(ev, <<>>)
    BY DEF EventsBelow, TokensApart
  <2> QED BY <1>0, <1>t, <2>1, <2>2, <2>3, OneMailbox
<1>6. ASSUME NEW p \in Participants, NEW r \in Resources,
             Release(p, r) \/ RecoverAbandoned(p, r)
      PROVE  TokensInOrder'
  <2>1. \E b \in BOOLEAN : HandOver(r, b)
    BY <1>6 DEF Release, RecoverAbandoned
  <2> QED BY <2>1, HandOverTokens
<1>7. ASSUME NEW e \in expired, RecoverExpired(e) PROVE TokensInOrder'
  <2>1. e.resource \in Resources
    BY DEF TypeOK
  <2>2. HandOver(e.resource, TRUE) \/ UNCHANGED mailboxes
    BY <1>7 DEF RecoverExpired, StillOwned
  <2> QED BY <1>1, <2>1, <2>2, HandOverTokens DEF mailboxes
<1>8. ASSUME NEW r \in Resources, SweepLease(r) PROVE TokensInOrder'
  <2>1. HandOver(r, TRUE) \/ UNCHANGED mailboxes
    BY <1>8 DEF SweepLease
  <2> QED BY <1>1, <2>1, HandOverTokens DEF mailboxes
<1>9. ASSUME NEW p \in Participants, SendDescriptor(p) PROVE TokensInOrder'
  BY <1>2, <1>9 DEF SendDescriptor
<1>10. ASSUME NEW w \in Pollers, NEW p \in Participants, PollPidFd(w, p) PROVE TokensInOrder'
  BY <1>1, <1>2, <1>10 DEF PollPidFd
<1>11. ASSUME NEW p \in Participants,
              \/ Register(p) \/ AttachPid(p) \/ ProcessExit(p) \/ RecoverParticipant(p)
              \/ \E t \in Ticks : Heartbeat(p, t)
              \/ \E r \in Resources : \/ TryAcquire(p, r) \/ AskToQueue(p, r)
                                      \/ AcquireAsked(p, r) \/ Queue(p, r)
                                      \/ \E t \in Ticks : RegisterLease(p, r, t) \/ RenewLease(p, r, t)
       PROVE  UNCHANGED mailboxes
  BY <1>11 DEF Register, AttachPid, ProcessExit, RecoverParticipant, Heartbeat,
               TryAcquire, AskToQueue, AcquireAsked, Queue, RegisterLease, RenewLease
<1>12. ASSUME \/ \E t \in NowTicks : CollectExpired(t)
              \/ \E w \in Pollers : EpollWait(w) \/ PollLock(w) \/ PollUnlock(w)
              \/ \E w \in Pollers, p \in Participants : PollEventFd(w, p)
       PROVE  UNCHANGED <<ring, events, nextToken>>
  BY <1>12 DEF CollectExpired, EpollWait, PollLock, PollUnlock, PollEventFd, mailboxes
<1>13. CASE UNCHANGED vars
  BY <1>1, <1>13 DEF vars, mailboxes
<1>14. CASE UNCHANGED mailboxes
  BY <1>1, <1>14 DEF mailboxes
<1> QED BY <1>1, <1>3, <1>4, <1>5, <1>6, <1>7, <1>8, <1>9, <1>10, <1>11, <1>12, <1>13, <1>14
        DEF Next

(***************************************************************************)
(* Grant tokens are handed out once and come in the order of the grants,   *)
(* in the BrokerEvents of a mailbox and in its descriptors, whichever      *)
(* descriptors a full ring refused on the way.  (release and               *)
(* recoverAbandonedResourceLocked.)                                        *)
(***************************************************************************)
THEOREM GrantsOrdered == Spec => []GrantsInOrder
<1>1. Init => TokensInOrder
  <2> SUFFICES ASSUME Init PROVE TokensInOrder
    OBVIOUS
  <2>1. \A p \in Participants : events[p] = <<>> /\ ring[p] = <<>>
    BY DEF Init
  <2> QED BY <2>1 DEF TokensInOrder, EventsBelow, RingBelow, TokensApart
<1>2. TokensInOrder => GrantsInOrder
  BY DEF TokensInOrder, GrantsInOrder, EventsBelow, RingBelow, TokensApart
<1> QED BY <1>1, <1>2, TokensStep, TypeCorrect, PTL DEF Spec
=============================================================================
