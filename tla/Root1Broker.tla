------------------------------- MODULE Root1Broker -------------------------------
(***************************************************************************)
(* Root1ResourceBroker of core/root1_resource_broker.{h,cpp}: ownership of *)
(* shared resources, queues of waiters, leases that expire, participant    *)
(* mailboxes with one eventfd each, the epoll loop and the pidfds through   *)
(* which the death of a participant's process is noticed.                  *)
(*                                                                         *)
(* Every method of the broker runs under mutex_, so a method is one action *)
(* of this module, with five exceptions that are modelled step by step:    *)
(*   - tryAcquire and the first CAS of acquireOrQueue run without it;      *)
(*   - acquireOrQueue looks at the owner, tries the CAS again and queues   *)
(*     with the mutex held, and a tryAcquire may come in between;          *)
(*   - recoverExpiredLeases takes it once to collect the expired leases    *)
(*     and once again for each of them;                                    *)
(*   - pollReadyParticipants calls epoll_wait before it takes the mutex;   *)
(*   - recoverParticipantLeases and the loop of pollReadyParticipants keep *)
(*     it while they go from one resource or event to the next, and a      *)
(*     tryAcquire of another thread may come in between.                   *)
(***************************************************************************)
EXTENDS Root1Mailbox, FiniteSets

CONSTANTS
  Participants,   \* ids that callers may pass, registered or not
  Monitored,      \* the participants that are ever given a pid
  SharedIds,      \* the participants whose id several threads use at once
  Pollers,        \* threads that call pollReadyParticipants
  Ticks,          \* logical ticks a lease may expire at
  NowTicks,       \* ticks at which recoverExpiredLeases is called
  NoOwner,        \* the participant id 0
  NoLease,        \* no entry in leases_
  MaxToken,       \* bound: grants a behaviour may ask for
  MaxEvents       \* bound: BrokerEvents a sender leaves in one mailbox

ASSUME BrokerAssumption ==
  /\ NoOwner \notin Participants
  /\ Monitored \subseteq Participants /\ SharedIds \subseteq Participants
  /\ Ticks \subseteq Nat /\ NowTicks \subseteq Nat
  /\ NoLease \notin [owner : Participants, expires : Nat]

VARIABLES
  registered,     \* keys of participants_ (no method ever removes one)
  asking,         \* who is in acquireOrQueue with the mutex held, and for what
  owner,          \* ResourceState::word_, owner bits
  contended,      \* ResourceState::word_, kContendedBit
  waiters,        \* waiters_
  lease,          \* leases_
  expired,        \* the local vector of a running recoverExpiredLeases
  sweep,          \* ownedKeys not yet visited by recoverParticipantLeasesLocked
  nextToken,      \* nextGrantToken_
  ring,           \* ParticipantRecord::descriptorMailbox
  events,         \* ParticipantRecord::mailbox, its grant tokens and 0 for a message
  eventFd,        \* whether ParticipantRecord::eventFd is readable
  pid,            \* the process behind pidFd
  reported,       \* ParticipantRecord::pidDeathReported
  poller,         \* where each poller is and the epoll events it still holds
  told            \* history: returned by a poll and not drained since

ownership == <<owner, contended, waiters, lease>>
mailboxes == <<ring, events, eventFd, nextToken, told>>
processes == <<pid, reported>>
vars == <<registered, asking, ownership, expired, sweep, mailboxes, processes, poller>>

Idle       == [pc |-> "idle", batch |-> {}]
EpollEvent == Participants \X {"eventfd", "pidfd"}

TypeOK ==
  /\ registered \subseteq Participants
  /\ asking \subseteq Participants \X Resources
  /\ owner \in [Resources -> Participants \cup {NoOwner}]
  /\ contended \in [Resources -> BOOLEAN]
  /\ waiters \in [Resources -> Seq(Participants)]
  /\ lease \in [Resources -> [owner : Participants, expires : Nat] \cup {NoLease}]
  /\ expired \subseteq [resource : Resources, owner : Participants, now : Nat]
  /\ sweep \subseteq Resources
  /\ nextToken \in Nat \ {0}
  /\ ring \in [Participants -> Seq(Descriptors)]
  /\ \A p \in Participants : Len(ring[p]) <= RingCapacity
  /\ events \in [Participants -> Seq(Nat)]
  /\ eventFd \in [Participants -> BOOLEAN]
  /\ pid \in [Participants -> {"none", "running", "exited"}]
  /\ reported \in [Participants -> BOOLEAN]
  /\ poller \in [Pollers -> [pc : {"idle", "returned", "locked"},
                             batch : SUBSET EpollEvent]]
  /\ told \subseteq Participants

Init ==
  /\ registered = {}
  /\ asking = {}
  /\ owner = [r \in Resources |-> NoOwner]
  /\ contended = [r \in Resources |-> FALSE]
  /\ waiters = [r \in Resources |-> <<>>]
  /\ lease = [r \in Resources |-> NoLease]
  /\ expired = {}
  /\ sweep = {}
  /\ nextToken = 1
  /\ ring = [p \in Participants |-> <<>>]
  /\ events = [p \in Participants |-> <<>>]
  /\ eventFd = [p \in Participants |-> FALSE]
  /\ pid = [p \in Participants |-> "none"]
  /\ reported = [p \in Participants |-> FALSE]
  /\ poller = [w \in Pollers |-> Idle]
  /\ told = {}

(***************************************************************************)
(* mutex_ is held from acquireOrQueue's look at the owner to its end,      *)
(* between the steps of a sweep over the leases of one participant and     *)
(* between those of a poller's loop over its batch.                        *)
(***************************************************************************)
MutexFree == asking = {} /\ sweep = {} /\ \A w \in Pollers : poller[w].pc # "locked"

(***************************************************************************)
(* Variants of the definitions below, each with one plausible mistake.     *)
(* None is part of Next: they show what the properties would catch.        *)
(***************************************************************************)
(* acquireOrQueue with push_front for its push_back. *)
QueueFirst(p, r) ==
  /\ <<p, r>> \in asking
  /\ owner[r] # NoOwner \/ contended[r]
  /\ p \notin {waiters[r][i] : i \in 1..Len(waiters[r])}
  /\ waiters' = [waiters EXCEPT ![r] = <<p>> \o @]
  /\ contended' = [contended EXCEPT ![r] = TRUE]
  /\ asking' = {}
  /\ UNCHANGED <<registered, owner, lease, expired, sweep, mailboxes, processes,
                 poller>>

(* hasMoreWaiters computed before pop_front. *)
MoreWaitersBeforePop(r) == waiters[r] # <<>>

(* release as a clear of the word. *)
ReleaseClears(p, r) ==
  /\ MutexFree
  /\ owner[r] = p
  /\ owner' = [owner EXCEPT ![r] = NoOwner]
  /\ contended' = [contended EXCEPT ![r] = FALSE]
  /\ UNCHANGED <<registered, asking, waiters, lease, expired, sweep, mailboxes,
                 processes, poller>>

(* Recovery of a leased resource whoever owns it by now. *)
StillOwnedByAnyone(e) == owner[e.resource] # NoOwner

(* pushDescriptorLocked without notifyParticipantLocked. *)
SendDescriptorSilently(p) ==
  /\ MutexFree
  /\ p \in registered
  /\ Len(ring[p]) < RingCapacity
  /\ ring' = [ring EXCEPT ![p] = Push(@, Message)]
  /\ UNCHANGED <<registered, asking, ownership, expired, sweep, events, eventFd,
                 nextToken, told, processes, poller>>

(* drainMailboxDescriptors with an if for its while. *)
DrainOneDescriptor(p) ==
  /\ MutexFree
  /\ p \in registered
  /\ ring[p] # <<>>
  /\ ring' = [ring EXCEPT ![p] = Tail(@)]
  /\ told' = told \ {p}
  /\ UNCHANGED <<registered, asking, ownership, expired, sweep, events, eventFd,
                 nextToken, processes, poller>>

-----------------------------------------------------------------------------
(* Registration and processes *)

(* registerParticipant: a fresh id, an empty mailbox, an eventfd in the epoll set. *)
Register(p) ==
  /\ MutexFree
  /\ p \notin registered
  /\ registered' = registered \cup {p}
  /\ UNCHANGED <<asking, ownership, expired, sweep, mailboxes, processes, poller>>

(***************************************************************************)
(* attachParticipantPid: the pidfd of a new process replaces the old one   *)
(* in the epoll set and the death report is reset.                         *)
(***************************************************************************)
AttachPid(p) ==
  /\ MutexFree
  /\ p \in registered \cap Monitored
  /\ pid' = [pid EXCEPT ![p] = "running"]
  /\ reported' = [reported EXCEPT ![p] = FALSE]
  /\ UNCHANGED <<registered, asking, ownership, expired, sweep, mailboxes, poller>>

(* The kernel makes the pidfd readable when the process is gone. *)
ProcessExit(p) ==
  /\ pid[p] = "running"
  /\ pid' = [pid EXCEPT ![p] = "exited"]
  /\ UNCHANGED <<registered, asking, ownership, expired, sweep, mailboxes, reported,
                 poller>>

-----------------------------------------------------------------------------
(* Acquiring and handing over *)

(***************************************************************************)
(* tryAcquireUnlocked: a CAS of the whole word from 0, by tryAcquire or by *)
(* the first attempt of acquireOrQueue.  It needs neither the mutex nor a  *)
(* registered participant.  A thread in acquireOrQueue does nothing else   *)
(* meanwhile, but another one may use the same id.                         *)
(***************************************************************************)
Elsewhere(p) == p \in SharedIds \/ \A a \in asking : a[1] # p

TryAcquire(p, r) ==
  /\ Elsewhere(p)
  /\ owner[r] = NoOwner
  /\ ~contended[r]
  /\ owner' = [owner EXCEPT ![r] = p]
  /\ UNCHANGED <<registered, asking, contended, waiters, lease, expired, sweep,
                 mailboxes, processes, poller>>

Waits(p, r) == \E i \in 1..Len(waiters[r]) : waiters[r][i] = p
Waiting     == {w \in Participants \X Resources : Waits(w[1], w[2])}

(***************************************************************************)
(* acquireOrQueue, once its first CAS has failed: with the mutex, up to    *)
(* its look at the owner (an owner is told so at once).  The bound         *)
(* MaxToken counts the grants given and the ones the waiters still ask     *)
(* for: it restricts requests and never a hand-over.                       *)
(***************************************************************************)
AskToQueue(p, r) ==
  /\ MutexFree
  /\ p \in registered
  /\ owner[r] # p
  /\ nextToken + Cardinality(Waiting) <= MaxToken
  /\ asking' = {<<p, r>>}
  /\ UNCHANGED <<registered, ownership, expired, sweep, mailboxes, processes, poller>>

(* Its second CAS finds the word free ... *)
AcquireAsked(p, r) ==
  /\ <<p, r>> \in asking
  /\ owner[r] = NoOwner /\ ~contended[r]
  /\ owner' = [owner EXCEPT ![r] = p]
  /\ asking' = {}
  /\ UNCHANGED <<registered, contended, waiters, lease, expired, sweep, mailboxes,
                 processes, poller>>

(***************************************************************************)
(* ... or not, and the caller is queued, once, though a tryAcquire with    *)
(* its own id may have taken the resource since the look.  Nobody gives it *)
(* up between the CAS and the push: that takes the mutex.                  *)
(***************************************************************************)
Queue(p, r) ==
  /\ <<p, r>> \in asking
  /\ owner[r] # NoOwner \/ contended[r]
  /\ waiters' = [waiters EXCEPT ![r] = IF Waits(p, r) THEN @ ELSE Append(@, p)]
  /\ contended' = [contended EXCEPT ![r] = TRUE]
  /\ asking' = {}
  /\ UNCHANGED <<registered, owner, lease, expired, sweep, mailboxes, processes,
                 poller>>

(* hasMoreWaiters, as it is after pop_front. *)
MoreWaiters(r) == Len(waiters[r]) > 1

(***************************************************************************)
(* The body release and recoverAbandonedResourceLocked share: the word     *)
(* goes to the first waiter, contended if others remain, and the waiter is *)
(* sent its grant twice, as a descriptor (lost if its ring is full) and as *)
(* a BrokerEvent; with no waiter the word is cleared.  The code also skips *)
(* waiters that are no participant: QueueAgreesWithWord shows there are    *)
(* none.                                                                   *)
(***************************************************************************)
HandOver(r, notices) ==
  /\ \/ /\ waiters[r] = <<>>
        /\ owner' = [owner EXCEPT ![r] = NoOwner]
        /\ contended' = [contended EXCEPT ![r] = FALSE]
        /\ UNCHANGED <<waiters, mailboxes>>
     \/ /\ waiters[r] # <<>>
        /\ LET p      == Head(waiters[r])
               noted  == IF notices THEN Push(ring[p], OwnerDied(r)) ELSE ring[p]
           IN  /\ owner' = [owner EXCEPT ![r] = p]
               /\ ring' = [ring EXCEPT ![p] = Push(noted, Grant(r, nextToken))]
               /\ events' = [events EXCEPT ![p] = Append(@, nextToken)]
               /\ eventFd' = [eventFd EXCEPT ![p] = TRUE]
        /\ waiters' = [waiters EXCEPT ![r] = Tail(@)]
        /\ contended' = [contended EXCEPT ![r] = MoreWaiters(r)]
        /\ nextToken' = nextToken + 1
        /\ UNCHANGED told

(* release: refused unless the caller owns the resource.  The lease stays. *)
Release(p, r) ==
  /\ MutexFree
  /\ owner[r] = p
  /\ HandOver(r, FALSE)
  /\ UNCHANGED <<registered, asking, lease, expired, sweep, processes, poller>>

(* recoverAbandonedResource, called for an owner its caller knows to be gone. *)
RecoverAbandoned(p, r) ==
  /\ MutexFree
  /\ owner[r] = p
  /\ HandOver(r, TRUE)
  /\ lease' = [lease EXCEPT ![r] = NoLease]
  /\ UNCHANGED <<registered, asking, expired, sweep, processes, poller>>

-----------------------------------------------------------------------------
(* Leases *)

(* registerLease: for the owner only; replaces whatever lease was there. *)
RegisterLease(p, r, t) ==
  /\ MutexFree
  /\ p \in registered
  /\ owner[r] = p
  /\ lease' = [lease EXCEPT ![r] = [owner |-> p, expires |-> t]]
  /\ UNCHANGED <<registered, asking, owner, contended, waiters, expired, sweep,
                 mailboxes, processes, poller>>

Leased(p, r) == lease[r] # NoLease /\ lease[r].owner = p

(* renewLease: the leaseholder, while it owns the resource. *)
RenewLease(p, r, t) ==
  /\ MutexFree
  /\ Leased(p, r) /\ owner[r] = p
  /\ lease' = [lease EXCEPT ![r].expires = t]
  /\ UNCHANGED <<registered, asking, owner, contended, waiters, expired, sweep,
                 mailboxes, processes, poller>>

(* heartbeatParticipant: renews every lease renewLease would accept. *)
Heartbeat(p, t) ==
  /\ MutexFree
  /\ lease' = [r \in Resources |-> IF Leased(p, r) /\ owner[r] = p
                                   THEN [lease[r] EXCEPT !.expires = t]
                                   ELSE lease[r]]
  /\ UNCHANGED <<registered, asking, owner, contended, waiters, expired, sweep,
                 mailboxes, processes, poller>>

(***************************************************************************)
(* recoverExpiredLeases, its first critical section: the leases that ended *)
(* by tick now leave the table for a local vector.  At most one such call  *)
(* is in progress.                                                         *)
(***************************************************************************)
CollectExpired(now) ==
  LET ended == {r \in Resources : lease[r] # NoLease /\ lease[r].expires <= now}
  IN  /\ MutexFree
      /\ expired = {}
      /\ ended # {}
      /\ expired' = {[resource |-> r, owner |-> lease[r].owner, now |-> now] : r \in ended}
      /\ lease' = [r \in Resources |-> IF r \in ended THEN NoLease ELSE lease[r]]
      /\ UNCHANGED <<registered, asking, owner, contended, waiters, sweep, mailboxes,
                     processes, poller>>

(***************************************************************************)
(* recoverExpiredLeases, its second critical section, once per collected   *)
(* lease: recoverAbandonedResource, which does nothing, not even to the    *)
(* lease table, if the resource has another owner by now.                  *)
(***************************************************************************)
StillOwned(e) == owner[e.resource] = e.owner

RecoverExpired(e) ==
  /\ MutexFree
  /\ e \in expired
  /\ expired' = expired \ {e}
  /\ \/ /\ StillOwned(e)
        /\ HandOver(e.resource, TRUE)
        /\ lease' = [lease EXCEPT ![e.resource] = NoLease]
     \/ /\ ~StillOwned(e)
        /\ UNCHANGED <<ownership, mailboxes>>
  /\ UNCHANGED <<registered, asking, sweep, processes, poller>>

(* recoverParticipantLeases, up to the list of the leases to visit. *)
LeasesOf(p) == {r \in Resources : Leased(p, r)}

RecoverParticipant(p) ==
  /\ MutexFree
  /\ LeasesOf(p) # {}
  /\ sweep' = LeasesOf(p)
  /\ UNCHANGED <<registered, asking, ownership, expired, mailboxes, processes,
                 poller>>

(* One turn of the loop of recoverParticipantLeasesLocked, the mutex held. *)
SweepLease(r) ==
  /\ r \in sweep
  /\ sweep' = sweep \ {r}
  /\ \/ /\ Leased(owner[r], r)
        /\ HandOver(r, TRUE)
        /\ lease' = [lease EXCEPT ![r] = NoLease]
     \/ /\ ~Leased(owner[r], r)
        /\ UNCHANGED <<ownership, mailboxes>>
  /\ UNCHANGED <<registered, asking, expired, processes, poller>>

-----------------------------------------------------------------------------
(* Mailboxes and polling *)

(* sendMailboxDescriptor, with sendCancellation and sendBackpressure. *)
SendDescriptor(p) ==
  /\ MutexFree
  /\ p \in registered
  /\ Len(ring[p]) < RingCapacity
  /\ ring' = [ring EXCEPT ![p] = Push(@, Message)]
  /\ eventFd' = [eventFd EXCEPT ![p] = TRUE]
  /\ UNCHANGED <<registered, asking, ownership, expired, sweep, events, nextToken,
                 told, processes, poller>>

(* sendMailboxMessage: a descriptor if the ring has room, and a BrokerEvent. *)
SendMessage(p) ==
  /\ MutexFree
  /\ p \in registered
  /\ Len(events[p]) < MaxEvents
  /\ ring' = [ring EXCEPT ![p] = Push(@, Message)]
  /\ events' = [events EXCEPT ![p] = Append(@, 0)]
  /\ eventFd' = [eventFd EXCEPT ![p] = TRUE]
  /\ UNCHANGED <<registered, asking, ownership, expired, sweep, nextToken, told,
                 processes, poller>>

(* drainMailboxDescriptors *)
DrainDescriptors(p) ==
  /\ MutexFree
  /\ p \in registered
  /\ ring' = [ring EXCEPT ![p] = <<>>]
  /\ told' = told \ {p}
  /\ UNCHANGED <<registered, asking, ownership, expired, sweep, events, eventFd,
                 nextToken, processes, poller>>

(* drainMailbox *)
DrainMailbox(p) ==
  /\ MutexFree
  /\ events[p] # <<>>
  /\ events' = [events EXCEPT ![p] = <<>>]
  /\ UNCHANGED <<registered, asking, ownership, expired, sweep, ring, eventFd,
                 nextToken, told, processes, poller>>

(* What the epoll set reports: pidfds leave it once their death is reported. *)
Readable == {<<p, "eventfd">> : p \in {q \in Participants : eventFd[q]}} \cup
            {<<p, "pidfd">> : p \in {q \in Participants : pid[q] = "exited" /\ ~reported[q]}}

(* pollReadyParticipants, its epoll_wait: no mutex. *)
EpollWait(w) ==
  /\ poller[w].pc = "idle"
  /\ Readable # {}
  /\ poller' = [poller EXCEPT ![w] = [pc |-> "returned", batch |-> Readable]]
  /\ UNCHANGED <<registered, asking, ownership, expired, sweep, mailboxes, processes>>

(* pollReadyParticipants takes the mutex. *)
PollLock(w) ==
  /\ MutexFree
  /\ poller[w].pc = "returned"
  /\ poller' = [poller EXCEPT ![w].pc = "locked"]
  /\ UNCHANGED <<registered, asking, ownership, expired, sweep, mailboxes, processes>>

(* One event of the batch: an eventfd is reset ... *)
PollEventFd(w, p) ==
  /\ poller[w].pc = "locked" /\ sweep = {}
  /\ <<p, "eventfd">> \in poller[w].batch
  /\ poller' = [poller EXCEPT ![w].batch = @ \ {<<p, "eventfd">>}]
  /\ eventFd' = [eventFd EXCEPT ![p] = FALSE]
  /\ told' = told \cup {p}
  /\ UNCHANGED <<registered, asking, ownership, expired, sweep, ring, events,
                 nextToken, processes>>

(***************************************************************************)
(* ... and a pidfd reports a death, once: the participant is sent the      *)
(* report and the sweep over its leases starts.  The batch was taken       *)
(* without the mutex: the pidfd may belong to an earlier process.          *)
(***************************************************************************)
PollPidFd(w, p) ==
  /\ poller[w].pc = "locked" /\ sweep = {}
  /\ <<p, "pidfd">> \in poller[w].batch
  /\ poller' = [poller EXCEPT ![w].batch = @ \ {<<p, "pidfd">>}]
  /\ told' = told \cup {p}
  /\ \/ /\ reported[p]
        /\ UNCHANGED <<reported, ring, eventFd, sweep>>
     \/ /\ ~reported[p]
        /\ reported' = [reported EXCEPT ![p] = TRUE]
        /\ ring' = [ring EXCEPT ![p] = Push(@, Exited)]
        /\ eventFd' = [eventFd EXCEPT ![p] = @ \/ Len(ring[p]) < RingCapacity]
        /\ sweep' = LeasesOf(p)
  /\ UNCHANGED <<registered, asking, ownership, expired, events, nextToken, pid>>

PollUnlock(w) ==
  /\ poller[w].pc = "locked" /\ sweep = {}
  /\ poller[w].batch = {}
  /\ poller' = [poller EXCEPT ![w] = Idle]
  /\ UNCHANGED <<registered, asking, ownership, expired, sweep, mailboxes, processes>>

-----------------------------------------------------------------------------
Next ==
  \/ \E p \in Participants :
       \/ Register(p) \/ AttachPid(p) \/ ProcessExit(p)
       \/ SendDescriptor(p) \/ SendMessage(p)
       \/ DrainDescriptors(p) \/ DrainMailbox(p)
       \/ RecoverParticipant(p)
       \/ \E t \in Ticks : Heartbeat(p, t)
       \/ \E r \in Resources :
            \/ TryAcquire(p, r)
            \/ AskToQueue(p, r) \/ AcquireAsked(p, r) \/ Queue(p, r)
            \/ Release(p, r) \/ RecoverAbandoned(p, r)
            \/ \E t \in Ticks : RegisterLease(p, r, t) \/ RenewLease(p, r, t)
  \/ \E t \in NowTicks : CollectExpired(t)
  \/ \E e \in expired : RecoverExpired(e)
  \/ \E r \in Resources : SweepLease(r)
  \/ \E w \in Pollers :
       \/ EpollWait(w) \/ PollLock(w) \/ PollUnlock(w)
       \/ \E p \in Participants : PollEventFd(w, p) \/ PollPidFd(w, p)

Spec == Init /\ [][Next]_vars

(***************************************************************************)
(* Fairness.  A thread blocked on mutex_ gets it in the end although other *)
(* threads keep taking it (SF); a thread that holds it goes on (WF); every *)
(* owner releases in the end; and whoever a poll reports ready drains its  *)
(* descriptors, as root1.await! does.                                      *)
(***************************************************************************)
PollStep(w) == PollUnlock(w) \/ \E p \in Participants : PollEventFd(w, p) \/ PollPidFd(w, p)

LockHolderGoesOn ==
  /\ WF_vars(\E p \in Participants, r \in Resources :
                AcquireAsked(p, r) \/ Queue(p, r))
  /\ WF_vars(\E r \in Resources : SweepLease(r))
  /\ \A w \in Pollers : WF_vars(PollStep(w))

OwnersRelease == \A p \in Participants, r \in Resources : SF_vars(Release(p, r))

PollersPoll ==
  /\ \A w \in Pollers : WF_vars(EpollWait(w)) /\ SF_vars(PollLock(w))
  /\ \A p \in Participants : SF_vars(p \in told /\ DrainDescriptors(p))

FairSpec == Spec /\ LockHolderGoesOn /\ OwnersRelease /\ PollersPoll

-----------------------------------------------------------------------------
(* Safety *)

(***************************************************************************)
(* The queue kept under the mutex and the word that tryAcquire reads       *)
(* without it agree: a resource with waiters is owned and marked           *)
(* contended, so nobody can take it past them and its owner's release is   *)
(* the one that wakes them; only they mark it contended; a waiter is a     *)
(* participant, waits once and is not the owner, unless other threads use  *)
(* its id: then a tryAcquire may have come between acquireOrQueue's look   *)
(* at the owner and its push.  (acquireOrQueue against tryAcquire, release *)
(* and recoverAbandonedResourceLocked.)                                    *)
(***************************************************************************)
AgreesAt(r) ==
  /\ contended[r] <=> waiters[r] # <<>>
  /\ owner[r] = NoOwner => waiters[r] = <<>>
  /\ Waits(owner[r], r) => owner[r] \in SharedIds
  /\ \A i \in 1..Len(waiters[r]) : waiters[r][i] \in registered
  /\ \A i, j \in 1..Len(waiters[r]) : waiters[r][i] = waiters[r][j] => i = j

QueueAgreesWithWord == \A r \in Resources : AgreesAt(r)

(***************************************************************************)
(* A participant with a descriptor in its ring has a readable eventfd, or  *)
(* a poll has reported it ready and it has not drained since: no order of  *)
(* push, epoll_wait, eventfd reset and drain leaves a descriptor nobody is *)
(* told of.  (pushDescriptorLocked against pollReadyParticipants.)         *)
(***************************************************************************)
NoLostWakeup ==
  \A p \in Participants : ring[p] # <<>> => eventFd[p] \/ p \in told

(***************************************************************************)
(* A grant token is handed to one participant, once, and the tokens of one *)
(* mailbox come in the order of the grants, in the BrokerEvents and in the *)
(* descriptors alike.  (nextGrantToken_ in release and                     *)
(* recoverAbandonedResourceLocked.)                                        *)
(***************************************************************************)
GrantsInOrder ==
  /\ \A p \in Participants :
       /\ \A i, j \in 1..Len(events[p]) :
            i < j /\ events[p][j] # 0 => events[p][i] < events[p][j]
       /\ \A i, j \in 1..Len(ring[p]) :
            i < j /\ ring[p][i] \in Grants /\ ring[p][j] \in Grants
              => ring[p][i].token < ring[p][j].token
  /\ \A p, q \in Participants : p # q =>
       \A i \in 1..Len(events[p]), j \in 1..Len(events[q]) :
         events[p][i] = events[q][j] => events[p][i] = 0
  /\ \A p \in Participants : \A i \in 1..Len(events[p]) : events[p][i] < nextToken

(***************************************************************************)
(* A participant loses a resource only by its own release, by an explicit  *)
(* recoverAbandonedResource that names it, or because a lease it took      *)
(* itself expired or was swept: never because of a lease somebody else     *)
(* left behind on that resource, however late the recovery comes.          *)
(***************************************************************************)
OnlyOwnLeaseIsRecovered ==
  [][\A r \in Resources : owner[r] # NoOwner /\ owner'[r] # owner[r] =>
       \/ Release(owner[r], r)
       \/ RecoverAbandoned(owner[r], r)
       \/ r \in sweep /\ lease[r] # NoLease /\ lease[r].owner = owner[r]
       \/ \E e \in expired \ expired' : e.resource = r /\ e.owner = owner[r]]_vars

(***************************************************************************)
(* The broker arbitrates as Root1Arbitration says: the holder is the owner *)
(* bits of the word, the line is the queue of waiters.                     *)
(***************************************************************************)
Arbitration == INSTANCE Root1Arbitration WITH holder <- owner, line <- waiters

ArbitrationSpec == Arbitration!Spec

-----------------------------------------------------------------------------
(* Liveness *)

(***************************************************************************)
(* Whoever is queued owns the resource in the end, although others keep    *)
(* trying the lock-free path: release grants in queueing order.            *)
(***************************************************************************)
WaiterEventuallyOwns ==
  \A p \in Participants, r \in Resources : Waits(p, r) ~> owner[r] = p

(* Every descriptor is read: the ring of a participant empties again and again. *)
RingEventuallyDrained ==
  \A p \in Participants : ring[p] # <<>> ~> ring[p] = <<>>

=============================================================================
