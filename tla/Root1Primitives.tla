--------------------------- MODULE Root1Primitives ---------------------------
(***************************************************************************)
(* The Root1 words of an Edict program (edict/edict_root1_primitives.cpp): *)
(* one call of the broker behind each, on handles a program has been given *)
(* for resources, participants and mailboxes.  The words run one after the *)
(* other, so a call of the broker is one step here; Root1Broker has its    *)
(* interleavings.                                                          *)
(*                                                                         *)
(* The word of ownership belongs to the handle, while waiters and leases   *)
(* are kept by the broker under the key of the resource, which is made of  *)
(* the number of the handle.  (A request may give a key of its own: two    *)
(* handles with one key would share waiters and leases but not the word.)  *)
(* The value of a descriptor does not name the resource.  A program waits  *)
(* for one resource at a time, and for its grant before it asks again.     *)
(***************************************************************************)
EXTENDS Naturals, Sequences, SequencesExt, FiniteSets

CONSTANTS Members,    \* participant ids the program may use
          MaxHandles, \* bound on the resources created
          LastTick,   \* bound on the ticks leases may expire at
          Room        \* the capacity of a mailbox

VARIABLES known,   \* the participants registered
          created, \* handles in the table of resources
          holder,  \* the word of each handle, 0 for nobody; contended or not
          queue,   \* waiters of a key
          leases,  \* the lease of a key
          mail,    \* undrained descriptors of a participant
          ready,   \* participants whose eventfd is readable
          claims,  \* what the program has been told of each handle
          lost     \* history: participants whose full mailbox lost a descriptor

wordVars == <<known, created, holder, queue, leases, mail, ready, claims, lost>>

Handles      == 1..MaxHandles
ResourceKeys == Handles
PrimitivesAssumption == 0 \notin Members /\ Room \in Nat
Nobody       == 0
Free         == [owner |-> Nobody, contended |-> FALSE]
NoLease      == [owner |-> Nobody, handle |-> 0, expires |-> 0]
Created   == 1..created

\* The key of a request that gives none.
\* The mistake of a default that leaves the number of the handle out.
SameKey(id) == 1
DefaultKey(id) == id

(* createResource *)
CreateResource ==
  /\ created < MaxHandles /\ created' = created + 1
  /\ UNCHANGED <<known, holder, queue, leases, mail, ready, claims, lost>>

RegisterParticipant ==
  /\ \E p \in Members \ known : known' = known \cup {p}
  /\ UNCHANGED <<created, holder, queue, leases, mail, ready, claims, lost>>

---------------------------------------------------------------------------
(* Mailboxes.  A descriptor that does not fit is dropped: the sender of a  *)
(* message is told, the giver of a grant is not.                           *)

Fits(p) == Len(mail[p]) < Room

\* sendDescriptor; sendCancellation and sendBackpressure do the same.
Send(p) ==
  /\ p \in known /\ Fits(p)
  /\ mail' = [mail EXCEPT ![p] = Append(@, "message")] /\ ready' = ready \cup {p}
  /\ UNCHANGED <<known, created, holder, queue, leases, claims, lost>>
SendNotice(p) == Send(p)

\* What the drained descriptors tell: a grant is for the handle waited for.
Heard(c) == CASE c = "queued" -> "owned" [] c = "revoked" -> "lapsed" [] OTHER -> c
Told(p) ==
  IF "granted" \in Range(mail[p])
  THEN [claims EXCEPT ![p] = [h \in Handles |-> Heard(@[h])]] ELSE claims

\* drainMailbox and await poll first, which takes the readiness of everyone,
\* and then drain the mailbox of the one participant.
Drain(p) ==
  /\ ready' = {}
  /\ mail' = [mail EXCEPT ![p] = <<>>] /\ claims' = Told(p)
  /\ UNCHANGED <<known, created, holder, queue, leases, lost>>
Await(p) == Drain(p)

\* poll
Poll == /\ ready # {} /\ ready' = {}
        /\ UNCHANGED <<known, created, holder, queue, leases, mail, claims, lost>>

---------------------------------------------------------------------------
(* Ownership.  Waits is the program's side of the protocol.                *)

Waits(p) == \E h \in Handles : claims[p][h] \in {"queued", "revoked"}
Tell(p, h, what) == claims' = [claims EXCEPT ![p][h] = what]

(* acquireResource: a free word is taken without a look at the participant. *)
Acquire(p, h) ==
  /\ h \in Created /\ ~Waits(p)
  /\ \/ /\ holder[h] = Free
        /\ holder' = [holder EXCEPT ![h].owner = p]
        /\ Tell(p, h, "owned") /\ UNCHANGED queue
     \/ /\ p \in known /\ holder[h].owner = p
        /\ Tell(p, h, "owned") /\ UNCHANGED <<holder, queue>>
     \/ /\ p \in known /\ holder[h].owner \notin {Nobody, p}
        /\ queue' = [queue EXCEPT ![DefaultKey(h)] =
                       IF p \in Range(@) THEN @ ELSE Append(@, p)]
        /\ holder' = [holder EXCEPT ![h].contended = TRUE]
        /\ Tell(p, h, "queued")
  /\ UNCHANGED <<known, created, leases, mail, ready, lost>>

\* The broker gives the word to the first that waits under the key; after a
\* death two descriptors tell it.
HandOver(h, notices) ==
  LET waiting == queue[DefaultKey(h)]
      next    == Head(waiting)
      sent    == mail[next] \o notices \o <<"granted">>
  IN  IF waiting = <<>>
      THEN /\ holder' = [holder EXCEPT ![h] = Free]
           /\ UNCHANGED <<queue, mail, ready, lost>>
      ELSE /\ holder' = [holder EXCEPT ![h] = [owner |-> next, contended |-> Len(waiting) > 1]]
           /\ queue' = [queue EXCEPT ![DefaultKey(h)] = Tail(waiting)]
           /\ mail' = [mail EXCEPT ![next] = SubSeq(sent, 1, IF Len(sent) > Room THEN Room ELSE Len(sent))]
           /\ lost' = IF Len(sent) > Room THEN lost \cup {next} ELSE lost
           /\ ready' = ready \cup {next}

(* releaseResource; the lease stays. *)
Release(p, h) ==
  /\ h \in Created /\ holder[h].owner = p /\ ~Waits(p)
  /\ HandOver(h, <<>>) /\ Tell(p, h, "none")
  /\ UNCHANGED <<known, created, leases>>

(* registerLease *)
Lease(p, h, t) ==
  /\ h \in Created /\ p \in known /\ holder[h].owner = p /\ ~Waits(p)
  /\ leases' = [leases EXCEPT ![DefaultKey(h)] = [owner |-> p, handle |-> h, expires |-> t]]
  /\ UNCHANGED <<known, created, holder, queue, mail, ready, claims, lost>>

(* heartbeat *)
Heartbeat(p, t) ==
  /\ leases' = [k \in ResourceKeys |->
       IF leases[k].owner = p /\ holder[leases[k].handle].owner = p
       THEN [leases[k] EXCEPT !.expires = t] ELSE leases[k]]
  /\ leases' # leases
  /\ UNCHANGED <<known, created, holder, queue, mail, ready, claims, lost>>

(* recoverExpired, a lease a step: the resource goes to who waits for it,   *)
(* and the one that held it is not told.  A lease that was left behind can  *)
(* take a resource from an owner who has not yet read of the grant.         *)
RecoverExpired(k, now) ==
  /\ leases[k] # NoLease /\ leases[k].expires <= now
  /\ leases' = [leases EXCEPT ![k] = NoLease]
  /\ LET h == leases[k].handle
         p == leases[k].owner
     IN  IF holder[h].owner = p
         THEN /\ HandOver(h, <<"owner_died">>)
              /\ Tell(p, h, IF claims[p][h] = "queued" THEN "revoked" ELSE "lapsed")
         ELSE UNCHANGED <<holder, queue, mail, ready, claims, lost>>
  /\ UNCHANGED <<known, created>>

Init ==
  /\ known = {} /\ created = 0 /\ ready = {} /\ lost = {}
  /\ holder = [h \in Handles |-> Free]
  /\ queue = [k \in ResourceKeys |-> <<>>] /\ leases = [k \in ResourceKeys |-> NoLease]
  /\ mail = [p \in Members |-> <<>>]
  /\ claims = [p \in Members |-> [h \in Handles |-> "none"]]

Next ==
  \/ CreateResource \/ RegisterParticipant \/ Poll
  \/ \E p \in Members : Send(p) \/ SendNotice(p) \/ Drain(p) \/ Await(p)
  \/ \E p \in Members, h \in Handles : Acquire(p, h) \/ Release(p, h)
  \/ \E p \in Members, h \in Handles, t \in 1..LastTick : Lease(p, h, t)
  \/ \E p \in Members, t \in 1..LastTick : Heartbeat(p, t)
  \/ \E k \in ResourceKeys, t \in 1..LastTick : RecoverExpired(k, t)

Spec == Init /\ [][Next]_wordVars

---------------------------------------------------------------------------
(***************************************************************************)
(* What a program has been told of a resource is so: who was told that it  *)
(* owns one does, unless a lease of its own has run out since; who was     *)
(* told to wait is in the queue of that resource, or owns it and has the   *)
(* grant in its mailbox; nobody owns a resource and is never told.  Only   *)
(* a grant that found the mailbox full is lost.                            *)
(***************************************************************************)
ClaimsAreTrue ==
  \A p \in Members, h \in Handles :
    LET granted == holder[h].owner = p /\ (p \in lost \/ "granted" \in Range(mail[p]))
    IN  /\ claims[p][h] = "owned" => holder[h].owner = p
        /\ claims[p][h] = "queued" => granted \/ p \in Range(queue[DefaultKey(h)])
        /\ holder[h].owner = p => claims[p][h] = "owned" \/ (claims[p][h] = "queued" /\ granted)
=============================================================================
