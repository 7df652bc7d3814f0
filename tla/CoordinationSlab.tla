-------------------------- MODULE CoordinationSlab --------------------------
(***************************************************************************)
(* CoordinationSlab (core/root1_resource_broker.{h,cpp}): a mapped file    *)
(* with a slot for each participant, that holds its mailbox ring, and a    *)
(* slot for each resource.  The file outlives the process; the broker's    *)
(* table of participants, their eventfds and the number the next one gets  *)
(* do not, and are reconstructed from the slots.                           *)
(*                                                                         *)
(* As in root1_resource_broker_tests.cpp one process at a time maps the    *)
(* file, and one that maps an existing file reconstructs its participants  *)
(* before it registers one.                                                *)
(***************************************************************************)
EXTENDS Naturals, Sequences

CONSTANTS NumParticipants, \* kCoordinationParticipantSlots
          NumResources,    \* kCoordinationResourceSlots
          ResourceKeys,    \* resource keys
          Messages, RingSize, MaxId    \* MaxId bounds nextParticipant_

SlabAssumption == {NumParticipants, NumResources, RingSize, MaxId} \subseteq Nat \ {0}

VARIABLES slab,    \* the file: header and slots
          table,   \* participants_ of the process: id -> slot
          nextId,  \* nextParticipant_
          fired,   \* the participants whose eventfd is readable
          mapping  \* "none", "fresh" (just mapped) or "in use"

slabVars == <<slab, table, nextId, fired, mapping>>

NoSlab == [size |-> "small"]
FreeSlot == [id |-> 0, generation |-> 0, ring |-> <<>>]
NoKey == [key |-> 0, owned |-> FALSE]
EmptySlab == [size |-> "whole",
              participants |-> [i \in 1..NumParticipants |-> FreeSlot],
              resources |-> [i \in 1..NumResources |-> NoKey]]

Slots == 1..NumParticipants
SlotsOf(id) == {i \in Slots : slab.participants[i].id = id}
LowestOf(S) == CHOOSE i \in S : \A j \in S : i <= j

\* createFileBacked: a new layout, or one that is there and large enough.
Map(reset) ==
  /\ mapping = "none"
  /\ reset \/ slab # NoSlab
  /\ slab' = IF reset THEN EmptySlab ELSE slab
  /\ mapping' = IF reset THEN "in use" ELSE "fresh"
  /\ table' = <<>> /\ nextId' = 1 /\ fired' = {}

\* The process ends, or closes the slab: the pages stay in the file.
Unmap ==
  /\ mapping # "none"
  /\ mapping' = "none" /\ table' = <<>> /\ nextId' = 1 /\ fired' = {}
  /\ UNCHANGED slab

AllocateParticipantSlot(id) ==
  IF SlotsOf(id) # {} THEN <<LowestOf(SlotsOf(id)), slab.participants>>
  ELSE IF SlotsOf(0) = {} THEN <<0, slab.participants>>
  ELSE LET i == LowestOf(SlotsOf(0)) IN
       <<i, [slab.participants EXCEPT ![i] =
               [id |-> id, generation |-> @.generation + 1, ring |-> <<>>]]>>

\* registerParticipantOnSlab: the id is spent even when no slot is free.
RegisterOnSlab ==
  LET got == AllocateParticipantSlot(nextId) IN
  /\ mapping = "in use" /\ nextId <= MaxId
  /\ nextId' = nextId + 1
  /\ IF got[1] = 0 \/ nextId \in DOMAIN table THEN UNCHANGED <<slab, table>>
     ELSE /\ slab' = [slab EXCEPT !.participants = got[2]]
          /\ table' = [id \in DOMAIN table \cup {nextId} |->
                         IF id = nextId THEN got[1] ELSE table[id]]
  /\ UNCHANGED <<fired, mapping>>

\* reconstructParticipantsFromSlab with notifyPending: the slots in order.
\* The mistakes of leaving the number, and the pending mail, as they are.
Known == {slab.participants[i].id : i \in Slots} \ {0}
NumberAfterKept == nextId
NumberAfter == LET high == CHOOSE m \in Known \cup {0} : \A k \in Known : m >= k
               IN IF high >= nextId THEN high + 1 ELSE nextId
Pending(ids) == {id \in ids : slab.participants[LowestOf(SlotsOf(id))].ring # <<>>}
Reconstruct ==
  /\ mapping # "none"
  /\ table' = [id \in DOMAIN table \cup Known |->
                 IF id \in DOMAIN table THEN table[id] ELSE LowestOf(SlotsOf(id))]
  /\ nextId' = NumberAfter
  /\ fired' = fired \cup Pending(Known \ DOMAIN table)
  /\ mapping' = "in use"
  /\ UNCHANGED slab

\* sendMailboxDescriptor: a message for a full ring is dropped, the eventfd
\* is written only when it was taken.
Send(id, m) ==
  /\ id \in DOMAIN table
  /\ LET ring == slab.participants[table[id]].ring IN
       /\ Len(ring) < RingSize
       /\ slab' = [slab EXCEPT !.participants[table[id]].ring = Append(ring, m)]
  /\ fired' = fired \cup {id}
  /\ UNCHANGED <<table, nextId, mapping>>

\* A poll reports the participant, which then drains its ring.
PollAndDrain(id) ==
  /\ id \in fired
  /\ fired' = fired \ {id}
  /\ slab' = [slab EXCEPT !.participants[table[id]].ring = <<>>]
  /\ UNCHANGED <<table, nextId, mapping>>

KeySlots(k) == {i \in 1..NumResources : slab.resources[i].key = k}
AllocateResourceSlot(k) ==
  /\ mapping = "in use"
  /\ KeySlots(k) = {} /\ KeySlots(0) # {}
  /\ slab' = [slab EXCEPT !.resources[LowestOf(KeySlots(0))] =
                [key |-> k, owned |-> FALSE]]
  /\ UNCHANGED <<table, nextId, fired, mapping>>
UseResource(k) ==
  /\ mapping = "in use"
  /\ \E i \in KeySlots(k) : slab' = [slab EXCEPT !.resources[i].owned = ~@]
  /\ UNCHANGED <<table, nextId, fired, mapping>>

Init == /\ slab = NoSlab /\ mapping = "none"
        /\ table = <<>> /\ nextId = 1 /\ fired = {}

Next == \/ \E reset \in BOOLEAN : Map(reset)
        \/ Unmap \/ RegisterOnSlab \/ Reconstruct
        \/ \E id \in DOMAIN table, m \in Messages : Send(id, m)
        \/ \E id \in fired : PollAndDrain(id)
        \/ \E k \in ResourceKeys : AllocateResourceSlot(k) \/ UseResource(k)

Spec == Init /\ [][Next]_slabVars

(***************************************************************************)
(* A participant that the broker knows is the one its slot was given to,   *)
(* across restarts of the process, no other has the slot or will be given  *)
(* its number, and mail that waits in its ring is announced.               *)
(***************************************************************************)
MailFindsItsReader ==
  \A id \in DOMAIN table :
    /\ slab.participants[table[id]].id = id
    /\ nextId > id
    /\ slab.participants[table[id]].ring # <<>> => id \in fired
    /\ \A other \in DOMAIN table \ {id} : table[other] # table[id]
=============================================================================
