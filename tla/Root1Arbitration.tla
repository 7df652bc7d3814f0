----------------------------- MODULE Root1Arbitration -----------------------------
(***************************************************************************)
(* What the Root1 broker promises about a resource, whatever leases,       *)
(* mailboxes and process deaths do underneath: one holder at a time; a     *)
(* resource somebody queues for is never free and never taken by a         *)
(* participant that did not queue; it is passed on in queueing order.      *)
(***************************************************************************)
EXTENDS Naturals, Sequences

CONSTANTS
  Participants, Resources, NoOwner,
  SharedIds       \* the participants whose id several threads use at once

VARIABLES
  holder,   \* who holds each resource
  line      \* who queues for it, first come first

vars == <<holder, line>>

Init ==
  /\ holder = [r \in Resources |-> NoOwner]
  /\ line = [r \in Resources |-> <<>>]

Queued(p, r) == \E i \in 1..Len(line[r]) : line[r][i] = p

(* A free resource is taken on the spot. *)
Take(p, r) ==
  /\ holder[r] = NoOwner
  /\ line[r] = <<>>
  /\ holder' = [holder EXCEPT ![r] = p]
  /\ UNCHANGED line

(* Whoever finds it held joins the end of the line, once; so may the holder *)
(* itself if its id is a shared one.                                        *)
Join(p, r) ==
  /\ holder[r] # NoOwner
  /\ holder[r] # p \/ p \in SharedIds
  /\ ~Queued(p, r)
  /\ line' = [line EXCEPT ![r] = Append(@, p)]
  /\ UNCHANGED holder

(* The holder leaves, or is made to leave: the head of the line holds it next. *)
Leave(r) ==
  /\ holder[r] # NoOwner
  /\ \/ /\ line[r] = <<>>
        /\ holder' = [holder EXCEPT ![r] = NoOwner]
        /\ UNCHANGED line
     \/ /\ line[r] # <<>>
        /\ holder' = [holder EXCEPT ![r] = Head(line[r])]
        /\ line' = [line EXCEPT ![r] = Tail(@)]

Next == \E r \in Resources :
          Leave(r) \/ \E p \in Participants : Take(p, r) \/ Join(p, r)

Spec == Init /\ [][Next]_vars

=============================================================================
