------------------------------ MODULE Root1Mailbox ------------------------------
(***************************************************************************)
(* What a Root1 participant is sent: the mailbox descriptors of            *)
(* core/root1_resource_broker.h and the bounded ring that carries them.    *)
(* Only the fields that the properties tell apart are kept; payload bytes, *)
(* payload handles and flags are left out.                                 *)
(***************************************************************************)
EXTENDS Naturals, Sequences

CONSTANTS
  Resources,      \* the ResourceKeys; each key names one ResourceState word
  RingCapacity    \* kMailboxRingCapacity

ASSUME RingCapacityAssumption == RingCapacity \in Nat \ {0}

(* Variants with one mistake each, used by no other definition. *)
PushUnchecked(rg, d)      == Append(rg, d)
GrantWithoutToken(r, tok) == [kind |-> "OwnershipGranted", resource |-> r, token |-> 0]

(***************************************************************************)
(* MailboxDescriptor: a message of a sender, the notice that the previous  *)
(* owner of a resource died, the report that the participant's own         *)
(* process exited, or the grant of a resource with its token.              *)
(***************************************************************************)
Message       == [kind |-> "Message"]
Exited        == [kind |-> "Exited"]
OwnerDied(r)  == [kind |-> "OwnerDied", resource |-> r]
Grant(r, tok) == [kind |-> "OwnershipGranted", resource |-> r, token |-> tok]

Grants      == [kind : {"OwnershipGranted"}, resource : Resources, token : Nat]
Descriptors == {Message, Exited} \cup [kind : {"OwnerDied"}, resource : Resources]
                                 \cup Grants

(* MailboxRing::tryPush: a full ring refuses the descriptor. *)
Push(rg, d) == IF Len(rg) < RingCapacity THEN Append(rg, d) ELSE rg

=============================================================================
