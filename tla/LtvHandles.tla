----------------------------- MODULE LtvHandles -----------------------------
(***************************************************************************)
(* The handles C code has on Edict values (ltv_api.h, ltv_api.cpp): a      *)
(* function called through FFI is lent its arguments, makes values, refers *)
(* to them, hangs one under another and gives one back.  A value lives as  *)
(* long as its references; the VM, the trees and the C code hold them.     *)
(***************************************************************************)
EXTENDS Integers, FiniteSets

CONSTANTS Cells,     \* slots of the allocator of values
          Null,      \* LTV_NULL
          MaxRefs    \* bound on the references C takes to one value

HandlesAssumption == /\ IsFiniteSet(Cells)
                     /\ Null \notin Cells /\ "idle" \notin Cells

VARIABLES refs,      \* references to each value; 0: the slot is free
          stack,     \* references the VM has to each
          owned,     \* references the C code has to each
          under,     \* the value newest under the name, Null when there is none
          lent       \* the argument of the call in progress, "idle" outside one

handleVars == <<refs, stack, owned, under, lent>>

Alive(v) == refs[v] > 0
InC == lent # "idle"

(* A reference less: the value goes with its last one, and gives up the     *)
(* reference to the value under it in turn.  Trees are two levels deep.    *)
Less(r, v) ==
  LET one == [r EXCEPT ![v] = @ - 1] IN
  IF one[v] = 0 /\ under[v] # Null THEN [one EXCEPT ![under[v]] = @ - 1] ELSE one
Hanging(r) == [v \in Cells |-> IF r[v] = 0 THEN Null ELSE under[v]]

Drop(v) == refs' = Less(refs, v) /\ under' = Hanging(refs')

(* The VM makes values and lets go of them. *)
Push(v) == /\ ~Alive(v)
           /\ refs' = [refs EXCEPT ![v] = 1] /\ stack' = [stack EXCEPT ![v] = 1]
           /\ UNCHANGED <<owned, under, lent>>

Pop(v) == /\ ~InC /\ stack[v] > 0
          /\ stack' = [stack EXCEPT ![v] = @ - 1]
          /\ Drop(v) /\ UNCHANGED <<owned, lent>>

(* invoke: the list of arguments keeps the value while C has its number. *)
Call(v) == /\ ~InC /\ stack[v] > 0
           /\ stack' = [stack EXCEPT ![v] = @ - 1] /\ lent' = v
           /\ UNCHANGED <<refs, owned, under>>

(* What the C code may name: its argument, what it owns, and what it found. *)
Found == IF under[lent] = Null THEN {} ELSE {under[lent]}    \* ltv_get_named
Named == {lent} \cup Found \cup {v \in Cells : owned[v] > 0}

LtvCreate(v) == /\ InC /\ ~Alive(v)
                /\ refs' = [refs EXCEPT ![v] = 1] /\ owned' = [owned EXCEPT ![v] = 1]
                /\ UNCHANGED <<stack, under, lent>>

LtvRef(v) == /\ InC /\ v \in Named /\ owned[v] < MaxRefs
             /\ refs' = [refs EXCEPT ![v] = @ + 1] /\ owned' = [owned EXCEPT ![v] = @ + 1]
             /\ UNCHANGED <<stack, under, lent>>

LtvUnref(v) == /\ InC /\ owned[v] > 0
               /\ owned' = [owned EXCEPT ![v] = @ - 1]
               /\ Drop(v) /\ UNCHANGED <<stack, lent>>

(* The mistake of a setter that hands the reference of its caller over. *)
HungAdopted(c) == refs

Hung(c) == [refs EXCEPT ![c] = @ + 1]

(* A name keeps every value it was given; one is enough here. *)
LtvSetNamed(p, c) ==
  /\ InC /\ p \in Named /\ c \in Named /\ p # c
  /\ under[p] = Null /\ under[c] = Null /\ \A q \in Cells : under[q] # p
  /\ under' = [under EXCEPT ![p] = c] /\ refs' = Hung(c)
  /\ UNCHANGED <<stack, owned, lent>>

(* convertReturn adopts what C gives back, and the arguments are dropped;   *)
(* a C function gives back what it owns, and nothing else is left to it.   *)
Return(v) ==
  /\ InC
  /\ owned = [w \in Cells |-> IF w = v THEN 1 ELSE 0]
  /\ owned' = [w \in Cells |-> 0]
  /\ stack' = [w \in Cells |-> IF w = v THEN stack[w] + 1 ELSE stack[w]]
  /\ Drop(lent) /\ lent' = "idle"

Init == /\ refs = [v \in Cells |-> 0] /\ stack = refs /\ owned = refs
        /\ under = [v \in Cells |-> Null] /\ lent = "idle"

Next == \/ \E v \in Cells : Push(v) \/ Pop(v) \/ Call(v)
                            \/ LtvCreate(v) \/ LtvRef(v) \/ LtvUnref(v)
        \/ \E p, c \in Cells : LtvSetNamed(p, c)
        \/ \E v \in Cells \cup {Null} : Return(v)

Spec == Init /\ [][Next]_handleVars

---------------------------------------------------------------------------
(* A value has exactly the references that the VM, the call in progress,    *)
(* the C code and the trees hold: nothing is freed under anybody's hands,  *)
(* and nothing is kept for nobody, if C gives up or gives back all it      *)
(* owns.  (ltv_borrow, ltv_adopt, ltv_ref, ltv_unref, ltv_set_named,       *)
(* convertReturn.)                                                         *)
ReferencesBalance ==
  \A v \in Cells :
    refs[v] = stack[v] + owned[v] + (IF lent = v THEN 1 ELSE 0)
                + Cardinality({p \in Cells : under[p] = v})
=============================================================================
