----------------------------- MODULE LogicRuntime -----------------------------
(***************************************************************************)
(* The C interface of the logic engine (kanren/runtime_ffi.cpp): a context *)
(* with a table of values a C program holds by handle, and the evaluation  *)
(* of a query it holds.  A handle is a slot's number and the slot's        *)
(* generation at the time.                                                 *)
(*                                                                         *)
(* A value is a query, by name, the answers to one, or the text of an      *)
(* error.  The program calls with any handle it was ever given, also those *)
(* it has released, and makes a new context when it likes.                 *)
(***************************************************************************)
EXTENDS Kanren

CONSTANTS
  Queries,         \* queries by name
  Universe,        \* ground terms: a query's solutions are looked for among them
  MaxSlots,        \* bound: slots, below the 2^32 - 1 of the code
  MaxGeneration,   \* bound: generations of a slot, below the code's 2^32
  MaxRefs          \* bound: references to a value

VARIABLES
  slots,      \* sequence of [generation, refcount, occupied, value]
  freeSlots,  \* freed slots' numbers, the next one to use last
  lastError,  \* what went wrong in the last call, "" if nothing
  held        \* history: of every handle the program was given, the references
              \* it holds and the value the handle was for

runtimeVars == <<slots, freeSlots, lastError, held>>

Query(n)        == [is |-> "query", name |-> n, answers |-> <<>>]
AnswersTo(n, l) == [is |-> "answers", name |-> n, answers |-> l]
ErrorText(t)    == [is |-> "text", name |-> t, answers |-> <<>>]
NothingThere    == [is |-> "none", name |-> "", answers |-> <<>>]

---------------------------------------------------------------------------

Handle(i, generation) == <<i, generation>>
NullHandle == Handle(0, 0)

\* resolveSlot: the slot a handle is for, if it is the one it was given for.
Resolved(h) == {i \in DOMAIN slots : /\ i = h[1] /\ slots[i].occupied
                                     /\ slots[i].generation = h[2]}
ResolveError(h) == IF h = NullHandle THEN "invalid" ELSE "stale"

\* A slot of storeValue's: a free one, the last freed first, or a new one.
SlotFor == IF freeSlots # <<>> THEN Last(freeSlots) ELSE Len(slots) + 1
HasRoom == freeSlots # <<>> \/ Len(slots) < MaxSlots

Store(value) ==
  LET i == SlotFor
      generation == IF i \in DOMAIN slots THEN slots[i].generation ELSE 1
      slot == [generation |-> generation, refcount |-> 1, occupied |-> TRUE,
               value |-> value]
  IN /\ HasRoom
     /\ slots' = IF i \in DOMAIN slots THEN [slots EXCEPT ![i] = slot]
                 ELSE Append(slots, slot)
     /\ freeSlots' = IF freeSlots = <<>> THEN <<>> ELSE Front(freeSlots)
     /\ held' = held @@ (Handle(i, generation) :> [refs |-> 1, value |-> value])

---------------------------------------------------------------------------
(* The calls.  Every one of them but CopyLastError forgets the last error. *)

ValueFromLtv(n) ==
  /\ Store(Query(n)) /\ lastError' = ""

\* The value itself goes to the program with a reference of its own.
ValueToLtv(h) ==
  /\ lastError' = IF Resolved(h) = {} THEN ResolveError(h) ELSE ""
  /\ UNCHANGED <<slots, freeSlots, held>>

Retain(h) ==
  /\ \/ /\ Resolved(h) = {} /\ lastError' = ResolveError(h)
        /\ UNCHANGED <<slots, held>>
     \/ /\ Resolved(h) # {} /\ lastError' = ""
        /\ slots[h[1]].refcount < MaxRefs
        /\ slots' = [slots EXCEPT ![h[1]].refcount = @ + 1]
        /\ held' = [held EXCEPT ![h].refs = @ + 1]
  /\ UNCHANGED freeSlots

\* The mistake of a slot freed under the generation it had.
ReleaseKeepingGeneration(h) ==
  /\ lastError' = ""
  /\ \/ /\ Resolved(h) = {} /\ UNCHANGED <<slots, freeSlots, held>>
     \/ /\ Resolved(h) # {} /\ slots[h[1]].refcount > 1
        /\ slots' = [slots EXCEPT ![h[1]].refcount = @ - 1]
        /\ held' = [held EXCEPT ![h].refs = @ - 1]
        /\ UNCHANGED freeSlots
     \/ /\ Resolved(h) # {} /\ slots[h[1]].refcount <= 1
        /\ slots' = [slots EXCEPT ![h[1]] = [@ EXCEPT !.refcount = 0, !.occupied = FALSE,
                                                      !.value = NothingThere]]
        /\ freeSlots' = Append(freeSlots, h[1])
        /\ held' = [held EXCEPT ![h] = [refs |-> 0, value |-> NothingThere]]

Release(h) ==
  /\ lastError' = ""
  /\ \/ /\ Resolved(h) = {} /\ UNCHANGED <<slots, freeSlots, held>>
     \/ /\ Resolved(h) # {} /\ slots[h[1]].refcount > 1
        /\ slots' = [slots EXCEPT ![h[1]].refcount = @ - 1]
        /\ held' = [held EXCEPT ![h].refs = @ - 1]
        /\ UNCHANGED freeSlots
     \/ /\ Resolved(h) # {} /\ slots[h[1]].refcount <= 1
        /\ slots[h[1]].generation < MaxGeneration
        /\ slots' = [slots EXCEPT ![h[1]] =
                       [generation |-> @.generation + 1, refcount |-> 0,
                        occupied |-> FALSE, value |-> NothingThere]]
        /\ freeSlots' = Append(freeSlots, h[1])
        /\ held' = [held EXCEPT ![h] = [refs |-> 0, value |-> NothingThere]]

CopyLastError ==
  /\ Store(ErrorText(lastError)) /\ UNCHANGED lastError

\* agentc_runtime_destroy, and a context made anew.
Destroy ==
  /\ slots' = <<>> /\ freeSlots' = <<>> /\ lastError' = "" /\ held' = <<>>

Fails(error) == lastError' = error /\ UNCHANGED <<slots, freeSlots, held>>

\* A query evaluated: its answers are a value of their own.  An evaluation
\* that does not end takes the process down, the context with it.
LogicEval(h) ==
  \/ Resolved(h) = {} /\ Fails(ResolveError(h))
  \/ \E i \in Resolved(h) :
       LET value == slots[i].value
           good  == value.is = "query" /\ QueryIsGood(Queries[value.name])
           lists == EvaluateLogicSpec(Queries[value.name])
       IN \/ ~good /\ Fails("query")
          \/ good /\ lists = {} /\ Destroy
          \/ /\ good /\ lastError' = ""
             /\ \E l \in lists : Store(AnswersTo(value.name, l))

Given == DOMAIN held \cup {NullHandle}

Init == slots = <<>> /\ freeSlots = <<>> /\ lastError = "" /\ held = <<>>

Next == \/ \E n \in DOMAIN Queries : ValueFromLtv(n)
        \/ \E h \in Given : ValueToLtv(h) \/ Retain(h) \/ Release(h) \/ LogicEval(h)
        \/ CopyLastError
        \/ Destroy

Spec == Init /\ [][Next]_runtimeVars

---------------------------------------------------------------------------
(* What a query means, without states and streams: the ground terms for    *)
(* its variables with which every atom of one of its clauses holds.        *)

RECURSIVE Ground(_, _), Member(_, _), Appended(_, _, _), Filled(_, _), Holes(_)

Ground(t, f) ==
  CASE t.is = "var"  -> f[t.id + 1]
    [] t.is = "atom" -> t
    [] OTHER         -> [t EXCEPT !.of = [i \in DOMAIN @ |-> Ground(@[i], f)]]

IsPair(t) == t.is = "list" /\ Len(t.of) = 2
Member(n, l) == IsPair(l) /\ (l.of[1] = n \/ Member(n, l.of[2]))
Appended(l, r, o) ==
  \/ l = NullTerm /\ r = o
  \/ IsPair(l) /\ IsPair(o) /\ l.of[1] = o.of[1] /\ Appended(l.of[2], r, o.of[2])

Holds(op, x) ==
  CASE op = "=="      -> x[1] = x[2]
    [] op = "conso"   -> x[3] = ListOf(<<x[1], x[2]>>)
    [] op = "heado"   -> IsPair(x[1]) /\ x[1].of[1] = x[2]
    [] op = "tailo"   -> IsPair(x[1]) /\ x[1].of[2] = x[2]
    [] op = "pairo"   -> IsPair(x[1])
    [] op = "membero" -> Member(x[1], x[2])
    [] op = "appendo" -> Appended(x[1], x[2], x[3])

Meant(q) ==
  LET Value(t, f) == Ground(LogicTerm(t, q.fresh), f)
      Satisfied(a, f) == Holds(a[1].name, [i \in 1..(Len(a) - 1) |-> Value(a[i + 1], f)])
  IN {[i \in DOMAIN q.results |-> Value(q.results[i], f)] :
        f \in {g \in [1..Len(q.fresh) -> Universe] :
                 \E c \in ToSet(Clauses(q)) : \A a \in ToSet(c) : Satisfied(a, g)}}

\* The ground terms an answer stands for; it has the lists backwards.
Holes(t) == CASE t.is = "hole" -> {t.n}
              [] t.is = "atom" -> {}
              [] OTHER         -> UNION {Holes(c) : c \in ToSet(t.of)}
Filled(t, b) ==
  CASE t.is = "hole" -> b[t.n]
    [] t.is = "atom" -> t
    [] OTHER         ->
         [t EXCEPT !.of = [i \in DOMAIN @ |-> Filled(t.of[Len(t.of) + 1 - i], b)]]
Instances(t) == {Filled(t, b) : b \in [Holes(t) -> Universe]} \cap Universe

\* A relation's own variables are numbered from the last of the results: a
\* query that does not ask for its last variable shares numbers with them.
NumbersAreApart(q) ==
  \/ \E i \in DOMAIN q.results :
       MaxLogicVarId(LogicTerm(q.results[i], q.fresh)) = Len(q.fresh) - 1
  \/ \A c \in ToSet(Clauses(q)) : \A a \in ToSet(c) : a[1].name \in {"==", "conso"}

\* Every answer is right, all of it where there is one result, and no answer
\* is missing from a list that is not cut short by the limit.
AnswersMean(q, list, meant) ==
  LET Covers(answer, m) == \A i \in DOMAIN m : m[i] \in Instances(answer[i])
  IN /\ \A answer \in ToSet(list) :
          IF Len(q.results) = 1 THEN \A t \in Instances(answer[1]) : <<t>> \in meant
          ELSE \/ \E m \in meant : Covers(answer, m)
               \/ \E i \in DOMAIN answer : Instances(answer[i]) = {}
     /\ \/ q.limit > 0 /\ Len(list) = q.limit
        \/ \A m \in meant : \E answer \in ToSet(list) : Covers(answer, m)

Meanings == [n \in DOMAIN Queries |-> Meant(Queries[n])]

---------------------------------------------------------------------------

(* A handle stands for the value it was given for as long as the program   *)
(* holds a reference, and for nothing ever after, though its slot is used  *)
(* again; a slot is free once if it is free (resolveSlot, storeValue,      *)
(* releaseValue).                                                          *)
HandlesResolve ==
  /\ \A h \in DOMAIN held :
       /\ Resolved(h) # {} <=> held[h].refs > 0
       /\ Resolved(h) # {} => /\ slots[h[1]].value = held[h].value
                              /\ slots[h[1]].refcount = held[h].refs
  /\ IsInjective(freeSlots)
  /\ ToSet(freeSlots) = {i \in DOMAIN slots : ~slots[i].occupied}

(* The answers of a query whose variables keep their numbers to themselves *)
(* are its solutions, none wrong and, but for the limit, none missing      *)
(* (evaluateLogicSpec, and all of kanren.cpp under it).                    *)
AnswersAreSolutions ==
  \A i \in DOMAIN slots :
    LET v == slots[i].value
    IN v.is = "answers" /\ NumbersAreApart(Queries[v.name])
         => AnswersMean(Queries[v.name], v.answers, Meanings[v.name])
=============================================================================
