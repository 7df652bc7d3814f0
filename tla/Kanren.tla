-------------------------------- MODULE Kanren --------------------------------
(***************************************************************************)
(* The logic engine: goals, substitutions and streams of answers           *)
(* (kanren/kanren.cpp), and the queries an Edict program writes as data    *)
(* (kanren/logic_evaluator.cpp).                                           *)
(*                                                                         *)
(* A goal or a stream is a C++ closure there and data here: a goal names   *)
(* its relation and its arguments, a stream what is left to pull from it.  *)
(* A recursion that does not end, which takes the process down with its    *)
(* stack, is the state Endless.                                            *)
(***************************************************************************)
EXTENDS Integers, SequencesExt, FiniteSets, TLC

CONSTANT Frames  \* bound: no unification or answer that ends is nested deeper

---------------------------------------------------------------------------
(* Terms.  `at' tells which object a variable's occurrence is, since two   *)
(* are the same only if their addresses are: <<>> one of the query, <<0>>  *)
(* one of call_fresh, else a place in a copy of the substitution.          *)

Atom(a) == [is |-> "atom", name |-> a]
ListOf(s) == [is |-> "list", names |-> <<>>, of |-> s]
Tree(names, s) == [is |-> "tree", names |-> names, of |-> s]
NullTerm == Tree(<<>>, <<>>)
LogicVar(i, at) == [is |-> "var", id |-> i, at |-> at]
Hole(n) == [is |-> "hole", n |-> n]      \* an answer's unbound variable, "_n"
Endlessly == [is |-> "endless"]

RECURSIVE MaxLogicVarId(_)
MaxLogicVarId(t) ==
  CASE t.is = "var"              -> t.id
    [] t.is \in {"list", "tree"} ->
         FoldLeft(LAMBDA m, c : LET n == MaxLogicVarId(c) IN IF n > m THEN n ELSE m,
                  -1, t.of)
    [] OTHER                     -> -1

---------------------------------------------------------------------------
(* States: a substitution, from variables' numbers to terms, and the       *)
(* number of the next variable.                                            *)

Endless == [sub |-> <<>>, count |-> -1]
Initial(count) == [sub |-> <<>>, count |-> count]

\* A variable bound, over others, to itself is walked for ever.
RECURSIVE WalkUpTo(_, _, _)
WalkUpTo(t, sub, steps) ==
  IF t.is # "var" \/ t.id \notin DOMAIN sub THEN t
  ELSE IF steps = 0 THEN Endlessly
  ELSE WalkUpTo(sub[t.id], sub, steps - 1)
Walk(t, sub) == WalkUpTo(t, sub, Cardinality(DOMAIN sub))

\* ListreeValue::copy: every occurrence of a variable becomes an object.
RECURSIVE Copied(_, _)
Copied(t, at) ==
  CASE t.is = "var"              -> [t EXCEPT !.at = at]
    [] t.is \in {"list", "tree"} ->
         [t EXCEPT !.of = [i \in DOMAIN t.of |-> Copied(t.of[i], Append(at, i))]]
    [] OTHER                     -> t

\* The new binding keeps the term itself, the older ones are copies.
Extend(s, var, t) ==
  LET size == Cardinality(DOMAIN s.sub)
  IN [s EXCEPT !.sub = (var.id :> t)
                       @@ [i \in DOMAIN @ |-> Copied(@[i], <<size, i>>)]]

\* The children of a list are visited from the newest, the last one.
Visited(t) == LET order == [i \in DOMAIN t.of |-> i]
              IN IF t.is = "list" THEN Reverse(order) ELSE order

RECURSIVE UnifyUpTo(_, _, _, _)
UnifyUpTo(u0, v0, s, frames) ==
  LET u == Walk(u0, s.sub)
      v == Walk(v0, s.sub)
      Child(found, i) ==
        UNION {IF t = Endless THEN {t} ELSE UnifyUpTo(u.of[i], v.of[i], t, frames - 1)
                 : t \in found}
  IN IF frames = 0 \/ Endlessly \in {u, v} THEN {Endless}
     ELSE IF u = v THEN {s}
     ELSE IF u.is = "var" THEN {Extend(s, u, v)}
     ELSE IF v.is = "var" THEN {Extend(s, v, u)}
     ELSE IF u.is # v.is \/ u.is = "atom" THEN {}
     ELSE IF Len(u.of) # Len(v.of) \/ u.names # v.names THEN {}
     ELSE FoldLeft(Child, {s}, Visited(u))

(* State::unify: the state that makes two terms equal, if there is one.    *)
Unify(u, v, s) == UnifyUpTo(u, v, s, Frames)

---------------------------------------------------------------------------
(* Goals.                                                                  *)

Goal(op, args) == [op |-> op, args |-> args]
Equal(u, v)    == Goal("==", <<u, v>>)
Conso(h, t, p) == Equal(ListOf(<<h, t>>), p)
Conj(l, r)     == Goal("conj", <<l, r>>)
Snooze(g)      == Goal("snooze", <<g>>)
Conde(gs)      == Goal("conde", gs)
CondeFair(gs)  == Goal("conde_fair", gs)
Succeed        == Goal("succeed", <<>>)

ConjAll(gs) == IF gs = <<>> THEN Succeed ELSE FoldLeft(Conj, gs[1], Tail(gs))

\* call_fresh, k times over: the variables, and the state that counts them.
Fresh(s, k) == [i \in 1..k |-> LogicVar(s.count + i - 1, <<0>>)]
After(s, k) == [s EXCEPT !.count = @ + k]

\* What the relations are made of, given their fresh variables.
Variables == [heado |-> 1, tailo |-> 1, pairo |-> 2, membero |-> 2]
Body(g, new) ==
  LET a == g.args
  IN CASE g.op = "heado"   -> Conso(a[2], new[1], a[1])
       [] g.op = "tailo"   -> Conso(new[1], a[2], a[1])
       [] g.op = "pairo"   -> Conso(new[1], new[2], a[1])
       [] g.op = "membero" ->
            Conj(Conso(new[1], new[2], a[2]),
                 CondeFair(<<Equal(a[1], new[1]),
                             Snooze(Goal("membero", <<a[1], new[2]>>))>>))
       [] g.op = "append"  ->      \* the second clause of appendo
            ConjAll(<<Conso(new[1], new[2], a[1]), Conso(new[1], new[3], a[3]),
                      Snooze(Goal("appendo", <<new[2], a[2], new[3]>>))>>)

Appendo(a) == CondeFair(<<ConjAll(<<Equal(a[1], NullTerm), Equal(a[2], a[3])>>),
                          Goal("append", a)>>)

---------------------------------------------------------------------------
(* Streams.  A stream that is not begun is the goal and the state it will  *)
(* begin from.                                                             *)

Ready(states) == [kind |-> "ready", states |-> states]
Later(g, s)   == [kind |-> "later", goal |-> g, from |-> s]
Choice(g, s)  == [kind |-> g.op, index |-> 0,
                  streams |-> [i \in DOMAIN g.args |-> Later(g.args[i], s)]]

RECURSIVE Start(_, _)
Start(g, s) ==
  CASE g.op = "succeed"                 -> Ready(<<s>>)
    [] g.op = "=="                      ->
         Ready(SetToSeq(Unify(g.args[1], g.args[2], s)))
    [] g.op = "conj"                    ->
         [kind |-> "conj", left |-> Start(g.args[1], s), goal |-> g.args[2],
          current |-> Ready(<<>>)]
    [] g.op = "snooze"                  -> Later(g.args[1], s)
    [] g.op \in {"conde", "conde_fair"} -> Choice(g, s)
    [] g.op = "conso"                   -> Start(Conso(g.args[1], g.args[2], g.args[3]), s)
    [] g.op = "appendo"                 -> Start(Appendo(g.args), s)
    [] g.op = "append"                  -> Start(Body(g, Fresh(s, 3)), After(s, 3))
    [] OTHER                            ->
         LET k == Variables[g.op] IN Start(Body(g, Fresh(s, k)), After(s, k))

Pulled(got, rest) == [got |-> got, rest |-> rest]

\* StateStream::next: the next state, if there is one, and what is left.  A
\* choice asks its streams in turn, the fair one going on after an answer.
RECURSIVE StreamNext(_), AskInTurn(_, _)
StreamNext(st) ==
  CASE st.kind = "ready" ->
         IF st.states = <<>> THEN Pulled({}, st)
         ELSE Pulled({Head(st.states)}, Ready(Tail(st.states)))
    [] st.kind = "later" -> StreamNext(Start(st.goal, st.from))
    [] st.kind = "conj"  ->
         LET now == StreamNext(st.current)
             l   == StreamNext(st.left)
         IN IF now.got # {} THEN Pulled(now.got, [st EXCEPT !.current = now.rest])
            ELSE IF l.got \in {{}, {Endless}}
                 THEN Pulled(l.got, [st EXCEPT !.current = Ready(<<>>), !.left = l.rest])
            ELSE StreamNext([st EXCEPT !.left = l.rest,
                                 !.current = Start(st.goal, CHOOSE s \in l.got : TRUE)])
    [] OTHER             ->
         AskInTurn(st, IF st.kind = "conde" THEN Len(st.streams) - st.index
                       ELSE Len(st.streams))
AskInTurn(st, left) ==
  LET i    == (st.index % Len(st.streams)) + 1
      next == StreamNext(st.streams[i])
      rest == [st EXCEPT !.streams[i] = next.rest,
                         !.index = IF st.kind = "conde" /\ next.got # {}
                                   THEN @ ELSE @ + 1]
  IN IF left = 0 THEN Pulled({}, st)
     ELSE IF next.got # {} THEN Pulled(next.got, rest)
     ELSE AskInTurn(rest, left - 1)

---------------------------------------------------------------------------
(* Answers.                                                                *)

\* reifyTerm adds a list's children as it visits them, so that the answer has
\* them the other way round.
RECURSIVE ReifyTerm(_, _, _, _)
ReifyTerm(t0, s, names, frames) ==
  LET t == Walk(t0, s.sub)
      Child(r, i) ==
        IF r.term = Endlessly THEN r
        ELSE LET c == ReifyTerm(t.of[i], s, r.names, frames - 1)
             IN [names |-> c.names,
                 term |-> IF c.term = Endlessly THEN Endlessly
                          ELSE [r.term EXCEPT !.of = Append(@, c.term)]]
  IN IF frames = 0 \/ t = Endlessly THEN [term |-> Endlessly, names |-> names]
     ELSE IF t.is = "var"
     THEN IF t.id \in DOMAIN names THEN [term |-> Hole(names[t.id]), names |-> names]
          ELSE LET n == Cardinality(DOMAIN names)
               IN [term |-> Hole(n), names |-> (t.id :> n) @@ names]
     ELSE IF t.is = "atom" THEN [term |-> t, names |-> names]
     ELSE FoldLeft(Child, [term |-> [t EXCEPT !.of = <<>>], names |-> names], Visited(t))
Reify(t, s) == ReifyTerm(t, s, <<>>, Frames).term

\* run: the answers up to the limit, 0 for none, or {} if there is no end to
\* one of them.
RECURSIVE Collect(_, _, _, _)
Collect(limit, queries, stream, out) ==
  LET next == StreamNext(stream)
      s    == CHOOSE s \in next.got : TRUE
      answer == [i \in DOMAIN queries |-> Reify(queries[i], s)]
  IN IF (limit > 0 /\ Len(out) >= limit) \/ next.got = {} THEN {out}
     ELSE IF s = Endless \/ Endlessly \in {answer[i] : i \in DOMAIN answer} THEN {}
     ELSE Collect(limit, queries, next.rest, Append(out, answer))

\* The mistake of a first fresh variable that has the number of the query's last.
RunFromLast(limit, queries, goal) ==
  LET most == MaxLogicVarId(ListOf(queries))
  IN Collect(limit, queries, Start(goal, Initial(most)), <<>>)

Run(limit, queries, goal) ==
  LET most == MaxLogicVarId(ListOf(queries))
  IN Collect(limit, queries, Start(goal, Initial(most + 1)), <<>>)

---------------------------------------------------------------------------
(* Queries: an object with the names of its fresh variables, its clauses   *)
(* (`conde' a list of them, `where' one), the terms of its results and a   *)
(* limit.  What is not there is an empty sequence.  A clause is a sequence *)
(* of atoms, an atom the sequence of its opcode and its operands.          *)

Operands == ("==" :> 2) @@ [membero |-> 2, appendo |-> 3, conso |-> 3,
                            heado |-> 2, tailo |-> 2, pairo |-> 1]

\* A name of the query's is its variable, a list is made of pairs.
RECURSIVE LogicTerm(_, _)
LogicTerm(t, fresh) ==
  CASE t.is = "atom" ->
         IF Contains(fresh, t.name)
         THEN LogicVar(SelectInSeq(fresh, LAMBDA n : n = t.name) - 1, <<>>)
         ELSE t
    [] t.is = "list" ->
         FoldRight(LAMBDA c, rest : ListOf(<<LogicTerm(c, fresh), rest>>), t.of, NullTerm)
    [] OTHER         -> [t EXCEPT !.of = [i \in DOMAIN @ |-> LogicTerm(@[i], fresh)]]

AtomIsGood(a) == /\ a # <<>> /\ a[1].is = "atom"
                 /\ a[1].name \in DOMAIN Operands
                 /\ Len(a) = Operands[a[1].name] + 1

AtomGoal(a, fresh) ==
  Goal(a[1].name, [i \in 1..(Len(a) - 1) |-> LogicTerm(a[i + 1], fresh)])

Clauses(q) == IF "conde" \in q.has THEN q.conde
              ELSE IF "where" \in q.has THEN <<q.where>> ELSE <<>>

QueryGoal(q) ==
  Conde([i \in DOMAIN Clauses(q) |->
           ConjAll([j \in DOMAIN Clauses(q)[i] |-> AtomGoal(Clauses(q)[i][j], q.fresh)])])

QueryIsGood(q) == /\ Clauses(q) # <<>> /\ q.results # <<>>
                  /\ \A c \in ToSet(Clauses(q)) : \A a \in ToSet(c) : AtomIsGood(a)

\* evaluateLogicSpec: the lists of answers a good query may have, no list if
\* the process dies on it.
EvaluateLogicSpec(q) ==
  Run(q.limit, [i \in DOMAIN q.results |-> LogicTerm(q.results[i], q.fresh)], QueryGoal(q))
=============================================================================
